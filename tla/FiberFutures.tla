---------------------------- MODULE FiberFutures ----------------------------
(***************************************************************************)
(* The futures that fibers poll, on top of the life cycle that             *)
(* FiberScheduler implements: every future that may block has a channel    *)
(* behind it, and in the channel's Notifier is the Unpark of the fiber     *)
(* that polled it last (src/src/sync/mod.rs, src/src/fiber/mod.rs).        *)
(*                                                                         *)
(* Channels answer atomically here; that their threads may interleave      *)
(* inside of poll and send is OneshotChannel's and MpscChannel's subject.  *)
(* Which futures a fiber has, and how it was spawned, is its program.      *)
(***************************************************************************)
EXTENDS FiberLifecycle, FiniteSets, Sequences

CONSTANTS
  Futures,   \* pairs of an object and what is done with it
  Programs,  \* what the fibers do: records with the fields
             \*   user      the fiber that has each future at first, or NoTask
             \*   style     how each fiber is spawned: "plain", "monitor", "link",
             \*             or "unused"
             \*   joins     the fibers that wait for several futures at a time
             \*   kind      of each socket: "client", "listener", "udp", "accepted"
             \*   executor  "pool" or "in_place"
             \*   fails     the poller may go down
             \* and two bounds of the environment
             \*   moves     how often a future is moved between fibers
             \*   arrivals  how often an end of a socket becomes available
  NoTask, NoFuture

ASSUME FuturesAssumption ==
  /\ IsFiniteSet(Futures)
  /\ NoTask \notin Tasks
  /\ NoFuture \notin Futures
  /\ \A p \in Programs :
       /\ p.user \in [Futures -> Tasks \cup {NoTask}]
       /\ p.moves \in Nat /\ p.arrivals \in Nat

VARIABLES
  program,  \* one of Programs
  waiter,   \* of each channel: the fiber whose Unpark is in its Notifier
  user,     \* of each future: the fiber that has it
  blocked,  \* the futures that were not ready when they were last polled
  due,      \* those of the running fiber that it has still to poll again
  at,       \* the future whose poll the running fiber is in
  moves     \* how often a future was moved

pollVars    == <<blocked, due, at>>
futuresVars == <<program, waiter, user, pollVars, moves>>

----------------------------------------------------------------------------
(* Notifiers.  A channel is named by the future that it is behind.          *)

\* An Unpark object is dropped; None has nobody to wake.
DropUnparkOf(w) == IF w = NoTask THEN UNCHANGED lifecycleVars ELSE Unpark(w)

\* Mutant of Await: an Unpark in the cell is kept, whose ever it is.
AwaitOnce(c, t) ==
  /\ waiter' = [waiter EXCEPT ![c] = IF @ = NoTask THEN t ELSE @]
  /\ UNCHANGED lifecycleVars

\* await_notification in fiber t: another fiber's Unpark is replaced.
Await(c, t) ==
  IF waiter[c] = t
    THEN UNCHANGED <<lifecycleVars, waiter>>
    ELSE /\ waiter' = [waiter EXCEPT ![c] = t]
         /\ DropUnparkOf(waiter[c])

Notify(c) ==
  /\ waiter' = [waiter EXCEPT ![c] = NoTask]
  /\ DropUnparkOf(waiter[c])

\* FiberState::is_runnable: a fiber's parks are its unparks (the credit) and
\* its Unpark objects alive (ParkBalance of FiberScheduler).
IsRunnable(t) == credit[t] > 0 \/ \A c \in Futures : waiter[c] # t

----------------------------------------------------------------------------
(* The poll of a fiber, and the polls of futures in it                      *)

Link(t) == <<t, "link">>
Linked(t) == program.style[t] = "link"

\* SelectEither polls the link last, and then the fiber's poll ends.
LinkPolled(t) == Linked(t) /\ Link(t) \in blocked \ due

BetweenCalls(t) == status[t] = "running" /\ at = NoFuture

\* A fiber that does one thing after the other has no second future to poll.
Busy(f, t) ==
  /\ t \notin program.joins
  /\ f # Link(t)
  /\ \E g \in blocked \ {f, Link(t)} : user[g] = t

\* The fiber is in the poll of f, or calls it: a future that was not ready is
\* polled once in each poll of the fiber, another one when the fiber likes.
Polls(f, t) ==
  /\ status[t] = "running" /\ user[f] = t
  /\ \/ at = f
     \/ /\ at = NoFuture /\ ~ LinkPolled(t) /\ ~ Busy(f, t)
        /\ f \in blocked => f \in due

\* The poll of f goes on, returns NotReady, or returns something else.
StayIn(f) == at' = f /\ UNCHANGED <<blocked, due>>

ReturnNotReady(f) ==
  /\ at' = NoFuture
  /\ blocked' = blocked \cup {f}
  /\ due' = due \ {f}

ReturnReady(f) ==
  /\ at' = NoFuture
  /\ blocked' = blocked \ {f}
  /\ due' = due \ {f}

StartPoll(t) ==
  /\ Run(t)
  /\ due' = {f \in blocked : user[f] = t}
  /\ UNCHANGED <<program, waiter, user, blocked, at, moves>>

\* The poll of the fiber returns NotReady because something was not ready.
FiberNotReady(t) ==
  /\ BetweenCalls(t) /\ due = {}
  /\ \E f \in blocked : user[f] = t
  /\ Linked(t) => LinkPolled(t)
  /\ IF IsRunnable(t) THEN GoOn(t) ELSE Suspend(t)
  /\ UNCHANGED futuresVars

\* Mutant of TakeFuture: in the middle of another call.
TakeFutureAnytime(f, t) ==
  /\ status[t] = "running"
  /\ user[f] \in Tasks \ {t} /\ status[user[f]] # "new"
  /\ moves < program.moves
  /\ moves' = moves + 1
  /\ user' = [user EXCEPT ![f] = t]
  /\ blocked' = blocked \ {f}
  /\ due' = due \cup {f}
  /\ UNCHANGED <<lifecycleVars, program, waiter, at>>

\* A future is moved to the running fiber, which has not polled it yet.
TakeFuture(f, t) ==
  /\ BetweenCalls(t) /\ ~ LinkPolled(t)
  /\ user[f] \in Tasks \ {t} /\ status[user[f]] # "new"
  /\ moves < program.moves
  /\ moves' = moves + 1
  /\ user' = [user EXCEPT ![f] = t]
  /\ blocked' = blocked \ {f}
  /\ UNCHANGED <<lifecycleVars, program, waiter, due, at>>

\* The poll returns Ready, and the fiber is removed and dropped with its futures:
\* receivers notify when they are dropped, and may have another fiber's Unpark.
\* The channels are those that are dropped or sent on; the counter of a fiber
\* that is no more means nothing.
EndFiber(t, channels) ==
  LET unparks(u) == {c \in channels : waiter[c] = u} IN
  /\ BetweenCalls(t)
  /\ status' = [u \in Tasks |->
       IF u = t THEN "done"
       ELSE IF status[u] = "waiting" /\ unparks(u) # {} THEN "ready"
       ELSE status[u]]
  /\ credit' = [u \in Tasks |-> IF u = t THEN 0 ELSE credit[u] + Cardinality(unparks(u))]
  /\ waiter' = [c \in Futures |-> IF c \in channels \/ waiter[c] = t THEN NoTask ELSE waiter[c]]
  /\ user' = [f \in Futures |-> IF user[f] = t THEN NoTask ELSE user[f]]
  /\ blocked' = {f \in blocked : user[f] # t}
  /\ due' = {}
  /\ UNCHANGED <<program, at, moves>>

\* A panic takes the scheduler down, and with it all fibers.
LoseFibers ==
  /\ NobodyRuns
  /\ status' = [t \in Tasks |-> "lost"]
  /\ credit' = [t \in Tasks |-> 0]
  /\ waiter' = [f \in Futures |-> NoTask]
  /\ user' = [f \in Futures |-> NoTask]
  /\ blocked' = {}
  /\ UNCHANGED <<program, due, at, moves>>

FuturesInit ==
  /\ Init
  /\ program \in Programs
  /\ waiter = [f \in Futures |-> NoTask]
  /\ user = program.user
  /\ blocked = {} /\ due = {}
  /\ at = NoFuture
  /\ moves = 0

FuturesTypeOK ==
  /\ status \in [Tasks -> Status]
  /\ credit \in [Tasks -> Nat]
  /\ program \in Programs
  /\ waiter \in [Futures -> Tasks \cup {NoTask}]
  /\ user \in [Futures -> Tasks \cup {NoTask}]
  /\ blocked \in SUBSET Futures
  /\ due \in SUBSET blocked
  /\ at \in Futures \cup {NoFuture}
  /\ moves \in 0 .. program.moves
=============================================================================
