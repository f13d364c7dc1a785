----------------------------- MODULE AsyncIoProofs -----------------------------
(***************************************************************************)
(* Proofs about AsyncIo: its types, the conversation of Stdin and its      *)
(* thread, and that a fiber sleeps exactly while all that it waits for is  *)
(* unavailable, for every set of fibers, of sockets and of programs.       *)
(*                                                                         *)
(* Steps are classified first by what they do to fibers, to futures and to *)
(* Notifiers: a fiber's poll is in one of its futures, begins or ends, a   *)
(* future is moved, all is lost, or another thread notifies (Class).  What *)
(* depends on no more than that is shown once for each class.              *)
(***************************************************************************)
EXTENDS AsyncIo, DataLemmas, FiniteSetTheorems, TLAPS

----------------------------------------------------------------------------
(* The invariant                                                            *)

AsyncTypes ==
  /\ FuturesTypeOK /\ SocketsTypeOK /\ StdinTypeOK /\ LinkTypeOK
  /\ turn \in {"both", "fibers", "poller"}

\* One fiber runs at a time, the one whose future is polled; what is blocked is a
\* fiber's that has been polled, and what is due is the running fiber's.
PollInv ==
  /\ \A t, u \in Tasks : status[t] = "running" /\ status[u] = "running" => t = u
  /\ \/ at = NoFuture
     \/ /\ at \in SocketFutures \cup {Input}
        /\ user[at] \in Tasks /\ status[user[at]] = "running"
        /\ at \in blocked => at \in due
  /\ \A f \in blocked :
       /\ user[f] \in Tasks /\ status[user[f]] \in {"ready", "running", "waiting"}
       /\ f \in due => status[user[f]] = "running"
  /\ due \subseteq blocked

\* Who has which future of a socket, in which stage of it.
OwnersAt(s) ==
  /\ user[Opening(s)] # NoTask => stage[s] \in {"new", "registering", "connecting", "starting"}
  /\ user[Reading(s)] # NoTask \/ user[Writing(s)] # NoTask => stage[s] = "open"
  /\ stage[s] = "starting" => at = Opening(s)

OwnersInv == \A s \in Sockets : OwnersAt(s)

\* Stdin and its thread, in the phases of their conversation.
StdinInv ==
  LET ending == {"closing", "notified", "gone"}
      says(q, r) == requests = q /\ responses = r
  IN
  /\ input <= typed
  /\ spinning => at = Input
  /\ \/ /\ ~ lockRequested /\ ~ spinning /\ says(<<>>, <<>>)
        /\ reader = "lock" \/ (StdinDropped /\ reader \in ending)
     \/ /\ lockRequested /\ ~ spinning
        /\ \/ says(<<"lock">>, <<>>) /\ reader = "lock"
           \/ says(<<>>, <<>>) /\ reader \in {"locking", "check"} \cup ending
           \/ /\ says(<<>>, <<"ack">>)
              /\ reader = "read" \/ (StdinDropped /\ reader \in ending)
     \/ /\ ~ lockRequested /\ spinning
        /\ \/ says(<<"size">>, <<>>) /\ reader = "read"
           \/ (says(<<>>, <<"data">>) \/ says(<<>>, <<"error">>)) /\ reader = "lock"

\* A channel with an Unpark in its Notifier has not been sent on.
Unanswered(c) ==
  /\ c \in SocketFutures => slot[c] \in {"waiting", "closing", "closed"}
  /\ c = Input => responses = <<>>
  /\ \A t \in Tasks : /\ c = Link(t) => toFiber[t] # "value"
                      /\ c = Exit(t) => fromFiber[t] # "value"

NotifierInv == \A c \in Futures : waiter[c] # NoTask => Unanswered(c)

\* A waiting fiber has no credit, and an Unpark of it is alive.
WaitingInv ==
  \A t \in Tasks :
    status[t] = "waiting" => credit[t] = 0 /\ \E c \in Futures : waiter[c] = t

\* The monitor of a connection that has no peer yet is not there, or is waited for
\* by the fiber that connects, or lost: it has not been answered.
ConnectAt(s) ==
  LET m == Writing(s) IN
  /\ stage[s] \in {"none", "new", "registering"} => slot[m] = "none"
  /\ peer[s] = "pending" /\ stage[s] \notin {"open", "gone"} => m \notin ready
  /\ stage[s] = "starting" => slot[m] \notin {"none", "spent"}
  /\ stage[s] \in {"connecting", "starting"} /\ slot[m] \in {"ready", "spent"}
       => peer[s] # "pending"
  /\ ~ ConnectMoves /\ stage[s] = "connecting" /\ slot[m] = "waiting"
       => waiter[m] = user[Opening(s)]

ConnectInv == \A s \in Sockets : ConnectAt(s)

\* Channels are closed by the poller when it goes down.
PollerInv == \A c \in SocketFutures : slot[c] \in {"closing", "closed"} => poller = "gone"

\* A connection whose monitor the poller has dropped.
MonitorLost(f) ==
  /\ poller = "gone"
  /\ \E s \in Sockets : f = Opening(s) /\ stage[s] = "connecting"
  /\ slot[Behind(f)] \in {"none", "closing", "closed"}

\* What was polled in vain has a fiber that goes on, or is in its Notifier, or lost.
ParkedInv ==
  ~ ConnectMoves =>
    \A f \in (blocked \ due) \ {Input} :
      credit[user[f]] > 0 \/ waiter[Behind(f)] = user[f] \/ MonitorLost(f)

\* Who goes on without a credit, once parked, has lost what parked it.
ReadyInv ==
  ~ ConnectMoves =>
    \A f \in blocked \ {Input} :
      status[user[f]] = "ready" /\ credit[user[f]] = 0 => MonitorLost(f)

\* The program in which a fiber reads standard input gives it nothing else to do.
ReadersHaveNothingElse ==
  \A p \in Programs :
    p.user[Input] = NoTask \/ \A f \in Futures \ {Input} : p.user[f] # p.user[Input]

\* And so it stays: no other future is its, and no other Notifier knows it.
ReaderInv ==
  ReadersHaveNothingElse =>
    \A f \in Futures \ {Input} :
      user[Input] # NoTask => user[f] # user[Input] /\ waiter[f] # user[Input]

----------------------------------------------------------------------------
(* Names                                                                    *)

\* The futures have different names, and those of sockets are their socket's.
LEMMA SocketNames ==
  /\ SocketFutures \subseteq Futures /\ SocketEnds \subseteq SocketFutures
  /\ \A s \in Sockets :
       /\ {Opening(s), Reading(s), Writing(s)} \subseteq SocketFutures
       /\ Opening(s) \notin SocketEnds /\ {Reading(s), Writing(s)} \subseteq SocketEnds
       /\ Opening(s)[1] = s /\ Reading(s)[1] = s /\ Writing(s)[1] = s
  /\ \A r, s \in Sockets :
       /\ r # s => /\ Opening(r) # Opening(s) /\ Reading(r) # Reading(s)
                   /\ Writing(r) # Writing(s)
       /\ Opening(r) # Reading(s) /\ Opening(r) # Writing(s) /\ Reading(r) # Writing(s)
  /\ \A f \in SocketFutures : \E s \in Sockets : f \in {Opening(s), Reading(s), Writing(s)}
  /\ \A e \in SocketEnds : \E s \in Sockets : e \in {Reading(s), Writing(s)}
<1>1. \A r, s : /\ Opening(r) # Reading(s) /\ Opening(r) # Writing(s)
                /\ Reading(r) # Writing(s)
  BY DEF Opening, Reading, Writing
<1>2. \A r, s : r # s => /\ Opening(r) # Opening(s) /\ Reading(r) # Reading(s)
                         /\ Writing(r) # Writing(s)
  BY DEF Opening, Reading, Writing
<1>3. \A s : Opening(s)[1] = s /\ Reading(s)[1] = s /\ Writing(s)[1] = s
  BY DEF Opening, Reading, Writing
<1> QED
  BY <1>1, <1>2, <1>3, SocketsAssumption DEF SocketFutures, SocketEnds

\* The other futures are none of a socket, and each is one of a kind.
LEMMA OtherNames ==
  /\ Input \in Futures \ SocketFutures
  /\ \A t \in Tasks :
       /\ {Link(t), Exit(t)} \subseteq Futures \ SocketFutures
       /\ Link(t) # Input /\ Exit(t) # Input
  /\ \A t, u \in Tasks :
       Link(t) # Exit(u) /\ (t # u => Link(t) # Link(u) /\ Exit(t) # Exit(u))
  /\ \A f \in Futures :
       f \in SocketFutures \/ f = Input \/ \E t \in Tasks : f = Link(t) \/ f = Exit(t)
<1>1. \A t, s : /\ Link(t) # Opening(s) /\ Link(t) # Reading(s) /\ Link(t) # Writing(s)
                /\ Exit(t) # Opening(s) /\ Exit(t) # Reading(s) /\ Exit(t) # Writing(s)
  BY DEF Link, Exit, Opening, Reading, Writing
<1>2. \A t, u : Link(t) # Exit(u) /\ (t # u => Link(t) # Link(u) /\ Exit(t) # Exit(u))
  BY DEF Link, Exit
<1>3. \A t \in Tasks : Link(t) \notin SocketFutures /\ Exit(t) \notin SocketFutures
  BY <1>1 DEF SocketFutures, SocketEnds
<1>4. /\ Input \in Futures /\ Input \notin SocketFutures
      /\ \A t \in Tasks : /\ Link(t) \in Futures /\ Exit(t) \in Futures
                          /\ Link(t) # Input /\ Exit(t) # Input
      /\ \A f \in Futures :
           f \in SocketFutures \/ f = Input \/ \E t \in Tasks : f = Link(t) \/ f = Exit(t)
  BY AsyncAssumption
<1> QED
  BY <1>2, <1>3, <1>4

\* The channel behind a future is its own, or a connection's monitor.
LEMMA BehindFutures ==
  /\ \A s \in Sockets :
       Behind(Opening(s)) = IF stage[s] = "connecting" THEN Writing(s) ELSE Opening(s)
  /\ \A f : (\A s \in Sockets : f # Opening(s)) => Behind(f) = f
  /\ \A f \in Futures : Behind(f) \in Futures
<1>1. \A s \in Sockets :
        Behind(Opening(s)) = IF stage[s] = "connecting" THEN Writing(s) ELSE Opening(s)
  BY SocketNames DEF Behind
<1>2. \A f : (\A s \in Sockets : f # Opening(s)) => Behind(f) = f
  BY DEF Behind
<1> QED
  BY <1>1, <1>2, SocketNames

\* The same in the next state.
LEMMA BehindFuturesNext ==
  /\ \A s \in Sockets :
       Behind(Opening(s))' = IF stage'[s] = "connecting" THEN Writing(s) ELSE Opening(s)
  /\ \A f : (\A s \in Sockets : f # Opening(s)) => Behind(f)' = f
<1>1. \A s \in Sockets :
        Behind(Opening(s))' = IF stage'[s] = "connecting" THEN Writing(s) ELSE Opening(s)
  BY SocketNames DEF Behind
<1>2. \A f : (\A s \in Sockets : f # Opening(s)) => Behind(f)' = f
  BY DEF Behind
<1> QED
  BY <1>1, <1>2

----------------------------------------------------------------------------
(* Notifiers                                                                *)

\* What a step may do to fibers by their Notifiers, one of which t may be put in:
\* who loses an Unpark object has a credit, and who still waits has lost none.
Wakes(t) ==
  /\ status' \in [Tasks -> Status] /\ credit' \in [Tasks -> Nat]
  /\ waiter' \in [Futures -> Tasks \cup {NoTask}]
  /\ \A c \in Futures : waiter'[c] \in {waiter[c], NoTask, t}
  /\ \A u \in Tasks :
       /\ credit'[u] >= credit[u]
       /\ \/ status'[u] = status[u]
          \/ status[u] = "waiting" /\ status'[u] = "ready" /\ credit'[u] > 0
       /\ \A c \in Futures : waiter[c] = u /\ waiter'[c] # u => credit'[u] > 0
       /\ status'[u] = "waiting" =>
            credit'[u] = credit[u] /\ \A c \in Futures : waiter[c] = u => waiter'[c] = u

LifeTypes ==
  /\ status \in [Tasks -> Status] /\ credit \in [Tasks -> Nat]
  /\ waiter \in [Futures -> Tasks \cup {NoTask}]

\* A step that leaves the Notifiers alone.
LEMMA NothingWakes ==
  ASSUME LifeTypes, NEW t, UNCHANGED <<lifecycleVars, waiter>>
  PROVE  Wakes(t)
BY DEF LifeTypes, Wakes, lifecycleVars

\* Who was in the cell of c that is replaced by w is unparked.
LEMMA ReplacedWakes ==
  ASSUME LifeTypes, NEW c \in Futures, NEW w \in Tasks \cup {NoTask}, waiter[c] # w,
         waiter' = [waiter EXCEPT ![c] = w], DropUnparkOf(waiter[c])
  PROVE  Wakes(w)
<1>1. /\ waiter' \in [Futures -> Tasks \cup {NoTask}] /\ waiter'[c] = w
      /\ \A d \in Futures \ {c} : waiter'[d] = waiter[d]
  BY DEF LifeTypes
<1>2. CASE waiter[c] = NoTask
  <2>1. UNCHANGED <<status, credit>>
    BY <1>2 DEF DropUnparkOf, lifecycleVars
  <2>2. \A u \in Tasks : \A d \in Futures : waiter[d] = u => waiter'[d] = u
    BY <1>1, <1>2, FuturesAssumption
  <2> QED
    BY <1>1, <2>1, <2>2 DEF LifeTypes, Wakes
<1>3. CASE waiter[c] # NoTask
  <2> DEFINE v == waiter[c]
  <2>1. v \in Tasks
    BY <1>3 DEF LifeTypes
  <2>2. /\ credit' = [credit EXCEPT ![v] = @ + 1]
        /\ status' = IF status[v] = "waiting" THEN [status EXCEPT ![v] = "ready"] ELSE status
    BY <1>3 DEF DropUnparkOf, Unpark
  <2> HIDE DEF v
  <2>3. credit' \in [Tasks -> Nat] /\ credit'[v] = credit[v] + 1 /\ credit'[v] > 0
    BY <2>1, <2>2 DEF LifeTypes
  <2>4. \A u \in Tasks \ {v} : credit'[u] = credit[u] /\ status'[u] = status[u]
    BY <2>1, <2>2 DEF LifeTypes
  <2>5. status' \in [Tasks -> Status] /\ status'[v] # "waiting"
        /\ (status'[v] = status[v] \/ (status[v] = "waiting" /\ status'[v] = "ready"))
    BY <2>1, <2>2 DEF LifeTypes, Status
  <2>6. \A u \in Tasks \ {v} : \A d \in Futures : waiter[d] = u => waiter'[d] = u
    BY <1>1 DEF v
  <2>7. \A u \in Tasks : credit'[u] >= credit[u]
    BY <2>1, <2>3, <2>4 DEF LifeTypes
  <2> QED
    BY <1>1, <2>1, <2>3, <2>4, <2>5, <2>6, <2>7 DEF Wakes
<1> QED
  BY <1>2, <1>3

\* Notify empties a cell.
LEMMA NotifyWakes ==
  ASSUME LifeTypes, NEW c \in Futures, NEW t, Notify(c)
  PROVE  /\ Wakes(t) /\ waiter' \in [Futures -> Tasks \cup {NoTask}] /\ waiter'[c] = NoTask
         /\ \A d \in Futures \ {c} : waiter'[d] = waiter[d]
<1>1. waiter' = [waiter EXCEPT ![c] = NoTask] /\ DropUnparkOf(waiter[c])
  BY DEF Notify
<1>2. /\ waiter' \in [Futures -> Tasks \cup {NoTask}] /\ waiter'[c] = NoTask
      /\ \A d \in Futures \ {c} : waiter'[d] = waiter[d]
  BY <1>1 DEF LifeTypes
<1>3. Wakes(NoTask)
  <2>1. CASE waiter[c] = NoTask
    <3>1. UNCHANGED <<lifecycleVars, waiter>>
      BY <1>1, <2>1 DEF DropUnparkOf, LifeTypes
    <3> QED
      BY <3>1, NothingWakes
  <2>2. CASE waiter[c] # NoTask
    BY <1>1, <2>2, ReplacedWakes
  <2> QED
    BY <2>1, <2>2
<1>4. Wakes(t)
  BY <1>3 DEF Wakes
<1> QED
  BY <1>2, <1>4

\* Awaiting a notification fills a cell.
LEMMA AwaitWakes ==
  ASSUME LifeTypes, NEW c \in Futures, NEW t \in Tasks, Await(c, t)
  PROVE  /\ Wakes(t) /\ waiter' \in [Futures -> Tasks \cup {NoTask}] /\ waiter'[c] = t
         /\ \A d \in Futures \ {c} : waiter'[d] = waiter[d]
<1>1. CASE waiter[c] = t
  <2>1. UNCHANGED <<lifecycleVars, waiter>>
    BY <1>1 DEF Await
  <2> QED
    BY <1>1, <2>1, NothingWakes DEF LifeTypes
<1>2. CASE waiter[c] # t
  <2>1. waiter' = [waiter EXCEPT ![c] = t] /\ DropUnparkOf(waiter[c])
    BY <1>2 DEF Await
  <2> QED
    BY <1>2, <2>1, ReplacedWakes DEF LifeTypes
<1> QED
  BY <1>1, <1>2

----------------------------------------------------------------------------
(* Classes of steps                                                         *)

\* Another thread, which may notify.
OtherThread == Wakes(NoTask) /\ UNCHANGED <<program, user, pollVars, moves>>

\* The running fiber t is in the poll of f, which may put t in a Notifier, and
\* which gives t or nobody a future that is neither polled nor blocked.
Polled(f, t) ==
  /\ Polls(f, t) /\ Wakes(t) /\ UNCHANGED <<program, moves>>
  /\ \/ StayIn(f) /\ f \in SocketFutures \cup {Input}
     \/ ReturnNotReady(f)
     \/ ReturnReady(f)
  /\ user' \in [Futures -> Tasks \cup {NoTask}]
  /\ \A g \in Futures : user'[g] # user[g] =>
       g \notin blocked' \cup {at', Input} /\ user'[g] \in {t, NoTask}
  /\ f = Input => user' = user /\ \A c \in Futures \ {Input} : waiter'[c] = waiter[c]

Class ==
  \/ OtherThread
  \/ \E t \in Tasks : Spawn(t) /\ UNCHANGED futuresVars
  \/ \E t \in Tasks : StartPoll(t)
  \/ LoseFibers
  \/ \E t \in Tasks : FiberNotReady(t)
  \/ \E t \in Tasks : \E channels \in SUBSET Futures : EndFiber(t, channels)
  \/ \E t \in Tasks : \E f \in SocketFutures : TakeFuture(f, t) /\ user[Input] # t
  \/ \E t \in Tasks : \E f \in Futures : Polled(f, t)

\* The types that the classes are about, one by one.
LEMMA TypesOfFutures ==
  ASSUME FuturesTypeOK
  PROVE  LifeTypes
BY DEF FuturesTypeOK, LifeTypes

\* Whom a step wakes had been waiting, and nobody else changes.
LEMMA WakesStatus ==
  ASSUME NEW t, Wakes(t), NEW u \in Tasks
  PROVE  /\ status'[u] = "running" <=> status[u] = "running"
         /\ status[u] \in {"ready", "running", "waiting"} =>
              status'[u] \in {"ready", "running", "waiting"}
         /\ status'[u] \in {"new", "done", "lost"} => status'[u] = status[u]
BY DEF Wakes

\* Another thread's step.
LEMMA OtherThreadPoll ==
  ASSUME FuturesTypeOK, PollInv, OtherThread
  PROVE  FuturesTypeOK' /\ PollInv'
<1>1. Wakes(NoTask) /\ UNCHANGED <<program, user, blocked, due, at, moves>>
  BY DEF OtherThread, pollVars
<1>2. FuturesTypeOK'
  BY <1>1 DEF FuturesTypeOK, Wakes
<1>3. PollInv'
  BY <1>1, WakesStatus DEF PollInv
<1> QED
  BY <1>2, <1>3

\* A fiber is spawned.
LEMMA SpawnPoll ==
  ASSUME FuturesTypeOK, PollInv, NEW t \in Tasks, Spawn(t), UNCHANGED futuresVars
  PROVE  FuturesTypeOK' /\ PollInv'
<1>1. UNCHANGED <<credit, program, waiter, user, blocked, due, at, moves>>
  BY DEF Spawn, futuresVars, pollVars
<1>2. /\ status[t] = "new" /\ status' \in [Tasks -> Status] /\ status'[t] = "ready"
      /\ \A u \in Tasks \ {t} : status'[u] = status[u]
  BY DEF Spawn, Move, FuturesTypeOK, Status
<1>3. FuturesTypeOK'
  BY <1>1, <1>2 DEF FuturesTypeOK
<1>4. PollInv'
  BY <1>1, <1>2 DEF PollInv
<1> QED
  BY <1>3, <1>4

\* What is due when a fiber's poll begins.
LEMMA StartPollEffect ==
  ASSUME FuturesTypeOK, NEW t \in Tasks, StartPoll(t)
  PROVE  /\ UNCHANGED <<program, waiter, user, blocked, at, moves>>
         /\ due' = {f \in blocked : user[f] = t}
         /\ NobodyRuns /\ status[t] = "ready" /\ status' \in [Tasks -> Status]
         /\ status'[t] = "running" /\ \A u \in Tasks \ {t} : status'[u] = status[u]
         /\ credit' \in [Tasks -> Nat] /\ \A u \in Tasks \ {t} : credit'[u] = credit[u]
<1>1. /\ NobodyRuns /\ status[t] = "ready" /\ status' = [status EXCEPT ![t] = "running"]
      /\ credit' = credit \/ (credit[t] > 0 /\ credit' = [credit EXCEPT ![t] = @ - 1])
  BY DEF StartPoll, Run, Move
<1>2. status' \in [Tasks -> Status]
  BY <1>1 DEF FuturesTypeOK, Status
<1>3. credit' \in [Tasks -> Nat] /\ \A u \in Tasks \ {t} : credit'[u] = credit[u]
  BY <1>1 DEF FuturesTypeOK
<1> QED
  BY <1>1, <1>2, <1>3 DEF StartPoll, FuturesTypeOK

\* A fiber's poll begins.
LEMMA StartPollPoll ==
  ASSUME FuturesTypeOK, PollInv, NEW t \in Tasks, StartPoll(t)
  PROVE  FuturesTypeOK' /\ PollInv'
<1>1. /\ UNCHANGED <<program, waiter, user, blocked, at, moves>>
      /\ due' = {f \in blocked : user[f] = t}
      /\ NobodyRuns /\ status[t] = "ready" /\ status' \in [Tasks -> Status]
      /\ status'[t] = "running" /\ \A u \in Tasks \ {t} : status'[u] = status[u]
      /\ credit' \in [Tasks -> Nat]
  BY StartPollEffect
<1>2. FuturesTypeOK'
  BY <1>1 DEF FuturesTypeOK
<1>3. at = NoFuture
  BY <1>1 DEF PollInv, NobodyRuns
<1>4. PollInv'
  BY <1>1, <1>3 DEF PollInv, NobodyRuns
<1> QED
  BY <1>2, <1>4

\* All fibers are lost.
LEMMA LosePoll ==
  ASSUME FuturesTypeOK, PollInv, LoseFibers
  PROVE  FuturesTypeOK' /\ PollInv'
<1>1. at = NoFuture /\ due = {}
  BY DEF PollInv, NobodyRuns, LoseFibers
<1>2. FuturesTypeOK'
  BY <1>1 DEF FuturesTypeOK, LoseFibers, Status
<1>3. PollInv'
  BY <1>1 DEF PollInv, LoseFibers
<1> QED
  BY <1>2, <1>3

\* What the end of a poll does to the fiber's status.
LEMMA NotReadyEffect ==
  ASSUME FuturesTypeOK, NEW t \in Tasks, FiberNotReady(t)
  PROVE  /\ UNCHANGED <<credit, program, waiter, user, blocked, due, at, moves>>
         /\ at = NoFuture /\ due = {} /\ status[t] = "running"
         /\ status' \in [Tasks -> Status]
         /\ \A u \in Tasks \ {t} : status'[u] = status[u]
         /\ \/ status'[t] = "ready" /\ (credit[t] > 0 \/ \A c \in Futures : waiter[c] # t)
            \/ status'[t] = "waiting" /\ credit[t] = 0 /\ \E c \in Futures : waiter[c] = t
<1>1. /\ UNCHANGED <<program, waiter, user, blocked, due, at, moves>>
      /\ at = NoFuture /\ due = {} /\ status[t] = "running"
  BY DEF FiberNotReady, BetweenCalls, futuresVars, pollVars
<1>2. CASE IsRunnable(t)
  <2>1. UNCHANGED credit /\ status' = [status EXCEPT ![t] = "ready"]
    BY <1>2 DEF FiberNotReady, GoOn, Move
  <2> QED
    BY <1>1, <1>2, <2>1 DEF FuturesTypeOK, Status, IsRunnable
<1>3. CASE ~ IsRunnable(t)
  <2>1. UNCHANGED credit /\ credit[t] = 0 /\ status' = [status EXCEPT ![t] = "waiting"]
    BY <1>3 DEF FiberNotReady, Suspend, Move
  <2> QED
    BY <1>1, <1>3, <2>1 DEF FuturesTypeOK, Status, IsRunnable
<1> QED
  BY <1>2, <1>3

\* A fiber's poll ends, and the fiber goes on or is suspended.
LEMMA NotReadyPoll ==
  ASSUME FuturesTypeOK, PollInv, NEW t \in Tasks, FiberNotReady(t)
  PROVE  FuturesTypeOK' /\ PollInv'
<1>1. /\ UNCHANGED <<credit, program, waiter, user, blocked, due, at, moves>>
      /\ at = NoFuture /\ due = {} /\ status' \in [Tasks -> Status]
      /\ status'[t] \in {"ready", "waiting"}
      /\ \A u \in Tasks \ {t} : status'[u] = status[u]
  BY NotReadyEffect
<1>2. FuturesTypeOK'
  BY <1>1 DEF FuturesTypeOK
<1>3. PollInv'
  BY <1>1 DEF PollInv
<1> QED
  BY <1>2, <1>3

\* What the end of a fiber does to the others: whoever loses an Unpark object has
\* a credit, and who still waits has lost none.
LEMMA EndEffect ==
  ASSUME FuturesTypeOK, NEW t \in Tasks, NEW channels \in SUBSET Futures,
         EndFiber(t, channels)
  PROVE  /\ UNCHANGED <<program, at, moves>> /\ due' = {} /\ at = NoFuture
         /\ status[t] = "running" /\ status'[t] = "done"
         /\ status' \in [Tasks -> Status] /\ credit' \in [Tasks -> Nat]
         /\ waiter' = [c \in Futures |->
                         IF c \in channels \/ waiter[c] = t THEN NoTask ELSE waiter[c]]
         /\ waiter' \in [Futures -> Tasks \cup {NoTask}]
         /\ user' = [f \in Futures |-> IF user[f] = t THEN NoTask ELSE user[f]]
         /\ user' \in [Futures -> Tasks \cup {NoTask}]
         /\ blocked' = {f \in blocked : user[f] # t}
         /\ \A u \in Tasks \ {t} :
              /\ credit'[u] >= credit[u]
              /\ \/ status'[u] = status[u]
                 \/ status[u] = "waiting" /\ status'[u] = "ready" /\ credit'[u] > 0
              /\ \A c \in Futures : waiter[c] = u /\ waiter'[c] # u => credit'[u] > 0
              /\ status'[u] = "waiting" =>
                   credit'[u] = credit[u] /\ \A c \in Futures : waiter[c] = u => waiter'[c] = u
<1> DEFINE unparks(u) == {c \in channels : waiter[c] = u}
<1>1. /\ UNCHANGED <<program, at, moves>> /\ due' = {} /\ at = NoFuture
      /\ status[t] = "running"
      /\ status' = [u \in Tasks |->
           IF u = t THEN "done"
           ELSE IF status[u] = "waiting" /\ unparks(u) # {} THEN "ready"
           ELSE status[u]]
      /\ credit' = [u \in Tasks |-> IF u = t THEN 0 ELSE credit[u] + Cardinality(unparks(u))]
      /\ waiter' = [c \in Futures |->
                      IF c \in channels \/ waiter[c] = t THEN NoTask ELSE waiter[c]]
      /\ user' = [f \in Futures |-> IF user[f] = t THEN NoTask ELSE user[f]]
      /\ blocked' = {f \in blocked : user[f] # t}
  BY DEF EndFiber, BetweenCalls
<1>2. ASSUME NEW u \in Tasks
      PROVE  /\ Cardinality(unparks(u)) \in Nat
             /\ unparks(u) = {} => Cardinality(unparks(u)) = 0
             /\ unparks(u) # {} => Cardinality(unparks(u)) > 0
  <2>1. IsFiniteSet(unparks(u))
    BY FuturesAssumption, FS_Subset
  <2> DEFINE n == Cardinality(unparks(u))
  <2>2. n \in Nat /\ (n = 0 <=> unparks(u) = {})
    BY <2>1, FS_CardinalityType, FS_EmptySet
  <2> HIDE DEF n
  <2>3. n \in Nat /\ (unparks(u) = {} => n = 0) /\ (unparks(u) # {} => n > 0)
    BY <2>2
  <2> QED
    BY <2>3 DEF n
<1>3. \A u \in Tasks : \A c \in Futures :
        u # t /\ waiter[c] = u /\ waiter'[c] # u => unparks(u) # {}
  BY <1>1
<1>4. \A u \in Tasks : \A c \in Futures :
        u # t /\ unparks(u) = {} /\ waiter[c] = u => waiter'[c] = u
  BY <1>1
<1> HIDE DEF unparks
<1>5. status' \in [Tasks -> Status] /\ status'[t] = "done"
  BY <1>1 DEF FuturesTypeOK, Status
<1>6. credit' \in [Tasks -> Nat]
  BY <1>1, <1>2 DEF FuturesTypeOK
<1>7. \A u \in Tasks \ {t} :
        /\ credit'[u] = credit[u] + Cardinality(unparks(u))
        /\ status'[u] = IF status[u] = "waiting" /\ unparks(u) # {} THEN "ready"
                        ELSE status[u]
  BY <1>1
<1>8. \A u \in Tasks \ {t} :
        /\ credit'[u] >= credit[u]
        /\ unparks(u) # {} => credit'[u] > 0
        /\ unparks(u) = {} => credit'[u] = credit[u]
  BY <1>2, <1>7 DEF FuturesTypeOK
<1>9. ASSUME NEW u \in Tasks \ {t}
      PROVE  /\ \/ status'[u] = status[u]
                \/ status[u] = "waiting" /\ status'[u] = "ready" /\ credit'[u] > 0
             /\ \A c \in Futures : waiter[c] = u /\ waiter'[c] # u => credit'[u] > 0
             /\ status'[u] = "waiting" =>
                  credit'[u] = credit[u] /\ \A c \in Futures : waiter[c] = u => waiter'[c] = u
  BY <1>3, <1>4, <1>7, <1>8
<1>10. /\ waiter' \in [Futures -> Tasks \cup {NoTask}]
       /\ user' \in [Futures -> Tasks \cup {NoTask}]
  BY <1>1 DEF FuturesTypeOK
<1> QED
  BY <1>1, <1>5, <1>6, <1>8, <1>9, <1>10

\* A fiber ends.
LEMMA EndPollInv ==
  ASSUME FuturesTypeOK, PollInv, NEW t \in Tasks, NEW channels \in SUBSET Futures,
         EndFiber(t, channels)
  PROVE  FuturesTypeOK' /\ PollInv'
<1>1. /\ UNCHANGED <<program, at, moves>> /\ due' = {} /\ at = NoFuture
      /\ status[t] = "running" /\ status'[t] = "done"
      /\ status' \in [Tasks -> Status] /\ credit' \in [Tasks -> Nat]
      /\ waiter' \in [Futures -> Tasks \cup {NoTask}]
      /\ user' = [f \in Futures |-> IF user[f] = t THEN NoTask ELSE user[f]]
      /\ user' \in [Futures -> Tasks \cup {NoTask}]
      /\ blocked' = {f \in blocked : user[f] # t}
      /\ \A u \in Tasks \ {t} :
           \/ status'[u] = status[u]
           \/ status[u] = "waiting" /\ status'[u] = "ready"
  BY EndEffect
<1>2. FuturesTypeOK'
  BY <1>1 DEF FuturesTypeOK
<1>3. \A f \in blocked' : f \in blocked /\ user[f] # t /\ user'[f] = user[f]
  BY <1>1 DEF FuturesTypeOK
<1>4. PollInv'
  BY <1>1, <1>3 DEF PollInv
<1> QED
  BY <1>2, <1>4

\* A future is moved to the running fiber.
LEMMA TakePoll ==
  ASSUME FuturesTypeOK, PollInv, NEW t \in Tasks, NEW f \in SocketFutures, TakeFuture(f, t)
  PROVE  FuturesTypeOK' /\ PollInv'
<1>1. /\ UNCHANGED <<status, credit, program, waiter, due, at>>
      /\ status[t] = "running" /\ at = NoFuture /\ user[f] # t
      /\ moves < program.moves /\ moves' = moves + 1
      /\ user' = [user EXCEPT ![f] = t] /\ blocked' = blocked \ {f}
  BY DEF TakeFuture, BetweenCalls, lifecycleVars
<1>2. f \notin due
  BY <1>1 DEF PollInv
<1>3. f \in Futures
  BY SocketNames
<1>4. program.moves \in Nat
  BY FuturesAssumption DEF FuturesTypeOK
<1>5. moves' \in 0 .. program'.moves
  BY <1>1, <1>4 DEF FuturesTypeOK
<1>6. FuturesTypeOK'
  BY <1>1, <1>2, <1>3, <1>5 DEF FuturesTypeOK
<1>7. \A g \in blocked' : g \in blocked /\ user'[g] = user[g]
  BY <1>1 DEF FuturesTypeOK
<1>8. PollInv'
  BY <1>1, <1>2, <1>7 DEF PollInv
<1> QED
  BY <1>6, <1>8

\* The running fiber polls a future.
LEMMA PolledPoll ==
  ASSUME FuturesTypeOK, PollInv, NEW t \in Tasks, NEW f \in Futures, Polled(f, t)
  PROVE  FuturesTypeOK' /\ PollInv'
<1>1. /\ status[t] = "running" /\ user[f] = t /\ (f \in blocked => f \in due)
  BY FuturesAssumption DEF Polled, Polls, PollInv
<1>2. /\ Wakes(t) /\ UNCHANGED <<program, moves>>
      /\ user' \in [Futures -> Tasks \cup {NoTask}]
      /\ \A g \in Futures : user'[g] # user[g] => g \notin blocked' /\ g # at'
  BY DEF Polled
<1>3. /\ blocked' \in SUBSET Futures /\ due' \subseteq blocked'
      /\ at' \in Futures \cup {NoFuture}
      /\ \/ at' = NoFuture
         \/ at' = f /\ f \in SocketFutures \cup {Input} /\ (f \in blocked' => f \in due')
      /\ \A g \in blocked' : g \in blocked \/ g = f
      /\ \A g \in due' : g \in due
  BY <1>1 DEF Polled, StayIn, ReturnNotReady, ReturnReady, FuturesTypeOK
<1>4. FuturesTypeOK'
  BY <1>2, <1>3 DEF FuturesTypeOK, Wakes
<1>5. status'[t] = "running" /\ \A g \in blocked' : user'[g] = user[g]
  BY <1>1, <1>2, <1>3, WakesStatus
<1>6. \A g \in blocked' :
        /\ user[g] \in Tasks /\ status[user[g]] \in {"ready", "running", "waiting"}
        /\ g \in due' => status[user[g]] = "running"
  BY <1>1, <1>3 DEF PollInv
<1>7. \A g \in blocked' :
        /\ user'[g] \in Tasks /\ status'[user'[g]] \in {"ready", "running", "waiting"}
        /\ g \in due' => status'[user'[g]] = "running"
  BY <1>2, <1>5, <1>6, WakesStatus
<1>8. at' = f => user'[f] = t
  BY <1>1, <1>2
<1>9. \A u, v \in Tasks : status'[u] = "running" /\ status'[v] = "running" => u = v
  BY <1>2, WakesStatus DEF PollInv
<1> QED
  BY <1>3, <1>4, <1>5, <1>7, <1>8, <1>9 DEF PollInv

\* The invariant of polls is inductive.
LEMMA ClassPoll ==
  ASSUME FuturesTypeOK, PollInv, Class
  PROVE  FuturesTypeOK' /\ PollInv'
BY OtherThreadPoll, SpawnPoll, StartPollPoll, LosePoll, NotReadyPoll, EndPollInv, TakePoll,
   PolledPoll DEF Class

----------------------------------------------------------------------------
(* What holds whatever the futures are                                      *)

\* A waiting fiber keeps its Unpark objects, or is woken.
LEMMA ClassWaiting ==
  ASSUME FuturesTypeOK, PollInv, WaitingInv, Class
  PROVE  WaitingInv'
<1> SUFFICES ASSUME NEW u \in Tasks, status'[u] = "waiting"
             PROVE  credit'[u] = 0 /\ \E c \in Futures : waiter'[c] = u
  BY DEF WaitingInv
<1>1. status[u] = "waiting" => credit[u] = 0 /\ \E c \in Futures : waiter[c] = u
  BY DEF WaitingInv
<1>2. ASSUME NEW t, Wakes(t) PROVE credit'[u] = 0 /\ \E c \in Futures : waiter'[c] = u
  BY <1>1, <1>2 DEF Wakes
<1>3. CASE OtherThread
  BY <1>2, <1>3 DEF OtherThread
<1>4. ASSUME NEW t \in Tasks, Spawn(t) /\ UNCHANGED futuresVars
      PROVE  credit'[u] = 0 /\ \E c \in Futures : waiter'[c] = u
  BY <1>1, <1>4 DEF Spawn, Move, futuresVars, FuturesTypeOK
<1>5. ASSUME NEW t \in Tasks, StartPoll(t)
      PROVE  credit'[u] = 0 /\ \E c \in Futures : waiter'[c] = u
  <2>1. u # t /\ credit'[u] = credit[u] /\ status[u] = "waiting" /\ waiter' = waiter
    BY <1>5, StartPollEffect
  <2> QED
    BY <1>1, <2>1
<1>6. CASE LoseFibers
  BY <1>6 DEF LoseFibers
<1>7. ASSUME NEW t \in Tasks, FiberNotReady(t)
      PROVE  credit'[u] = 0 /\ \E c \in Futures : waiter'[c] = u
  <2>1. /\ UNCHANGED <<credit, waiter>>
        /\ \A v \in Tasks \ {t} : status'[v] = status[v]
        /\ \/ status'[t] = "ready"
           \/ credit[t] = 0 /\ \E c \in Futures : waiter[c] = t
    BY <1>7, NotReadyEffect
  <2> QED
    BY <1>1, <2>1
<1>8. ASSUME NEW t \in Tasks, NEW channels \in SUBSET Futures, EndFiber(t, channels)
      PROVE  credit'[u] = 0 /\ \E c \in Futures : waiter'[c] = u
  <2>1. /\ status'[t] = "done"
        /\ \A v \in Tasks \ {t} :
             /\ \/ status'[v] = status[v]
                \/ status[v] = "waiting" /\ status'[v] = "ready"
             /\ status'[v] = "waiting" =>
                  credit'[v] = credit[v] /\ \A c \in Futures : waiter[c] = v => waiter'[c] = v
    BY <1>8, EndEffect
  <2> QED
    BY <1>1, <2>1
<1>9. ASSUME NEW t \in Tasks, NEW f \in SocketFutures, TakeFuture(f, t)
      PROVE  credit'[u] = 0 /\ \E c \in Futures : waiter'[c] = u
  BY <1>1, <1>9 DEF TakeFuture, lifecycleVars
<1>10. ASSUME NEW t \in Tasks, NEW f \in Futures, Polled(f, t)
       PROVE  credit'[u] = 0 /\ \E c \in Futures : waiter'[c] = u
  BY <1>2, <1>10 DEF Polled
<1> QED
  BY <1>3, <1>4, <1>5, <1>6, <1>7, <1>8, <1>9, <1>10 DEF Class

\* The fiber that reads standard input stays the one that does nothing else.
LEMMA ClassReader ==
  ASSUME FuturesTypeOK, ReaderInv, Class
  PROVE  ReaderInv'
<1> SUFFICES ASSUME ReadersHaveNothingElse, NEW f \in Futures \ {Input},
                    user'[Input] # NoTask
             PROVE  user'[f] # user'[Input] /\ waiter'[f] # user'[Input]
  BY DEF ReaderInv
<1>1. \A g \in Futures \ {Input} :
        user[Input] # NoTask => user[g] # user[Input] /\ waiter[g] # user[Input]
  BY DEF ReaderInv
<1>2. Input \in Futures
  BY OtherNames
<1>3. CASE OtherThread
  BY <1>1, <1>3 DEF OtherThread, Wakes
<1>4. ASSUME NEW t \in Tasks, Spawn(t) /\ UNCHANGED futuresVars
      PROVE  user'[f] # user'[Input] /\ waiter'[f] # user'[Input]
  BY <1>1, <1>4 DEF futuresVars
<1>5. ASSUME NEW t \in Tasks, StartPoll(t)
      PROVE  user'[f] # user'[Input] /\ waiter'[f] # user'[Input]
  BY <1>1, <1>5 DEF StartPoll
<1>6. CASE LoseFibers
  BY <1>2, <1>6 DEF LoseFibers
<1>7. ASSUME NEW t \in Tasks, FiberNotReady(t)
      PROVE  user'[f] # user'[Input] /\ waiter'[f] # user'[Input]
  BY <1>1, <1>7 DEF FiberNotReady, futuresVars
<1>8. ASSUME NEW t \in Tasks, NEW channels \in SUBSET Futures, EndFiber(t, channels)
      PROVE  user'[f] # user'[Input] /\ waiter'[f] # user'[Input]
  BY <1>1, <1>2, <1>8 DEF EndFiber
<1>9. ASSUME NEW t \in Tasks, NEW g \in SocketFutures, TakeFuture(g, t), user[Input] # t
      PROVE  user'[f] # user'[Input] /\ waiter'[f] # user'[Input]
  <2>1. g # Input /\ UNCHANGED waiter /\ user' = [user EXCEPT ![g] = t]
    BY <1>9, OtherNames DEF TakeFuture
  <2>2. user'[Input] = user[Input] /\ user'[f] \in {user[f], t}
    BY <1>2, <2>1 DEF FuturesTypeOK
  <2> QED
    BY <1>1, <1>9, <2>1, <2>2
<1>10. ASSUME NEW t \in Tasks, NEW g \in Futures, Polled(g, t)
       PROVE  user'[f] # user'[Input] /\ waiter'[f] # user'[Input]
  <2>1. /\ user[g] = t /\ Wakes(t)
        /\ \A h \in Futures :
             user'[h] = user[h] \/ (h # Input /\ user'[h] \in {t, NoTask})
        /\ g = Input => user' = user /\ waiter'[f] = waiter[f]
    BY <1>10 DEF Polled, Polls
  <2>2. user'[Input] = user[Input]
    BY <1>2, <2>1
  <2>3. CASE g = Input
    BY <1>1, <2>1, <2>2, <2>3
  <2>4. CASE g # Input
    <3>1. t # user[Input]
      BY <1>1, <2>1, <2>2, <2>4
    <3>2. waiter'[f] \in {waiter[f], NoTask, t}
      BY <2>1 DEF Wakes
    <3> QED
      BY <1>1, <2>1, <2>2, <3>1, <3>2
  <2> QED
    BY <2>3, <2>4
<1> QED
  BY <1>3, <1>4, <1>5, <1>6, <1>7, <1>8, <1>9, <1>10 DEF Class

\* What a step does to futures that have been polled: another's channel remains
\* what it was, and a monitor lost; a fiber is parked on the one it polls.
ParkStep ==
  \A f \in (blocked' \ due') \ {Input} :
    IF f \in blocked \ due
      THEN Behind(f)' = Behind(f) /\ (MonitorLost(f) => MonitorLost(f)')
      ELSE ~ ConnectMoves => waiter'[Behind(f)'] = user'[f] \/ MonitorLost(f)'

\* A future that stays as it was, and whose fiber keeps its unparks.
LEMMA StaysParked ==
  ASSUME NEW f \in ((blocked' \ due') \ {Input}) \cap (blocked \ due), ~ ConnectMoves,
         FuturesTypeOK, ParkedInv, ParkStep, user'[f] = user[f], user[f] \in Tasks,
         credit'[user[f]] \in Nat, credit'[user[f]] >= credit[user[f]],
         \A c \in Futures :
           waiter[c] = user[f] /\ waiter'[c] # user[f] => credit'[user[f]] > 0
  PROVE  credit'[user'[f]] > 0 \/ waiter'[Behind(f)'] = user'[f] \/ MonitorLost(f)'
<1> DEFINE t == user[f]
<1>1. Behind(f)' = Behind(f) /\ (MonitorLost(f) => MonitorLost(f)')
  BY DEF ParkStep
<1>2. credit[t] > 0 \/ waiter[Behind(f)] = t \/ MonitorLost(f)
  BY DEF ParkedInv
<1>3. Behind(f) \in Futures /\ credit[t] \in Nat
  BY BehindFutures DEF FuturesTypeOK
<1>4. waiter[Behind(f)] = t => waiter'[Behind(f)] = t \/ credit'[t] > 0
  BY <1>3
<1>5. credit[t] > 0 => credit'[t] > 0
  BY <1>3
<1> HIDE DEF t
<1>6. credit'[t] > 0 \/ waiter'[Behind(f)'] = t \/ MonitorLost(f)'
  BY <1>1, <1>2, <1>4, <1>5
<1> QED
  BY <1>6 DEF t

\* A fiber is parked on what it has polled.
LEMMA ClassParked ==
  ASSUME FuturesTypeOK, PollInv, ParkedInv, Class, ParkStep
  PROVE  ParkedInv'
<1> SUFFICES ASSUME ~ ConnectMoves, NEW f \in (blocked' \ due') \ {Input}
             PROVE  \/ credit'[user'[f]] > 0 \/ waiter'[Behind(f)'] = user'[f]
                    \/ MonitorLost(f)'
  BY DEF ParkedInv
<1> DEFINE parked == \/ credit'[user'[f]] > 0 \/ waiter'[Behind(f)'] = user'[f]
                     \/ MonitorLost(f)'
<1>1. CASE f \notin blocked \ due
  BY <1>1 DEF ParkStep
<1>2. ASSUME f \in blocked \ due, user'[f] = user[f], NEW t, Wakes(t)
      PROVE  parked
  <2>1. user[f] \in Tasks
    BY <1>2 DEF PollInv
  <2>2. /\ credit'[user[f]] \in Nat /\ credit'[user[f]] >= credit[user[f]]
        /\ \A c \in Futures :
             waiter[c] = user[f] /\ waiter'[c] # user[f] => credit'[user[f]] > 0
    BY <1>2, <2>1 DEF Wakes
  <2> QED
    BY <1>2, <2>1, <2>2, StaysParked
<1>3. ASSUME f \in blocked \ due, user'[f] = user[f], UNCHANGED <<credit, waiter>>
      PROVE  parked
  <2>1. user[f] \in Tasks
    BY <1>3 DEF PollInv
  <2>2. credit'[user[f]] \in Nat /\ credit'[user[f]] >= credit[user[f]]
    BY <1>3, <2>1 DEF FuturesTypeOK
  <2> QED
    BY <1>3, <2>1, <2>2, StaysParked
<1>4. CASE f \in blocked \ due
  <2>1. CASE OtherThread
    BY <1>2, <1>4, <2>1 DEF OtherThread
  <2>2. ASSUME NEW t \in Tasks, Spawn(t) /\ UNCHANGED futuresVars
        PROVE  parked
    BY <1>3, <1>4, <2>2 DEF Spawn, futuresVars
  <2>3. ASSUME NEW t \in Tasks, StartPoll(t) PROVE parked
    <3>1. /\ UNCHANGED <<waiter, user>> /\ due' = {g \in blocked : user[g] = t}
          /\ credit' \in [Tasks -> Nat]
          /\ \A u \in Tasks \ {t} : credit'[u] = credit[u]
      BY <2>3, StartPollEffect
    <3>2. user[f] \in Tasks \ {t}
      BY <1>4, <3>1 DEF PollInv
    <3>3. credit'[user[f]] \in Nat /\ credit'[user[f]] >= credit[user[f]]
      BY <3>1, <3>2
    <3> QED
      BY <1>4, <3>1, <3>2, <3>3, StaysParked
  <2>4. CASE LoseFibers
    BY <2>4 DEF LoseFibers
  <2>5. ASSUME NEW t \in Tasks, FiberNotReady(t) PROVE parked
    BY <1>3, <1>4, <2>5, NotReadyEffect
  <2>6. ASSUME NEW t \in Tasks, NEW channels \in SUBSET Futures, EndFiber(t, channels)
        PROVE  parked
    <3>1. /\ credit' \in [Tasks -> Nat]
          /\ user' = [g \in Futures |-> IF user[g] = t THEN NoTask ELSE user[g]]
          /\ blocked' = {g \in blocked : user[g] # t}
          /\ \A u \in Tasks \ {t} :
               /\ credit'[u] >= credit[u]
               /\ \A c \in Futures : waiter[c] = u /\ waiter'[c] # u => credit'[u] > 0
      BY <2>6, EndEffect
    <3>2. user[f] \in Tasks \ {t} /\ user'[f] = user[f]
      BY <1>4, <3>1 DEF PollInv, FuturesTypeOK
    <3> QED
      BY <1>4, <3>1, <3>2, StaysParked
  <2>7. ASSUME NEW t \in Tasks, NEW g \in SocketFutures, TakeFuture(g, t) PROVE parked
    <3>1. /\ UNCHANGED <<credit, waiter>> /\ user' = [user EXCEPT ![g] = t]
          /\ blocked' = blocked \ {g}
      BY <2>7 DEF TakeFuture, lifecycleVars
    <3>2. user'[f] = user[f]
      BY <3>1 DEF FuturesTypeOK
    <3> QED
      BY <1>3, <1>4, <3>1, <3>2
  <2>8. ASSUME NEW t \in Tasks, NEW g \in Futures, Polled(g, t) PROVE parked
    <3>1. user'[f] = user[f] /\ Wakes(t)
      BY <1>4, <2>8 DEF Polled, FuturesTypeOK
    <3> QED
      BY <1>2, <1>4, <3>1
  <2> QED
    BY <2>1, <2>2, <2>3, <2>4, <2>5, <2>6, <2>7, <2>8 DEF Class
<1> QED
  BY <1>1, <1>4

\* A fiber that goes on without a credit has only lost monitors to poll.
LEMMA ClassReady ==
  ASSUME FuturesTypeOK, PollInv, ParkedInv, ReadyInv, Class, ParkStep,
         FuturesTypeOK', PollInv'
  PROVE  ReadyInv'
<1> SUFFICES ASSUME ~ ConnectMoves, NEW f \in blocked' \ {Input},
                    status'[user'[f]] = "ready", credit'[user'[f]] = 0
             PROVE  MonitorLost(f)'
  BY DEF ReadyInv
<1> DEFINE u == user'[f]
<1>1. u \in Tasks /\ f \notin due' /\ status'[u] = "ready" /\ credit'[u] = 0
  BY DEF PollInv
<1>2. f \in blocked \ due /\ MonitorLost(f) => MonitorLost(f)'
  BY <1>1 DEF ParkStep
<1>3. ASSUME f \in blocked, user[f] = u, status[u] = "ready", credit[u] = 0
      PROVE  MonitorLost(f)'
  <2>1. f \notin due
    BY <1>3 DEF PollInv
  <2>2. MonitorLost(f)
    BY <1>3 DEF ReadyInv
  <2> QED
    BY <1>2, <1>3, <2>1, <2>2
<1> HIDE DEF u
<1>4. ASSUME f \in blocked, user[f] = u, NEW t, Wakes(t) PROVE MonitorLost(f)'
  <2>1. /\ credit'[u] >= credit[u]
        /\ \/ status'[u] = status[u]
           \/ status'[u] = "ready" /\ credit'[u] > 0
    BY <1>1, <1>4 DEF Wakes
  <2>2. credit[u] = 0 /\ status[u] = "ready"
    BY <1>1, <2>1 DEF FuturesTypeOK
  <2> QED
    BY <1>3, <1>4, <2>2
<1>5. CASE OtherThread
  BY <1>4, <1>5 DEF OtherThread, pollVars, u
<1>6. ASSUME NEW t \in Tasks, Spawn(t) /\ UNCHANGED futuresVars PROVE MonitorLost(f)'
  <2>1. /\ UNCHANGED <<credit, user, blocked>> /\ status[t] = "new"
        /\ status' = [status EXCEPT ![t] = "ready"]
    BY <1>6 DEF Spawn, Move, futuresVars, pollVars
  <2>2. user[f] = u /\ status[u] # "new"
    BY <2>1 DEF PollInv, u
  <2>3. status[u] = "ready" /\ credit[u] = 0
    BY <1>1, <2>1, <2>2 DEF FuturesTypeOK
  <2> QED
    BY <1>3, <2>1, <2>2, <2>3
<1>7. ASSUME NEW t \in Tasks, StartPoll(t) PROVE MonitorLost(f)'
  <2>1. /\ UNCHANGED <<user, blocked>> /\ status'[t] = "running"
        /\ \A v \in Tasks \ {t} : status'[v] = status[v] /\ credit'[v] = credit[v]
    BY <1>7, StartPollEffect
  <2> QED
    BY <1>1, <1>3, <2>1 DEF u
<1>8. CASE LoseFibers
  BY <1>8 DEF LoseFibers
<1>9. ASSUME NEW t \in Tasks, FiberNotReady(t) PROVE MonitorLost(f)'
  <2>1. /\ UNCHANGED <<credit, waiter, user, blocked, due>> /\ due = {}
        /\ \A v \in Tasks \ {t} : status'[v] = status[v]
        /\ \/ status'[t] = "ready" /\ (credit[t] > 0 \/ \A c \in Futures : waiter[c] # t)
           \/ status'[t] = "waiting"
    BY <1>9, NotReadyEffect
  <2>2. CASE u = t
    <3>1. f \in blocked \ due /\ user[f] = t /\ credit[t] = 0
          /\ \A c \in Futures : waiter[c] # t
      BY <1>1, <2>1, <2>2 DEF u
    <3>2. waiter[Behind(f)] # t
      BY <3>1, BehindFutures DEF FuturesTypeOK
    <3>3. MonitorLost(f)
      BY <3>1, <3>2 DEF ParkedInv
    <3> QED
      BY <1>2, <3>1, <3>3
  <2>3. CASE u # t
    BY <1>1, <1>3, <2>1, <2>3 DEF u
  <2> QED
    BY <2>2, <2>3
<1>10. ASSUME NEW t \in Tasks, NEW channels \in SUBSET Futures, EndFiber(t, channels)
       PROVE  MonitorLost(f)'
  <2>1. /\ status'[t] = "done"
        /\ user' = [g \in Futures |-> IF user[g] = t THEN NoTask ELSE user[g]]
        /\ blocked' = {g \in blocked : user[g] # t}
        /\ \A v \in Tasks \ {t} :
             /\ credit'[v] >= credit[v]
             /\ status'[v] = status[v] \/ credit'[v] > 0
    BY <1>10, EndEffect
  <2>2. f \in blocked /\ user[f] = u /\ u # t
    BY <1>1, <2>1 DEF FuturesTypeOK, u
  <2>3. status[u] = "ready" /\ credit[u] = 0
    BY <1>1, <2>1, <2>2 DEF FuturesTypeOK
  <2> QED
    BY <1>3, <2>2, <2>3
<1>11. ASSUME NEW t \in Tasks, NEW g \in SocketFutures, TakeFuture(g, t)
       PROVE  MonitorLost(f)'
  <2>1. /\ UNCHANGED <<status, credit>> /\ user' = [user EXCEPT ![g] = t]
        /\ blocked' = blocked \ {g}
    BY <1>11 DEF TakeFuture, lifecycleVars
  <2>2. user[f] = u
    BY <2>1 DEF FuturesTypeOK, u
  <2> QED
    BY <1>1, <1>3, <2>1, <2>2
<1>12. ASSUME NEW t \in Tasks, NEW g \in Futures, Polled(g, t) PROVE MonitorLost(f)'
  <2>1. /\ user[g] = t /\ status[t] = "running" /\ Wakes(t) /\ user'[f] = user[f]
        /\ f \in blocked \/ f = g
    BY <1>12 DEF Polled, Polls, StayIn, ReturnNotReady, ReturnReady, FuturesTypeOK
  <2>2. status'[t] = "running"
    BY <2>1, WakesStatus
  <2>3. f # g /\ user[f] = u
    BY <1>1, <2>1, <2>2 DEF u
  <2> QED
    BY <1>4, <2>1, <2>3
<1> QED
  BY <1>5, <1>6, <1>7, <1>8, <1>9, <1>10, <1>11, <1>12 DEF Class

----------------------------------------------------------------------------
(* Steps that leave the sockets alone                                       *)

OtherTypes ==
  /\ SocketsTypeOK /\ StdinTypeOK /\ LinkTypeOK
  /\ turn \in {"both", "fibers", "poller"}

\* The parts of the invariant that are about what fibers poll.
SideInv == OwnersInv /\ StdinInv /\ NotifierInv /\ ConnectInv /\ PollerInv

\* Sockets whose futures and Notifiers are left alone stay as they are.
LEMMA SocketsFrame ==
  ASSUME SocketsTypeOK, OwnersInv, ConnectInv, PollerInv,
         UNCHANGED <<program, socketVars>>,
         \A c \in SocketFutures : waiter'[c] = waiter[c] /\ user'[c] = user[c],
         at \in SocketFutures => at' = at
  PROVE  SocketsTypeOK' /\ OwnersInv' /\ ConnectInv' /\ PollerInv'
<1>1. UNCHANGED <<stage, slot, ready, peer, arrivals, poller, noticed>>
  BY DEF socketVars
<1>2. SocketsTypeOK' /\ PollerInv'
  BY <1>1 DEF SocketsTypeOK, PollerInv
<1>3. \A s \in Sockets : /\ user'[Opening(s)] = user[Opening(s)]
                         /\ user'[Reading(s)] = user[Reading(s)]
                         /\ user'[Writing(s)] = user[Writing(s)]
                         /\ waiter'[Writing(s)] = waiter[Writing(s)]
                         /\ at = Opening(s) => at' = Opening(s)
  BY SocketNames
<1>4. OwnersInv'
  BY <1>1, <1>3 DEF OwnersInv, OwnersAt
<1>5. ConnectInv'
  BY <1>1, <1>3 DEF ConnectInv, ConnectAt
<1> QED
  BY <1>2, <1>4, <1>5

\* Monitors are not lost, and not found, by leaving the sockets alone.
LEMMA MonitorsFrame ==
  ASSUME UNCHANGED <<stage, slot, poller>>
  PROVE  \A f : Behind(f)' = Behind(f) /\ (MonitorLost(f)' <=> MonitorLost(f))
BY DEF Behind, MonitorLost

\* A step that parks nobody, and blocks nothing but a read of standard input.
LEMMA NobodyParks ==
  ASSUME UNCHANGED socketVars, blocked' \ due' \subseteq (blocked \ due) \cup {Input}
  PROVE  ParkStep
BY MonitorsFrame DEF ParkStep, socketVars

\* Stdin is left alone, or dropped while it is not polled.
LEMMA StdinFrame ==
  ASSUME StdinTypeOK, StdinInv, UNCHANGED stdinVars, user'[Input] \in {user[Input], NoTask},
         spinning => at' = Input
  PROVE  StdinTypeOK' /\ StdinInv'
<1>1. UNCHANGED <<lockRequested, spinning, requests, responses, reader, locked,
                  input, typed, eof>>
  BY DEF stdinVars
<1>2. StdinTypeOK'
  BY <1>1 DEF StdinTypeOK
<1>3. StdinDropped => StdinDropped'
  BY DEF StdinDropped
<1>4. StdinInv'
  BY <1>1, <1>3 DEF StdinInv
<1> QED
  BY <1>2, <1>4

\* Notifiers are left alone or emptied, and no channel is sent on.
LEMMA NotifierFrame ==
  ASSUME NotifierInv, UNCHANGED <<slot, responses, toFiber, fromFiber>>,
         \A c \in Futures : waiter'[c] \in {waiter[c], NoTask}
  PROVE  NotifierInv'
BY DEF NotifierInv, Unanswered

\* Another thread's step that neither a socket nor its Notifier sees.
LEMMA ElsewhereFrame ==
  ASSUME AsyncTypes, SideInv, OtherThread, UNCHANGED socketVars,
         \A c \in SocketFutures : waiter'[c] = waiter[c]
  PROVE  /\ Class /\ ParkStep
         /\ SocketsTypeOK' /\ OwnersInv' /\ ConnectInv' /\ PollerInv'
<1>1. UNCHANGED <<program, user, blocked, due, at>>
  BY DEF OtherThread, pollVars
<1>2. SocketsTypeOK' /\ OwnersInv' /\ ConnectInv' /\ PollerInv'
  BY <1>1, SocketsFrame DEF AsyncTypes, SideInv
<1>3. ParkStep
  BY <1>1, NobodyParks
<1> QED
  BY <1>2, <1>3 DEF Class

\* Another thread's step that is one of standard input.
LEMMA InputFrame ==
  ASSUME AsyncTypes, SideInv, UNCHANGED <<program, user, pollVars, moves>>,
         UNCHANGED <<socketVars, linkVars, turn>>, StdinTypeOK', StdinInv',
         \/ UNCHANGED <<lifecycleVars, waiter>> /\ responses' = responses
         \/ Notify(Input)
  PROVE  Class /\ ParkStep /\ SideInv' /\ OtherTypes'
<1>1. LifeTypes /\ Input \in Futures \ SocketFutures
  BY TypesOfFutures, OtherNames DEF AsyncTypes
<1>2. /\ Wakes(NoTask) /\ \A c \in Futures \ {Input} : waiter'[c] = waiter[c]
      /\ waiter'[Input] = NoTask \/ (waiter'[Input] = waiter[Input] /\ responses' = responses)
  <2>1. CASE UNCHANGED <<lifecycleVars, waiter>> /\ responses' = responses
    BY <1>1, <2>1, NothingWakes
  <2>2. CASE Notify(Input)
    BY <1>1, <2>2, NotifyWakes
  <2> QED
    BY <2>1, <2>2
<1>3. OtherThread
  BY <1>2 DEF OtherThread
<1>4. \A c \in SocketFutures : waiter'[c] = waiter[c]
  BY <1>1, <1>2, SocketNames
<1>5. /\ Class /\ ParkStep /\ SocketsTypeOK' /\ OwnersInv' /\ ConnectInv' /\ PollerInv'
  BY <1>3, <1>4, ElsewhereFrame
<1>6. UNCHANGED <<slot, toFiber, fromFiber, holder>>
  BY DEF socketVars, linkVars
<1>7. LinkTypeOK' /\ turn' \in {"both", "fibers", "poller"}
  BY <1>6 DEF AsyncTypes, LinkTypeOK
<1>8. NotifierInv'
  BY <1>2, <1>6 DEF SideInv, NotifierInv, Unanswered
<1> QED
  BY <1>5, <1>7, <1>8 DEF SideInv, OtherTypes

\* Messages.
LEMMA OneMessage ==
  /\ \A m : Append(<<>>, m) = <<m>> /\ Tail(<<m>>) = <<>> /\ Head(<<m>>) = m /\ <<m>> # <<>>
  /\ \A m, n : <<m>> = <<n>> => m = n
<1>1. \A m : Append(<<>>, m) = <<m>>
  OBVIOUS
<1>2. \A m : Tail(<<m>>) = <<>>
  OBVIOUS
<1>3. \A m : Head(<<m>>) = m /\ <<m>> # <<>>
  OBVIOUS
<1>4. \A m, n : <<m>> = <<n>> => m = n
  OBVIOUS
<1> QED
  BY <1>1, <1>2, <1>3, <1>4

\* What is typed, or taken by another thread.
LEMMA TypingKeeps ==
  ASSUME StdinTypeOK, StdinInv, Typing
  PROVE  StdinTypeOK' /\ StdinInv'
<1>1. UNCHANGED <<lockRequested, spinning, requests, responses, reader, locked, at, user>>
  BY DEF Typing, futuresVars, pollVars
<1>2. /\ input' \in 0 .. MaxInput /\ typed' \in 0 .. MaxInput /\ input' <= typed'
      /\ eof' \in BOOLEAN
  <2>1. /\ MaxInput \in Nat /\ input \in 0 .. MaxInput /\ typed \in 0 .. MaxInput
        /\ input <= typed /\ eof \in BOOLEAN
    BY StdinAssumption DEF StdinTypeOK, StdinInv
  <2>2. CASE typed < MaxInput /\ typed' = typed + 1 /\ input' = input + 1 /\ eof' = eof
    BY <2>1, <2>2
  <2>3. CASE input > 0 /\ input' = input - 1 /\ typed' = typed /\ eof' = eof
    BY <2>1, <2>3
  <2>4. CASE eof' = TRUE /\ typed' = typed /\ input' = input
    BY <2>1, <2>4
  <2> QED
    BY <2>2, <2>3, <2>4 DEF Typing
<1>3. StdinTypeOK'
  BY <1>1, <1>2 DEF StdinTypeOK
<1>4. StdinInv'
  BY <1>1, <1>2 DEF StdinInv, StdinDropped
<1> QED
  BY <1>3, <1>4

\* The reader thread, phase by phase.
LEMMA ReaderKeepsInv ==
  ASSUME StdinTypeOK, PollInv, StdinInv, ReaderThread
  PROVE  StdinTypeOK' /\ StdinInv'
<1>1. UNCHANGED <<user, at, lockRequested, spinning, typed, eof>>
  BY DEF ReaderThread, ReceiveLock, LockInput, CheckInput, ReadInput, EndReader,
         ReaderKeeps, pollVars
<1>2. StdinDropped' <=> StdinDropped
  BY <1>1 DEF StdinDropped
<1> DEFINE Q == Seq({"lock", "size"})
           R == Seq({"ack", "data", "error"})
<1>8. /\ requests \in Q /\ (requests # <<>> => Tail(requests) \in Q)
      /\ responses \in R /\ \A r \in {"ack", "data", "error"} : Append(responses, r) \in R
  BY DEF StdinTypeOK
<1> HIDE DEF Q, R
<1>9. ASSUME requests' \in Q, responses' \in R, locked' \in BOOLEAN, input' \in 0 .. MaxInput,
             reader' \in {"lock", "locking", "check", "read", "closing", "notified", "gone"}
      PROVE  StdinTypeOK'
  BY <1>1, <1>9 DEF StdinTypeOK, Q, R
<1>10. locked \in BOOLEAN /\ input \in 0 .. MaxInput
  BY DEF StdinTypeOK
<1>3. CASE ReceiveLock
  <2>1. /\ UNCHANGED <<responses, locked, input>> /\ reader = "lock"
        /\ \/ requests # <<>> /\ requests' = Tail(requests) /\ reader' = "locking"
           \/ requests = <<>> /\ StdinDropped /\ reader' = "closing" /\ requests' = requests
    BY <1>3 DEF ReceiveLock
  <2>2. StdinInv'
    <3>1. CASE requests # <<>>
      <4>1. lockRequested /\ ~ spinning /\ requests = <<"lock">> /\ responses = <<>>
        BY <2>1, <3>1, OneMessage DEF StdinInv
      <4>2. requests' = <<>> /\ reader' = "locking" /\ responses' = <<>>
        BY <2>1, <3>1, <4>1, OneMessage
      <4> QED
        BY <1>1, <2>1, <4>1, <4>2 DEF StdinInv
    <3>2. CASE requests = <<>>
      <4>1. requests' = <<>> /\ reader' = "closing" /\ StdinDropped
        BY <2>1, <3>2
      <4>2. ~ spinning
        BY OtherNames, FuturesAssumption, <4>1 DEF StdinInv, PollInv, StdinDropped
      <4> QED
        BY <1>1, <1>2, <2>1, <3>2, <4>1, <4>2, OneMessage DEF StdinInv
    <3> QED
      BY <3>1, <3>2
  <2>3. StdinTypeOK'
    BY <1>8, <1>9, <1>10, <2>1
  <2> QED
    BY <2>2, <2>3
<1>4. CASE LockInput
  <2>1. /\ UNCHANGED <<requests, responses, input>>
        /\ reader = "locking" /\ reader' = "check" /\ locked' = TRUE
    BY <1>4 DEF LockInput
  <2>2. StdinInv'
    BY <1>1, <1>2, <2>1, OneMessage DEF StdinInv
  <2>3. StdinTypeOK'
    BY <1>8, <1>9, <1>10, <2>1
  <2> QED
    BY <2>2, <2>3
<1>5. CASE CheckInput
  <2>1. /\ UNCHANGED <<requests, input>> /\ reader = "check"
        /\ \/ /\ ~ StdinDropped /\ reader' = "read" /\ locked' = locked
              /\ responses' = Append(responses, "ack")
           \/ reader' = "closing" /\ locked' = FALSE /\ responses' = responses
    BY <1>5 DEF CheckInput, Respond, Leave
  <2>2. StdinInv'
    BY <1>1, <1>2, <2>1, OneMessage DEF StdinInv
  <2>3. StdinTypeOK'
    BY <1>8, <1>9, <1>10, <2>1
  <2> QED
    BY <2>2, <2>3
<1>6. CASE ReadInput
  <2>1. /\ reader = "read" /\ locked' = FALSE
        /\ \/ /\ requests # <<>> /\ requests' = Tail(requests)
              /\ input' = input \/ (input > 0 /\ input' = input - 1) \/ input' = 0
              /\ \E r \in {"data", "error"} :
                   responses' = IF StdinDropped THEN responses ELSE Append(responses, r)
              /\ reader' = IF StdinDropped THEN "closing" ELSE "lock"
           \/ /\ requests = <<>> /\ StdinDropped /\ reader' = "closing"
              /\ UNCHANGED <<requests, responses, input>>
    BY <1>6 DEF ReadInput, Respond, Leave
  <2>2. input' \in 0 .. MaxInput /\ input' <= typed
    BY <2>1, StdinAssumption DEF StdinTypeOK, StdinInv
  <2>3. spinning => at = Input /\ ~ StdinDropped
    BY OtherNames, FuturesAssumption DEF StdinInv, PollInv, StdinDropped
  <2>4. StdinInv'
    BY <1>1, <1>2, <2>1, <2>2, <2>3, OneMessage DEF StdinInv
  <2>5. StdinTypeOK'
    BY <1>8, <1>9, <1>10, <2>1, <2>2
  <2> QED
    BY <2>4, <2>5
<1>7. CASE EndReader
  <2>1. /\ UNCHANGED <<requests, responses, locked, input>>
        /\ \/ reader = "closing" /\ reader' = "notified"
           \/ reader = "notified" /\ reader' = "gone"
    BY <1>7 DEF EndReader
  <2>2. StdinInv'
    BY <1>1, <1>2, <2>1 DEF StdinInv
  <2>3. StdinTypeOK'
    BY <1>8, <1>9, <1>10, <2>1
  <2> QED
    BY <2>2, <2>3
<1> QED
  BY <1>3, <1>4, <1>5, <1>6, <1>7 DEF ReaderThread

\* What is to be shown of each step.
StepOK == Class /\ ParkStep /\ SideInv' /\ OtherTypes'

\* The reader thread's steps, and the world's that it sees.
LEMMA StdinThreadStep ==
  ASSUME AsyncTypes, PollInv, SideInv, StdinThread \/ InputChanges
  PROVE  StepOK
<1>1. CASE StdinThread
  <2>1. StdinTypeOK' /\ StdinInv'
    BY <1>1, ReaderKeepsInv DEF StdinThread, AsyncTypes, SideInv
  <2>2. UNCHANGED <<program, user, pollVars, moves>> /\ UNCHANGED <<socketVars, linkVars, turn>>
    BY <1>1 DEF StdinThread, ReaderThread, ReceiveLock, LockInput, CheckInput, ReadInput,
                EndReader, ReaderKeeps
  <2>3. \/ UNCHANGED <<lifecycleVars, waiter>> /\ responses' = responses
        \/ Notify(Input)
    BY <1>1 DEF StdinThread, ReaderThread, ReceiveLock, LockInput, CheckInput, ReadInput,
                EndReader, Respond
  <2> QED
    BY <2>1, <2>2, <2>3, InputFrame DEF StepOK
<1>2. CASE InputChanges
  <2>1. StdinTypeOK' /\ StdinInv'
    BY <1>2, TypingKeeps DEF InputChanges, AsyncTypes, SideInv
  <2>2. /\ UNCHANGED <<program, user, pollVars, moves>>
        /\ UNCHANGED <<socketVars, linkVars, turn>>
        /\ UNCHANGED <<lifecycleVars, waiter>> /\ responses' = responses
    BY <1>2 DEF InputChanges, Typing, futuresVars
  <2> QED
    BY <2>1, <2>2, InputFrame DEF StepOK
<1> QED
  BY <1>1, <1>2

\* A step outside of fibers that neither sockets nor standard input see, and that
\* empties the Notifier of what it sends on.
LEMMA LinkFrame ==
  ASSUME AsyncTypes, PollInv, SideInv, OtherThread, UNCHANGED <<socketVars, stdinVars>>,
         turn' \in {"both", "fibers", "poller"}, LinkTypeOK',
         \A c \in SocketFutures \cup {Input} : waiter'[c] = waiter[c],
         \A c \in Futures : waiter'[c] \in {waiter[c], NoTask},
         \A t \in Tasks :
           /\ toFiber'[t] # "value" \/ toFiber'[t] = toFiber[t] \/ waiter'[Link(t)] = NoTask
           /\ fromFiber'[t] = fromFiber[t]
  PROVE  StepOK
<1>1. /\ Class /\ ParkStep /\ SocketsTypeOK' /\ OwnersInv' /\ ConnectInv' /\ PollerInv'
  BY ElsewhereFrame
<1>2. UNCHANGED <<user, at, slot, responses>>
  BY DEF OtherThread, pollVars, socketVars, stdinVars
<1>3. StdinTypeOK' /\ StdinInv'
  BY <1>2, StdinFrame DEF AsyncTypes, SideInv, StdinInv
<1>4. NotifierInv'
  BY <1>2 DEF SideInv, NotifierInv, Unanswered
<1> QED
  BY <1>1, <1>3, <1>4 DEF StepOK, SideInv, OtherTypes

\* The steps of whoever spawned a fiber.
LEMMA HolderStep ==
  ASSUME AsyncTypes, PollInv, SideInv, NEW t \in Tasks,
         HolderPolls(t) \/ HolderLeaves(t) \/ LinkCloses(t)
  PROVE  StepOK
<1> USE DEF AsyncTypes
<1>1. LifeTypes /\ Link(t) \in Futures \ (SocketFutures \cup {Input})
  BY TypesOfFutures, OtherNames
<1>2. /\ UNCHANGED <<socketVars, stdinVars, fromFiber>> /\ turn' = turn
      /\ UNCHANGED <<program, user, pollVars, moves>>
  BY DEF HolderPolls, PollMonitor, HolderLeaves, HolderActs, ExitLink, LeaveFiber,
         LinkCloses, CloseLink, futuresVars
<1>3. LinkTypeOK'
  <2>1. /\ UNCHANGED fromFiber
        /\ holder' = holder \/ \E h \in {"result", "aborted", "left"} :
                                 holder' = [holder EXCEPT ![t] = h]
        /\ toFiber' = toFiber \/ \E h \in {"value", "closing", "closed"} :
                                   toFiber' = [toFiber EXCEPT ![t] = h]
    BY DEF HolderPolls, PollMonitor, HolderLeaves, HolderActs, ExitLink, LeaveFiber,
           LinkCloses, CloseLink
  <2> QED
    BY <2>1 DEF LinkTypeOK
<1>4. CASE Notify(Link(t)) /\ (\E h : toFiber' = [toFiber EXCEPT ![t] = h])
  <2>1. /\ Wakes(NoTask) /\ waiter'[Link(t)] = NoTask
        /\ \A d \in Futures \ {Link(t)} : waiter'[d] = waiter[d]
    BY <1>1, <1>4, NotifyWakes
  <2>2. OtherThread
    BY <1>2, <2>1 DEF OtherThread
  <2>3. \A c \in SocketFutures \cup {Input} : waiter'[c] = waiter[c]
    BY <1>1, <2>1, SocketNames, OtherNames
  <2>4. \A c \in Futures : waiter'[c] \in {waiter[c], NoTask}
    BY <2>1
  <2>5. \A u \in Tasks : toFiber'[u] = toFiber[u] \/ waiter'[Link(u)] = NoTask
    BY <1>4, <2>1 DEF LinkTypeOK
  <2> QED
    BY <1>2, <1>3, <2>2, <2>3, <2>4, <2>5, LinkFrame
<1>5. CASE /\ UNCHANGED <<lifecycleVars, waiter>>
           /\ toFiber' = toFiber \/ toFiber' = [toFiber EXCEPT ![t] = "closed"]
  <2>1. OtherThread
    BY <1>1, <1>2, <1>5, NothingWakes DEF OtherThread
  <2>2. \A u \in Tasks : toFiber'[u] # "value" \/ toFiber'[u] = toFiber[u]
    BY <1>5 DEF LinkTypeOK
  <2> QED
    BY <1>2, <1>3, <1>5, <2>1, <2>2, LinkFrame
<1>6. \/ Notify(Link(t)) /\ \E h : toFiber' = [toFiber EXCEPT ![t] = h]
      \/ /\ UNCHANGED <<lifecycleVars, waiter>>
         /\ toFiber' = toFiber \/ toFiber' = [toFiber EXCEPT ![t] = "closed"]
  BY DEF HolderPolls, PollMonitor, HolderLeaves, HolderActs, ExitLink, LeaveFiber,
         LinkCloses, CloseLink, futuresVars
<1> QED
  BY <1>4, <1>5, <1>6

\* The scheduler and the poller take turns.
LEMMA AlternateStep ==
  ASSUME AsyncTypes, PollInv, SideInv, Alternate
  PROVE  StepOK
<1>1. /\ UNCHANGED <<socketVars, stdinVars, lifecycleVars, waiter, linkVars>>
      /\ UNCHANGED <<program, user, pollVars, moves>>
      /\ turn' \in {"both", "fibers", "poller"}
  BY DEF Alternate, futuresVars
<1>2. OtherThread
  BY <1>1, NothingWakes, TypesOfFutures DEF OtherThread, AsyncTypes
<1>3. LinkTypeOK' /\ UNCHANGED <<toFiber, fromFiber>>
  BY <1>1 DEF AsyncTypes, LinkTypeOK, linkVars
<1> QED
  BY <1>1, <1>2, <1>3, LinkFrame

\* A step of the scheduler that changes no more than who runs and what is due.
LEMMA SchedulerFrame ==
  ASSUME AsyncTypes, SideInv, Class, UNCHANGED <<socketVars, stdinVars, linkVars>>,
         UNCHANGED <<program, waiter, user, blocked, at>>,
         blocked' \ due' \subseteq blocked \ due, turn' \in {"both", "fibers", "poller"}
  PROVE  StepOK
<1>1. SocketsTypeOK' /\ OwnersInv' /\ ConnectInv' /\ PollerInv'
  BY SocketsFrame DEF AsyncTypes, SideInv
<1>2. ParkStep
  BY NobodyParks
<1>3. StdinTypeOK' /\ StdinInv'
  BY StdinFrame DEF AsyncTypes, SideInv, StdinInv
<1>4. NotifierInv'
  BY NotifierFrame DEF SideInv, socketVars, stdinVars, linkVars
<1>5. LinkTypeOK'
  BY DEF AsyncTypes, LinkTypeOK, linkVars
<1> QED
  BY <1>1, <1>2, <1>3, <1>4, <1>5 DEF StepOK, SideInv, OtherTypes

\* Fibers are spawned, run, suspended or rescheduled.
LEMMA SchedulerStep ==
  ASSUME AsyncTypes, PollInv, SideInv, NEW t \in Tasks,
         \/ SpawnFiber(t) \/ (RunFiber(t) /\ ~ noticed)
         \/ FiberNotReady(t) /\ UNCHANGED <<socketVars, stdinVars, linkVars>>
            /\ turn' \in {"both", "fibers", "poller"}
  PROVE  StepOK
<1>1. CASE SpawnFiber(t)
  <2>1. /\ Class /\ UNCHANGED <<socketVars, stdinVars, linkVars, turn>>
        /\ UNCHANGED <<program, waiter, user, blocked, due, at>>
    BY <1>1 DEF SpawnFiber, Class, futuresVars, pollVars
  <2> QED
    BY <2>1, SchedulerFrame DEF AsyncTypes
<1>2. CASE RunFiber(t) /\ ~ noticed
  <2>1. StartPoll(t) /\ UNCHANGED <<socketVars, stdinVars, linkVars, turn>>
    BY <1>2 DEF RunFiber
  <2>2. /\ Class /\ UNCHANGED <<program, waiter, user, blocked, at>> /\ NobodyRuns
    BY <2>1, StartPollEffect DEF Class, AsyncTypes
  <2>3. due = {}
    BY <2>2 DEF PollInv, NobodyRuns
  <2> QED
    BY <2>1, <2>2, <2>3, SchedulerFrame DEF AsyncTypes
<1>3. CASE FiberNotReady(t) /\ UNCHANGED <<socketVars, stdinVars, linkVars>>
           /\ turn' \in {"both", "fibers", "poller"}
  <2>1. Class /\ UNCHANGED <<program, waiter, user, blocked, due, at>>
    BY <1>3, NotReadyEffect DEF Class, AsyncTypes
  <2> QED
    BY <1>3, <2>1, SchedulerFrame
<1> QED
  BY <1>1, <1>2, <1>3

\* All fibers are lost.
LEMMA LoseStep ==
  ASSUME AsyncTypes, PollInv, SideInv, NEW t \in Tasks, RunFiber(t), noticed
  PROVE  StepOK
<1>1. /\ LoseFibers /\ LoseLinks /\ UNCHANGED <<socketVars, stdinVars, turn>>
  BY DEF RunFiber
<1>2. /\ waiter' = [f \in Futures |-> NoTask] /\ user' = [f \in Futures |-> NoTask]
      /\ blocked' = {} /\ UNCHANGED <<program, at>> /\ NobodyRuns
  BY <1>1 DEF LoseFibers
<1>3. at = NoFuture
  BY <1>2 DEF PollInv, NobodyRuns
<1>4. \A f \in Futures : waiter'[f] = NoTask /\ user'[f] = NoTask
  BY <1>2
<1>5. \A s \in Sockets : /\ {Opening(s), Reading(s), Writing(s)} \subseteq Futures
                         /\ at # Opening(s)
  BY <1>3, SocketNames, FuturesAssumption
<1>6. UNCHANGED <<stage, slot, ready, peer, arrivals, poller, noticed>>
  BY <1>1 DEF socketVars
<1>7. OwnersInv'
  BY <1>2, <1>4, <1>5, <1>6 DEF OwnersInv, OwnersAt, SideInv
<1>8. ConnectInv'
  BY <1>4, <1>5, <1>6 DEF ConnectInv, ConnectAt, SideInv
<1>9. PollerInv' /\ SocketsTypeOK'
  BY <1>2, <1>6 DEF PollerInv, SideInv, AsyncTypes, SocketsTypeOK
<1>10. ParkStep
  BY <1>2 DEF ParkStep
<1>11. NotifierInv'
  BY <1>4 DEF NotifierInv
<1>12. StdinTypeOK' /\ StdinInv'
  <2>1. user'[Input] = NoTask /\ Input # NoFuture
    BY <1>4, OtherNames, FuturesAssumption
  <2> QED
    BY <1>1, <1>3, <2>1, StdinFrame DEF SideInv, AsyncTypes, StdinInv
<1>13. LinkTypeOK'
  BY <1>1 DEF LoseLinks, LinkTypeOK, AsyncTypes
<1> QED
  BY <1>1, <1>7, <1>8, <1>9, <1>10, <1>11, <1>12, <1>13
  DEF StepOK, SideInv, OtherTypes, Class, AsyncTypes

\* A future is moved, but none that connects unless that is allowed.
LEMMA MoveStep ==
  ASSUME AsyncTypes, PollInv, SideInv, NEW t \in Tasks, NEW f \in Futures, MoveFuture(f, t)
  PROVE  StepOK
<1>1. /\ f \in SocketFutures /\ (ConnectMoves \/ stage[f[1]] # "connecting")
      /\ user[Input] # t /\ TakeFuture(f, t)
      /\ UNCHANGED <<socketVars, stdinVars, linkVars, turn>>
  BY DEF MoveFuture, MayMove
<1>2. /\ UNCHANGED <<program, waiter, due, at>> /\ at = NoFuture
      /\ user[f] \in Tasks /\ user' = [user EXCEPT ![f] = t]
      /\ blocked' = blocked \ {f}
  BY <1>1 DEF TakeFuture, BetweenCalls
<1>3. /\ \A g \in Futures \ {f} : user'[g] = user[g]
      /\ user[f] # NoTask /\ user'[Input] = user[Input]
  BY <1>1, <1>2, OtherNames, FuturesAssumption DEF AsyncTypes, FuturesTypeOK
<1>4. UNCHANGED <<stage, slot, ready, peer, arrivals, poller, noticed>>
  BY <1>1 DEF socketVars
<1>5. OwnersInv'
  <2>1. \A g \in Futures : user'[g] # NoTask => user[g] # NoTask
    BY <1>3
  <2> QED
    BY <1>2, <1>4, <2>1, SocketNames DEF OwnersInv, OwnersAt, SideInv
<1>6. ConnectInv'
  <2>1. \A s \in Sockets : ~ ConnectMoves /\ stage[s] = "connecting" =>
                             user'[Opening(s)] = user[Opening(s)]
    BY <1>1, <1>3, SocketNames
  <2> QED
    BY <1>2, <1>4, <2>1 DEF ConnectInv, ConnectAt, SideInv
<1>7. PollerInv' /\ SocketsTypeOK'
  BY <1>2, <1>4 DEF PollerInv, SideInv, AsyncTypes, SocketsTypeOK
<1>8. ParkStep
  BY <1>1, <1>2, NobodyParks
<1>9. StdinTypeOK' /\ StdinInv'
  BY <1>1, <1>2, <1>3, StdinFrame DEF SideInv, AsyncTypes, StdinInv
<1>10. NotifierInv'
  BY <1>1, <1>2, NotifierFrame DEF SideInv, socketVars, stdinVars, linkVars
<1>11. LinkTypeOK'
  BY <1>1 DEF LinkTypeOK, AsyncTypes, linkVars
<1>12. Class
  BY <1>1 DEF Class
<1> QED
  BY <1>1, <1>5, <1>6, <1>7, <1>8, <1>9, <1>10, <1>11, <1>12
  DEF StepOK, SideInv, OtherTypes, AsyncTypes

----------------------------------------------------------------------------
(* Polls of what is not a socket's                                          *)

\* The running fiber polls a future of no socket, and is parked on it.
LEMMA PolledElsewhere ==
  ASSUME AsyncTypes, PollInv, SideInv, NEW t \in Tasks,
         NEW f \in Futures \ SocketFutures, Polled(f, t), UNCHANGED socketVars,
         \A c \in SocketFutures : waiter'[c] = waiter[c] /\ user'[c] = user[c],
         ReturnNotReady(f) => f = Input \/ waiter'[f] = t
  PROVE  /\ Class /\ ParkStep
         /\ SocketsTypeOK' /\ OwnersInv' /\ ConnectInv' /\ PollerInv'
<1>1. at \in {f, NoFuture} /\ user[f] = t /\ UNCHANGED program
      /\ \A g \in Futures : user'[g] # user[g] => g \notin blocked'
  BY DEF Polled, Polls
<1>2. SocketsTypeOK' /\ OwnersInv' /\ ConnectInv' /\ PollerInv'
  BY <1>1, SocketsFrame, SocketNames, FuturesAssumption DEF AsyncTypes, SideInv
<1>3. ParkStep
  <2>1. CASE ReturnNotReady(f) /\ f # Input
    <3>1. waiter'[f] = t /\ user'[f] = t
      BY <1>1, <2>1 DEF ReturnNotReady
    <3>2. Behind(f)' = f
      BY SocketNames, BehindFuturesNext
    <3>3. \A g \in blocked' \ due' : g \in blocked \ due \/ g = f
      BY <2>1 DEF ReturnNotReady
    <3>4. \A g : Behind(g)' = Behind(g) /\ (MonitorLost(g) => MonitorLost(g)')
      BY MonitorsFrame DEF socketVars
    <3> QED
      BY <3>1, <3>2, <3>3, <3>4 DEF ParkStep
  <2>2. CASE blocked' \ due' \subseteq (blocked \ due) \cup {Input}
    BY <2>2, NobodyParks
  <2> QED
    BY <2>1, <2>2 DEF Polled, StayIn, ReturnReady, ReturnNotReady
<1> QED
  BY <1>2, <1>3 DEF Class

\* What a read of standard input does to the conversation.
LEMMA PollStdinKeeps ==
  ASSUME StdinTypeOK, StdinInv, NEW t \in Tasks, PollStdin(t)
  PROVE  StdinTypeOK' /\ StdinInv'
<1>1. /\ UNCHANGED <<user, reader, locked, input, typed, eof>>
      /\ user[Input] = t /\ ~ StdinDropped /\ ~ StdinDropped'
  BY FuturesAssumption
  DEF PollStdin, RequestLock, AwaitLock, Spin, Polls, StdinDropped
<1> DEFINE Q == Seq({"lock", "size"})
           R == Seq({"ack", "data", "error"})
<1>2. /\ requests \in Q /\ \A q \in {"lock", "size"} : Append(requests, q) \in Q
      /\ responses \in R /\ (responses # <<>> => Tail(responses) \in R)
  BY DEF StdinTypeOK
<1> HIDE DEF Q, R
<1>3. ASSUME requests' \in Q, responses' \in R, lockRequested' \in BOOLEAN,
             spinning' \in BOOLEAN
      PROVE  StdinTypeOK'
  BY <1>1, <1>3 DEF StdinTypeOK, Q, R
<1>4. lockRequested \in BOOLEAN /\ spinning \in BOOLEAN
  BY DEF StdinTypeOK
<1>5. CASE RequestLock(t)
  <2>1. /\ UNCHANGED <<spinning, responses>> /\ lockRequested' = TRUE
        /\ ~ spinning /\ ~ lockRequested /\ requests' = Append(requests, "lock")
    BY <1>5 DEF RequestLock
  <2>2. requests = <<>> /\ responses = <<>> /\ reader = "lock"
    BY <1>1, <2>1 DEF StdinInv
  <2>3. requests' = <<"lock">>
    BY <2>1, <2>2, OneMessage
  <2>4. StdinInv'
    BY <1>1, <2>1, <2>2, <2>3 DEF StdinInv
  <2> QED
    BY <1>2, <1>3, <1>4, <2>1, <2>4
<1>6. CASE AwaitLock(t) /\ responses = <<>>
  <2>1. UNCHANGED <<lockRequested, requests, responses, spinning>> /\ ~ spinning
    BY <1>6 DEF AwaitLock
  <2>2. StdinInv'
    BY <1>1, <2>1 DEF StdinInv
  <2> QED
    BY <1>2, <1>3, <1>4, <2>1, <2>2
<1>7. CASE AwaitLock(t) /\ responses # <<>>
  <2>1. /\ ~ spinning /\ lockRequested /\ spinning' = TRUE /\ lockRequested' = FALSE
        /\ requests' = Append(requests, "size") /\ responses' = Tail(responses)
        /\ at' = Input
    BY <1>7 DEF AwaitLock, StayIn
  <2>2. requests = <<>> /\ responses = <<"ack">> /\ reader = "read"
    BY <1>1, <1>7, <2>1 DEF StdinInv
  <2>3. requests' = <<"size">> /\ responses' = <<>>
    BY <2>1, <2>2, OneMessage
  <2>4. StdinInv'
    BY <1>1, <2>1, <2>2, <2>3 DEF StdinInv
  <2> QED
    BY <1>2, <1>3, <1>7, <2>1, <2>4
<1>8. CASE Spin(t) /\ UNCHANGED <<spinning, responses>> /\ at' = Input
  <2>1. UNCHANGED <<lockRequested, requests>>
    BY <1>8 DEF Spin
  <2>2. StdinInv'
    BY <1>1, <1>8, <2>1 DEF StdinInv
  <2> QED
    BY <1>2, <1>3, <1>4, <1>8, <2>1, <2>2
<1>9. CASE Spin(t) /\ spinning' = FALSE
  <2>1. /\ UNCHANGED <<lockRequested, requests>> /\ spinning
        /\ responses # <<>> \/ reader = "gone"
        /\ responses' = IF responses = <<>> THEN responses ELSE Tail(responses)
    BY <1>9, OneMessage DEF Spin, StdinTypeOK
  <2>2. /\ ~ lockRequested /\ requests = <<>> /\ reader = "lock"
        /\ responses = <<"data">> \/ responses = <<"error">>
    BY <2>1 DEF StdinInv
  <2>3. responses' = <<>>
    BY <2>1, <2>2, OneMessage
  <2>4. StdinInv'
    BY <1>1, <1>9, <2>1, <2>2, <2>3 DEF StdinInv
  <2> QED
    BY <1>2, <1>3, <1>4, <1>9, <2>1, <2>4
<1>10. Spin(t) => /\ UNCHANGED <<spinning, responses>> /\ at' = Input
                  \/ spinning' = FALSE
  BY DEF Spin, StayIn
<1> QED
  BY <1>5, <1>6, <1>7, <1>8, <1>9, <1>10 DEF PollStdin

\* Standard input is read.
LEMMA PollStdinStep ==
  ASSUME AsyncTypes, PollInv, SideInv, NEW t \in Tasks, PollStdin(t),
         UNCHANGED <<socketVars, linkVars, turn>>
  PROVE  StepOK
<1>1. Input \in Futures \ SocketFutures /\ LifeTypes
  BY OtherNames, TypesOfFutures DEF AsyncTypes
<1>2. /\ Polls(Input, t) /\ UNCHANGED <<program, user, moves>>
      /\ StayIn(Input) \/ ReturnNotReady(Input) \/ ReturnReady(Input)
  BY DEF PollStdin, RequestLock, AwaitLock, Spin
<1>3. \/ UNCHANGED <<lifecycleVars, waiter>> /\ (responses' = responses \/ responses # <<>>)
      \/ Await(Input, t) /\ responses = <<>> /\ responses' = <<>>
  <2>1. CASE RequestLock(t)
    BY <2>1 DEF RequestLock
  <2>2. CASE AwaitLock(t)
    BY <2>2 DEF AwaitLock
  <2>3. CASE Spin(t)
    BY <2>3 DEF Spin
  <2> QED
    BY <2>1, <2>2, <2>3 DEF PollStdin
<1>4. /\ Wakes(t) /\ \A c \in Futures \ {Input} : waiter'[c] = waiter[c]
      /\ \/ waiter'[Input] = waiter[Input] /\ (responses' = responses \/ responses # <<>>)
         \/ responses' = <<>>
  <2>1. CASE /\ UNCHANGED <<lifecycleVars, waiter>>
             /\ responses' = responses \/ responses # <<>>
    BY <1>1, <2>1, NothingWakes
  <2>2. CASE Await(Input, t) /\ responses' = <<>>
    BY <1>1, <2>2, AwaitWakes
  <2> QED
    BY <1>3, <2>1, <2>2
<1>5. Polled(Input, t)
  BY <1>2, <1>4 DEF Polled, AsyncTypes, FuturesTypeOK
<1>6. \A c \in SocketFutures : waiter'[c] = waiter[c] /\ user'[c] = user[c]
  BY <1>1, <1>2, <1>4, SocketNames
<1>7. /\ Class /\ ParkStep /\ SocketsTypeOK' /\ OwnersInv' /\ ConnectInv' /\ PollerInv'
  BY <1>1, <1>5, <1>6, PolledElsewhere
<1>8. StdinTypeOK' /\ StdinInv'
  BY PollStdinKeeps DEF AsyncTypes, SideInv
<1>9. UNCHANGED <<slot, toFiber, fromFiber, holder>>
  BY DEF socketVars, linkVars
<1>10. LinkTypeOK'
  BY <1>9 DEF AsyncTypes, LinkTypeOK
<1>11. NotifierInv'
  <2>1. waiter'[Input] # NoTask => responses' = <<>>
    BY <1>1, <1>4 DEF SideInv, NotifierInv, Unanswered
  <2> QED
    BY <1>4, <1>9, <2>1, OtherNames DEF SideInv, NotifierInv, Unanswered
<1> QED
  BY <1>7, <1>8, <1>10, <1>11 DEF StepOK, SideInv, OtherTypes, AsyncTypes

\* A link or an exit is polled.
LEMMA PollLinkStep ==
  ASSUME AsyncTypes, PollInv, SideInv, NEW t \in Tasks,
         PollLink(t) \/ \E u \in Tasks : PollExit(u, t),
         UNCHANGED <<socketVars, stdinVars, turn>>
  PROVE  StepOK
<1>1. LifeTypes
  BY TypesOfFutures DEF AsyncTypes
<1> DEFINE Others(f) == /\ \A c \in Futures \ {f} : waiter'[c] = waiter[c] /\ user'[c] = user[c]
                        /\ f \in Futures \ (SocketFutures \cup {Input})
<1>2. ASSUME NEW f, Others(f), Polled(f, t), ReturnNotReady(f) => waiter'[f] = t,
             LinkTypeOK', NotifierInv'
      PROVE  StepOK
  <2>1. /\ \A c \in SocketFutures : waiter'[c] = waiter[c] /\ user'[c] = user[c]
        /\ user'[Input] = user[Input]
    BY <1>2, SocketNames, OtherNames
  <2>2. /\ Class /\ ParkStep /\ SocketsTypeOK' /\ OwnersInv' /\ ConnectInv' /\ PollerInv'
    BY <1>2, <2>1, PolledElsewhere
  <2>3. ~ spinning
    BY <1>2, OtherNames, FuturesAssumption DEF SideInv, StdinInv, Polled, Polls
  <2>4. StdinTypeOK' /\ StdinInv'
    BY <2>1, <2>3, StdinFrame DEF SideInv, AsyncTypes
  <2> QED
    BY <1>2, <2>2, <2>4 DEF StepOK, SideInv, OtherTypes, AsyncTypes
<1> HIDE DEF Others
<1>3. UNCHANGED <<slot, responses>>
  BY DEF socketVars, stdinVars
<1>4. CASE PollLink(t)
  <2> DEFINE f == Link(t)
  <2>1. /\ Polls(f, t) /\ ~ LinkDisconnects(t) /\ Await(f, t) /\ ReturnNotReady(f)
        /\ UNCHANGED <<program, user, moves, toFiber, fromFiber, holder>>
    BY <1>4 DEF PollLink, linkVars
  <2>2. /\ f \in Futures \ (SocketFutures \cup {Input})
        /\ \A u \in Tasks : f # Exit(u) /\ (f = Link(u) => u = t)
    BY OtherNames
  <2> HIDE DEF f
  <2>3. Wakes(t) /\ waiter'[f] = t /\ \A c \in Futures \ {f} : waiter'[c] = waiter[c]
    BY <1>1, <2>1, <2>2, AwaitWakes
  <2>4. Others(f)
    BY <2>1, <2>2, <2>3 DEF Others
  <2>5. Polled(f, t)
    BY <2>1, <2>2, <2>3 DEF Polled, AsyncTypes, FuturesTypeOK
  <2>6. NotifierInv'
    BY <1>3, <2>1, <2>2, <2>3 DEF SideInv, NotifierInv, Unanswered, LinkDisconnects
  <2>7. LinkTypeOK'
    BY <2>1 DEF LinkTypeOK, AsyncTypes
  <2> QED
    BY <1>2, <2>3, <2>4, <2>5, <2>6, <2>7
<1>5. ASSUME NEW u \in Tasks, PollExit(u, t) PROVE StepOK
  <2> DEFINE f == Exit(u)
  <2>1. /\ f \in Futures \ (SocketFutures \cup {Input})
        /\ \A v \in Tasks : f # Link(v) /\ (f = Exit(v) => v = u)
    BY OtherNames
  <2>2. Polls(f, t) /\ UNCHANGED <<program, moves, toFiber, fromFiber>>
    BY <1>5 DEF PollExit
  <2>3. CASE fromFiber[u] = "empty"
    <3>1. Await(f, t) /\ ReturnNotReady(f) /\ UNCHANGED <<user, holder>>
      BY <1>5, <2>3 DEF PollExit
    <3> HIDE DEF f
    <3>2. Wakes(t) /\ waiter'[f] = t /\ \A c \in Futures \ {f} : waiter'[c] = waiter[c]
      BY <1>1, <2>1, <3>1, AwaitWakes
    <3>3. Others(f)
      BY <2>1, <3>1, <3>2 DEF Others
    <3>4. Polled(f, t)
      BY <2>1, <2>2, <3>1, <3>2 DEF Polled, AsyncTypes, FuturesTypeOK
    <3>5. NotifierInv'
      BY <1>3, <2>1, <2>2, <2>3, <3>2 DEF SideInv, NotifierInv, Unanswered
    <3>6. LinkTypeOK'
      BY <2>2, <3>1 DEF LinkTypeOK, AsyncTypes
    <3> QED
      BY <1>2, <3>2, <3>3, <3>4, <3>5, <3>6
  <2>4. CASE fromFiber[u] # "empty"
    <3>1. /\ ReturnReady(f) /\ user' = [user EXCEPT ![f] = NoTask] /\ Notify(f)
          /\ \E h \in {"result", "aborted"} : holder' = [holder EXCEPT ![u] = h]
      BY <1>5, <2>4 DEF PollExit
    <3>2. LinkTypeOK'
      BY <2>2, <3>1 DEF LinkTypeOK, AsyncTypes
    <3> HIDE DEF f
    <3>3. /\ Wakes(t) /\ waiter'[f] = NoTask
          /\ \A c \in Futures \ {f} : waiter'[c] = waiter[c]
      BY <1>1, <2>1, <3>1, NotifyWakes
    <3>4. /\ user' \in [Futures -> Tasks \cup {NoTask}] /\ user'[f] = NoTask
          /\ \A c \in Futures \ {f} : user'[c] = user[c]
      BY <2>1, <3>1 DEF AsyncTypes, FuturesTypeOK
    <3>5. Others(f)
      BY <2>1, <3>3, <3>4 DEF Others
    <3>6. f \notin blocked' /\ f # at'
      BY <2>1, <3>1, FuturesAssumption DEF ReturnReady
    <3>7. Polled(f, t)
      BY <2>1, <2>2, <3>1, <3>3, <3>4, <3>6 DEF Polled
    <3>8. NotifierInv'
      BY <1>3, <2>2, <3>3 DEF SideInv, NotifierInv, Unanswered
    <3>9. ~ ReturnNotReady(f)
      BY <3>6 DEF ReturnNotReady
    <3> QED
      BY <1>2, <3>2, <3>5, <3>7, <3>8, <3>9
  <2> QED
    BY <2>3, <2>4
<1> QED
  BY <1>4, <1>5

----------------------------------------------------------------------------
(* The poller and the world                                                 *)

\* What the world does is seen in the sockets only.
LEMMA WorldStep ==
  ASSUME AsyncTypes, PollInv, SideInv, WorldActs
  PROVE  StepOK
<1>1. /\ UNCHANGED <<lifecycleVars, futuresVars, stage, slot, noticed>>
      /\ UNCHANGED <<stdinVars, linkVars, turn>>
  BY DEF WorldActs, World, GoDown, Connects, Arrives
<1>2. UNCHANGED <<program, waiter, user, blocked, due, at, moves>>
  BY <1>1 DEF futuresVars, pollVars
<1>3. Class
  BY <1>1, <1>2, NothingWakes, TypesOfFutures DEF AsyncTypes, Class, OtherThread, pollVars
<1>4. OwnersInv'
  BY <1>1, <1>2 DEF OwnersInv, OwnersAt, SideInv
<1>5. StdinTypeOK' /\ StdinInv'
  BY <1>1, <1>2, StdinFrame DEF SideInv, AsyncTypes, StdinInv
<1>6. NotifierInv'
  BY <1>1, <1>2, NotifierFrame DEF SideInv, stdinVars, linkVars
<1>7. LinkTypeOK' /\ turn' \in {"both", "fibers", "poller"}
  BY <1>1 DEF AsyncTypes, LinkTypeOK, linkVars
<1>8. poller' = poller \/ poller' = "gone"
  BY DEF WorldActs, World, GoDown, Connects, Arrives
<1>9. ParkStep
  <2>1. \A f : Behind(f)' = Behind(f)
    BY <1>1 DEF Behind
  <2>2. \A f : MonitorLost(f) => MonitorLost(f)'
    BY <1>1, <1>8, <2>1 DEF MonitorLost
  <2> QED
    BY <1>2, <2>1, <2>2 DEF ParkStep
<1>10. PollerInv'
  BY <1>1, <1>8 DEF PollerInv, SideInv
<1>11. ConnectInv' /\ SocketsTypeOK'
  <2>1. CASE GoDown
    <3>1. UNCHANGED <<ready, peer, arrivals>> /\ poller' = "gone"
      BY <2>1 DEF GoDown
    <3> QED
      BY <1>1, <1>2, <3>1 DEF ConnectInv, ConnectAt, SideInv, AsyncTypes, SocketsTypeOK
  <2>2. ASSUME NEW s \in Sockets, Connects(s) PROVE ConnectInv' /\ SocketsTypeOK'
    <3>1. /\ UNCHANGED <<arrivals, poller>>
          /\ ready' \in {ready, ready \cup {Writing(s)}}
          /\ \E p \in {"connected", "refused"} : peer' = [peer EXCEPT ![s] = p]
      BY <2>2 DEF Connects
    <3>2. /\ peer'[s] # "pending"
          /\ peer' \in [Sockets -> {"pending", "connected", "refused"}]
          /\ \A r \in Sockets \ {s} : /\ peer'[r] = peer[r]
                                      /\ Writing(r) \in ready' => Writing(r) \in ready
      BY <3>1, SocketNames DEF AsyncTypes, SocketsTypeOK
    <3>3. ConnectInv'
      BY <1>1, <1>2, <3>2 DEF ConnectInv, ConnectAt, SideInv
    <3>4. SocketsTypeOK'
      BY <1>1, <1>2, <3>1, <3>2, SocketNames DEF AsyncTypes, SocketsTypeOK
    <3> QED
      BY <3>3, <3>4
  <2>3. ASSUME NEW e \in SocketEnds, Arrives(e) PROVE ConnectInv' /\ SocketsTypeOK'
    <3>1. /\ UNCHANGED <<peer, poller>> /\ ready' = ready \cup {e} /\ stage[e[1]] = "open"
          /\ arrivals < program.arrivals /\ arrivals' = arrivals + 1
      BY <2>3 DEF Arrives
    <3>2. program.arrivals \in Nat
      BY FuturesAssumption DEF AsyncTypes, FuturesTypeOK
    <3>3. arrivals' \in 0 .. program'.arrivals
      BY <1>2, <3>1, <3>2 DEF AsyncTypes, SocketsTypeOK
    <3>4. \A s \in Sockets : stage[s] # "open" => Writing(s) # e
      BY <3>1, SocketNames
    <3>5. ConnectInv'
      BY <1>1, <1>2, <3>1, <3>4 DEF ConnectInv, ConnectAt, SideInv
    <3>6. SocketsTypeOK'
      BY <1>1, <3>1, <3>3 DEF AsyncTypes, SocketsTypeOK
    <3> QED
      BY <3>5, <3>6
  <2> QED
    BY <2>1, <2>2, <2>3 DEF WorldActs, World
<1> QED
  BY <1>3, <1>4, <1>5, <1>6, <1>7, <1>9, <1>10, <1>11 DEF StepOK, SideInv, OtherTypes

\* A channel's state goes on, and if it had somebody in its Notifier, it is either
\* emptied or remains unanswered.
LEMMA ChannelFrame ==
  ASSUME AsyncTypes, PollInv, SideInv, NEW c \in SocketFutures,
         NEW v \in {"ready", "closing", "closed"},
         UNCHANGED <<program, user, pollVars, moves, stage, ready, peer, arrivals, poller, noticed>>,
         UNCHANGED <<stdinVars, linkVars, turn>>,
         slot' = [slot EXCEPT ![c] = v], slot[c] \in {"waiting", "closing"},
         v = "ready" => Answerable(c), v # "ready" => poller = "gone",
         Notify(c) \/ (v = "closed" /\ UNCHANGED <<lifecycleVars, waiter>>)
  PROVE  StepOK
<1>1. UNCHANGED <<blocked, due, at>>
  BY DEF pollVars
<1>2. LifeTypes /\ c \in Futures
  BY TypesOfFutures, SocketNames DEF AsyncTypes
<1>3. /\ Wakes(NoTask) /\ \A d \in Futures \ {c} : waiter'[d] = waiter[d]
      /\ waiter'[c] = NoTask \/ v = "closed"
      /\ waiter'[c] \in {waiter[c], NoTask}
  <2>1. CASE Notify(c)
    BY <1>2, <2>1, NotifyWakes
  <2>2. CASE v = "closed" /\ UNCHANGED <<lifecycleVars, waiter>>
    BY <1>2, <2>2, NothingWakes
  <2> QED
    BY <2>1, <2>2
<1>4. slot'[c] = v /\ \A d \in SocketFutures \ {c} : slot'[d] = slot[d]
  BY DEF AsyncTypes, SocketsTypeOK
<1>5. Class
  BY <1>3 DEF Class, OtherThread
<1>6. ParkStep
  <2>1. \A f : Behind(f)' = Behind(f)
    BY DEF Behind
  <2>2. ASSUME NEW f, MonitorLost(f) PROVE MonitorLost(f)'
    <3>1. PICK s \in Sockets : f = Opening(s) /\ stage[s] = "connecting"
      BY <2>2 DEF MonitorLost
    <3>2. Behind(f) \in SocketFutures
      BY <3>1, BehindFutures, SocketNames
    <3>3. v # "ready"
      BY <2>2 DEF MonitorLost, Answerable
    <3>4. slot'[Behind(f)'] \in {"none", "closing", "closed"}
      BY <1>4, <2>1, <2>2, <3>2, <3>3 DEF MonitorLost
    <3> QED
      BY <2>2, <3>4 DEF MonitorLost
  <2> QED
    BY <1>1, <2>1, <2>2 DEF ParkStep
<1>7. OwnersInv'
  BY <1>1 DEF OwnersInv, OwnersAt, SideInv
<1>8. StdinTypeOK' /\ StdinInv'
  BY <1>1, StdinFrame DEF SideInv, AsyncTypes, StdinInv
<1>9. NotifierInv'
  <2>1. UNCHANGED <<responses, toFiber, fromFiber>>
    BY DEF stdinVars, linkVars
  <2> QED
    BY <1>3, <1>4, <2>1, OtherNames DEF SideInv, NotifierInv, Unanswered
<1>10. LinkTypeOK' /\ turn' \in {"both", "fibers", "poller"}
  BY DEF AsyncTypes, LinkTypeOK, linkVars
<1>11. PollerInv'
  BY <1>4 DEF PollerInv, SideInv
<1>12. SocketsTypeOK'
  BY DEF AsyncTypes, SocketsTypeOK
<1>13. ConnectInv'
  <2> SUFFICES ASSUME NEW s \in Sockets PROVE ConnectAt(s)'
    BY DEF ConnectInv
  <2>1. ConnectAt(s)
    BY DEF SideInv, ConnectInv
  <2>2. Writing(s) \in SocketFutures /\ Writing(s) \in Futures /\ Writing(s) \in SocketEnds
        /\ Writing(s)[1] = s
    BY SocketNames
  <2>3. CASE Writing(s) # c
    BY <1>3, <1>4, <2>1, <2>2, <2>3 DEF ConnectAt
  <2>4. CASE Writing(s) = c
    <3>1. v = "ready" => c \in ready \/ peer[s] = "refused"
      BY <2>2, <2>4 DEF Answerable
    <3> QED
      BY <1>4, <2>1, <2>4, <3>1 DEF ConnectAt
  <2> QED
    BY <2>3, <2>4
<1> QED
  BY <1>5, <1>6, <1>7, <1>8, <1>9, <1>10, <1>11, <1>12, <1>13
  DEF StepOK, SideInv, OtherTypes

\* The poller answers, or drops what it has.
LEMMA PollerStep ==
  ASSUME AsyncTypes, PollInv, SideInv, PollerAnswers \/ PollerDrops
  PROVE  StepOK
<1>1. ASSUME NEW c \in SocketFutures, Answer(c), UNCHANGED <<stdinVars, linkVars, turn>>
      PROVE  StepOK
  <2>1. /\ Answerable(c) /\ slot' = [slot EXCEPT ![c] = "ready"] /\ Notify(c)
        /\ slot[c] = "waiting"
        /\ UNCHANGED <<program, user, pollVars, moves>>
        /\ UNCHANGED <<stage, ready, peer, arrivals, poller, noticed>>
    BY <1>1 DEF Answer, Answerable
  <2> QED
    BY <1>1, <2>1, ChannelFrame
<1>2. ASSUME NEW c \in SocketFutures, DropSender(c), UNCHANGED <<stdinVars, linkVars, turn>>
      PROVE  StepOK
  <2>1. /\ poller = "gone" /\ slot[c] \in {"waiting", "closing"}
        /\ UNCHANGED <<program, user, pollVars, moves>>
        /\ UNCHANGED <<stage, ready, peer, arrivals, poller, noticed>>
        /\ \/ slot' = [slot EXCEPT ![c] = "closing"] /\ Notify(c)
           \/ slot' = [slot EXCEPT ![c] = "closed"] /\ UNCHANGED <<lifecycleVars, waiter>>
    BY <1>2 DEF DropSender
  <2> QED
    BY <1>2, <2>1, ChannelFrame
<1> QED
  BY <1>1, <1>2 DEF PollerAnswers, PollerDrops

----------------------------------------------------------------------------
(* Polls of sockets                                                         *)

Own(s) == {Opening(s), Reading(s), Writing(s)}

\* Another socket is left alone, or a connection that was accepted is registered.
LeavesAlone(r) ==
  /\ \A c \in Own(r) \ {Opening(r)} :
       slot'[c] = slot[c] /\ user'[c] = user[c] /\ waiter'[c] = waiter[c]
  /\ Writing(r) \in ready' => Writing(r) \in ready
  /\ waiter'[Opening(r)] = waiter[Opening(r)]
  /\ \/ stage'[r] = stage[r] /\ user'[Opening(r)] = user[Opening(r)]
        /\ slot'[Opening(r)] = slot[Opening(r)]
     \/ /\ stage[r] = "none" /\ stage'[r] = "registering"
        /\ slot'[Opening(r)] \in {"waiting", "closed"}

\* The running fiber polls a future f of the socket s.  What is to be shown is that
\* s is as it should be then, that what is in a Notifier is unanswered, and that
\* the fiber is parked on f if that was not ready.
LEMMA SocketPolled ==
  ASSUME AsyncTypes, PollInv, SideInv, NEW t \in Tasks, NEW s \in Sockets, NEW f \in Own(s),
         Polled(f, t), UNCHANGED <<stdinVars, linkVars, turn, peer, poller>>,
         SocketsTypeOK', PollerInv', OwnersAt(s)', ConnectAt(s)',
         \A r \in Sockets \ {s} : LeavesAlone(r),
         \A c \in Futures \ SocketFutures : waiter'[c] = waiter[c],
         \A c \in Own(s) :
           \/ waiter'[c] = NoTask \/ slot'[c] \in {"waiting", "closing", "closed"}
           \/ waiter'[c] = waiter[c] /\ slot'[c] = slot[c],
         f # Opening(s) => stage[s] = "open" /\ stage'[s] = "open",
         ~ ConnectMoves /\ ReturnNotReady(f) =>
           waiter'[Behind(f)'] = t \/ MonitorLost(f)'
  PROVE  StepOK
<1>2. f \in SocketFutures /\ f \in Futures /\ f # Input /\ f # NoFuture
  BY SocketNames, OtherNames, FuturesAssumption DEF Own
<1>1. /\ at \in {f, NoFuture} /\ user[f] = t /\ UNCHANGED <<program, moves>>
      /\ status[t] = "running"
      /\ StayIn(f) \/ ReturnNotReady(f) \/ ReturnReady(f)
      /\ f \in blocked => f \in due
      /\ \A g \in Futures : user'[g] # user[g] => g \notin blocked' \cup {Input}
  BY <1>2 DEF Polled, Polls, PollInv
<1>3. ASSUME NEW r \in Sockets \ {s} PROVE OwnersAt(r)'
  <2>1. /\ user'[Reading(r)] = user[Reading(r)] /\ user'[Writing(r)] = user[Writing(r)]
    BY SocketNames DEF LeavesAlone, Own
  <2>2. OwnersAt(r)
    BY DEF SideInv, OwnersInv
  <2>3. at # Opening(r)
    BY <1>1, <1>2, SocketNames, FuturesAssumption DEF Own
  <2>4. \/ stage'[r] = stage[r] /\ user'[Opening(r)] = user[Opening(r)]
        \/ stage[r] = "none" /\ stage'[r] = "registering"
    BY DEF LeavesAlone
  <2> QED
    BY <2>1, <2>2, <2>3, <2>4 DEF OwnersAt
<1>4. OwnersInv'
  BY <1>3 DEF OwnersInv
<1>5. ASSUME NEW r \in Sockets \ {s} PROVE ConnectAt(r)'
  <2>1. /\ slot'[Writing(r)] = slot[Writing(r)] /\ waiter'[Writing(r)] = waiter[Writing(r)]
        /\ Writing(r) \in ready' => Writing(r) \in ready
    BY SocketNames DEF LeavesAlone, Own
  <2>2. ConnectAt(r)
    BY DEF SideInv, ConnectInv
  <2>3. \/ stage'[r] = stage[r] /\ user'[Opening(r)] = user[Opening(r)]
        \/ stage[r] = "none" /\ stage'[r] = "registering"
    BY DEF LeavesAlone
  <2> QED
    BY <2>1, <2>2, <2>3 DEF ConnectAt
<1>6. ConnectInv'
  BY <1>5 DEF ConnectInv
<1>7. NotifierInv'
  <2>1. UNCHANGED <<responses, toFiber, fromFiber>>
    BY DEF stdinVars, linkVars
  <2>2. ASSUME NEW c \in SocketFutures, waiter'[c] # NoTask
        PROVE  slot'[c] \in {"waiting", "closing", "closed"}
    <3>1. waiter[c] # NoTask => slot[c] \in {"waiting", "closing", "closed"}
      BY <2>2, SocketNames DEF SideInv, NotifierInv, Unanswered
    <3>2. PICK r \in Sockets : c \in Own(r)
      BY SocketNames DEF Own
    <3>3. CASE r = s
      BY <2>2, <3>1, <3>2, <3>3
    <3>4. CASE r # s
      <4>1. waiter'[c] = waiter[c] /\ slot'[c] \in {slot[c], "waiting", "closed"}
        BY <3>2, <3>4 DEF LeavesAlone, Own
      <4> QED
        BY <2>2, <3>1, <4>1
    <3> QED
      BY <3>3, <3>4
  <2> QED
    BY <2>1, <2>2, OtherNames, SocketNames DEF SideInv, NotifierInv, Unanswered
<1>8. StdinTypeOK' /\ StdinInv'
  <2>1. ~ spinning /\ user'[Input] = user[Input]
    BY <1>1, <1>2, OtherNames, FuturesAssumption DEF SideInv, StdinInv
  <2> QED
    BY <2>1, StdinFrame DEF SideInv, AsyncTypes
<1>9. LinkTypeOK' /\ turn' \in {"both", "fibers", "poller"}
  BY DEF AsyncTypes, LinkTypeOK, linkVars
<1>10. ParkStep
  <2> SUFFICES ASSUME NEW g \in (blocked' \ due') \ {Input}
               PROVE  IF g \in blocked \ due
                        THEN Behind(g)' = Behind(g) /\ (MonitorLost(g) => MonitorLost(g)')
                        ELSE ~ ConnectMoves => \/ waiter'[Behind(g)'] = user'[g]
                                               \/ MonitorLost(g)'
    BY DEF ParkStep
  <2>1. CASE g \notin blocked \ due
    <3>1. ReturnNotReady(f) /\ g = f
      BY <1>1, <2>1 DEF StayIn, ReturnNotReady, ReturnReady
    <3>2. user'[g] = t
      BY <1>1, <1>2, <3>1
    <3> QED
      BY <2>1, <3>1, <3>2
  <2>2. CASE g \in blocked \ due
    <3>1. g # f
      BY <1>1, <2>2
    <3>2. ASSUME \A r \in Sockets : g # Opening(r)
          PROVE  Behind(g)' = Behind(g) /\ ~ MonitorLost(g)
      BY <3>2, BehindFutures, BehindFuturesNext DEF MonitorLost
    <3>3. ASSUME NEW r \in Sockets \ {s}, g = Opening(r)
          PROVE  Behind(g)' = Behind(g) /\ (MonitorLost(g) => MonitorLost(g)')
      <4>1. stage'[r] = "connecting" <=> stage[r] = "connecting"
        BY DEF LeavesAlone
      <4>2. slot'[Writing(r)] = slot[Writing(r)]
        BY SocketNames DEF LeavesAlone, Own
      <4>3. Behind(g)' = Behind(g)
        BY <3>3, <4>1, BehindFutures, BehindFuturesNext
      <4>4. ASSUME MonitorLost(g) PROVE MonitorLost(g)'
        <5>1. poller = "gone" /\ stage[r] = "connecting"
          BY <3>3, <4>4, SocketNames DEF MonitorLost
        <5>2. Behind(g) = Writing(r)
          BY <3>3, <5>1, BehindFutures
        <5> QED
          BY <3>3, <4>1, <4>2, <4>3, <4>4, <5>1, <5>2 DEF MonitorLost
      <4> QED
        BY <4>3, <4>4
    <3>4. ASSUME g = Opening(s)
          PROVE  Behind(g)' = Behind(g) /\ ~ MonitorLost(g)
      <4>1. stage[s] = "open" /\ stage'[s] = "open"
        BY <3>1, <3>4
      <4>2. ~ MonitorLost(g)
        BY <3>4, <4>1, SocketNames DEF MonitorLost
      <4> QED
        BY <3>4, <4>1, <4>2, BehindFutures, BehindFuturesNext
    <3> QED
      BY <2>2, <3>2, <3>3, <3>4
  <2> QED
    BY <2>1, <2>2
<1>11. Class
  BY <1>2 DEF Class
<1> QED
  BY <1>4, <1>6, <1>7, <1>8, <1>9, <1>10, <1>11 DEF StepOK, SideInv, OtherTypes

\* A new channel is waited for, unless the poller is gone.
LEMMA RequestedSlots ==
  ASSUME SocketsTypeOK, NEW c \in SocketFutures
  PROVE  /\ Requested(c, slot) \in
              [SocketFutures -> {"none", "waiting", "ready", "spent", "closing", "closed"}]
         /\ Requested(c, slot)[c] \in {"waiting", "closed"}
         /\ Requested(c, slot)[c] = "closed" => poller = "gone"
         /\ \A d \in SocketFutures \ {c} : Requested(c, slot)[d] = slot[d]
BY DEF SocketsTypeOK, Requested

\* What becomes of an opened socket.
LEMMA OpenedEffect ==
  ASSUME AsyncTypes, NEW s \in Sockets, NEW t \in Tasks, Opened(s, t)
  PROVE  /\ stage' = [stage EXCEPT ![s] = "open"] /\ ReturnReady(Opening(s))
         /\ user' \in [Futures -> Tasks \cup {NoTask}] /\ user'[Opening(s)] = NoTask
         /\ user'[Reading(s)] = t /\ user'[Writing(s)] \in {t, NoTask}
         /\ \A c \in Futures \ Own(s) : user'[c] = user[c]
         /\ ready' \subseteq ready \cup {Writing(s)}
<1>1. /\ Opening(s) \in Futures /\ Reading(s) \in Futures /\ Writing(s) \in Futures
      /\ Opening(s) # Reading(s) /\ Opening(s) # Writing(s) /\ Reading(s) # Writing(s)
  BY SocketNames
<1>2. \E w \in {t, NoTask} :
        user' = [user EXCEPT ![Opening(s)] = NoTask, ![Reading(s)] = t, ![Writing(s)] = w]
  BY DEF Opened
<1>3. /\ user' \in [Futures -> Tasks \cup {NoTask}] /\ user'[Opening(s)] = NoTask
      /\ user'[Reading(s)] = t /\ user'[Writing(s)] \in {t, NoTask}
      /\ \A c \in Futures \ Own(s) : user'[c] = user[c]
  BY <1>1, <1>2 DEF AsyncTypes, FuturesTypeOK, Own
<1> QED
  BY <1>3 DEF Opened

\* What becomes of one that could not be opened.
LEMMA FailedEffect ==
  ASSUME AsyncTypes, NEW s \in Sockets, Failed(s)
  PROVE  /\ stage' = [stage EXCEPT ![s] = "gone"] /\ ReturnReady(Opening(s))
         /\ user' \in [Futures -> Tasks \cup {NoTask}] /\ user'[Opening(s)] = NoTask
         /\ \A c \in Futures \ {Opening(s)} : user'[c] = user[c]
         /\ ready' = ready
BY SocketNames DEF Failed, AsyncTypes, FuturesTypeOK

Stages == {"none", "new", "registering", "connecting", "starting", "open", "gone"}
Slots == [SocketFutures -> {"none", "waiting", "ready", "spent", "closing", "closed"}]
OpeningStages == {"new", "registering", "connecting", "starting"}

\* The running fiber polls the future that opens s, which goes on, is open or is gone.
LEMMA OpeningPolled ==
  ASSUME AsyncTypes, PollInv, SideInv, NEW t \in Tasks, NEW s \in Sockets,
         NEW x \in Stages \ {"none", "new"}, stage[s] \in OpeningStages,
         Polls(Opening(s), t), Wakes(t),
         UNCHANGED <<program, moves, stdinVars, linkVars, turn, peer, arrivals, poller>>,
         stage' = [stage EXCEPT ![s] = x], slot' \in Slots, noticed' \in BOOLEAN,
         \A c \in Futures \ Own(s) : waiter'[c] = waiter[c],
         \A c \in SocketFutures \ Own(s) : slot'[c] = slot[c],
         \A c \in Own(s) :
           /\ \/ waiter'[c] = NoTask \/ slot'[c] \in {"waiting", "closing", "closed"}
              \/ waiter'[c] = waiter[c] /\ slot'[c] = slot[c]
           /\ slot'[c] \in {"closing", "closed"} => slot'[c] = slot[c] \/ poller = "gone",
         \/ /\ x \in OpeningStages /\ user' = user /\ ready' = ready
            /\ StayIn(Opening(s)) \/ (ReturnNotReady(Opening(s)) /\ x # "starting")
         \/ x = "open" /\ Opened(s, t)
         \/ x = "gone" /\ Failed(s),
         ConnectAt(s)',
         ~ ConnectMoves /\ ReturnNotReady(Opening(s)) =>
           waiter'[Behind(Opening(s))'] = t \/ MonitorLost(Opening(s))'
  PROVE  StepOK
<1> DEFINE f == Opening(s)
<1>1. f \in SocketFutures /\ f \in Futures /\ f # Input /\ f \in Own(s)
  BY SocketNames, OtherNames DEF Own
<1>2. stage'[s] = x /\ (\A r \in Sockets \ {s} : stage'[r] = stage[r])
      /\ stage' \in [Sockets -> Stages]
  BY DEF AsyncTypes, SocketsTypeOK, Stages
<1>3. /\ user[Reading(s)] = NoTask /\ user[Writing(s)] = NoTask
      /\ Reading(s) \notin blocked /\ Writing(s) \notin blocked
  <2>1. OwnersAt(s)
    BY DEF SideInv, OwnersInv
  <2>2. user[Reading(s)] = NoTask /\ user[Writing(s)] = NoTask
    BY <2>1 DEF OwnersAt, OpeningStages
  <2> QED
    BY <2>2, FuturesAssumption DEF PollInv
<1>4. /\ user' \in [Futures -> Tasks \cup {NoTask}]
      /\ \A c \in Futures \ Own(s) : user'[c] = user[c]
      /\ ready' \subseteq ready \cup {Writing(s)}
      /\ x \in OpeningStages => user' = user
      /\ x \notin OpeningStages => ReturnReady(f) /\ user'[f] = NoTask
      /\ x = "gone" => user'[Reading(s)] = NoTask /\ user'[Writing(s)] = NoTask
      /\ \A c \in Own(s) : user'[c] # user[c] => user'[c] \in {t, NoTask} /\ ReturnReady(f)
  <2>1. CASE x \in OpeningStages /\ user' = user /\ ready' = ready
    BY <2>1 DEF AsyncTypes, FuturesTypeOK, OpeningStages
  <2>2. CASE x = "open" /\ Opened(s, t)
    BY <2>2, OpenedEffect DEF OpeningStages, Own
  <2>3. CASE x = "gone" /\ Failed(s)
    BY <1>3, <2>3, FailedEffect, SocketNames DEF OpeningStages, Own
  <2> QED
    BY <2>1, <2>2, <2>3
<1>5. Polled(f, t)
  <2>1. \/ StayIn(f) /\ f \in SocketFutures \cup {Input}
        \/ ReturnNotReady(f) \/ ReturnReady(f)
    BY <1>1, <1>4 DEF OpeningStages, Stages
  <2>2. ASSUME NEW g \in Futures, user'[g] # user[g]
        PROVE  g \notin blocked' \cup {at', Input} /\ user'[g] \in {t, NoTask}
    <3>1. g \in Own(s) /\ ReturnReady(f) /\ user'[g] \in {t, NoTask}
      BY <1>4, <2>2
    <3>2. g \notin blocked'
      BY <1>3, <3>1 DEF ReturnReady, Own
    <3>3. g # at' /\ g # Input
      BY <3>1, SocketNames, OtherNames, FuturesAssumption DEF ReturnReady, Own
    <3> QED
      BY <3>1, <3>2, <3>3
  <2> QED
    BY <1>1, <1>4, <2>1, <2>2 DEF Polled
<1>6. SocketsTypeOK'
  <2>1. Writing(s) \in SocketEnds
    BY SocketNames
  <2> QED
    BY <1>2, <1>4, <2>1 DEF AsyncTypes, SocketsTypeOK, Stages, Slots
<1>7. PollerInv'
  <2>1. \A c \in SocketFutures : c \in Own(s) \/ slot'[c] = slot[c]
    OBVIOUS
  <2> QED
    BY <2>1 DEF PollerInv, SideInv
<1>8. OwnersAt(s)'
  <2>1. OwnersAt(s)
    BY DEF SideInv, OwnersInv
  <2>2. x = "starting" => at' = f
    BY DEF StayIn, OpeningStages
  <2>3. CASE x \in OpeningStages
    BY <1>2, <1>3, <1>4, <2>2, <2>3 DEF OwnersAt, OpeningStages
  <2>4. CASE x = "open"
    BY <1>2, <1>4, <2>4 DEF OwnersAt, OpeningStages
  <2>5. CASE x = "gone"
    BY <1>2, <1>4, <2>5 DEF OwnersAt, OpeningStages
  <2> QED
    BY <2>3, <2>4, <2>5 DEF Stages, OpeningStages
<1>9. ASSUME NEW r \in Sockets \ {s} PROVE LeavesAlone(r)
  <2>1. /\ Own(r) \subseteq SocketFutures \ Own(s) /\ Own(r) \subseteq Futures \ Own(s)
        /\ Opening(r) \in Own(r) /\ Writing(r) # Writing(s)
    BY SocketNames DEF Own
  <2>2. \A c \in Own(r) : slot'[c] = slot[c] /\ user'[c] = user[c] /\ waiter'[c] = waiter[c]
    BY <1>4, <2>1
  <2> QED
    BY <1>2, <1>4, <2>1, <2>2 DEF LeavesAlone
<1>10. \A c \in Futures \ SocketFutures : waiter'[c] = waiter[c]
  BY SocketNames DEF Own
<1> HIDE DEF f
<1> QED
  BY <1>1, <1>5, <1>6, <1>7, <1>8, <1>9, <1>10, SocketPolled DEF f

\* A socket is bound, or a connection begun, and a registration requested.
LEMMA OpenSocketStep ==
  ASSUME AsyncTypes, PollInv, SideInv, NEW t \in Tasks, NEW s \in Sockets, OpenSocket(s, t),
         UNCHANGED <<stdinVars, linkVars, turn>>
  PROVE  StepOK
<1> DEFINE f == Opening(s)
<1>1. /\ stage[s] = "new" /\ Polls(f, t)
      /\ UNCHANGED <<lifecycleVars, program, waiter, moves, peer, arrivals, poller>>
      /\ \/ Failed(s) /\ UNCHANGED <<slot, noticed>>
         \/ /\ stage' = [stage EXCEPT ![s] = "registering"]
            /\ slot' = Requested(f, slot) /\ noticed' = (noticed \/ poller = "gone")
            /\ StayIn(f) /\ UNCHANGED <<user, ready>>
  BY DEF OpenSocket
<1>2. Wakes(t)
  BY <1>1, NothingWakes, TypesOfFutures DEF AsyncTypes
<1>3. /\ f \in SocketFutures /\ f \in Own(s) /\ Writing(s) \in SocketFutures /\ Writing(s) # f
      /\ ConnectAt(s)
  BY SocketNames DEF Own, SideInv, ConnectInv
<1>4. stage[s] \in OpeningStages
  BY <1>1 DEF OpeningStages
<1>5. slot \in Slots /\ noticed \in BOOLEAN
  BY DEF AsyncTypes, SocketsTypeOK, Slots
<1>6. CASE Failed(s) /\ UNCHANGED <<slot, noticed>>
  <2>1. stage' = [stage EXCEPT ![s] = "gone"] /\ stage'[s] = "gone"
    BY <1>6 DEF Failed, AsyncTypes, SocketsTypeOK
  <2>2. ConnectAt(s)'
    BY <2>1 DEF ConnectAt
  <2>3. ~ ReturnNotReady(f)
    BY <1>6 DEF Failed, ReturnReady, ReturnNotReady
  <2> HIDE DEF f
  <2> QED
    BY <1>1, <1>2, <1>4, <1>5, <1>6, <2>1, <2>2, <2>3, OpeningPolled DEF Stages, f
<1>7. CASE /\ stage' = [stage EXCEPT ![s] = "registering"]
           /\ slot' = Requested(f, slot) /\ noticed' = (noticed \/ poller = "gone")
           /\ StayIn(f) /\ UNCHANGED <<user, ready>>
  <2>1. /\ slot' \in Slots /\ slot'[f] \in {"waiting", "closed"}
        /\ slot'[f] = "closed" => poller = "gone"
        /\ \A d \in SocketFutures \ {f} : slot'[d] = slot[d]
    BY <1>3, <1>7, RequestedSlots DEF AsyncTypes, Slots
  <2>2. noticed' \in BOOLEAN
    BY <1>5, <1>7
  <2>3. stage'[s] = "registering"
    BY <1>7 DEF AsyncTypes, SocketsTypeOK
  <2>4. ConnectAt(s)'
    BY <1>1, <1>3, <1>7, <2>1, <2>3 DEF ConnectAt
  <2>5. ~ ReturnNotReady(f)
    BY <1>3, <1>7, SocketNames, FuturesAssumption DEF StayIn, ReturnNotReady
  <2>6. Own(s) \subseteq SocketFutures
    BY SocketNames DEF Own
  <2> HIDE DEF f
  <2> QED
    BY <1>1, <1>2, <1>3, <1>4, <1>7, <2>1, <2>2, <2>4, <2>5, <2>6, OpeningPolled
    DEF Stages, OpeningStages, f
<1> QED
  BY <1>1, <1>6, <1>7

\* The registration is waited for, or there is a handle, or none to come.
LEMMA PollRegisterStep ==
  ASSUME AsyncTypes, PollInv, SideInv, NEW t \in Tasks, NEW s \in Sockets,
         PollRegister(s, t), UNCHANGED <<stdinVars, linkVars, turn>>
  PROVE  StepOK
<1> DEFINE f == Opening(s)
<1>1. /\ stage[s] = "registering" /\ Polls(f, t)
      /\ UNCHANGED <<program, moves, peer, arrivals, poller, noticed>>
      /\ \/ /\ slot[f] \in {"waiting", "closing"}
            /\ Await(f, t) /\ ReturnNotReady(f) /\ UNCHANGED <<user, stage, slot, ready>>
         \/ /\ slot[f] = "ready" /\ slot' = [slot EXCEPT ![f] = "none"]
            /\ Registered(s, t) /\ Notify(f)
         \/ /\ slot[f] = "closed" /\ Failed(s) /\ Notify(f) /\ UNCHANGED slot
  BY DEF PollRegister
<1>2. /\ f \in SocketFutures /\ f \in Futures /\ f \in Own(s) /\ Own(s) \subseteq SocketFutures
      /\ Writing(s) \in SocketFutures /\ Writing(s) # f /\ f # NoFuture
  BY SocketNames, FuturesAssumption DEF Own
<1>3. ConnectAt(s) /\ LifeTypes
  BY TypesOfFutures DEF SideInv, ConnectInv, AsyncTypes
<1>4. stage[s] \in OpeningStages
  BY <1>1 DEF OpeningStages
<1>5. slot \in Slots /\ noticed \in BOOLEAN /\ stage \in [Sockets -> Stages]
  BY DEF AsyncTypes, SocketsTypeOK, Slots, Stages
<1>6. CASE /\ slot[f] \in {"waiting", "closing"}
           /\ Await(f, t) /\ ReturnNotReady(f) /\ UNCHANGED <<user, stage, slot, ready>>
  <2>1. Wakes(t) /\ waiter'[f] = t /\ \A d \in Futures \ {f} : waiter'[d] = waiter[d]
    BY <1>2, <1>3, <1>6, AwaitWakes
  <2>2. stage' = [stage EXCEPT ![s] = "registering"] /\ stage'[s] = "registering"
    BY <1>1, <1>5, <1>6
  <2>3. ConnectAt(s)'
    BY <1>1, <1>3, <1>6, <2>2 DEF ConnectAt
  <2>4. Behind(f)' = f
    BY <2>2, BehindFuturesNext
  <2>5. \A c \in Own(s) : \/ slot'[c] \in {"waiting", "closing", "closed"}
                          \/ waiter'[c] = waiter[c] /\ slot'[c] = slot[c]
    BY <1>2, <1>6, <2>1, SocketNames
  <2>6. \A c \in Futures \ Own(s) : waiter'[c] = waiter[c]
    BY <1>2, <2>1
  <2> HIDE DEF f
  <2> QED
    BY <1>1, <1>4, <1>5, <1>6, <2>1, <2>2, <2>3, <2>4, <2>5, <2>6, OpeningPolled
    DEF Stages, OpeningStages, f
<1>7. ASSUME Notify(f)
      PROVE  /\ Wakes(t) /\ waiter'[f] = NoTask
             /\ \A d \in Futures \ {f} : waiter'[d] = waiter[d]
             /\ \A c \in Futures \ Own(s) : waiter'[c] = waiter[c]
  BY <1>2, <1>3, <1>7, NotifyWakes
<1>8. CASE /\ slot[f] = "ready" /\ slot' = [slot EXCEPT ![f] = "none"]
           /\ Registered(s, t) /\ Notify(f)
  <2>1. /\ slot' \in Slots /\ slot'[f] = "none"
        /\ \A d \in SocketFutures \ {f} : slot'[d] = slot[d]
    BY <1>2, <1>5, <1>8 DEF Slots
  <2>2. \A c \in Own(s) :
          /\ waiter'[c] = NoTask \/ (waiter'[c] = waiter[c] /\ slot'[c] = slot[c])
          /\ slot'[c] \in {"closing", "closed"} => slot'[c] = slot[c]
    BY <1>2, <1>7, <1>8, <2>1, SocketNames
  <2>3. CASE /\ stage' = [stage EXCEPT ![s] = "connecting"] /\ StayIn(f)
             /\ UNCHANGED <<user, ready>>
    <3>1. stage'[s] = "connecting"
      BY <1>5, <2>3
    <3>2. ConnectAt(s)'
      BY <1>1, <1>2, <1>3, <2>1, <2>3, <3>1 DEF ConnectAt
    <3>3. ~ ReturnNotReady(f)
      BY <1>2, <2>3 DEF StayIn, ReturnNotReady
    <3> HIDE DEF f
    <3> QED
      BY <1>1, <1>2, <1>4, <1>5, <1>7, <1>8, <2>1, <2>2, <2>3, <3>2, <3>3, OpeningPolled
      DEF Stages, OpeningStages, f
  <2>4. CASE Opened(s, t)
    <3>1. stage' = [stage EXCEPT ![s] = "open"] /\ stage'[s] = "open" /\ ReturnReady(f)
      BY <1>5, <2>4 DEF Opened
    <3>2. ConnectAt(s)'
      BY <3>1 DEF ConnectAt
    <3>3. ~ ReturnNotReady(f)
      BY <3>1 DEF ReturnReady, ReturnNotReady
    <3> HIDE DEF f
    <3> QED
      BY <1>1, <1>2, <1>4, <1>5, <1>7, <1>8, <2>1, <2>2, <2>4, <3>1, <3>2, <3>3, OpeningPolled
      DEF Stages, f
  <2> QED
    BY <1>8, <2>3, <2>4 DEF Registered
<1>9. CASE slot[f] = "closed" /\ Failed(s) /\ Notify(f) /\ UNCHANGED slot
  <2>1. stage' = [stage EXCEPT ![s] = "gone"] /\ stage'[s] = "gone" /\ ReturnReady(f)
    BY <1>5, <1>9 DEF Failed
  <2>2. ConnectAt(s)'
    BY <2>1 DEF ConnectAt
  <2>3. ~ ReturnNotReady(f)
    BY <2>1 DEF ReturnReady, ReturnNotReady
  <2>4. \A c \in Own(s) : waiter'[c] = NoTask \/ (waiter'[c] = waiter[c] /\ slot'[c] = slot[c])
    BY <1>2, <1>7, <1>9, SocketNames
  <2> HIDE DEF f
  <2> QED
    BY <1>1, <1>4, <1>5, <1>7, <1>9, <2>1, <2>2, <2>3, <2>4, OpeningPolled DEF Stages, f
<1> QED
  BY <1>1, <1>6, <1>8, <1>9

\* A connection is asked for its peer.
LEMMA ConnectingStep ==
  ASSUME AsyncTypes, PollInv, SideInv, NEW t \in Tasks, NEW s \in Sockets,
         Connecting(s, t), UNCHANGED <<stdinVars, linkVars, turn>>
  PROVE  StepOK
<1> DEFINE f == Opening(s)
           m == Writing(s)
<1>1. /\ stage[s] = "connecting" /\ Polls(f, t)
      /\ UNCHANGED <<program, moves, peer, arrivals, poller, noticed>>
      /\ \/ Opened(s, t) /\ UNCHANGED <<lifecycleVars, waiter, slot>>
         \/ Failed(s) /\ slot' = [slot EXCEPT ![m] = "none"] /\ Notify(m)
         \/ /\ slot[m] = "none" /\ peer[s] = "pending"
            /\ stage' = [stage EXCEPT ![s] = "starting"]
            /\ slot' = Requested(m, slot) /\ StayIn(f)
            /\ UNCHANGED <<lifecycleVars, waiter, user, ready>>
         \/ /\ peer[s] = "pending" /\ slot[m] # "none" /\ ReturnNotReady(f)
            /\ UNCHANGED <<lifecycleVars, waiter, user, stage, slot, ready>>
  BY DEF Connecting
<1>2. /\ f \in SocketFutures /\ f \in Own(s) /\ Own(s) \subseteq SocketFutures
      /\ m \in SocketFutures /\ m \in Futures /\ m \in Own(s) /\ m # f /\ f # NoFuture
  BY SocketNames, FuturesAssumption DEF Own
<1>3. ConnectAt(s) /\ LifeTypes
  BY TypesOfFutures DEF SideInv, ConnectInv, AsyncTypes
<1>4. stage[s] \in OpeningStages
  BY <1>1 DEF OpeningStages
<1>5. slot \in Slots /\ noticed \in BOOLEAN /\ stage \in [Sockets -> Stages]
  BY DEF AsyncTypes, SocketsTypeOK, Slots, Stages
<1>6. CASE Opened(s, t) /\ UNCHANGED <<lifecycleVars, waiter, slot>>
  <2>1. stage' = [stage EXCEPT ![s] = "open"] /\ stage'[s] = "open" /\ ReturnReady(f)
    BY <1>5, <1>6 DEF Opened
  <2>2. ConnectAt(s)' /\ Wakes(t)
    BY <1>3, <1>6, <2>1, NothingWakes DEF ConnectAt
  <2>3. ~ ReturnNotReady(f)
    BY <2>1 DEF ReturnReady, ReturnNotReady
  <2> HIDE DEF f
  <2> QED
    BY <1>1, <1>4, <1>5, <1>6, <2>1, <2>2, <2>3, OpeningPolled DEF Stages, f
<1>7. CASE Failed(s) /\ slot' = [slot EXCEPT ![m] = "none"] /\ Notify(m)
  <2>1. stage' = [stage EXCEPT ![s] = "gone"] /\ stage'[s] = "gone" /\ ReturnReady(f)
    BY <1>5, <1>7 DEF Failed
  <2>2. /\ Wakes(t) /\ waiter'[m] = NoTask
        /\ \A d \in Futures \ {m} : waiter'[d] = waiter[d]
    BY <1>2, <1>3, <1>7, NotifyWakes
  <2>3. /\ slot' \in Slots /\ slot'[m] = "none"
        /\ \A d \in SocketFutures \ {m} : slot'[d] = slot[d]
    BY <1>2, <1>5, <1>7 DEF Slots
  <2>4. \A c \in Own(s) :
          /\ waiter'[c] = NoTask \/ (waiter'[c] = waiter[c] /\ slot'[c] = slot[c])
          /\ slot'[c] \in {"closing", "closed"} => slot'[c] = slot[c]
    BY <1>2, <2>2, <2>3, SocketNames
  <2>5. ConnectAt(s)' /\ ~ ReturnNotReady(f)
    BY <2>1 DEF ConnectAt, ReturnReady, ReturnNotReady
  <2>6. /\ \A c \in Futures \ Own(s) : waiter'[c] = waiter[c]
        /\ \A c \in SocketFutures \ Own(s) : slot'[c] = slot[c]
    BY <1>2, <2>2, <2>3
  <2> HIDE DEF f, m
  <2> QED
    BY <1>1, <1>4, <1>5, <1>7, <2>1, <2>2, <2>3, <2>4, <2>5, <2>6, OpeningPolled DEF Stages, f
<1>8. CASE /\ slot[m] = "none" /\ peer[s] = "pending"
           /\ stage' = [stage EXCEPT ![s] = "starting"]
           /\ slot' = Requested(m, slot) /\ StayIn(f)
           /\ UNCHANGED <<lifecycleVars, waiter, user, ready>>
  <2>1. stage'[s] = "starting" /\ Wakes(t)
    BY <1>3, <1>5, <1>8, NothingWakes
  <2>2. /\ slot' \in Slots /\ slot'[m] \in {"waiting", "closed"}
        /\ slot'[m] = "closed" => poller = "gone"
        /\ \A d \in SocketFutures \ {m} : slot'[d] = slot[d]
    BY <1>2, <1>8, RequestedSlots DEF AsyncTypes, Slots
  <2>3. ConnectAt(s)'
    BY <1>1, <1>3, <1>8, <2>1, <2>2 DEF ConnectAt
  <2>4. \A c \in Own(s) :
          /\ \/ slot'[c] \in {"waiting", "closing", "closed"}
             \/ waiter'[c] = waiter[c] /\ slot'[c] = slot[c]
          /\ slot'[c] \in {"closing", "closed"} => slot'[c] = slot[c] \/ poller = "gone"
    BY <1>2, <1>8, <2>2
  <2>5. ~ ReturnNotReady(f)
    BY <1>2, <1>8 DEF StayIn, ReturnNotReady
  <2>6. \A c \in SocketFutures \ Own(s) : slot'[c] = slot[c]
    BY <1>2, <2>2
  <2> HIDE DEF f, m
  <2> QED
    BY <1>1, <1>4, <1>5, <1>8, <2>1, <2>2, <2>3, <2>4, <2>5, <2>6, OpeningPolled
    DEF Stages, OpeningStages, f
<1>9. CASE /\ peer[s] = "pending" /\ slot[m] # "none" /\ ReturnNotReady(f)
           /\ UNCHANGED <<lifecycleVars, waiter, user, stage, slot, ready>>
  <2>1. /\ stage' = [stage EXCEPT ![s] = "connecting"] /\ stage'[s] = "connecting"
        /\ Wakes(t)
    BY <1>1, <1>3, <1>5, <1>9, NothingWakes
  <2>2. ConnectAt(s)'
    BY <1>1, <1>3, <1>9, <2>1 DEF ConnectAt
  <2>3. Behind(f)' = m
    BY <2>1, BehindFuturesNext
  <2>4. user[f] = t
    BY <1>1 DEF Polls
  <2>5. ASSUME ~ ConnectMoves PROVE waiter'[m] = t \/ MonitorLost(f)'
    <3>1. slot[m] \in {"waiting", "closing", "closed"}
      BY <1>1, <1>2, <1>3, <1>5, <1>9 DEF ConnectAt, Slots
    <3>2. slot[m] = "waiting" => waiter'[m] = t
      BY <1>1, <1>3, <1>9, <2>4, <2>5 DEF ConnectAt
    <3>3. slot[m] \in {"closing", "closed"} => poller = "gone"
      BY <1>2 DEF SideInv, PollerInv
    <3> QED
      BY <1>1, <1>9, <2>1, <2>3, <3>1, <3>2, <3>3 DEF MonitorLost
  <2> HIDE DEF f, m
  <2> QED
    BY <1>1, <1>4, <1>5, <1>9, <2>1, <2>2, <2>3, <2>5, OpeningPolled
    DEF Stages, OpeningStages, f
<1> QED
  BY <1>1, <1>6, <1>7, <1>8, <1>9

\* A connection's new monitor is polled.
LEMMA StartMonitorStep ==
  ASSUME AsyncTypes, PollInv, SideInv, NEW t \in Tasks, NEW s \in Sockets,
         StartMonitor(s, t), UNCHANGED <<stdinVars, linkVars, turn>>
  PROVE  StepOK
<1> DEFINE f == Opening(s)
           m == Writing(s)
<1>1. /\ stage[s] = "starting" /\ Polls(f, t)
      /\ UNCHANGED <<program, moves, peer, arrivals, poller, noticed>>
      /\ \/ slot[m] = "closed" /\ Failed(s) /\ Notify(m) /\ UNCHANGED slot
         \/ /\ slot[m] # "closed"
            /\ stage' = [stage EXCEPT ![s] = "connecting"] /\ StayIn(f)
            /\ UNCHANGED <<user, ready>>
            /\ \/ /\ slot[m] = "ready" /\ slot' = [slot EXCEPT ![m] = "spent"]
                  /\ UNCHANGED <<lifecycleVars, waiter>>
               \/ slot[m] # "ready" /\ Await(m, t) /\ UNCHANGED slot
  BY DEF StartMonitor
<1>2. /\ f \in SocketFutures /\ f \in Own(s) /\ Own(s) \subseteq SocketFutures
      /\ m \in SocketFutures /\ m \in Futures /\ m \in Own(s) /\ m # f /\ f # NoFuture
  BY SocketNames, FuturesAssumption DEF Own
<1>3. ConnectAt(s) /\ LifeTypes
  BY TypesOfFutures DEF SideInv, ConnectInv, AsyncTypes
<1>4. stage[s] \in OpeningStages /\ user[f] = t
  BY <1>1 DEF OpeningStages, Polls
<1>5. slot \in Slots /\ noticed \in BOOLEAN /\ stage \in [Sockets -> Stages]
  BY DEF AsyncTypes, SocketsTypeOK, Slots, Stages
<1>6. CASE slot[m] = "closed" /\ Failed(s) /\ Notify(m) /\ UNCHANGED slot
  <2>1. stage' = [stage EXCEPT ![s] = "gone"] /\ stage'[s] = "gone" /\ ReturnReady(f)
    BY <1>5, <1>6 DEF Failed
  <2>2. /\ Wakes(t) /\ waiter'[m] = NoTask
        /\ \A d \in Futures \ {m} : waiter'[d] = waiter[d]
    BY <1>2, <1>3, <1>6, NotifyWakes
  <2>3. ConnectAt(s)' /\ ~ ReturnNotReady(f)
    BY <2>1 DEF ConnectAt, ReturnReady, ReturnNotReady
  <2>4. /\ \A c \in Own(s) :
             waiter'[c] = NoTask \/ (waiter'[c] = waiter[c] /\ slot'[c] = slot[c])
        /\ \A c \in Futures \ Own(s) : waiter'[c] = waiter[c]
    BY <1>2, <1>6, <2>2, SocketNames
  <2> HIDE DEF f, m
  <2> QED
    BY <1>1, <1>4, <1>5, <1>6, <2>1, <2>2, <2>3, <2>4, OpeningPolled DEF Stages, f
<1>7. CASE /\ slot[m] # "closed"
           /\ stage' = [stage EXCEPT ![s] = "connecting"] /\ StayIn(f)
           /\ UNCHANGED <<user, ready>>
  <2>1. stage'[s] = "connecting" /\ ~ ReturnNotReady(f)
    BY <1>2, <1>5, <1>7 DEF StayIn, ReturnNotReady
  <2>2. CASE /\ slot[m] = "ready" /\ slot' = [slot EXCEPT ![m] = "spent"]
             /\ UNCHANGED <<lifecycleVars, waiter>>
    <3>1. /\ slot' \in Slots /\ slot'[m] = "spent"
          /\ \A d \in SocketFutures \ {m} : slot'[d] = slot[d]
      BY <1>2, <1>5, <2>2 DEF Slots
    <3>2. waiter[m] = NoTask
      BY <1>2, <2>2 DEF SideInv, NotifierInv, Unanswered
    <3>3. ConnectAt(s)' /\ Wakes(t)
      BY <1>1, <1>3, <1>7, <2>1, <2>2, <3>1, NothingWakes DEF ConnectAt
    <3>4. \A c \in Own(s) :
            /\ waiter'[c] = NoTask \/ (waiter'[c] = waiter[c] /\ slot'[c] = slot[c])
            /\ slot'[c] \in {"closing", "closed"} => slot'[c] = slot[c]
      BY <1>2, <2>2, <3>1, <3>2
    <3>5. \A c \in SocketFutures \ Own(s) : slot'[c] = slot[c]
      BY <1>2, <3>1
    <3> HIDE DEF f, m
    <3> QED
      BY <1>1, <1>4, <1>5, <1>7, <2>1, <2>2, <3>1, <3>3, <3>4, <3>5, OpeningPolled
      DEF Stages, OpeningStages, f
  <2>3. CASE slot[m] # "ready" /\ Await(m, t) /\ UNCHANGED slot
    <3>1. /\ Wakes(t) /\ waiter'[m] = t
          /\ \A d \in Futures \ {m} : waiter'[d] = waiter[d]
      BY <1>2, <1>3, <2>3, AwaitWakes
    <3>2. ConnectAt(s)'
      BY <1>1, <1>3, <1>4, <1>7, <2>1, <2>3, <3>1 DEF ConnectAt
    <3>3. slot[m] \in {"waiting", "closing"}
      BY <1>1, <1>2, <1>3, <1>5, <1>7, <2>3 DEF ConnectAt, Slots
    <3>4. \A c \in Own(s) : \/ slot'[c] \in {"waiting", "closing"}
                            \/ waiter'[c] = waiter[c] /\ slot'[c] = slot[c]
      BY <1>2, <2>3, <3>1, <3>3, SocketNames
    <3>5. \A c \in Futures \ Own(s) : waiter'[c] = waiter[c]
      BY <1>2, <3>1
    <3> HIDE DEF f, m
    <3> QED
      BY <1>1, <1>4, <1>5, <1>7, <2>1, <2>3, <3>1, <3>2, <3>4, <3>5, OpeningPolled
      DEF Stages, OpeningStages, f
  <2> QED
    BY <1>1, <1>7, <2>2, <2>3
<1> QED
  BY <1>1, <1>6, <1>7

\* The running fiber polls an end of an open socket; a connection may be accepted.
LEMMA EndPolled ==
  ASSUME AsyncTypes, PollInv, SideInv, NEW t \in Tasks, NEW s \in Sockets,
         NEW e \in {Reading(s), Writing(s)}, stage[s] = "open",
         Polls(e, t), Wakes(t),
         UNCHANGED <<program, moves, stdinVars, linkVars, turn, peer, arrivals, poller>>,
         StayIn(e) \/ ReturnNotReady(e) \/ ReturnReady(e),
         slot' \in Slots, noticed' \in BOOLEAN, ready' \subseteq ready,
         user' \in [Futures -> Tasks \cup {NoTask}],
         \A c \in Futures \ {e} : waiter'[c] = waiter[c],
         \/ waiter'[e] = NoTask \/ slot'[e] \in {"waiting", "closing", "closed"}
         \/ waiter'[e] = waiter[e] /\ slot'[e] = slot[e],
         slot'[e] \in {"closing", "closed"} => slot'[e] = slot[e] \/ poller = "gone",
         user'[e] # user[e] => user'[e] = NoTask /\ ReturnReady(e),
         \/ /\ stage' = stage
            /\ \A c \in Futures \ {e} : user'[c] = user[c]
            /\ \A c \in SocketFutures \ {e} : slot'[c] = slot[c]
         \/ /\ ReturnReady(e)
            /\ \E a \in Sockets :
                 /\ stage[a] = "none" /\ stage' = [stage EXCEPT ![a] = "registering"]
                 /\ \A c \in Futures \ {Opening(a)} : user'[c] = user[c]
                 /\ \A c \in SocketFutures \ {Opening(a)} : slot'[c] = slot[c]
                 /\ user'[Opening(a)] = t
                 /\ slot'[Opening(a)] \in {"waiting", "closed"}
                 /\ slot'[Opening(a)] = "closed" => poller = "gone",
         ReturnNotReady(e) => waiter'[e] = t
  PROVE  StepOK
<1>1. /\ e \in SocketFutures /\ e \in Futures /\ e # Input /\ e \in Own(s) /\ e # NoFuture
      /\ Own(s) \subseteq SocketFutures /\ Own(s) \subseteq Futures
      /\ \A r \in Sockets : e # Opening(r)
  BY SocketNames, OtherNames, FuturesAssumption DEF Own
<1>2. stage \in [Sockets -> Stages] /\ OwnersAt(s)
  BY DEF AsyncTypes, SocketsTypeOK, Stages, SideInv, OwnersInv
<1>3. \A c \in Futures \ SocketFutures : waiter'[c] = waiter[c]
  BY <1>1
<1>4. Behind(e)' = e
  BY <1>1, BehindFuturesNext
<1>5. \A c \in Own(s) :
        \/ waiter'[c] = NoTask \/ slot'[c] \in {"waiting", "closing", "closed"}
        \/ waiter'[c] = waiter[c] /\ slot'[c] = slot[c]
  BY <1>1
<1>6. CASE /\ stage' = stage
           /\ \A c \in Futures \ {e} : user'[c] = user[c]
           /\ \A c \in SocketFutures \ {e} : slot'[c] = slot[c]
  <2>1. ConnectAt(s)'
    BY <1>6 DEF ConnectAt
  <2>2. OwnersAt(s)'
    BY <1>1, <1>2, <1>6, SocketNames DEF OwnersAt
  <2>3. Polled(e, t)
    <3>1. \A g \in Futures : user'[g] # user[g] => g = e
      BY <1>6
    <3>2. ReturnReady(e) => e \notin blocked' \cup {at', Input}
      BY <1>1 DEF ReturnReady
    <3> QED
      BY <1>1, <3>1, <3>2 DEF Polled
  <2>4. SocketsTypeOK'
    BY <1>6 DEF AsyncTypes, SocketsTypeOK, Slots
  <2>5. PollerInv'
    BY <1>6 DEF PollerInv, SideInv
  <2>6. ASSUME NEW r \in Sockets \ {s} PROVE LeavesAlone(r)
    <3>1. Own(r) \subseteq SocketFutures \ {e} /\ Own(r) \subseteq Futures \ {e}
          /\ Opening(r) \in Own(r)
      BY SocketNames DEF Own
    <3> QED
      BY <1>6, <3>1 DEF LeavesAlone
  <2> QED
    BY <1>1, <1>3, <1>4, <1>5, <1>6, <2>1, <2>2, <2>3, <2>4, <2>5, <2>6, SocketPolled
<1>7. ASSUME ReturnReady(e), NEW a \in Sockets,
             stage[a] = "none", stage' = [stage EXCEPT ![a] = "registering"],
             \A c \in Futures \ {Opening(a)} : user'[c] = user[c],
             \A c \in SocketFutures \ {Opening(a)} : slot'[c] = slot[c],
             user'[Opening(a)] = t, slot'[Opening(a)] \in {"waiting", "closed"},
             slot'[Opening(a)] = "closed" => poller = "gone"
      PROVE  StepOK
  <2>1. /\ a # s /\ stage'[s] = "open" /\ stage'[a] = "registering"
        /\ \A r \in Sockets \ {a} : stage'[r] = stage[r]
        /\ stage' \in [Sockets -> Stages]
    BY <1>2, <1>7 DEF Stages
  <2>2. ConnectAt(s)'
    BY <2>1 DEF ConnectAt
  <2>3. OwnersAt(s)'
    BY <1>1, <1>2, <1>7, <2>1, SocketNames DEF OwnersAt
  <2>4. Opening(a) \notin blocked
    BY <1>7, FuturesAssumption DEF PollInv, SideInv, OwnersInv, OwnersAt
  <2>5. Polled(e, t)
    <3>1. Opening(a) # Input /\ Opening(a) # NoFuture
      BY SocketNames, OtherNames, FuturesAssumption
    <3>2. \A g \in Futures : user'[g] # user[g] => g = Opening(a)
      BY <1>7
    <3>3. Opening(a) \notin blocked' \cup {at', Input}
      BY <1>7, <2>4, <3>1 DEF ReturnReady
    <3> QED
      BY <1>1, <1>7, <3>2, <3>3 DEF Polled
  <2>6. SocketsTypeOK'
    BY <2>1 DEF AsyncTypes, SocketsTypeOK, Slots, Stages
  <2>7. PollerInv'
    BY <1>7 DEF PollerInv, SideInv
  <2>8. ASSUME NEW r \in Sockets \ {s} PROVE LeavesAlone(r)
    <3>1. /\ Own(r) \subseteq SocketFutures \ {e} /\ Own(r) \subseteq Futures \ {e}
          /\ Opening(r) \in Own(r) /\ \A c \in Own(r) \ {Opening(r)} : c # Opening(a)
          /\ r # a => Opening(r) # Opening(a)
      BY SocketNames DEF Own
    <3>2. /\ \A c \in Own(r) \ {Opening(r)} :
               slot'[c] = slot[c] /\ user'[c] = user[c] /\ waiter'[c] = waiter[c]
          /\ waiter'[Opening(r)] = waiter[Opening(r)]
      BY <1>7, <3>1
    <3>3. r # a => /\ stage'[r] = stage[r] /\ user'[Opening(r)] = user[Opening(r)]
                   /\ slot'[Opening(r)] = slot[Opening(r)]
      BY <1>7, <2>1, <3>1
    <3> QED
      BY <1>7, <2>1, <3>2, <3>3 DEF LeavesAlone
  <2>9. ~ ReturnNotReady(e)
    BY <1>7 DEF ReturnReady, ReturnNotReady
  <2> QED
    BY <1>1, <1>3, <1>5, <2>1, <2>2, <2>3, <2>5, <2>6, <2>7, <2>8, <2>9, SocketPolled
<1> QED
  BY <1>6, <1>7

\* The operation is tried.
LEMMA TryStep ==
  ASSUME AsyncTypes, PollInv, SideInv, NEW t \in Tasks, NEW s \in Sockets,
         NEW e \in {Reading(s), Writing(s)}, Try(e, t),
         UNCHANGED <<stdinVars, linkVars, turn>>
  PROVE  StepOK
<1>1. e \in SocketFutures /\ e \in Futures /\ e[1] = s /\ e # NoFuture
  BY SocketNames, FuturesAssumption
<1>2. /\ stage[s] = "open" /\ Polls(e, t)
      /\ UNCHANGED <<lifecycleVars, program, waiter, moves, peer, arrivals, poller>>
      /\ \/ Operation(e, t)
         \/ /\ slot' = Requested(e, slot) /\ StayIn(e)
            /\ UNCHANGED <<user, stage, ready, noticed>>
  BY <1>1 DEF Try
<1>3. Wakes(t)
  BY <1>2, NothingWakes, TypesOfFutures DEF AsyncTypes
<1>4. /\ slot \in Slots /\ noticed \in BOOLEAN /\ user \in [Futures -> Tasks \cup {NoTask}]
  BY DEF AsyncTypes, SocketsTypeOK, FuturesTypeOK, Slots
<1>5. CASE /\ slot' = Requested(e, slot) /\ StayIn(e)
           /\ UNCHANGED <<user, stage, ready, noticed>>
  <2>1. /\ slot' \in Slots /\ slot'[e] \in {"waiting", "closed"}
        /\ slot'[e] = "closed" => poller = "gone"
        /\ \A d \in SocketFutures \ {e} : slot'[d] = slot[d]
    BY <1>1, <1>5, RequestedSlots DEF AsyncTypes, Slots
  <2>2. ~ ReturnNotReady(e)
    BY <1>1, <1>5 DEF StayIn, ReturnNotReady
  <2> QED
    BY <1>2, <1>3, <1>4, <1>5, <2>1, <2>2, EndPolled
<1>6. CASE Operation(e, t) /\ UNCHANGED <<stage, user, slot, noticed>>
  <2>1. ReturnReady(e) /\ ready' \subseteq ready
    BY <1>6 DEF Operation
  <2>2. ~ ReturnNotReady(e)
    BY <2>1 DEF ReturnReady, ReturnNotReady
  <2> QED
    BY <1>2, <1>3, <1>4, <1>6, <2>1, <2>2, EndPolled
<1>7. ASSUME Operation(e, t), NEW a \in Sockets, stage[a] = "none",
             stage' = [stage EXCEPT ![a] = "registering"],
             user' = [user EXCEPT ![Opening(a)] = t], slot' = Requested(Opening(a), slot),
             noticed' = (noticed \/ poller = "gone")
      PROVE  StepOK
  <2>1. ReturnReady(e) /\ ready' \subseteq ready
    BY <1>7 DEF Operation
  <2>2. ~ ReturnNotReady(e)
    BY <2>1 DEF ReturnReady, ReturnNotReady
  <2>3. Opening(a) \in SocketFutures /\ Opening(a) \in Futures /\ Opening(a) # e
    BY SocketNames
  <2>4. /\ slot' \in Slots /\ slot'[Opening(a)] \in {"waiting", "closed"}
        /\ slot'[Opening(a)] = "closed" => poller = "gone"
        /\ \A d \in SocketFutures \ {Opening(a)} : slot'[d] = slot[d]
    BY <1>7, <2>3, RequestedSlots DEF AsyncTypes, Slots
  <2>5. /\ user' \in [Futures -> Tasks \cup {NoTask}] /\ user'[Opening(a)] = t
        /\ \A c \in Futures \ {Opening(a)} : user'[c] = user[c]
    BY <1>4, <1>7, <2>3
  <2>6. noticed' \in BOOLEAN
    BY <1>4, <1>7
  <2>7. /\ user'[e] = user[e] /\ slot'[e] = slot[e] /\ waiter'[e] = waiter[e]
        /\ \A c \in Futures \ {e} : waiter'[c] = waiter[c]
    BY <1>1, <1>2, <2>3, <2>4, <2>5
  <2>8. \E b \in Sockets :
          /\ stage[b] = "none" /\ stage' = [stage EXCEPT ![b] = "registering"]
          /\ \A c \in Futures \ {Opening(b)} : user'[c] = user[c]
          /\ \A c \in SocketFutures \ {Opening(b)} : slot'[c] = slot[c]
          /\ user'[Opening(b)] = t
          /\ slot'[Opening(b)] \in {"waiting", "closed"}
          /\ slot'[Opening(b)] = "closed" => poller = "gone"
    BY <1>7, <2>4, <2>5
  <2> QED
    BY <1>2, <1>3, <2>1, <2>2, <2>4, <2>5, <2>6, <2>7, <2>8, EndPolled
<1> QED
  BY <1>2, <1>5, <1>6, <1>7 DEF Operation

\* The monitor is polled.
LEMMA PollEndStep ==
  ASSUME AsyncTypes, PollInv, SideInv, NEW t \in Tasks, NEW s \in Sockets,
         NEW e \in {Reading(s), Writing(s)}, PollEnd(e, t),
         UNCHANGED <<stdinVars, linkVars, turn>>
  PROVE  StepOK
<1>1. e \in SocketFutures /\ e \in Futures /\ e[1] = s /\ e # NoFuture
  BY SocketNames, FuturesAssumption
<1>2. /\ stage[s] = "open" /\ Polls(e, t)
      /\ UNCHANGED <<program, moves, stage, ready, peer, arrivals, poller, noticed>>
      /\ \/ /\ slot[e] \in {"waiting", "closing"}
            /\ Await(e, t) /\ ReturnNotReady(e) /\ UNCHANGED <<user, slot>>
         \/ /\ slot[e] \notin {"waiting", "closing"}
            /\ slot' = [slot EXCEPT ![e] = "none"]
            /\ user' = IF slot[e] = "closed" THEN [user EXCEPT ![e] = NoTask] ELSE user
            /\ IF slot[e] = "ready" THEN StayIn(e) ELSE ReturnReady(e)
            /\ Notify(e)
  BY <1>1 DEF PollEnd
<1>3. /\ slot \in Slots /\ noticed \in BOOLEAN /\ user \in [Futures -> Tasks \cup {NoTask}]
      /\ LifeTypes
  BY TypesOfFutures DEF AsyncTypes, SocketsTypeOK, FuturesTypeOK, Slots
<1>4. CASE /\ slot[e] \in {"waiting", "closing"}
           /\ Await(e, t) /\ ReturnNotReady(e) /\ UNCHANGED <<user, slot>>
  <2>1. Wakes(t) /\ waiter'[e] = t /\ \A d \in Futures \ {e} : waiter'[d] = waiter[d]
    BY <1>1, <1>3, <1>4, AwaitWakes
  <2> QED
    BY <1>2, <1>3, <1>4, <2>1, EndPolled
<1>5. CASE /\ slot[e] \notin {"waiting", "closing"}
           /\ slot' = [slot EXCEPT ![e] = "none"]
           /\ user' = IF slot[e] = "closed" THEN [user EXCEPT ![e] = NoTask] ELSE user
           /\ IF slot[e] = "ready" THEN StayIn(e) ELSE ReturnReady(e)
           /\ Notify(e)
  <2>1. Wakes(t) /\ waiter'[e] = NoTask /\ \A d \in Futures \ {e} : waiter'[d] = waiter[d]
    BY <1>1, <1>3, <1>5, NotifyWakes
  <2>2. /\ slot' \in Slots /\ slot'[e] = "none"
        /\ \A d \in SocketFutures \ {e} : slot'[d] = slot[d]
    BY <1>1, <1>3, <1>5 DEF Slots
  <2>3. /\ user' \in [Futures -> Tasks \cup {NoTask}]
        /\ \A c \in Futures \ {e} : user'[c] = user[c]
        /\ user'[e] # user[e] => user'[e] = NoTask /\ slot[e] = "closed"
    BY <1>1, <1>3, <1>5
  <2>4. (StayIn(e) \/ ReturnReady(e)) /\ (slot[e] = "closed" => ReturnReady(e))
    BY <1>5
  <2>5. ~ ReturnNotReady(e)
    BY <1>1, <2>4 DEF StayIn, ReturnReady, ReturnNotReady
  <2> QED
    BY <1>2, <1>3, <2>1, <2>2, <2>3, <2>4, <2>5, EndPolled
<1> QED
  BY <1>2, <1>4, <1>5

\* A step of the poll of a socket's future.
LEMMA PollSocketStep ==
  ASSUME AsyncTypes, PollInv, SideInv, NEW t \in Tasks, NEW s \in Sockets, PollSocket(s, t),
         UNCHANGED <<stdinVars, linkVars, turn>>
  PROVE  StepOK
<1>1. \/ OpenSocket(s, t) \/ PollRegister(s, t) \/ Connecting(s, t) \/ StartMonitor(s, t)
      \/ \E e \in {Reading(s), Writing(s)} : Try(e, t) \/ PollEnd(e, t)
  BY DEF PollSocket, TcpListenerBind, UdpSocketBind, Bind, Connect, Connected, Incoming,
         RecvFrom, SendTo, Operate, TryOrWait
<1> QED
  BY <1>1, OpenSocketStep, PollRegisterStep, ConnectingStep, StartMonitorStep, TryStep,
     PollEndStep

----------------------------------------------------------------------------
(* The end of a fiber                                                       *)

\* The fiber ends whose future is ready, or whose link has exited.
FiberEnds(t) ==
  LET dropped == {Behind(f) : f \in {g \in Futures : user[g] = t}} IN
  (FutureReady(t, dropped) \/ GiveUp(t, dropped)) /\ DropSockets(t)

\* What the end of a fiber does: the channels of its futures are dropped, and the
\* Notifiers of these, and no others, are emptied, apart from its own Unparks.
LEMMA FiberEndsEffect ==
  ASSUME AsyncTypes, PollInv, SideInv, NEW t \in Tasks, FiberEnds(t)
  PROVE  \E channels \in SUBSET Futures :
           /\ EndFiber(t, channels) /\ Exit(t) \in channels
           /\ \A c \in channels : c = Exit(t) \/ \E g \in Futures : user[g] = t /\ c = Behind(g)
           /\ \A c \in SocketFutures : slot'[c] = slot[c] \/ (slot'[c] = "none" /\ c \in channels)
           /\ slot' \in [SocketFutures ->
                           {"none", "waiting", "ready", "spent", "closing", "closed"}]
           /\ stage' = [s \in Sockets |-> IF user[Opening(s)] = t THEN "gone" ELSE stage[s]]
           /\ UNCHANGED <<ready, peer, arrivals, poller, noticed, toFiber>>
           /\ \A u \in Tasks \ {t} : fromFiber'[u] = fromFiber[u]
           /\ LinkTypeOK'
<1> DEFINE dropped == {Behind(f) : f \in {g \in Futures : user[g] = t}}
           channels == dropped \cup {Exit(t)}
<1>1. /\ DropSockets(t)
      /\ \E result \in {"value", "closed", fromFiber[t]} : Exits(t, result, dropped)
  BY DEF FiberEnds, FutureReady, GiveUp
<1>2. PICK result \in {"value", "closed", fromFiber[t]} : Exits(t, result, dropped)
  BY <1>1
<1>3. /\ EndFiber(t, channels) /\ UNCHANGED toFiber
      /\ fromFiber' = [fromFiber EXCEPT ![t] = result]
      /\ holder' = [u \in Tasks |-> IF user[Exit(u)] = t THEN "left" ELSE holder[u]]
  BY <1>2 DEF Exits
<1>4. channels \in SUBSET Futures
  BY BehindFutures, OtherNames
<1>5. /\ LinkTypeOK' /\ \A u \in Tasks \ {t} : fromFiber'[u] = fromFiber[u]
  BY <1>2, <1>3 DEF AsyncTypes, LinkTypeOK
<1>6. \A c \in channels : c = Exit(t) \/ \E g \in Futures : user[g] = t /\ c = Behind(g)
  OBVIOUS
<1>7. /\ slot' = [c \in SocketFutures |->
            IF \E f \in SocketFutures : user[f] = t /\ c = Behind(f) THEN "none" ELSE slot[c]]
      /\ stage' = [s \in Sockets |-> IF user[Opening(s)] = t THEN "gone" ELSE stage[s]]
      /\ UNCHANGED <<ready, peer, arrivals, poller, noticed>>
  BY <1>1 DEF DropSockets
<1>8. /\ slot' \in [SocketFutures ->
                      {"none", "waiting", "ready", "spent", "closing", "closed"}]
      /\ \A c \in SocketFutures :
           slot'[c] = slot[c]
           \/ (slot'[c] = "none" /\ \E f \in SocketFutures : user[f] = t /\ c = Behind(f))
  BY <1>7 DEF AsyncTypes, SocketsTypeOK
<1>9. \A f \in SocketFutures : user[f] = t => Behind(f) \in channels
  BY SocketNames
<1>10. Exit(t) \in channels
  OBVIOUS
<1> HIDE DEF channels
<1> QED
  BY <1>3, <1>4, <1>5, <1>6, <1>7, <1>8, <1>9, <1>10

\* A fiber ends.
LEMMA FiberEndsStep ==
  ASSUME AsyncTypes, PollInv, SideInv, NEW t \in Tasks, FiberEnds(t),
         UNCHANGED stdinVars, turn' \in {"both", "fibers", "poller"}
  PROVE  StepOK
<1>1. PICK channels \in SUBSET Futures :
           /\ EndFiber(t, channels) /\ Exit(t) \in channels
           /\ \A c \in channels : c = Exit(t) \/ \E g \in Futures : user[g] = t /\ c = Behind(g)
           /\ \A c \in SocketFutures : slot'[c] = slot[c] \/ (slot'[c] = "none" /\ c \in channels)
           /\ slot' \in [SocketFutures ->
                           {"none", "waiting", "ready", "spent", "closing", "closed"}]
           /\ stage' = [s \in Sockets |-> IF user[Opening(s)] = t THEN "gone" ELSE stage[s]]
           /\ UNCHANGED <<ready, peer, arrivals, poller, noticed, toFiber>>
           /\ \A u \in Tasks \ {t} : fromFiber'[u] = fromFiber[u]
           /\ LinkTypeOK'
  BY FiberEndsEffect
<1>2. /\ UNCHANGED <<program, at, moves>> /\ due' = {} /\ at = NoFuture
      /\ status[t] = "running"
      /\ waiter' = [c \in Futures |->
                      IF c \in channels \/ waiter[c] = t THEN NoTask ELSE waiter[c]]
      /\ user' = [f \in Futures |-> IF user[f] = t THEN NoTask ELSE user[f]]
      /\ blocked' = {f \in blocked : user[f] # t}
  BY <1>1, EndEffect DEF AsyncTypes
<1>3. /\ \A c \in Futures : /\ waiter'[c] \in {waiter[c], NoTask}
                            /\ c \in channels => waiter'[c] = NoTask
                            /\ c \notin channels /\ waiter[c] # t => waiter'[c] = waiter[c]
      /\ \A f \in Futures : /\ user[f] = t => user'[f] = NoTask
                            /\ user[f] # t => user'[f] = user[f]
  BY <1>2
<1>4. /\ Input # NoFuture /\ t # NoTask /\ ~ spinning
      /\ \A s \in Sockets : Opening(s) # NoFuture
      /\ \A s \in Sockets : stage[s] # "starting"
  BY <1>2, SocketNames, OtherNames, FuturesAssumption DEF SideInv, StdinInv, OwnersInv, OwnersAt
<1>5. \A s \in Sockets :
        /\ {Opening(s), Reading(s), Writing(s)} \subseteq Futures
        /\ user[Opening(s)] = t => stage'[s] = "gone"
        /\ user[Opening(s)] # t => stage'[s] = stage[s]
  BY <1>1, SocketNames
<1>6. Class
  BY <1>1 DEF Class
<1>7. SocketsTypeOK'
  <2>1. stage' \in [Sockets -> Stages]
    BY <1>1 DEF AsyncTypes, SocketsTypeOK, Stages
  <2> QED
    BY <1>1, <1>2, <2>1 DEF AsyncTypes, SocketsTypeOK, Stages
<1>8. StdinTypeOK' /\ StdinInv'
  <2>1. user'[Input] \in {user[Input], NoTask}
    BY <1>3, OtherNames
  <2> QED
    BY <1>4, <2>1, StdinFrame DEF AsyncTypes, SideInv
<1>9. OwnersInv'
  <2> SUFFICES ASSUME NEW s \in Sockets PROVE OwnersAt(s)'
    BY DEF OwnersInv
  <2>1. OwnersAt(s)
    BY DEF SideInv, OwnersInv
  <2>2. /\ user'[Opening(s)] # NoTask => user[Opening(s)] # NoTask /\ user[Opening(s)] # t
        /\ user'[Reading(s)] # NoTask => user[Reading(s)] # NoTask
        /\ user'[Writing(s)] # NoTask => user[Writing(s)] # NoTask
    BY <1>3, <1>5
  <2>3. user[Reading(s)] # NoTask \/ user[Writing(s)] # NoTask => user[Opening(s)] # t
    BY <1>4, <2>1 DEF OwnersAt
  <2> QED
    BY <1>4, <1>5, <2>1, <2>2, <2>3 DEF OwnersAt
\* The monitor of a connection is dropped by the fiber that connects, and by none
\* other before the socket is open.
<1>10. \A s \in Sockets : Writing(s) \in channels /\ user[Opening(s)] # t => stage[s] = "open"
  <2> SUFFICES ASSUME NEW s \in Sockets, Writing(s) \in channels, user[Opening(s)] # t
               PROVE  stage[s] = "open"
    OBVIOUS
  <2>1. Writing(s) # Exit(t)
    BY SocketNames, OtherNames
  <2>2. PICK g \in Futures : user[g] = t /\ Writing(s) = Behind(g)
    BY <1>1, <2>1
  <2>3. CASE \E r \in Sockets : g = Opening(r)
    <3>1. PICK r \in Sockets : g = Opening(r)
      BY <2>3
    <3>2. Writing(s) = Writing(r) \/ Writing(s) = Opening(r)
      BY <2>2, <3>1, BehindFutures
    <3>3. r = s
      BY <3>2, SocketNames
    <3> QED
      BY <2>2, <3>1, <3>3
  <2>4. CASE \A r \in Sockets : g # Opening(r)
    <3>1. user[Writing(s)] = t
      BY <2>2, <2>4, BehindFutures
    <3> QED
      BY <1>4, <3>1 DEF SideInv, OwnersInv, OwnersAt
  <2> QED
    BY <2>3, <2>4
<1>11. ConnectInv'
  <2> SUFFICES ASSUME NEW s \in Sockets PROVE ConnectAt(s)'
    BY DEF ConnectInv
  <2>1. ConnectAt(s)
    BY DEF SideInv, ConnectInv
  <2>2. CASE user[Opening(s)] = t
    <3>1. stage'[s] = "gone"
      BY <1>5, <2>2
    <3> QED
      BY <3>1 DEF ConnectAt
  <2>3. CASE user[Opening(s)] # t /\ stage[s] = "open"
    <3>1. stage'[s] = "open"
      BY <1>5, <2>3
    <3> QED
      BY <3>1 DEF ConnectAt
  <2>4. CASE user[Opening(s)] # t /\ stage[s] # "open"
    <3>1. stage'[s] = stage[s] /\ user'[Opening(s)] = user[Opening(s)]
      BY <1>3, <1>5, <2>4
    <3>2. Writing(s) \notin channels
      BY <1>10, <2>4
    <3>3. slot'[Writing(s)] = slot[Writing(s)]
      BY <1>1, <3>2, SocketNames
    <3>4. waiter[Writing(s)] = user[Opening(s)] => waiter'[Writing(s)] = waiter[Writing(s)]
      BY <1>3, <1>5, <2>4, <3>2
    <3> QED
      BY <1>1, <2>1, <3>1, <3>3, <3>4 DEF ConnectAt
  <2> QED
    BY <2>2, <2>3, <2>4
<1>12. PollerInv'
  BY <1>1 DEF SideInv, PollerInv
<1>13. NotifierInv'
  <2> SUFFICES ASSUME NEW c \in Futures, waiter'[c] # NoTask PROVE Unanswered(c)'
    BY DEF NotifierInv
  <2>1. c \notin channels /\ waiter[c] # NoTask
    BY <1>3
  <2>2. Unanswered(c) /\ c # Exit(t)
    BY <1>1, <2>1 DEF SideInv, NotifierInv
  <2>3. c \in SocketFutures => slot'[c] = slot[c]
    BY <1>1, <2>1
  <2>4. \A u \in Tasks : c = Exit(u) => fromFiber'[u] = fromFiber[u]
    BY <1>1, <2>2
  <2> QED
    BY <1>1, <2>2, <2>3, <2>4 DEF Unanswered, stdinVars
<1>14. ParkStep
  <2> SUFFICES ASSUME NEW f \in blocked' \ due'
               PROVE  /\ f \in blocked \ due /\ Behind(f)' = Behind(f)
                      /\ MonitorLost(f) => MonitorLost(f)'
    BY DEF ParkStep
  <2>1. f \in blocked /\ user[f] # t
    BY <1>2
  <2>2. f \notin due
    BY <1>2, <2>1 DEF PollInv
  <2>3. \A s \in Sockets : f = Opening(s) => stage'[s] = stage[s]
    BY <1>5, <2>1
  <2>4. Behind(f)' = Behind(f)
    BY <2>3 DEF Behind
  <2>5. ASSUME MonitorLost(f) PROVE MonitorLost(f)'
    <3>1. PICK s \in Sockets : f = Opening(s) /\ stage[s] = "connecting"
      BY <2>5 DEF MonitorLost
    <3>2. stage'[s] = "connecting" /\ Behind(f) = Writing(s)
      BY <2>3, <3>1, BehindFutures
    <3>3. /\ slot'[Writing(s)] \in {slot[Writing(s)], "none"}
      BY <1>1, SocketNames
    <3>4. poller' = "gone" /\ slot'[Behind(f)'] \in {"none", "closing", "closed"}
      BY <1>1, <2>4, <2>5, <3>2, <3>3 DEF MonitorLost
    <3> QED
      BY <3>1, <3>2, <3>4 DEF MonitorLost
  <2> QED
    BY <2>1, <2>2, <2>4, <2>5
<1> QED
  BY <1>1, <1>6, <1>7, <1>8, <1>9, <1>11, <1>12, <1>13, <1>14
  DEF StepOK, SideInv, OtherTypes

----------------------------------------------------------------------------
(* The invariant is inductive                                               *)

\* Every step is of one of the classes, and keeps the other parts of the invariant.
LEMMA StepIsOK ==
  ASSUME AsyncTypes, PollInv, SideInv, AsyncNext
  PROVE  StepOK
<1>1. ASSUME NEW t \in Tasks, RunFiber(t) PROVE StepOK
  <2>1. CASE noticed
    BY <1>1, <2>1, LoseStep
  <2>2. CASE ~ noticed
    BY <1>1, <2>2, SchedulerStep
  <2> QED
    BY <2>1, <2>2
<1>2. ASSUME NEW t \in Tasks, PollStep(t) PROVE StepOK
  <2>1. ASSUME NEW s \in Sockets, PollSocket(s, t), UNCHANGED <<stdinVars, linkVars>>
        PROVE  StepOK
    BY <1>2, <2>1, PollSocketStep DEF PollStep
  <2>2. CASE PollStdin(t) /\ UNCHANGED <<socketVars, linkVars>>
    BY <1>2, <2>2, PollStdinStep DEF PollStep
  <2>3. CASE /\ PollLink(t) \/ \E u \in Tasks : PollExit(u, t)
             /\ UNCHANGED <<socketVars, stdinVars>>
    BY <1>2, <2>3, PollLinkStep DEF PollStep
  <2> QED
    BY <1>2, <2>1, <2>2, <2>3 DEF PollStep
<1>3. ASSUME NEW t \in Tasks, EndPoll(t) PROVE StepOK
  <2>1. turn' \in {"both", "fibers", "poller"} /\ UNCHANGED stdinVars
    BY <1>3 DEF EndPoll
  <2>2. CASE FiberNotReady(t) /\ UNCHANGED <<socketVars, linkVars>>
    BY <2>1, <2>2, SchedulerStep
  <2>3. CASE FiberEnds(t)
    BY <2>1, <2>3, FiberEndsStep
  <2> QED
    BY <1>3, <2>2, <2>3 DEF EndPoll, FiberEnds
<1>4. ASSUME NEW t \in Tasks, SpawnFiber(t) PROVE StepOK
  BY <1>4, SchedulerStep
<1>5. ASSUME NEW t \in Tasks, HolderPolls(t) \/ HolderLeaves(t) \/ LinkCloses(t)
      PROVE  StepOK
  BY <1>5, HolderStep
<1>6. ASSUME NEW t \in Tasks, NEW f \in Futures, MoveFuture(f, t) PROVE StepOK
  BY <1>6, MoveStep
<1> QED
  BY <1>1, <1>2, <1>3, <1>4, <1>5, <1>6, AlternateStep, PollerStep, WorldStep,
     StdinThreadStep DEF AsyncNext, FiberStep

AsyncInv ==
  AsyncTypes /\ PollInv /\ SideInv /\ WaitingInv /\ ParkedInv /\ ReadyInv /\ ReaderInv

\* The program starts with no future polled, no request sent and no Unpark put.
LEMMA AsyncInitInv ==
  ASSUME AsyncInit
  PROVE  AsyncInv
<1>1. /\ status = [t \in Tasks |-> "new"] /\ credit = [t \in Tasks |-> 0]
      /\ program \in Programs /\ waiter = [f \in Futures |-> NoTask] /\ user = program.user
      /\ blocked = {} /\ due = {} /\ at = NoFuture /\ moves = 0
  BY DEF AsyncInit, FuturesInit, Init
<1>2. /\ program.user \in [Futures -> Tasks \cup {NoTask}]
      /\ program.moves \in Nat /\ program.arrivals \in Nat
      /\ \A e \in SocketEnds : user[e] = NoTask
  BY <1>1, FuturesAssumption, SocketsAssumption
<1>3. /\ stage = [s \in Sockets |-> IF user[Opening(s)] = NoTask THEN "none" ELSE "new"]
      /\ slot = [c \in SocketFutures |-> "none"]
      /\ ready = {} /\ peer = [s \in Sockets |-> "pending"] /\ arrivals = 0
      /\ poller = "alive" /\ noticed = FALSE
  BY DEF AsyncInit, SocketsInit
<1>4. /\ ~ lockRequested /\ ~ spinning /\ lockRequested \in BOOLEAN /\ spinning \in BOOLEAN
      /\ requests = <<>> /\ responses = <<>>
      /\ reader = IF StdinDropped THEN "gone" ELSE "lock"
      /\ locked \in BOOLEAN /\ input = 0 /\ typed = 0 /\ eof \in BOOLEAN
  BY DEF AsyncInit, StdinInit
<1>5. AsyncTypes
  <2>1. FuturesTypeOK
    BY <1>1, <1>2 DEF FuturesTypeOK, Status
  <2>2. SocketsTypeOK
    <3>1. stage \in [Sockets -> Stages] /\ slot \in Slots
      BY <1>3 DEF Stages, Slots
    <3>2. arrivals \in 0 .. program.arrivals
      BY <1>2, <1>3
    <3>3. peer \in [Sockets -> {"pending", "connected", "refused"}]
      BY <1>3
    <3> QED
      BY <1>3, <3>1, <3>2, <3>3 DEF SocketsTypeOK, Stages, Slots
  <2>3. StdinTypeOK
    <3>1. requests \in Seq({"lock", "size"}) /\ responses \in Seq({"ack", "data", "error"})
      BY <1>4
    <3>2. input \in 0 .. MaxInput /\ typed \in 0 .. MaxInput
      BY <1>4, StdinAssumption
    <3> QED
      BY <1>4, <3>1, <3>2 DEF StdinTypeOK
  <2>4. LinkTypeOK
    BY DEF AsyncInit, LinkInit, LinkTypeOK
  <2>5. turn \in {"both", "fibers", "poller"}
    BY DEF AsyncInit
  <2> QED
    BY <2>1, <2>2, <2>3, <2>4, <2>5 DEF AsyncTypes
<1>6. PollInv /\ WaitingInv /\ ParkedInv /\ ReadyInv
  BY <1>1 DEF PollInv, WaitingInv, ParkedInv, ReadyInv
<1>7. \A c \in Futures : waiter[c] = NoTask
  BY <1>1
<1>8. OwnersInv
  BY <1>2, <1>3, SocketNames DEF OwnersInv, OwnersAt
<1>9. StdinInv
  BY <1>4 DEF StdinInv
<1>10. NotifierInv /\ PollerInv
  BY <1>3, <1>7 DEF NotifierInv, PollerInv
<1>11. ConnectInv
  BY <1>3, SocketNames DEF ConnectInv, ConnectAt
<1>12. ReaderInv
  <2> SUFFICES ASSUME ReadersHaveNothingElse, NEW f \in Futures \ {Input},
                      user[Input] # NoTask
               PROVE  user[f] # user[Input] /\ waiter[f] # user[Input]
    BY DEF ReaderInv
  <2> QED
    BY <1>1, <1>7 DEF ReadersHaveNothingElse
<1> QED
  BY <1>5, <1>6, <1>8, <1>9, <1>10, <1>11, <1>12 DEF AsyncInv, SideInv

\* Every step keeps the invariant.
LEMMA AsyncStep ==
  ASSUME AsyncInv, [AsyncNext]_asyncVars
  PROVE  AsyncInv'
<1>1. CASE AsyncNext
  <2>1. AsyncTypes /\ PollInv /\ SideInv /\ WaitingInv /\ ParkedInv /\ ReadyInv /\ ReaderInv
    BY DEF AsyncInv
  <2>2. Class /\ ParkStep /\ SideInv' /\ OtherTypes'
    BY <1>1, <2>1, StepIsOK DEF StepOK
  <2>3. FuturesTypeOK
    BY <2>1 DEF AsyncTypes
  <2>4. FuturesTypeOK' /\ PollInv'
    BY <2>1, <2>2, <2>3, ClassPoll
  <2>5. WaitingInv'
    BY <2>1, <2>2, <2>3, ClassWaiting
  <2>6. ParkedInv'
    BY <2>1, <2>2, <2>3, ClassParked
  <2>7. ReadyInv'
    BY <2>1, <2>2, <2>3, <2>4, ClassReady
  <2>8. ReaderInv'
    BY <2>1, <2>2, <2>3, ClassReader
  <2>9. AsyncTypes'
    BY <2>2, <2>4 DEF AsyncTypes, OtherTypes
  <2> QED
    BY <2>2, <2>4, <2>5, <2>6, <2>7, <2>8, <2>9 DEF AsyncInv
<1>2. CASE UNCHANGED asyncVars
  <2>1. UNCHANGED <<status, credit, program, waiter, user, blocked, due, at, moves>>
    BY <1>2 DEF asyncVars, lifecycleVars, futuresVars, pollVars
  <2>2. /\ UNCHANGED <<stage, slot, ready, peer, arrivals, poller, noticed>>
        /\ UNCHANGED <<toFiber, fromFiber, holder, turn>>
        /\ UNCHANGED <<lockRequested, spinning, requests, responses, reader, locked,
                       input, typed, eof>>
    BY <1>2 DEF asyncVars, socketVars, stdinVars, linkVars
  <2>3. AsyncTypes'
    BY <2>1, <2>2
    DEF AsyncInv, AsyncTypes, FuturesTypeOK, SocketsTypeOK, StdinTypeOK, LinkTypeOK
  <2>4. PollInv' /\ WaitingInv'
    BY <2>1 DEF AsyncInv, PollInv, WaitingInv
  <2>5. OwnersInv' /\ NotifierInv' /\ ConnectInv' /\ PollerInv'
    BY <2>1, <2>2 DEF AsyncInv, SideInv, OwnersInv, OwnersAt, NotifierInv, Unanswered,
                      ConnectInv, ConnectAt, PollerInv
  <2>6. StdinInv'
    BY <2>1, <2>2 DEF AsyncInv, SideInv, StdinInv, StdinDropped
  <2>7. ParkedInv' /\ ReadyInv'
    <3>1. \A f : Behind(f)' = Behind(f) /\ (MonitorLost(f)' <=> MonitorLost(f))
      BY <2>2, MonitorsFrame
    <3> QED
      BY <2>1, <3>1 DEF AsyncInv, ParkedInv, ReadyInv
  <2>8. ReaderInv'
    BY <2>1 DEF AsyncInv, ReaderInv
  <2> QED
    BY <2>3, <2>4, <2>5, <2>6, <2>7, <2>8 DEF AsyncInv, SideInv
<1> QED
  BY <1>1, <1>2

----------------------------------------------------------------------------
(* Theorems                                                                 *)

\* What is due is the running fiber's, and the future that is polled too.
LEMMA TypesFromInv ==
  ASSUME AsyncInv
  PROVE  AsyncTypeOK
<1>1. AsyncTypes /\ PollInv
  BY DEF AsyncInv
<1>2. at # NoFuture => /\ ~ NobodyRuns
                       /\ user[at] \in Tasks /\ status[user[at]] = "running"
  BY <1>1 DEF PollInv, NobodyRuns
<1>3. at \in SocketFutures \cup {Input} => at # NoFuture
  BY SocketNames, OtherNames, FuturesAssumption
<1> QED
  BY <1>1, <1>2, <1>3 DEF AsyncTypeOK, AsyncTypes

\* The phases of the conversation determine what is in the channels.
LEMMA InStepFromInv ==
  ASSUME AsyncInv
  PROVE  StdinInStep
<1>1. StdinInv
  BY DEF AsyncInv, SideInv
<1>2. /\ Head(<<"lock">>) = "lock" /\ Head(<<"size">>) = "size" /\ Head(<<"ack">>) = "ack"
      /\ Head(<<"data">>) = "data" /\ Head(<<"error">>) = "error"
      /\ Len(<<>>) = 0 /\ Len(<<"lock">>) = 1 /\ Len(<<"size">>) = 1 /\ Len(<<"ack">>) = 1
      /\ Len(<<"data">>) = 1 /\ Len(<<"error">>) = 1
  OBVIOUS
<1>3. \/ requests = <<>> /\ responses = <<>>
      \/ requests \in {<<"lock">>, <<"size">>} /\ responses = <<>>
      \/ requests = <<>> /\ responses \in {<<"ack">>, <<"data">>, <<"error">>}
  BY <1>1 DEF StdinInv
<1>4. Len(requests) + Len(responses) <= 1
  <2>1. \/ Len(requests) = 0 /\ Len(responses) = 0
        \/ Len(requests) = 1 /\ Len(responses) = 0
        \/ Len(requests) = 0 /\ Len(responses) = 1
    <3>1. CASE requests = <<>> /\ responses = <<>>
      BY <1>2, <3>1
    <3>2. CASE requests \in {<<"lock">>, <<"size">>} /\ responses = <<>>
      BY <1>2, <3>2
    <3>3. CASE requests = <<>> /\ responses \in {<<"ack">>, <<"data">>, <<"error">>}
      BY <1>2, <3>3
    <3> QED
      BY <1>3, <3>1, <3>2, <3>3
  <2> QED
    BY <2>1
<1>5. /\ reader = "lock" /\ requests # <<>> => Head(requests) = "lock"
      /\ reader = "read" /\ requests # <<>> => Head(requests) = "size"
  BY <1>1, <1>2 DEF StdinInv
<1>6. responses # <<>> => (spinning <=> Head(responses) # "ack")
  BY <1>1, <1>2 DEF StdinInv
<1>7. ~ StdinDropped /\ (~ lockRequested \/ responses # <<>>) => ReaderReceives
  BY <1>1 DEF StdinInv, ReaderReceives
<1> QED
  BY <1>4, <1>5, <1>6, <1>7 DEF StdinInStep

\* A fiber that is ready without a credit has only futures that park nothing.
LEMMA NotInVainFromInv ==
  ASSUME AsyncInv, ~ ConnectMoves
  PROVE  NotPolledInVain
<1> DEFINE parksNothing(f) ==
             \/ f = Input
             \/ poller = "gone" /\ \E s \in Sockets : f = Opening(s) /\ stage[s] = "connecting"
<1>1. ASSUME NEW t \in Tasks, status[t] = "ready", credit[t] = 0,
             NEW f \in blocked, user[f] = t
      PROVE  parksNothing(f)
  <2>1. f = Input \/ MonitorLost(f)
    BY <1>1 DEF AsyncInv, ReadyInv
  <2> QED
    BY <2>1 DEF MonitorLost
<1>2. \A t \in Tasks : credit[t] \in Nat
  BY DEF AsyncInv, AsyncTypes, FuturesTypeOK
<1> HIDE DEF parksNothing
<1>3. \A t \in Tasks :
        LET waits == {f \in blocked : user[f] = t}
        IN  status[t] = "ready" /\ waits # {} /\ (\A f \in waits : ~ parksNothing(f))
              => credit[t] > 0
  BY <1>1, <1>2
<1> QED
  BY <1>3 DEF NotPolledInVain, parksNothing

\* SuspendedOnlyIfUnavailable of one future.
SuspendedRightly(f) == status[user[f]] = "waiting" => ~ Answered(f)

\* A waiting fiber has its Unpark behind each of its futures but a read of standard
\* input, where nothing has been sent, or the monitor there is lost.
LEMMA OthersUnavailable ==
  ASSUME AsyncInv, ~ ConnectMoves
  PROVE  \A f \in blocked \ {Input} : SuspendedRightly(f)
<1> USE DEF AsyncInv
<1> SUFFICES ASSUME NEW f \in blocked \ {Input}, status[user[f]] = "waiting"
             PROVE  ~ Answered(f)
  BY DEF SuspendedRightly
<1> DEFINE t == user[f]
<1>1. t \in Tasks /\ f \in Futures /\ f \notin due /\ status[t] = "waiting" /\ t # NoTask
  BY FuturesAssumption DEF PollInv, AsyncTypes, FuturesTypeOK
<1>2. waiter[Behind(f)] = t \/ MonitorLost(f)
  BY <1>1 DEF ParkedInv, WaitingInv
<1>3. Behind(f) \in Futures
  BY <1>1, BehindFutures
<1>4. waiter[Behind(f)] = t => Unanswered(Behind(f))
  BY <1>1, <1>3 DEF SideInv, NotifierInv
<1>5. CASE f \in SocketFutures
  <2>1. Behind(f) \in SocketFutures
    BY <1>5, BehindFutures, SocketNames
  <2>2. slot[Behind(f)] # "ready"
    BY <1>2, <1>4, <2>1 DEF Unanswered, MonitorLost
  <2>3. \A u \in Tasks : f # Link(u) /\ f # Exit(u)
    BY <1>5, OtherNames
  <2> QED
    BY <2>2, <2>3 DEF Answered
<1>6. CASE f \notin SocketFutures
  <2>1. \A s \in Sockets : f # Opening(s)
    BY <1>6, SocketNames
  <2>2. Behind(f) = f /\ ~ MonitorLost(f)
    BY <2>1, BehindFutures DEF MonitorLost
  <2>3. Unanswered(f)
    BY <1>2, <1>4, <2>2
  <2> QED
    BY <1>6, <2>3 DEF Answered, Unanswered
<1> QED
  BY <1>5, <1>6

\* A waiting fiber that only reads standard input has its one Unpark there.
LEMMA InputUnavailable ==
  ASSUME AsyncInv, ReadersHaveNothingElse, Input \in blocked
  PROVE  SuspendedRightly(Input)
<1> USE DEF AsyncInv
<1> DEFINE t == user[Input]
<1> SUFFICES ASSUME status[t] = "waiting" PROVE ~ Answered(Input)
  BY DEF SuspendedRightly
<1>1. t \in Tasks /\ t # NoTask /\ Input \in Futures
  BY FuturesAssumption DEF PollInv, AsyncTypes, FuturesTypeOK
<1>2. \E c \in Futures : waiter[c] = t
  BY <1>1 DEF WaitingInv
<1>3. waiter[Input] = t
  BY <1>1, <1>2 DEF ReaderInv
<1>4. responses = <<>>
  BY <1>1, <1>3 DEF SideInv, NotifierInv, Unanswered
<1> QED
  BY <1>4, OtherNames DEF Answered

\* The invariant holds in all states.
LEMMA AsyncInvariant == AsyncSpec => []AsyncInv
<1>1. AsyncInit => AsyncInv
  BY AsyncInitInv
<1>2. AsyncInv /\ [AsyncNext]_asyncVars => AsyncInv'
  BY AsyncStep
<1> QED
  BY <1>1, <1>2, PTL DEF AsyncSpec

\* The variables have their types; while a future is polled, its fiber is the one
\* that runs (FiberState and the poll functions).
THEOREM AsyncTypeCorrect == AsyncSpec => []AsyncTypeOK
<1>1. AsyncInv => AsyncTypeOK
  BY TypesFromInv
<1> QED
  BY <1>1, AsyncInvariant, PTL

\* Stdin::read and its thread never take one message for another, the assertion
\* x == 0 of the thread holds, and a request finds its receiver, although the
\* fiber may end and the thread may fail at any time (stdio.rs).
THEOREM StdinInStepCorrect == AsyncSpec => []StdinInStep
<1>1. AsyncInv => StdinInStep
  BY InStepFromInv
<1> QED
  BY <1>1, AsyncInvariant, PTL

\* A fiber that has polled futures in vain is not polled again before one of them
\* has unparked it, if connections are not moved to another fiber (Connecting
\* does not look at a monitor that there is, so that it does not park the second
\* fiber), and apart from the polls that park nothing.
THEOREM NotPolledInVainCorrect ==
  ASSUME ~ ConnectMoves
  PROVE  AsyncSpec => []NotPolledInVain
<1>1. AsyncInv => NotPolledInVain
  BY NotInVainFromInv
<1> QED
  BY <1>1, AsyncInvariant, PTL

\* Of its sockets, links and exits, a fiber sleeps only on those that have no
\* answer, whatever answers in which order, and however often sockets are moved
\* between fibers, if those that connect are not.
THEOREM OthersSuspendedCorrect ==
  ASSUME ~ ConnectMoves
  PROVE  AsyncSpec => [](\A f \in blocked \ {Input} : SuspendedRightly(f))
<1>1. AsyncInv => \A f \in blocked \ {Input} : SuspendedRightly(f)
  BY OthersUnavailable
<1> QED
  BY <1>1, AsyncInvariant, PTL

\* A fiber sleeps only while none of its futures has its answer, if moreover the
\* fiber that reads standard input has nothing else to wait for: its first read
\* parks it nowhere, and something else could put it to sleep.
THEOREM SuspendedCorrect ==
  ASSUME ~ ConnectMoves, ReadersHaveNothingElse
  PROVE  AsyncSpec => []SuspendedOnlyIfUnavailable
<1>1. AsyncInv => SuspendedOnlyIfUnavailable
  <2>1. AsyncInv => \A f \in blocked : SuspendedRightly(f)
    BY OthersUnavailable, InputUnavailable
  <2> QED
    BY <2>1 DEF SuspendedOnlyIfUnavailable, SuspendedRightly
<1> QED
  BY <1>1, AsyncInvariant, PTL
=============================================================================
