-------------------------- MODULE ChannelReceiver --------------------------
(***************************************************************************)
(* What the receivers of oneshot and mpsc channels have in common: the     *)
(* Receiver::poll of src/src/sync/oneshot.rs and of src/src/sync/mpsc.rs   *)
(* is the same code around different nbchan channels.                      *)
(*                                                                         *)
(* The receiver is polled by the fiber that owns it, or from outside of    *)
(* fibers, and may be moved.  The owner's future waits for the receiver:   *)
(* it polls until the receiver has nothing more to give.                   *)
(***************************************************************************)
EXTENDS Notifier

CONSTANT MaxMoves  \* bound of the environment: moves between fibers

ASSUME ReceiverAssumption == MaxMoves \in Nat

VARIABLES
  rx,       \* "idle", "poll", "await", "dropping", "gone"
  owner,    \* the fiber that has the receiver, NoTask when outside of fibers
  polled,   \* the receiver was not ready in the owner's current poll
  moves     \* how often the receiver was moved into a fiber

receiverVars == <<rx, owner, polled, moves>>

\* The code that runs now is the owner's: its fiber is being polled, or the
\* receiver is outside of fibers.
OwnerRuns == owner = NoTask \/ (pc = "poll" /\ current = owner)

\* Receiver::poll is called.
StartPoll ==
  /\ rx = "idle" /\ OwnerRuns /\ ~ polled
  /\ rx' = "poll"
  /\ UNCHANGED <<schedVars, notifierVars, owner, polled, moves>>

\* The receiver is about to call try_recv of the nbchan channel, for the first
\* or, after await_notification has returned, for the second time.
Trying == rx = "poll" \/ (rx = "await" /\ step[Rx] = "idle")

\* A try_recv that has a result ends Receiver::poll.
GetResult ==
  /\ Trying
  /\ rx' = "idle"
  /\ UNCHANGED <<schedVars, notifierVars, owner, polled, moves>>

\* Mutant of GetNothing: the channel is looked at only once.
GetNothingOnce ==
  /\ Trying
  /\ rx' = "idle"
  /\ polled' = (owner # NoTask)
  /\ UNCHANGED <<schedVars, notifierVars, owner, moves>>

\* The first try_recv that finds the channel empty is followed by
\* await_notification, the second one by the return of NotReady.
GetNothing ==
  /\ Trying
  /\ \/ /\ rx = "poll"
        /\ rx' = "await"
        /\ CallAwait(Rx)
        /\ UNCHANGED polled
     \/ /\ rx = "await"
        /\ rx' = "idle"
        /\ polled' = (owner # NoTask)
        /\ UNCHANGED notifierVars
  /\ UNCHANGED <<schedVars, owner, moves>>

\* Receiver::drop notifies; then its fields are dropped.
StartDropReceiver ==
  /\ rx = "idle" /\ OwnerRuns
  /\ rx' = "dropping"
  /\ CallNotify(Rx)
  /\ UNCHANGED <<schedVars, owner, polled, moves>>

EndDropReceiver ==
  /\ rx = "dropping" /\ step[Rx] = "idle"
  /\ rx' = "gone"
  /\ UNCHANGED <<schedVars, notifierVars, owner, polled, moves>>

\* The fiber being polled obtains the receiver from wherever it is.
TakeReceiver ==
  /\ rx = "idle" /\ pc = "poll" /\ current # owner
  /\ moves < MaxMoves
  /\ moves' = moves + 1
  /\ owner' = current
  /\ polled' = FALSE
  /\ UNCHANGED <<schedVars, notifierVars, rx>>

----------------------------------------------------------------------------
(* The fibers.  done says that the channel has nothing more to give.        *)

\* The future that is being polled is not inside a call to the receiver.
BetweenCalls == pc = "poll" /\ (current = owner => rx \in {"idle", "gone"})

FiberNotReady(done) ==
  /\ BetweenCalls
  /\ current = owner => polled \/ done \/ rx = "gone"
  /\ PollNotReady
  /\ polled' = FALSE
  /\ UNCHANGED <<notifierVars, rx, owner, moves>>

\* A fiber that ends leaves the receiver to the code that drops its future.
FiberReady(done) ==
  /\ BetweenCalls
  /\ current = owner => done \/ rx = "gone"
  /\ PollReady
  /\ owner' = IF current = owner THEN NoTask ELSE owner
  /\ polled' = FALSE
  /\ UNCHANGED <<notifierVars, rx, moves>>

FiberReturns(done) == FiberNotReady(done) \/ FiberReady(done)

\* Another object that the fiber waits for: it is parked, and may be unparked.
ParkElsewhere ==
  /\ BetweenCalls
  /\ ParksSuffice
  /\ ParkFiber
  /\ UNCHANGED <<notifierVars, receiverVars>>

\* The Unpark objects of t that are not this channel's.
HeldElsewhere(t) == held[t] - UnparksStored(t, owner)
WakingElsewhere(t) ==
  waking[t] - Cardinality({e \in Ends : step[e] = "wake" /\ dropped[e] = t})

DropElsewhere(t) ==
  /\ HeldElsewhere(t) > 0
  /\ DropUnpark(t)
  /\ UNCHANGED <<notifierVars, receiverVars>>

WakeElsewhere(t) ==
  /\ WakingElsewhere(t) > 0
  /\ SendWakeUp(t)
  /\ UNCHANGED <<notifierVars, receiverVars>>

\* The scheduler's thread, and the threads that spawn fibers on it.
SchedulerRuns == SchedulerStep /\ UNCHANGED <<notifierVars, receiverVars>>

SpawnElsewhere(t) ==
  IdsSuffice /\ Spawn(t) /\ UNCHANGED <<notifierVars, receiverVars>>

\* Everything around the channel's own operations.
Surroundings ==
  \/ SchedulerRuns
  \/ ParkElsewhere
  \/ \E t \in Tasks : DropElsewhere(t) \/ WakeElsewhere(t) \/ SpawnElsewhere(t)

ReceiverInit ==
  /\ Init
  /\ NotifierInit
  /\ rx = "idle"
  /\ owner = NoTask
  /\ polled = FALSE
  /\ moves = 0

----------------------------------------------------------------------------
(* Properties *)

ReceiverTypeOK ==
  /\ TypeOK
  /\ NotifierTypeOK
  /\ rx \in {"idle", "poll", "await", "dropping", "gone"}
  /\ owner \in Tasks \cup {NoTask}
  /\ polled \in BOOLEAN
  /\ moves \in 0 .. MaxMoves

\* The assertion in AtomicBorrowMut::drop: the pointer an end swaps back meets
\* a null pointer, because no other end has borrowed the cell meanwhile.
BorrowIsExclusive ==
  \A e \in Ends : step[e] \in {"park", "replace", "wake", "release"} => borrower = e

\* Unpark objects are neither leaked nor dropped twice: whatever ends race for
\* the cell and wherever the receiver moves, a fiber's outstanding Unparks are
\* the ones in the cell, the one being stored, and those of other objects.
UnparksAccounted ==
  \A t \in Tasks :
    /\ HeldElsewhere(t) >= 0
    /\ WakingElsewhere(t) >= 0
    /\ MaxParks = 0 => HeldElsewhere(t) = 0 /\ WakingElsewhere(t) = 0

\* The owner of the receiver does not sleep for good: its fiber is being polled
\* or will be, or a sender is about to take its Unpark out of the cell.
OwnerIsWoken ==
  owner \in Tasks /\ Live(owner) =>
    \/ current = owner
    \/ WillBeScheduled(owner)
    \/ unpark = owner /\ \E s \in Senders : step[s] \in {"borrow", "replace"}
=============================================================================
