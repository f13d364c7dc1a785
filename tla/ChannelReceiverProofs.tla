----------------------- MODULE ChannelReceiverProofs -----------------------
(***************************************************************************)
(* TLAPS proofs about the notifier and the receiver of a channel, whatever *)
(* the channel's messages are: for any number of fibers, senders, fiber    *)
(* ids, parks and moves of the receiver.                                   *)
(***************************************************************************)
EXTENDS ChannelReceiver, FiberSchedulerProofs, FiniteSetTheorems

\* The steps of a channel, without its messages.
SenderStep(s) ==
  \/ CallNotify(s) /\ UNCHANGED <<schedVars, receiverVars>>
  \/ NotifierStep(s, NoTask) /\ UNCHANGED receiverVars

ReceiverCall ==
  \/ StartPoll \/ GetResult \/ GetNothing
  \/ StartDropReceiver \/ EndDropReceiver
  \/ TakeReceiver

ReceiverStep ==
  \/ NotifierStep(Rx, owner) /\ UNCHANGED receiverVars
  \/ ReceiverCall

CallStep ==
  \/ \E s \in Senders : SenderStep(s)
  \/ ReceiverStep
  \/ Surroundings
  \/ UNCHANGED <<schedVars, notifierVars, receiverVars>>

ChannelStep == CallStep \/ \E done \in BOOLEAN : FiberReturns(done)

\* Where the ends are: only the receiver awaits, and while it does its fiber is
\* polled; when await_notification is over, the fiber's Unpark is in the cell, or
\* was taken out of it, which left the fiber with an unpark to its credit.
Registered ==
  owner \in Tasks => unpark = owner \/ unparks[owner] > 0

EndsInStep ==
  /\ pc # "panicked" /\ pollerAlive
  /\ awaiting \subseteq {Rx}
  /\ \A e \in Ends : step[e] = "wake" => dropped[e] \in Tasks
  /\ \A e \in Ends : step[e] = "park" => e \in awaiting
  /\ rx = "dropping" => Rx \notin awaiting
  /\ rx \in {"idle", "poll", "gone"} => step[Rx] = "idle"
  /\ rx = "await" /\ step[Rx] # "idle" => Rx \in awaiting
  /\ rx \in {"poll", "await", "dropping"} /\ owner \in Tasks
       => pc = "poll" /\ current = owner
  /\ polled => pc = "poll" /\ current = owner /\ rx \notin {"poll", "await"}
  /\ rx = "await" /\ step[Rx] \in {"idle", "wake", "release"} => Registered

ReceiverInv == SchedulerInv /\ ReceiverTypeOK /\ BorrowIsExclusive /\ EndsInStep

(***************************************************************************)
(* A channel's steps are steps of the scheduler and of its environment.    *)
(***************************************************************************)

\* An end's step in await_notification or notify parks or unparks fibers only.
LEMMA NotifierStepIsUnbounded ==
  ASSUME ReceiverInv, NEW e \in Ends, NEW context, NotifierStep(e, context)
  PROVE  [UnboundedNext]_schedVars
<1>1. CASE Borrow(e) \/ Release(e)
  BY <1>1 DEF Borrow, Release
<1>2. CASE Park(e, context)
  BY <1>2 DEF Park, UnboundedNext
<1>3. CASE Replace(e, context)
  <2>1. unpark \in Tasks \cup {NoTask}
    BY DEF ReceiverInv, ReceiverTypeOK, NotifierTypeOK
  <2> QED
    BY <1>3, <2>1 DEF Replace, UnboundedNext
<1>4. CASE Wake(e)
  <2>1. dropped[e] \in Tasks
    BY <1>4 DEF ReceiverInv, EndsInStep, Wake
  <2> QED
    BY <1>4, <2>1 DEF Wake, UnboundedNext
<1> QED
  BY <1>1, <1>2, <1>3, <1>4 DEF NotifierStep

\* Every step of a channel is one that the scheduler's invariants survive.
LEMMA ChannelStepIsUnbounded ==
  ReceiverInv /\ ChannelStep => [UnboundedNext]_schedVars
<1> SUFFICES ASSUME ReceiverInv, ChannelStep PROVE [UnboundedNext]_schedVars
  OBVIOUS
<1>1. ASSUME NEW s \in Senders, SenderStep(s) PROVE [UnboundedNext]_schedVars
  BY <1>1, NotifierStepIsUnbounded DEF SenderStep, Ends
<1>2. CASE ReceiverStep
  BY <1>2, NotifierStepIsUnbounded
  DEF ReceiverStep, ReceiverCall, Ends, StartPoll, GetResult, GetNothing, StartDropReceiver,
      EndDropReceiver, TakeReceiver
<1>3. ASSUME NEW done \in BOOLEAN, FiberReturns(done) PROVE [UnboundedNext]_schedVars
  BY <1>3 DEF FiberReturns, FiberNotReady, FiberReady, UnboundedNext, PollReturns
<1>4. CASE Surroundings
  BY <1>4
  DEF Surroundings, SchedulerRuns, ParkElsewhere, DropElsewhere, WakeElsewhere,
      SpawnElsewhere, UnboundedNext
<1> QED
  BY <1>1, <1>2, <1>3, <1>4 DEF ChannelStep, CallStep

\* The scheduler's invariants hold in every channel.
LEMMA SchedulerInvKept == ReceiverInv /\ ChannelStep => SchedulerInv'
BY ChannelStepIsUnbounded, SchedulerInvInductive DEF ReceiverInv

(***************************************************************************)
(* Types, and the exclusive use of the cell.                               *)
(***************************************************************************)

\* The notifier's variables keep their types in every step of an end.
LEMMA NotifierStepType ==
  ASSUME ReceiverInv, NEW e \in Ends, NEW context \in Tasks \cup {NoTask},
         NotifierStep(e, context) \/ CallNotify(e) \/ CallAwait(e)
  PROVE  NotifierTypeOK'
<1> USE DEF NotifierTypeOK, Steps
<1>1. NotifierTypeOK
  BY DEF ReceiverInv, ReceiverTypeOK
<1>2. CASE Borrow(e)
  BY <1>1, <1>2 DEF Borrow
<1>3. CASE Park(e, context)
  BY <1>1, <1>3 DEF Park
<1>4. CASE Replace(e, context)
  BY <1>1, <1>4 DEF Replace
<1>5. CASE Wake(e)
  BY <1>1, <1>5 DEF Wake
<1>6. CASE Release(e)
  BY <1>1, <1>6 DEF Release
<1>7. CASE CallNotify(e) \/ CallAwait(e)
  BY <1>1, <1>7 DEF CallNotify, CallAwait
<1> QED
  BY <1>2, <1>3, <1>4, <1>5, <1>6, <1>7 DEF NotifierStep

\* The variables of the receiver and its notifier keep their types.
LEMMA ReceiverTypeInductive == ReceiverInv /\ ChannelStep => ReceiverTypeOK'
<1> SUFFICES ASSUME ReceiverInv, ChannelStep PROVE ReceiverTypeOK'
  OBVIOUS
<1>1. TypeOK'
  BY SchedulerInvKept DEF SchedulerInv
<1>2. ReceiverTypeOK /\ NotifierTypeOK /\ TypeOK
  BY DEF ReceiverInv, ReceiverTypeOK
<1>3. ASSUME NEW s \in Senders, SenderStep(s) PROVE ReceiverTypeOK'
  BY <1>1, <1>2, <1>3, NotifierStepType
  DEF SenderStep, Ends, ReceiverTypeOK, receiverVars
<1>4. CASE NotifierStep(Rx, owner) /\ UNCHANGED receiverVars
  BY <1>1, <1>2, <1>4, NotifierStepType DEF Ends, ReceiverTypeOK, receiverVars
<1>5. CASE UNCHANGED <<schedVars, notifierVars, receiverVars>>
  BY <1>1, <1>2, <1>5 DEF ReceiverTypeOK, NotifierTypeOK, notifierVars, receiverVars
<1>6. CASE StartPoll \/ GetResult \/ EndDropReceiver
  BY <1>1, <1>2, <1>6
  DEF StartPoll, GetResult, EndDropReceiver, ReceiverTypeOK, NotifierTypeOK, notifierVars
<1>7. CASE GetNothing
  <2>1. NotifierTypeOK'
    BY <1>2, <1>7, NotifierStepType
    DEF GetNothing, Ends, NotifierTypeOK, notifierVars
  <2> QED
    BY <1>1, <1>2, <1>7, <2>1 DEF GetNothing, ReceiverTypeOK
<1>8. CASE StartDropReceiver
  <2>1. NotifierTypeOK'
    BY <1>8, NotifierStepType DEF StartDropReceiver, Ends
  <2> QED
    BY <1>1, <1>2, <1>8, <2>1 DEF StartDropReceiver, ReceiverTypeOK
<1>9. CASE TakeReceiver
  <2>1. current \in Tasks
    BY <1>2, <1>9 DEF TakeReceiver, TypeOK
  <2>2. moves' \in 0 .. MaxMoves
    BY <1>2, <1>9, ReceiverAssumption DEF TakeReceiver, ReceiverTypeOK
  <2>3. NotifierTypeOK'
    BY <1>2, <1>9 DEF TakeReceiver, NotifierTypeOK, notifierVars
  <2> QED
    BY <1>1, <1>2, <1>9, <2>1, <2>2, <2>3 DEF TakeReceiver, ReceiverTypeOK
<1>10. ASSUME NEW done \in BOOLEAN, FiberReturns(done) PROVE ReceiverTypeOK'
  BY <1>1, <1>2, <1>10
  DEF FiberReturns, FiberNotReady, FiberReady, ReceiverTypeOK, NotifierTypeOK, notifierVars
<1>11. CASE Surroundings
  BY <1>1, <1>2, <1>11
  DEF Surroundings, SchedulerRuns, ParkElsewhere, DropElsewhere, WakeElsewhere,
      SpawnElsewhere, ReceiverTypeOK, NotifierTypeOK, notifierVars, receiverVars
<1> QED
  BY <1>3, <1>4, <1>5, <1>6, <1>7, <1>8, <1>9, <1>10, <1>11 
  DEF ChannelStep, CallStep, ReceiverStep, ReceiverCall

\* Two ends never have the cell of the notifier at a time: an end gets it only
\* when its pointer is there, and nobody but that end puts the pointer back.
LEMMA BorrowInductive ==
  ReceiverInv /\ ChannelStep => BorrowIsExclusive'
<1> SUFFICES ASSUME ReceiverInv, ChannelStep PROVE BorrowIsExclusive'
  OBVIOUS
<1>1. /\ BorrowIsExclusive /\ step \in [Ends -> Steps]
      /\ NoTask \notin Ends
  BY NotifierAssumption DEF ReceiverInv, ReceiverTypeOK, NotifierTypeOK
<1>2. ASSUME NEW e \in Ends, NEW context, NotifierStep(e, context)
      PROVE  BorrowIsExclusive'
  BY <1>1, <1>2
  DEF NotifierStep, Borrow, Park, Replace, Wake, Release, BorrowIsExclusive
<1>3. ASSUME NEW e \in Ends, CallNotify(e) \/ CallAwait(e)
      PROVE  BorrowIsExclusive'
  BY <1>1, <1>3 DEF CallNotify, CallAwait, BorrowIsExclusive
<1>4. CASE UNCHANGED notifierVars
  BY <1>1, <1>4 DEF notifierVars, BorrowIsExclusive
<1>5. ASSUME NEW s \in Senders, SenderStep(s) PROVE BorrowIsExclusive'
  BY <1>2, <1>3, <1>5 DEF SenderStep, Ends
<1>6. CASE ReceiverStep
  BY <1>2, <1>3, <1>4, <1>6
  DEF ReceiverStep, ReceiverCall, Ends, StartPoll, GetResult, GetNothing, StartDropReceiver,
      EndDropReceiver, TakeReceiver
<1>7. ASSUME NEW done \in BOOLEAN, FiberReturns(done) PROVE BorrowIsExclusive'
  BY <1>4, <1>7 DEF FiberReturns, FiberNotReady, FiberReady
<1>8. CASE Surroundings
  BY <1>4, <1>8
  DEF Surroundings, SchedulerRuns, ParkElsewhere, DropElsewhere, WakeElsewhere,
      SpawnElsewhere
<1> QED
  BY <1>4, <1>5, <1>6, <1>7, <1>8 DEF ChannelStep, CallStep

(***************************************************************************)
(* What the ends are doing.                                                *)
(***************************************************************************)

\* The scheduler's thread polls nobody when it takes a step of its own, and takes
\* unparks from no fiber but the one it is going to poll.
LEMMA SchedulerStepEffect ==
  ASSUME SchedulerInv, SchedulerStep, pollerAlive
  PROVE  /\ pc # "poll" /\ current = NoTask
         /\ pc' # "panicked" /\ pollerAlive'
         /\ \A t \in Tasks : t # current' => unparks'[t] = unparks[t]
<1>1. /\ unparks \in [Tasks -> Nat] /\ fibers \in [FiberId -> Tasks \cup {NoTask}]
      /\ pc \in {"out", "request", "task", "recv"} => current = NoTask
  BY DEF SchedulerInv, TypeOK, FiberTableConsistent
<1>2. CASE NextRunnable
  <2>1. PICK t \in Tasks :
          \/ pollerAlive /\ ConsumeUnpark(t) /\ current' = t /\ pc' = "poll"
          \/ pc' = "panicked"
    BY <1>2, NextRunnableFirst DEF SchedulerInv
  <2>2. pc = "task" /\ pollerAlive' /\ pc' # "panicked"
    BY <1>2 DEF NextRunnable
  <2> QED
    BY <1>1, <2>1, <2>2 DEF ConsumeUnpark
<1>3. CASE \/ NothingRunnable \/ TryRecv \/ Recv
           \/ \E block \in BOOLEAN : RunOnce(block)
  <2>1. /\ unparks' = unparks /\ pollerAlive' = pollerAlive
        /\ pc \in {"out", "request", "task", "recv"} /\ pc' # "panicked"
    BY <1>3 DEF NothingRunnable, TryRecv, Recv, RunOnce, HandleRequest, counterVars
  <2> QED
    BY <1>1, <2>1
<1> QED
  BY <1>2, <1>3 DEF SchedulerStep

\* An Unpark that is dropped is an unpark to its fiber's credit.
LEMMA DropUnparkEffect ==
  ASSUME TypeOK, NEW t \in Tasks, DropUnpark(t)
  PROVE  /\ unparks'[t] > 0
         /\ \A u \in Tasks : unparks[u] > 0 => unparks'[u] > 0
         /\ UNCHANGED threadVars
BY DEF DropUnpark, TypeOK

\* What an end's step in await_notification or notify does to the credit.
LEMMA NotifierStepEffect ==
  ASSUME ReceiverInv, NEW e \in Ends, NEW context, NotifierStep(e, context)
  PROVE  /\ UNCHANGED threadVars
         /\ \A u \in Tasks : unparks[u] > 0 => unparks'[u] > 0
         /\ unpark' # unpark /\ unpark \in Tasks => unparks'[unpark] > 0
<1>1. TypeOK /\ unpark \in Tasks \cup {NoTask}
  BY DEF ReceiverInv, ReceiverTypeOK, NotifierTypeOK
<1>2. CASE Borrow(e) \/ Release(e)
  BY <1>2 DEF Borrow, Release, schedVars, counterVars
<1>3. CASE Park(e, context)
  BY <1>3 DEF Park, ParkFiber, schedVars, counterVars
<1>4. CASE Replace(e, context)
  BY <1>1, <1>4, DropUnparkEffect, SchedulerAssumption DEF Replace, schedVars, counterVars
<1>5. CASE Wake(e)
  BY <1>5 DEF Wake, SendWakeUp
<1> QED
  BY <1>2, <1>3, <1>4, <1>5 DEF NotifierStep

\* A fiber keeps its credit until it is polled.
LEMMA CreditKept ==
  ASSUME ReceiverInv, ChannelStep, NEW t \in Tasks, unparks[t] > 0
  PROVE  unparks'[t] > 0 \/ (pc # "poll" /\ current' = t)
<1>1. TypeOK /\ SchedulerInv /\ pollerAlive
  BY DEF ReceiverInv, ReceiverTypeOK, EndsInStep
<1>2. ASSUME NEW s \in Senders, SenderStep(s) PROVE unparks'[t] > 0
  BY <1>2, NotifierStepEffect DEF SenderStep, Ends, schedVars, counterVars
<1>3. CASE ReceiverStep
  BY <1>3, NotifierStepEffect
  DEF ReceiverStep, ReceiverCall, Ends, StartPoll, GetResult, GetNothing, StartDropReceiver,
      EndDropReceiver, TakeReceiver, schedVars, counterVars
<1>4. ASSUME NEW done \in BOOLEAN, FiberReturns(done) PROVE unparks'[t] > 0
  BY <1>4 DEF FiberReturns, FiberNotReady, FiberReady, PollReady, PollNotReady, counterVars
<1>5. CASE SchedulerRuns
  BY <1>1, <1>5, SchedulerStepEffect DEF SchedulerRuns
<1>6. CASE Surroundings /\ ~ SchedulerRuns
  BY <1>1, <1>6, DropUnparkEffect
  DEF Surroundings, ParkElsewhere, DropElsewhere, WakeElsewhere, SpawnElsewhere,
      ParkFiber, SendWakeUp, Spawn, counterVars
<1>7. CASE UNCHANGED schedVars
  BY <1>7 DEF schedVars, counterVars
<1> QED
  BY <1>2, <1>3, <1>4, <1>5, <1>6, <1>7 DEF ChannelStep, CallStep

\* The receiver's calls keep the ends in step: it awaits when its fiber is polled,
\* and when it has found nothing for the second time its fiber is registered.
LEMMA ReceiverCallInStep ==
  ASSUME ReceiverInv, ReceiverCall
  PROVE  EndsInStep'
<1>1. /\ EndsInStep /\ TypeOK
      /\ step \in [Ends -> Steps] /\ Rx \in Ends
      /\ rx \in {"idle", "poll", "await", "dropping", "gone"}
  BY DEF ReceiverInv, ReceiverTypeOK, NotifierTypeOK, Ends
<1>2. CASE StartPoll
  BY <1>1, <1>2, SchedulerAssumption
  DEF StartPoll, OwnerRuns, EndsInStep, Registered, schedVars, counterVars, threadVars,
      notifierVars
<1>3. CASE GetResult
  BY <1>1, <1>3
  DEF GetResult, Trying, EndsInStep, Registered, schedVars, counterVars, threadVars,
      notifierVars
<1>4. CASE GetNothing
  <2>1. /\ UNCHANGED <<pc, pollerAlive, current, owner, dropped, unparks, unpark>>
        /\ Trying
    BY <1>4 DEF GetNothing, CallAwait, schedVars, counterVars, threadVars, notifierVars
  <2>2. CASE /\ rx = "poll" /\ rx' = "await" /\ CallAwait(Rx) /\ UNCHANGED polled
    BY <1>1, <2>1, <2>2 DEF CallAwait, EndsInStep, Registered
  <2>3. CASE /\ rx = "await" /\ rx' = "idle" /\ polled' = (owner # NoTask)
             /\ UNCHANGED notifierVars
    <3>1. owner \in Tasks \cup {NoTask}
      BY DEF ReceiverInv, ReceiverTypeOK
    <3> QED
      BY <1>1, <2>1, <2>3, <3>1 DEF Trying, EndsInStep, notifierVars
  <2> QED
    BY <1>4, <2>2, <2>3 DEF GetNothing
<1>5. CASE StartDropReceiver
  <2>1. UNCHANGED <<pc, pollerAlive, current, owner, dropped, polled>>
    BY <1>5 DEF StartDropReceiver, CallNotify, schedVars, threadVars
  <2> QED
    BY <1>1, <1>5, <2>1, SchedulerAssumption
    DEF StartDropReceiver, CallNotify, OwnerRuns, EndsInStep
<1>6. CASE EndDropReceiver
  BY <1>1, <1>6
  DEF EndDropReceiver, EndsInStep, schedVars, threadVars, notifierVars
<1>7. CASE TakeReceiver
  BY <1>1, <1>7
  DEF TakeReceiver, EndsInStep, schedVars, threadVars, notifierVars
<1> QED
  BY <1>2, <1>3, <1>4, <1>5, <1>6, <1>7 DEF ReceiverCall

\* Each step of await_notification or notify keeps the ends in step.
LEMMA NotifierStepInStep ==
  ASSUME ReceiverInv, NEW e \in Ends, UNCHANGED receiverVars,
         \/ e # Rx /\ NotifierStep(e, NoTask)
         \/ e = Rx /\ NotifierStep(Rx, owner)
  PROVE  EndsInStep'
<1>1. /\ EndsInStep
      /\ step \in [Ends -> Steps] /\ dropped \in [Ends -> Tasks \cup {NoTask}]
      /\ unpark \in Tasks \cup {NoTask} /\ owner \in Tasks \cup {NoTask}
      /\ Rx \in Ends
  BY DEF ReceiverInv, ReceiverTypeOK, NotifierTypeOK, Ends
<1>2. /\ UNCHANGED <<pc, current, pollerAlive, rx, owner, polled, awaiting>>
      /\ \A u \in Tasks : unparks[u] > 0 => unparks'[u] > 0
      /\ unpark' # unpark /\ unpark \in Tasks => unparks'[unpark] > 0
  BY NotifierStepEffect
  DEF threadVars, receiverVars, NotifierStep, Borrow, Park, Replace, Wake, Release
<1>3. step[e] # "idle"
  BY DEF NotifierStep, Borrow, Park, Replace, Wake, Release
<1>4. Registered => Registered'
  BY <1>1, <1>2 DEF Registered
<1>5. \A x \in Ends \ {e} : step'[x] = step[x] /\ dropped'[x] = dropped[x]
  BY <1>1 DEF NotifierStep, Borrow, Park, Replace, Wake, Release
<1>6. /\ step'[e] = "wake" => dropped'[e] \in Tasks
      /\ step'[e] = "park" => e \in awaiting
  BY <1>1 DEF NotifierStep, Borrow, Park, Replace, Wake, Release
<1>7. ASSUME e = Rx, rx = "await", step'[Rx] \in {"idle", "wake", "release"}
      PROVE  Registered'
  <2>1. Rx \in awaiting
    BY <1>1, <1>3, <1>7 DEF EndsInStep
  <2>2. NotifierStep(Rx, owner)
    BY <1>7
  <2>3. CASE Park(Rx, owner)
    BY <1>1, <1>2, <1>7, <2>3 DEF Park, Registered
  <2>4. CASE Replace(Rx, owner)
    BY <1>1, <1>2, <2>1, <2>4 DEF Replace, Registered
  <2>5. CASE Wake(Rx) \/ Release(Rx)
    BY <1>1, <1>4, <1>7, <2>5 DEF Wake, Release, EndsInStep
  <2>6. CASE Borrow(Rx)
    BY <1>1, <1>7, <2>1, <2>6 DEF Borrow
  <2> QED
    BY <2>2, <2>3, <2>4, <2>5, <2>6 DEF NotifierStep
<1> QED
  BY <1>1, <1>2, <1>3, <1>4, <1>5, <1>6, <1>7 DEF EndsInStep

\* Every step of a channel keeps the ends in step.
LEMMA EndsInStepInductive == ReceiverInv /\ ChannelStep => EndsInStep'
<1> SUFFICES ASSUME ReceiverInv, ChannelStep PROVE EndsInStep'
  OBVIOUS
<1>1. EndsInStep /\ SchedulerInv /\ TypeOK /\ pollerAlive
  BY DEF ReceiverInv, EndsInStep, ReceiverTypeOK
<1>2. ASSUME UNCHANGED <<notifierVars, receiverVars>>,
             UNCHANGED <<pc, current, pollerAlive>>,
             \A t \in Tasks : unparks[t] > 0 => unparks'[t] > 0
      PROVE  EndsInStep'
  BY <1>1, <1>2 DEF EndsInStep, Registered, notifierVars, receiverVars
<1>3. ASSUME NEW s \in Senders, SenderStep(s) PROVE EndsInStep'
  <2>1. s \in Ends /\ s # Rx
    BY NotifierAssumption DEF Ends
  <2>2. CASE CallNotify(s) /\ UNCHANGED <<schedVars, receiverVars>>
    <3>1. step \in [Ends -> Steps]
      BY DEF ReceiverInv, ReceiverTypeOK, NotifierTypeOK
    <3> QED
      BY <1>1, <2>1, <2>2, <3>1
      DEF CallNotify, EndsInStep, Registered, receiverVars, schedVars, counterVars,
          threadVars
  <2> QED
    BY <1>3, <2>1, <2>2, NotifierStepInStep DEF SenderStep
<1>4. CASE ReceiverStep
  BY <1>4, ReceiverCallInStep, NotifierStepInStep DEF ReceiverStep, Ends
<1>5. ASSUME NEW done \in BOOLEAN, FiberReturns(done) PROVE EndsInStep'
  <2>1. /\ UNCHANGED <<notifierVars, rx, pollerAlive, unparks>>
        /\ pc = "poll" /\ pc' = "out" /\ polled' = FALSE
        /\ current = owner => rx \in {"idle", "gone"}
        /\ owner' = owner \/ owner' = NoTask
    BY <1>5
    DEF FiberReturns, FiberNotReady, FiberReady, BetweenCalls, PollReady, PollNotReady,
        counterVars
  <2> QED
    BY <1>1, <2>1, SchedulerAssumption DEF EndsInStep, Registered, notifierVars
<1>6. CASE SchedulerRuns
  <2>1. /\ UNCHANGED <<notifierVars, receiverVars>>
        /\ pc # "poll" /\ pc' # "panicked" /\ pollerAlive'
    BY <1>1, <1>6, SchedulerStepEffect DEF SchedulerRuns
  <2> QED
    BY <1>1, <2>1 DEF EndsInStep, Registered, notifierVars, receiverVars
<1>7. CASE Surroundings /\ ~ SchedulerRuns
  <2>1. /\ UNCHANGED <<notifierVars, receiverVars, threadVars>>
        /\ \A t \in Tasks : unparks[t] > 0 => unparks'[t] > 0
    BY <1>1, <1>7, DropUnparkEffect
    DEF Surroundings, ParkElsewhere, DropElsewhere, WakeElsewhere, SpawnElsewhere,
        ParkFiber, SendWakeUp, Spawn, counterVars
  <2> QED
    BY <1>2, <2>1 DEF threadVars
<1>8. CASE UNCHANGED <<schedVars, notifierVars, receiverVars>>
  BY <1>2, <1>8 DEF schedVars, counterVars, threadVars
<1> QED
  BY <1>3, <1>4, <1>5, <1>6, <1>7, <1>8 DEF ChannelStep, CallStep

\* The invariants of all channels, together.
LEMMA ReceiverInvInit == ReceiverInit => ReceiverInv
<1> SUFFICES ASSUME ReceiverInit PROVE ReceiverInv
  OBVIOUS
<1>1. SchedulerInv /\ TypeOK
  BY SchedulerInvInit DEF ReceiverInit, SchedulerInv
<1>2. ReceiverTypeOK
  <2>1. NotifierTypeOK
    BY DEF ReceiverInit, NotifierInit, NotifierTypeOK, Steps
  <2>2. moves \in 0 .. MaxMoves
    BY ReceiverAssumption DEF ReceiverInit
  <2> QED
    BY <1>1, <2>1, <2>2 DEF ReceiverInit, ReceiverTypeOK
<1>3. BorrowIsExclusive
  BY DEF ReceiverInit, NotifierInit, BorrowIsExclusive
<1>4. EndsInStep
  BY SchedulerAssumption DEF ReceiverInit, NotifierInit, Init, EndsInStep, Ends
<1> QED
  BY <1>1, <1>2, <1>3, <1>4 DEF ReceiverInv

\* Every step of a channel keeps them.
LEMMA ReceiverInvInductive == ReceiverInv /\ ChannelStep => ReceiverInv'
BY SchedulerInvKept, ReceiverTypeInductive, BorrowInductive, EndsInStepInductive
DEF ReceiverInv

(***************************************************************************)
(* Unpark objects.  At most one end is between the two halves of the drop  *)
(* of an Unpark, because it has the cell: what UnparksAccounted counts is  *)
(* one or none.                                                            *)
(***************************************************************************)

WakingHere(t) ==
  IF borrower \in Ends /\ step[borrower] = "wake" /\ dropped[borrower] = t THEN 1 ELSE 0

Accounted(t) ==
  /\ held[t] >= UnparksStored(t, owner)
  /\ waking[t] >= WakingHere(t)
  /\ MaxParks = 0 => held[t] = UnparksStored(t, owner) /\ waking[t] = WakingHere(t)

AllAccounted == \A t \in Tasks : Accounted(t)

\* The ends that are about to send the WakeUp request for a fiber.
LEMMA WakingCount ==
  ASSUME BorrowIsExclusive, NEW t
  PROVE  Cardinality({e \in Ends : step[e] = "wake" /\ dropped[e] = t}) = WakingHere(t)
<1> DEFINE W == {e \in Ends : step[e] = "wake" /\ dropped[e] = t}
<1>1. \A e \in Ends : step[e] = "wake" => borrower = e
  BY DEF BorrowIsExclusive
<1>2. CASE borrower \in Ends /\ step[borrower] = "wake" /\ dropped[borrower] = t
  <2>1. W = {borrower}
    BY <1>1, <1>2
  <2>2. Cardinality(W) = 1
    BY <2>1, FS_Singleton
  <2> QED
    BY <1>2, <2>2 DEF WakingHere
<1>3. CASE ~ (borrower \in Ends /\ step[borrower] = "wake" /\ dropped[borrower] = t)
  <2>1. W = {}
    BY <1>1, <1>3
  <2>2. Cardinality(W) = 0
    BY <2>1, FS_EmptySet
  <2> QED
    BY <1>3, <2>2 DEF WakingHere
<1> QED
  BY <1>2, <1>3

\* So the Unparks of every fiber are accounted for when they are accounted for one
\* by one.
LEMMA AccountedOneByOne == ReceiverInv /\ AllAccounted => UnparksAccounted
<1> SUFFICES ASSUME ReceiverInv, AllAccounted PROVE UnparksAccounted
  OBVIOUS
<1>1. /\ held \in [Tasks -> Nat] /\ waking \in [Tasks -> Nat]
      /\ BorrowIsExclusive
  BY DEF ReceiverInv, ReceiverTypeOK, TypeOK
<1>2. ASSUME NEW t \in Tasks
      PROVE  Cardinality({e \in Ends : step[e] = "wake" /\ dropped[e] = t}) = WakingHere(t)
  BY <1>1, WakingCount
<1>3. ASSUME NEW t \in Tasks
      PROVE  UnparksStored(t, owner) \in Nat /\ WakingHere(t) \in Nat
  BY DEF UnparksStored, WakingHere
<1>4. ASSUME NEW t \in Tasks
      PROVE  Accounted(t) =>
               /\ HeldElsewhere(t) >= 0 /\ WakingElsewhere(t) >= 0
               /\ MaxParks = 0 => HeldElsewhere(t) = 0 /\ WakingElsewhere(t) = 0
  <2>1. HeldElsewhere(t) = held[t] - UnparksStored(t, owner)
    BY DEF HeldElsewhere
  <2>2. WakingElsewhere(t) = waking[t] - WakingHere(t)
    BY <1>2 DEF WakingElsewhere
  <2> QED
    BY <1>1, <1>3, <2>1, <2>2 DEF Accounted
<1> QED
  BY <1>4 DEF UnparksAccounted, AllAccounted

\* What dropping an Unpark of fiber u does to the Unparks of fiber t.
LEMMA DropUnparkCounts ==
  ASSUME TypeOK, NEW u \in Tasks, NEW t \in Tasks, DropUnpark(u)
  PROVE  /\ held'[t] = held[t] - (IF t = u THEN 1 ELSE 0)
         /\ waking'[t] = waking[t] + (IF t = u /\ waking' # waking THEN 1 ELSE 0)
         /\ waking' = waking \/ waking' = [waking EXCEPT ![u] = @ + 1]
BY DEF DropUnpark, TypeOK

\* An end's step in await_notification or notify keeps the account: the Unpark it
\* creates is stored, the one it finds is dropped, and that drop is finished.
LEMMA NotifierStepAccounted ==
  ASSUME ReceiverInv, NEW e \in Ends, UNCHANGED receiverVars,
         \/ e # Rx /\ NotifierStep(e, NoTask)
         \/ e = Rx /\ NotifierStep(Rx, owner),
         NEW t \in Tasks, Accounted(t)
  PROVE  Accounted(t)'
<1>1. /\ EndsInStep /\ BorrowIsExclusive /\ TypeOK
      /\ step \in [Ends -> Steps] /\ dropped \in [Ends -> Tasks \cup {NoTask}]
      /\ unpark \in Tasks \cup {NoTask} /\ owner \in Tasks \cup {NoTask}
      /\ Rx \in Ends /\ NoTask \notin Ends /\ NoTask \notin Tasks
      /\ borrower \in Ends \cup {NoTask}
      /\ rx \in {"idle", "poll", "await", "dropping", "gone"}
      /\ held \in [Tasks -> Nat] /\ waking \in [Tasks -> Nat]
  BY NotifierAssumption, SchedulerAssumption
  DEF ReceiverInv, ReceiverTypeOK, NotifierTypeOK, Ends, TypeOK
<1>2. owner' = owner
  BY DEF receiverVars
<1>3. e \in awaiting => e = Rx
  BY <1>1 DEF EndsInStep
<1>4. CASE Borrow(e)
  <2>1. UNCHANGED <<held, waking, unpark, awaiting, dropped>> /\ borrower = NoTask
    BY <1>4 DEF Borrow, schedVars, counterVars
  <2>2. step' = [step EXCEPT ![e] = IF e \in awaiting THEN "park" ELSE "replace"]
        /\ borrower' = e
    BY <1>4 DEF Borrow
  <2>3. UnparksStored(t, owner)' = UnparksStored(t, owner)
    BY <1>1, <1>2, <1>4, <2>1, <2>2 DEF Borrow, UnparksStored
  <2>4. WakingHere(t) = 0 /\ WakingHere(t)' = 0
    BY <1>1, <2>1, <2>2 DEF WakingHere
  <2> QED
    BY <2>1, <2>3, <2>4 DEF Accounted
<1>5. CASE \E context \in {NoTask, owner} : Park(e, context)
  <2>1. Park(Rx, owner) /\ e = Rx
    BY <1>1, <1>3, <1>5 DEF EndsInStep, NotifierStep, Park, Borrow, Replace, Wake, Release
  <2>2. UNCHANGED <<unpark, awaiting, dropped, borrower>> /\ Rx \in awaiting
        /\ step[Rx] = "park" /\ borrower = Rx
    BY <1>1, <2>1 DEF Park, EndsInStep, BorrowIsExclusive
  <2>3. owner \in Tasks => pc = "poll" /\ current = owner
    BY <1>1, <2>2 DEF EndsInStep
  <2>4. CASE unpark = owner
    BY <1>1, <1>2, <2>1, <2>2, <2>4
    DEF Park, Accounted, UnparksStored, WakingHere, schedVars, counterVars
  <2>5. CASE unpark # owner
    <3>1. step' = [step EXCEPT ![Rx] = "replace"]
      BY <2>1, <2>5 DEF Park
    <3>2. WakingHere(t)' = 0 /\ WakingHere(t) = 0 /\ waking' = waking
      BY <1>1, <2>1, <2>2, <2>5, <3>1
      DEF Park, ParkFiber, WakingHere, schedVars, counterVars
    <3>3. UnparksStored(t, owner)'
            = UnparksStored(t, owner) + (IF owner = t THEN 1 ELSE 0)
      BY <1>1, <1>2, <2>2, <3>1 DEF UnparksStored
    <3>4. held'[t] = held[t] + (IF owner = t THEN 1 ELSE 0)
      BY <1>1, <2>1, <2>3, <2>5 DEF Park, ParkFiber, schedVars, counterVars
    <3>5. UnparksStored(t, owner) \in Nat
      BY DEF UnparksStored
    <3> QED
      BY <1>1, <3>2, <3>3, <3>4, <3>5 DEF Accounted
  <2> QED
    BY <2>4, <2>5
<1>6. CASE \E context \in {NoTask, owner} : Replace(e, context)
  <2>1. /\ step[e] = "replace" /\ borrower = e /\ UNCHANGED <<borrower, awaiting>>
        /\ dropped' = [dropped EXCEPT ![e] = unpark]
        /\ step' = [step EXCEPT ![e] =
                      IF unpark # NoTask /\ waking' # waking THEN "wake" ELSE "release"]
        /\ IF unpark = NoTask THEN UNCHANGED schedVars ELSE DropUnpark(unpark)
    BY <1>1, <1>6 DEF Replace, BorrowIsExclusive
  <2>2. unpark' = IF e \in awaiting THEN owner ELSE NoTask
    BY <1>3, <1>6 DEF NotifierStep, Replace, Borrow, Park, Wake, Release
  <2>3. WakingHere(t) = 0
    BY <2>1 DEF WakingHere
  <2>4. WakingHere(t)' = IF unpark = t /\ waking' # waking THEN 1 ELSE 0
    BY <1>1, <2>1 DEF WakingHere
  <2>5. UnparksStored(t, owner)
          = UnparksStored(t, owner)' + (IF unpark = t THEN 1 ELSE 0)
    <3>1. CASE e = Rx
      BY <1>1, <1>2, <2>1, <2>2, <3>1 DEF UnparksStored
    <3>2. CASE e # Rx
      BY <1>1, <1>2, <1>3, <2>1, <2>2, <3>2 DEF UnparksStored
    <3> QED
      BY <3>1, <3>2
  <2>6. /\ held'[t] = held[t] - (IF unpark = t THEN 1 ELSE 0)
        /\ waking'[t] = waking[t] + (IF unpark = t /\ waking' # waking THEN 1 ELSE 0)
    <3>1. CASE unpark = NoTask
      BY <1>1, <2>1, <3>1 DEF schedVars, counterVars
    <3>2. CASE unpark # NoTask
      BY <1>1, <2>1, <3>2, DropUnparkCounts
    <3> QED
      BY <3>1, <3>2
  <2>7. UnparksStored(t, owner) \in Nat /\ UnparksStored(t, owner)' \in Nat
    BY DEF UnparksStored
  <2> QED
    BY <1>1, <2>3, <2>4, <2>5, <2>6, <2>7 DEF Accounted
<1>7. CASE Wake(e)
  <2>1. /\ step[e] = "wake" /\ borrower = e /\ dropped[e] \in Tasks
        /\ UNCHANGED <<borrower, unpark, awaiting, dropped, held>>
        /\ step' = [step EXCEPT ![e] = "release"]
        /\ waking' = [waking EXCEPT ![dropped[e]] = @ - 1]
    BY <1>1, <1>7 DEF Wake, SendWakeUp, EndsInStep, BorrowIsExclusive
  <2>2. UnparksStored(t, owner)' = UnparksStored(t, owner)
    BY <1>1, <1>2, <2>1 DEF UnparksStored
  <2>3. WakingHere(t) = (IF dropped[e] = t THEN 1 ELSE 0) /\ WakingHere(t)' = 0
    BY <1>1, <2>1 DEF WakingHere
  <2>4. waking'[t] = waking[t] - (IF dropped[e] = t THEN 1 ELSE 0)
    BY <1>1, <2>1
  <2> QED
    BY <1>1, <2>1, <2>2, <2>3, <2>4 DEF Accounted
<1>8. CASE Release(e)
  <2>1. /\ step[e] = "release" /\ borrower = e /\ borrower' = NoTask
        /\ UNCHANGED <<unpark, awaiting, held, waking>>
        /\ step' = [step EXCEPT ![e] = "idle"]
    BY <1>1, <1>8 DEF Release, BorrowIsExclusive, schedVars, counterVars
  <2>2. UnparksStored(t, owner)' = UnparksStored(t, owner)
    BY <1>1, <1>2, <2>1 DEF UnparksStored
  <2>3. WakingHere(t) = 0 /\ WakingHere(t)' = 0
    BY <1>1, <2>1 DEF WakingHere
  <2> QED
    BY <2>1, <2>2, <2>3 DEF Accounted
<1> QED
  BY <1>4, <1>5, <1>6, <1>7, <1>8 DEF NotifierStep

\* With MaxParks = 0 no other object parks a fiber.
LEMMA ParksOfOthers == MaxParks = 0 => ~ ParksSuffice
<1> SUFFICES ASSUME MaxParks = 0, ParksSuffice PROVE FALSE
  OBVIOUS
<1>1. {u \in Tasks \X (1 .. MaxParks) : u[2] <= Outstanding(u[1])} = {}
  OBVIOUS
<1> QED
  BY <1>1, FS_EmptySet DEF ParksSuffice

\* Every step of a channel keeps the Unpark objects accounted for.
LEMMA AccountedInductive ==
  ReceiverInv /\ AllAccounted /\ ChannelStep => AllAccounted'
<1> SUFFICES ASSUME ReceiverInv, AllAccounted, ChannelStep, NEW t \in Tasks
             PROVE  Accounted(t)'
  BY DEF AllAccounted
<1>1. /\ Accounted(t) /\ EndsInStep /\ TypeOK
      /\ step \in [Ends -> Steps] /\ Rx \in Ends
      /\ held \in [Tasks -> Nat] /\ waking \in [Tasks -> Nat]
  BY DEF AllAccounted, ReceiverInv, ReceiverTypeOK, NotifierTypeOK, TypeOK, Ends
<1>2. ASSUME UNCHANGED <<held, waking, notifierVars>>,
             owner' = owner \/ step[Rx] # "replace"
      PROVE  Accounted(t)'
  BY <1>1, <1>2 DEF Accounted, UnparksStored, WakingHere, notifierVars
<1>3. ASSUME NEW s \in Senders, SenderStep(s) PROVE Accounted(t)'
  <2>1. s \in Ends /\ s # Rx
    BY NotifierAssumption DEF Ends
  <2>2. CASE CallNotify(s) /\ UNCHANGED <<schedVars, receiverVars>>
    BY <1>1, <2>1, <2>2
    DEF CallNotify, Accounted, UnparksStored, WakingHere, schedVars, counterVars,
        receiverVars
  <2> QED
    BY <1>1, <1>3, <2>1, <2>2, NotifierStepAccounted DEF SenderStep
<1>4. CASE NotifierStep(Rx, owner) /\ UNCHANGED receiverVars
  BY <1>1, <1>4, NotifierStepAccounted
<1>5. CASE ReceiverCall
  <2>1. UNCHANGED <<held, waking>>
    BY <1>5
    DEF ReceiverCall, StartPoll, GetResult, GetNothing, StartDropReceiver,
        EndDropReceiver, TakeReceiver, schedVars, counterVars
  <2>2. CASE CallAwait(Rx) \/ CallNotify(Rx)
    <3>1. step'[Rx] # step[Rx]
      BY <1>1, <2>2 DEF CallAwait, CallNotify
    <3>2. owner' = owner
      BY <1>5, <3>1
      DEF ReceiverCall, StartPoll, GetResult, GetNothing, StartDropReceiver,
          EndDropReceiver, TakeReceiver, notifierVars
    <3> QED
      BY <1>1, <2>1, <2>2, <3>2
      DEF CallAwait, CallNotify, Accounted, UnparksStored, WakingHere
  <2>3. CASE UNCHANGED notifierVars
    <3>1. owner' = owner \/ step[Rx] # "replace"
      BY <1>1, <1>5
      DEF ReceiverCall, StartPoll, GetResult, GetNothing, StartDropReceiver,
          EndDropReceiver, TakeReceiver, EndsInStep
    <3> QED
      BY <1>2, <2>1, <2>3, <3>1
  <2> QED
    BY <1>5, <2>2, <2>3
    DEF ReceiverCall, StartPoll, GetResult, GetNothing, StartDropReceiver,
        EndDropReceiver, TakeReceiver
<1>6. ASSUME NEW done \in BOOLEAN, FiberReturns(done) PROVE Accounted(t)'
  <2>1. /\ UNCHANGED <<held, waking, notifierVars>>
        /\ owner' = owner \/ (current = owner /\ rx \in {"idle", "gone"})
    BY <1>6
    DEF FiberReturns, FiberNotReady, FiberReady, BetweenCalls, PollReady, PollNotReady,
        counterVars
  <2> QED
    BY <1>1, <1>2, <2>1 DEF EndsInStep
<1>7. CASE SchedulerRuns \/ \E u \in Tasks : SpawnElsewhere(u)
  <2>1. UNCHANGED <<held, waking, notifierVars, receiverVars>>
    BY <1>7
    DEF SchedulerRuns, SchedulerStep, RunOnce, TryRecv, Recv, NextRunnable,
        NothingRunnable, HandleRequest, SpawnElsewhere, Spawn, counterVars
  <2> QED
    BY <1>2, <2>1 DEF receiverVars
<1>8. CASE ParkElsewhere
  <2>1. /\ MaxParks # 0 /\ UNCHANGED <<waking, notifierVars, owner>>
        /\ held'[t] >= held[t]
    BY <1>1, <1>8, ParksOfOthers DEF ParkElsewhere, ParkFiber, receiverVars, TypeOK
  <2>2. UnparksStored(t, owner) \in Nat /\ held'[t] \in Nat
    BY <1>1, <1>8 DEF UnparksStored, ParkElsewhere, ParkFiber, TypeOK
  <2> QED
    BY <1>1, <2>1, <2>2 DEF Accounted, UnparksStored, WakingHere, notifierVars
<1>9. ASSUME NEW u \in Tasks, DropElsewhere(u) \/ WakeElsewhere(u) PROVE Accounted(t)'
  <2>1. /\ HeldElsewhere(u) = held[u] - UnparksStored(u, owner)
        /\ WakingElsewhere(u) = waking[u] - WakingHere(u)
        /\ UnparksStored(t, owner)' = UnparksStored(t, owner)
        /\ WakingHere(t)' = WakingHere(t)
    <3>1. Cardinality({e \in Ends : step[e] = "wake" /\ dropped[e] = u}) = WakingHere(u)
      BY WakingCount DEF ReceiverInv
    <3>2. UNCHANGED <<notifierVars, receiverVars>>
      BY <1>9 DEF DropElsewhere, WakeElsewhere
    <3> QED
      BY <3>1, <3>2
      DEF HeldElsewhere, WakingElsewhere, UnparksStored, WakingHere, notifierVars,
          receiverVars
  <2>2. Accounted(u)
    BY DEF AllAccounted
  <2>3. /\ UnparksStored(t, owner) \in Nat /\ WakingHere(t) \in Nat
        /\ UnparksStored(u, owner) \in Nat /\ WakingHere(u) \in Nat
    BY DEF UnparksStored, WakingHere
  <2>4. CASE DropElsewhere(u)
    <3>1. /\ HeldElsewhere(u) > 0
          /\ held'[t] = held[t] - (IF t = u THEN 1 ELSE 0)
          /\ waking'[t] = waking[t] \/ waking'[t] = waking[t] + 1
      BY <1>1, <2>4, DropUnparkCounts DEF DropElsewhere
    <3> QED
      BY <1>1, <2>1, <2>2, <2>3, <3>1 DEF Accounted
  <2>5. CASE WakeElsewhere(u)
    <3>1. /\ WakingElsewhere(u) > 0 /\ held' = held
          /\ waking'[t] = waking[t] - (IF t = u THEN 1 ELSE 0)
      BY <1>1, <2>5 DEF WakeElsewhere, SendWakeUp
    <3> QED
      BY <1>1, <2>1, <2>2, <2>3, <3>1 DEF Accounted
  <2> QED
    BY <1>9, <2>4, <2>5
<1>10. CASE UNCHANGED <<schedVars, notifierVars, receiverVars>>
  BY <1>2, <1>10 DEF schedVars, counterVars, receiverVars
<1> QED
  BY <1>3, <1>4, <1>5, <1>6, <1>7, <1>8, <1>9, <1>10
  DEF ChannelStep, CallStep, ReceiverStep, Surroundings

\* They are accounted for initially.
LEMMA AccountedInit == ReceiverInit => AllAccounted
<1> SUFFICES ASSUME ReceiverInit, NEW t \in Tasks PROVE Accounted(t)
  BY DEF AllAccounted
<1> QED
  BY SchedulerAssumption
  DEF ReceiverInit, NotifierInit, Init, Accounted, UnparksStored, WakingHere, Ends

(***************************************************************************)
(* Wakeups.  The owner is away when its poll has found nothing, or is over.*)
(***************************************************************************)

OwnerAway == rx = "idle" /\ owner \in Tasks /\ (current # owner \/ polled)

\* A sender is about to take the owner's Unpark out of the cell, or somebody has.
Attended ==
  \/ unparks[owner] > 0
  \/ unpark = owner /\ \E s \in Senders : step[s] \in {"borrow", "replace"}

\* A sender that is about to drop the Unpark in the cell drops it, and no step of
\* anything else changes the cell while the owner is away.
LEMMA AwayStays ==
  ASSUME ReceiverInv, ChannelStep, OwnerAway, OwnerAway'
  PROVE  /\ owner' = owner
         /\ Registered => Registered'
         /\ Attended => Attended'
<1>1. /\ EndsInStep /\ owner \in Tasks /\ step \in [Ends -> Steps]
      /\ rx = "idle" /\ step[Rx] = "idle" /\ Rx \notin Senders
      /\ pc # "poll" => ~ polled
  BY NotifierAssumption
  DEF ReceiverInv, ReceiverTypeOK, NotifierTypeOK, OwnerAway, EndsInStep
<1>2. ~ TakeReceiver
  BY <1>1 DEF TakeReceiver, OwnerAway, schedVars, threadVars
<1>3. owner' = owner
  <2>1. ASSUME NEW done \in BOOLEAN, FiberReturns(done) PROVE owner' = owner
    BY <2>1, SchedulerAssumption DEF FiberReturns, FiberNotReady, FiberReady, OwnerAway
  <2> QED
    BY <1>2, <2>1
    DEF ChannelStep, CallStep, SenderStep, ReceiverStep, ReceiverCall, StartPoll,
        GetResult, GetNothing, StartDropReceiver, EndDropReceiver, Surroundings,
        SchedulerRuns, ParkElsewhere, DropElsewhere, WakeElsewhere, SpawnElsewhere,
        receiverVars
<1>4. unparks[owner] > 0 => unparks'[owner] > 0
  <2> SUFFICES ASSUME unparks[owner] > 0, ~ (unparks'[owner] > 0) PROVE FALSE
    OBVIOUS
  <2>1. pc # "poll" /\ current' = owner
    BY <1>1, CreditKept
  <2>2. ~ polled
    BY <1>1, <2>1
  <2>3. polled'
    BY <1>3, <2>1 DEF OwnerAway
  <2> QED
    BY <1>1, <1>2, <2>1, <2>2, <2>3
    DEF ChannelStep, CallStep, SenderStep, ReceiverStep, ReceiverCall, StartPoll,
        GetResult, GetNothing, Trying, StartDropReceiver, EndDropReceiver, Surroundings,
        SchedulerRuns, ParkElsewhere, DropElsewhere, WakeElsewhere, SpawnElsewhere,
        FiberReturns, FiberNotReady, FiberReady, BetweenCalls, receiverVars
<1>5. CASE UNCHANGED notifierVars
  BY <1>3, <1>4, <1>5 DEF Registered, Attended, notifierVars
<1>6. ASSUME NEW s \in Senders, SenderStep(s)
      PROVE  (Registered => Registered') /\ (Attended => Attended')
  <2>1. s \in Ends
    BY DEF Ends
  <2>2. CASE CallNotify(s)
    BY <1>1, <1>3, <1>4, <2>1, <2>2 DEF CallNotify, Registered, Attended, Ends
  <2>3. CASE NotifierStep(s, NoTask)
    <3>1. unpark' # unpark /\ unpark \in Tasks => unparks'[unpark] > 0
      BY <2>1, <2>3, NotifierStepEffect
    <3>2. unpark' = unpark \/ unpark # owner \/ unparks'[owner] > 0
      BY <1>1, <3>1
    <3>3. s \notin awaiting
      BY <1>1 DEF EndsInStep
    <3>4. CASE Borrow(s)
      BY <1>1, <1>3, <1>4, <2>1, <3>3, <3>4 DEF Borrow, Registered, Attended, Ends
    <3>5. CASE Replace(s, NoTask)
      <4>1. unpark' = NoTask /\ NoTask # owner
        BY <1>1, <3>3, <3>5, SchedulerAssumption DEF Replace
      <4> QED
        BY <1>3, <1>4, <3>2, <4>1 DEF Registered, Attended
    <3>6. CASE Park(s, NoTask) \/ Wake(s) \/ Release(s)
      <4>1. unpark' = unpark /\ step[s] \notin {"borrow", "replace"}
        BY <3>6 DEF Park, Wake, Release
      <4>2. \A x \in Ends \ {s} : step'[x] = step[x]
        BY <1>1, <3>6 DEF Park, Wake, Release
      <4> QED
        BY <1>3, <1>4, <4>1, <4>2 DEF Registered, Attended, Ends
    <3> QED
      BY <2>3, <3>4, <3>5, <3>6 DEF NotifierStep
  <2> QED
    BY <1>6, <2>2, <2>3 DEF SenderStep
<1>7. CASE ReceiverStep
  <2>1. UNCHANGED notifierVars
    BY <1>1, <1>2, <1>7
    DEF ReceiverStep, ReceiverCall, StartPoll, GetResult, GetNothing, Trying,
        StartDropReceiver, EndDropReceiver, OwnerAway, NotifierStep, Borrow, Park,
        Replace, Wake, Release
  <2> QED
    BY <1>5, <2>1
<1>8. CASE Surroundings \/ \E done \in BOOLEAN : FiberReturns(done)
  BY <1>5, <1>8
  DEF Surroundings, SchedulerRuns, ParkElsewhere, DropElsewhere, WakeElsewhere,
      SpawnElsewhere, FiberReturns, FiberNotReady, FiberReady
<1> QED
  BY <1>3, <1>5, <1>6, <1>7, <1>8 DEF ChannelStep, CallStep

\* The owner is away only after its poll has found nothing and registered it: a
\* fiber does not return before it has polled a channel that has more to give.
LEMMA BecomesAway ==
  ASSUME ReceiverInv, ~ OwnerAway, OwnerAway',
         CallStep \/ FiberReturns(FALSE)
  PROVE  /\ rx = "await" /\ GetNothing
         /\ Registered'
<1>1. /\ EndsInStep /\ owner \in Tasks \cup {NoTask} /\ pollerAlive
      /\ SchedulerInv /\ rx \in {"idle", "poll", "await", "dropping", "gone"}
  BY DEF ReceiverInv, ReceiverTypeOK, EndsInStep
<1>2. CASE rx = "idle" /\ owner' = owner /\ polled' = polled
  <2>1. current = owner /\ owner \in Tasks /\ ~ polled /\ current' # owner
    BY <1>2 DEF OwnerAway
  <2>2. ~ SchedulerRuns
    BY <1>1, <2>1, SchedulerStepEffect, SchedulerAssumption DEF SchedulerRuns
  <2>3. ~ FiberReturns(FALSE)
    BY <1>2, <2>1, SchedulerAssumption DEF FiberReturns, FiberNotReady, FiberReady
  <2>4. ASSUME NEW e \in Ends, NEW context, NotifierStep(e, context)
        PROVE  current' = current
    BY <2>4, NotifierStepEffect DEF threadVars
  <2> QED
    BY <2>1, <2>2, <2>3, <2>4
    DEF CallStep, SenderStep, ReceiverStep, ReceiverCall, Ends, StartPoll, GetResult,
        GetNothing, StartDropReceiver, EndDropReceiver, TakeReceiver, Surroundings,
        ParkElsewhere, DropElsewhere, WakeElsewhere, SpawnElsewhere, ParkFiber,
        DropUnpark, SendWakeUp, Spawn, schedVars, threadVars
<1>3. CASE rx # "idle" \/ owner' # owner \/ polled' # polled
  <2>1. CASE FiberReturns(FALSE)
    BY <1>1, <1>3, <2>1, SchedulerAssumption
    DEF FiberReturns, FiberNotReady, FiberReady, OwnerAway, EndsInStep
  <2>2. CASE TakeReceiver
    BY <2>2 DEF TakeReceiver, OwnerAway, schedVars, threadVars
  <2>3. CASE GetResult
    BY <1>1, <2>3
    DEF GetResult, Trying, OwnerAway, EndsInStep, schedVars, threadVars
  <2>4. CASE GetNothing
    <3>1. /\ rx = "await" /\ step[Rx] = "idle"
          /\ UNCHANGED <<notifierVars, schedVars, owner>>
      BY <2>4 DEF GetNothing, Trying, OwnerAway
    <3> QED
      BY <1>1, <2>4, <3>1
      DEF EndsInStep, Registered, schedVars, counterVars, notifierVars
  <2>5. UNCHANGED <<rx, owner, polled>> \/ rx' # "idle" \/ FiberReturns(FALSE)
          \/ TakeReceiver \/ GetResult \/ GetNothing
    BY DEF CallStep, SenderStep, ReceiverStep, ReceiverCall, StartPoll,
        StartDropReceiver, EndDropReceiver, Surroundings, SchedulerRuns,
        ParkElsewhere, DropElsewhere, WakeElsewhere, SpawnElsewhere, receiverVars
  <2> QED
    BY <1>3, <2>1, <2>2, <2>3, <2>4, <2>5 DEF OwnerAway
<1> QED
  BY <1>2, <1>3

\* An owner that is attended to, or is not away, is woken.
LEMMA AttendedIsWoken ==
  ASSUME ReceiverInv, rx # "gone", OwnerAway => Attended
  PROVE  OwnerIsWoken
<1> SUFFICES ASSUME owner \in Tasks, Live(owner), current # owner,
                    ~ WillBeScheduled(owner)
             PROVE  unpark = owner /\ \E s \in Senders : step[s] \in {"borrow", "replace"}
  BY DEF OwnerIsWoken
<1>1. NoLostWakeup /\ EndsInStep /\ rx \in {"idle", "poll", "await", "dropping", "gone"}
  BY DEF ReceiverInv, ReceiverTypeOK, SchedulerInv
<1>2. OwnerAway
  BY <1>1 DEF OwnerAway, EndsInStep
<1>3. ~ (unparks[owner] > 0)
  BY <1>1 DEF EndsInStep, NoLostWakeup, IsRunnable
<1> QED
  BY <1>2, <1>3 DEF Attended
=============================================================================
