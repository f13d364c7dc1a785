------------------------ MODULE OneshotChannelProofs ------------------------
(***************************************************************************)
(* TLAPS proofs about OneshotChannel: a sent value reaches its receiver,   *)
(* for any number of fibers, ids and parks, and wherever the receiver      *)
(* moves in between.                                                       *)
(***************************************************************************)
EXTENDS OneshotChannel, ChannelReceiverProofs

OneshotTypes ==
  /\ slot \in {"empty", "value", "closed", "taken"}
  /\ sender \in {"ready", "sending", "dropping", "gone"}
  /\ result \in {"none", "value", "error"}

\* The slot is filled by the one send, and emptied by the one result.
SlotInStep ==
  /\ sender \in {"ready", "dropping"} => slot = "empty"
  /\ result # "none" => slot = "taken"

\* While the owner is away and has not got its result, its Unpark is in the cell
\* or was dropped, and if the value is there, the sender is about to drop it.
ValueIsAnnounced ==
  OwnerAway /\ result = "none" => Registered /\ (slot = "value" => Attended)

OneshotInv == ReceiverInv /\ OneshotTypes /\ SlotInStep /\ ValueIsAnnounced

\* The one sender is an end of the channel.
LEMMA TheSenderIsOne == TheSender \in Senders /\ TheSender \in Ends
BY OneshotAssumption DEF TheSender, Ends

\* A step of the channel is one of its sender, its receiver or its surroundings;
\* as long as there is no result, a fiber returns only when it has found nothing.
LEMMA OneshotStep ==
  ASSUME [OneshotNext]_oneshotVars
  PROVE  /\ ChannelStep
         /\ result = "none" => CallStep \/ FiberReturns(FALSE)
<1>1. CASE Send \/ DropSender \/ SenderProceeds
  BY <1>1, TheSenderIsOne
  DEF Send, DropSender, SenderProceeds, SenderGone, ChannelStep, CallStep, SenderStep
<1>2. CASE CallPoll \/ DropReceiver \/ ReceiverProceeds \/ TakeReceiver
  BY <1>2
  DEF CallPoll, DropReceiver, ReceiverProceeds, TryReceive, ReceiverGone, ChannelStep,
      CallStep, ReceiverStep, ReceiverCall
<1>3. CASE FiberReturns(result # "none")
  <2>1. CASE result = "none"
    BY <1>3, <2>1 DEF ChannelStep
  <2>2. CASE result # "none"
    <3>1. (result # "none") = TRUE
      BY <2>2
    <3>2. FiberReturns(TRUE)
      BY <1>3, <3>1
    <3> QED
      BY <2>2, <3>2 DEF ChannelStep
  <2> QED
    BY <2>1, <2>2
<1>4. CASE Surroundings \/ UNCHANGED oneshotVars
  BY <1>4 DEF ChannelStep, CallStep, oneshotVars
<1> QED
  BY <1>1, <1>2, <1>3, <1>4 DEF OneshotNext

\* Every step keeps the channel's types, and the slot in step with its ends.
LEMMA SlotInductive ==
  ASSUME OneshotInv, [OneshotNext]_oneshotVars
  PROVE  OneshotTypes' /\ SlotInStep'
<1> USE DEF OneshotTypes, SlotInStep
<1>1. OneshotTypes /\ SlotInStep
  BY DEF OneshotInv
<1>2. CASE UNCHANGED slotVars
  BY <1>1, <1>2 DEF slotVars
<1>3. CASE Send
  BY <1>1, <1>3 DEF Send, Fill
<1>4. CASE DropSender
  BY <1>1, <1>4 DEF DropSender
<1>5. CASE SenderGone
  BY <1>1, <1>5 DEF SenderGone
<1>6. CASE TryReceive
  BY <1>1, <1>6 DEF TryReceive, slotVars
<1> QED
  BY <1>2, <1>3, <1>4, <1>5, <1>6
  DEF OneshotNext, SenderProceeds, CallPoll, DropReceiver, ReceiverProceeds,
      ReceiverGone, oneshotVars

\* Every step keeps the promise that a value does not meet a sleeping receiver.
LEMMA AnnouncedInductive ==
  ASSUME OneshotInv, [OneshotNext]_oneshotVars
  PROVE  ValueIsAnnounced'
<1> SUFFICES ASSUME OwnerAway', result' = "none"
             PROVE  Registered' /\ (slot' = "value" => Attended')
  BY DEF ValueIsAnnounced
<1>1. ReceiverInv /\ SlotInStep /\ ValueIsAnnounced /\ OneshotTypes
  BY DEF OneshotInv
<1>2. result = "none"
  BY <1>1 DEF OneshotNext, Send, DropSender, SenderProceeds, SenderGone, CallPoll,
       DropReceiver, ReceiverProceeds, TryReceive, ReceiverGone, slotVars, oneshotVars,
       OneshotTypes
<1>3. ChannelStep /\ (CallStep \/ FiberReturns(FALSE))
  BY <1>2, OneshotStep
<1>4. CASE OwnerAway
  <2>1. /\ Registered' /\ (Attended => Attended') /\ owner' = owner
        /\ slot = "value" => Attended
    BY <1>1, <1>2, <1>3, <1>4, AwayStays DEF ValueIsAnnounced
  <2>2. CASE Send
    <3>1. unpark' = unpark /\ step'[TheSender] = "borrow" /\ unparks' = unparks
      BY <1>1, <2>2, TheSenderIsOne
      DEF Send, CallNotify, ReceiverInv, ReceiverTypeOK, NotifierTypeOK, schedVars,
          counterVars
    <3> QED
      BY <1>4, <2>1, <3>1, TheSenderIsOne DEF OwnerAway, Registered, Attended
  <2>3. CASE slot' = "value" => slot = "value"
    BY <2>1, <2>3
  <2>4. ~ Send => (slot' = "value" => slot = "value")
    BY DEF OneshotNext, DropSender, SenderProceeds, SenderGone, CallPoll,
       DropReceiver, ReceiverProceeds, TryReceive, ReceiverGone, slotVars, oneshotVars
  <2> QED
    BY <2>2, <2>3, <2>4
<1>5. CASE ~ OwnerAway
  <2>1. Registered' /\ rx = "await" /\ GetNothing
    BY <1>1, <1>3, <1>5, BecomesAway
  <2>2. slot' # "value"
    <3>1. rx' = "idle" /\ step[Rx] = "idle" /\ UNCHANGED <<notifierVars, schedVars>>
      BY <2>1 DEF GetNothing, Trying, OwnerAway
    <3>2. TryReceive
      BY <2>1, <3>1
      DEF OneshotNext, Send, DropSender, SenderProceeds, SenderGone, CallPoll, StartPoll,
          DropReceiver, StartDropReceiver, ReceiverProceeds, ReceiverGone,
          EndDropReceiver, TakeReceiver, FiberReturns, FiberNotReady, FiberReady,
          Surroundings, SchedulerRuns, ParkElsewhere, DropElsewhere, WakeElsewhere,
          SpawnElsewhere, receiverVars, oneshotVars
    <3> QED
      BY <1>2, <3>2 DEF TryReceive, slotVars
  <2> QED
    BY <2>1, <2>2
<1> QED
  BY <1>4, <1>5

\* Everything together is inductive.
LEMMA OneshotInvInductive == OneshotInv /\ [OneshotNext]_oneshotVars => OneshotInv'
<1> SUFFICES ASSUME OneshotInv, [OneshotNext]_oneshotVars PROVE OneshotInv'
  OBVIOUS
<1>1. ReceiverInv'
  BY OneshotStep, ReceiverInvInductive DEF OneshotInv
<1> QED
  BY <1>1, SlotInductive, AnnouncedInductive DEF OneshotInv

\* It holds initially.
LEMMA OneshotInvInit == OneshotInit => OneshotInv
<1> SUFFICES ASSUME OneshotInit PROVE OneshotInv
  OBVIOUS
<1>1. ReceiverInv
  BY ReceiverInvInit DEF OneshotInit
<1>2. ~ OwnerAway
  BY SchedulerAssumption DEF OneshotInit, ReceiverInit, OwnerAway
<1> QED
  BY <1>1, <1>2 DEF OneshotInit, OneshotInv, OneshotTypes, SlotInStep, ValueIsAnnounced

\* Every reachable state satisfies the invariant.
LEMMA OneshotInvCorrect == OneshotSpec => []OneshotInv
BY OneshotInvInit, OneshotInvInductive, PTL DEF OneshotSpec

\* Every variable of a oneshot channel, and of the scheduler below it, keeps its
\* type.
THEOREM OneshotTypeCorrect == OneshotSpec => []OneshotTypeOK
<1>1. OneshotInv => OneshotTypeOK
  BY DEF OneshotInv, OneshotTypes, ReceiverInv, OneshotTypeOK
<1> QED
  BY <1>1, OneshotInvCorrect, PTL

\* The sender and the receiver never have the notifier's cell at the same time,
\* although they only swap a pointer out and back in.
THEOREM OneshotBorrowCorrect == OneshotSpec => []BorrowIsExclusive
<1>1. OneshotInv => BorrowIsExclusive
  BY DEF OneshotInv, ReceiverInv
<1> QED
  BY <1>1, OneshotInvCorrect, PTL

\* A sent value never meets a sleeping receiver: the fiber that owns the receiver
\* runs, will be scheduled, or has its Unpark in the hands of the sender.
THEOREM SentWakesOwnerCorrect == OneshotSpec => []SentWakesOwner
<1>1. OneshotInv => SentWakesOwner
  <2> SUFFICES ASSUME OneshotInv, slot = "value", rx # "gone" PROVE OwnerIsWoken
    BY DEF SentWakesOwner
  <2>1. result = "none"
    BY DEF OneshotInv, SlotInStep
  <2>2. OwnerAway => Attended
    BY <2>1 DEF OneshotInv, ValueIsAnnounced
  <2> QED
    BY <2>2, AttendedIsWoken DEF OneshotInv
<1> QED
  BY <1>1, OneshotInvCorrect, PTL
=============================================================================
