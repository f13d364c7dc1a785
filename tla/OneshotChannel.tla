--------------------------- MODULE OneshotChannel ---------------------------
(***************************************************************************)
(* fibers::sync::oneshot (src/src/sync/oneshot.rs): one sender, one        *)
(* receiver and the Notifier between them.  The sender runs on a thread of *)
(* its own, which covers a sender in a fiber too.                          *)
(*                                                                         *)
(* The values themselves go through nbchan::oneshot, a lock-free channel   *)
(* that is not part of the repository: one atomic variable, slot.          *)
(***************************************************************************)
EXTENDS ChannelReceiver

VARIABLES
  slot,     \* nbchan::oneshot: "empty", "value" sent, "closed" unsent, "taken"
  sender,   \* "ready", "sending", "dropping", "gone"
  result    \* what the receiver got: "none", "value", "error"

slotVars == <<slot, sender, result>>
oneshotVars == <<schedVars, notifierVars, receiverVars, slotVars>>

TheSender == CHOOSE s \in Senders : TRUE

ASSUME OneshotAssumption == \E s \in Ends : Senders = {s}

----------------------------------------------------------------------------
(* The sender *)

\* nbchan::oneshot::Sender::send: the value is handed back if the receiver is
\* gone.
Fill == slot' = IF rx = "gone" THEN "taken" ELSE "value"

\* Sender::send; then self goes out of scope and Sender::drop notifies.
Send ==
  /\ sender = "ready"
  /\ sender' = "sending"
  /\ Fill
  /\ CallNotify(TheSender)
  /\ UNCHANGED <<schedVars, receiverVars, result>>

\* A Sender that was not used is dropped: Sender::drop notifies ...
DropSender ==
  /\ sender = "ready"
  /\ sender' = "dropping"
  /\ CallNotify(TheSender)
  /\ UNCHANGED <<schedVars, receiverVars, slot, result>>

\* ... and then its fields are dropped, which closes the nbchan channel.
SenderGone ==
  /\ sender \in {"sending", "dropping"}
  /\ step[TheSender] = "idle"
  /\ slot' = IF sender = "dropping" THEN "closed" ELSE slot
  /\ sender' = "gone"
  /\ UNCHANGED <<schedVars, notifierVars, receiverVars, result>>

----------------------------------------------------------------------------
(* The receiver *)

\* A future is not polled again after it was ready.
CallPoll == result = "none" /\ StartPoll /\ UNCHANGED slotVars

\* nbchan::oneshot::Receiver::try_recv
TryReceive ==
  \/ /\ slot # "empty"
     /\ result' = IF slot = "value" THEN "value" ELSE "error"
     /\ slot' = "taken"
     /\ GetResult
     /\ UNCHANGED sender
  \/ /\ slot = "empty"
     /\ GetNothing
     /\ UNCHANGED slotVars

DropReceiver == StartDropReceiver /\ UNCHANGED slotVars

ReceiverGone == EndDropReceiver /\ UNCHANGED slotVars

----------------------------------------------------------------------------
OneshotInit ==
  /\ ReceiverInit
  /\ slot = "empty"
  /\ sender = "ready"
  /\ result = "none"

SenderProceeds ==
  \/ SenderGone
  \/ NotifierStep(TheSender, NoTask) /\ UNCHANGED <<receiverVars, slotVars>>

ReceiverProceeds ==
  \/ TryReceive
  \/ ReceiverGone
  \/ NotifierStep(Rx, owner) /\ UNCHANGED <<receiverVars, slotVars>>

OneshotNext ==
  \/ Send \/ DropSender \/ SenderProceeds
  \/ CallPoll \/ DropReceiver \/ ReceiverProceeds
  \/ TakeReceiver /\ UNCHANGED slotVars
  \/ FiberReturns(result # "none") /\ UNCHANGED slotVars
  \/ Surroundings /\ UNCHANGED slotVars

\* Threads run, fibers return from their polls, and the receiver is polled by
\* the fiber that has it, or again and again by the thread that has it.
OneshotFairness ==
  /\ WF_oneshotVars(SchedulerRuns /\ UNCHANGED slotVars)
  /\ WF_oneshotVars(SenderProceeds)
  /\ WF_oneshotVars(ReceiverProceeds)
  /\ WF_oneshotVars(CallPoll)
  /\ WF_oneshotVars(FiberReturns(result # "none") /\ UNCHANGED slotVars)
  /\ \A t \in Tasks : WF_oneshotVars(WakeElsewhere(t) /\ UNCHANGED slotVars)

OneshotSpec == OneshotInit /\ [][OneshotNext]_oneshotVars /\ OneshotFairness

----------------------------------------------------------------------------
(* Properties *)

OneshotTypeOK ==
  /\ ReceiverTypeOK
  /\ slot \in {"empty", "value", "closed", "taken"}
  /\ sender \in {"ready", "sending", "dropping", "gone"}
  /\ result \in {"none", "value", "error"}

\* A sent value is never left with a sleeping receiver, although it may arrive
\* while the receiver is between its two try_recv calls, and while the receiver
\* is on its way from one fiber to another.
SentWakesOwner == slot = "value" /\ rx # "gone" => OwnerIsWoken

\* The receiver learns that the sender was dropped without sending.
DropIsDetected == slot = "closed" ~> (result = "error" \/ rx \in {"dropping", "gone"})
=============================================================================
