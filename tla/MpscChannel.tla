---------------------------- MODULE MpscChannel ----------------------------
(***************************************************************************)
(* fibers::sync::mpsc (src/src/sync/mpsc.rs): several senders, one         *)
(* receiver, and one Notifier that all of them share.  Each sender runs on *)
(* a thread of its own, which covers senders in fibers too.                *)
(*                                                                         *)
(* The messages go through nbchan::mpsc, a lock-free queue that is not     *)
(* part of the repository: pushing and popping are atomic.  A message is   *)
(* the sender and how many it had sent before.  Capacity is the bound of a *)
(* sync_channel; channel() is the case in which it is never reached.       *)
(***************************************************************************)
EXTENDS ChannelReceiver

CONSTANTS
  MaxSends,  \* bound of the environment: messages of one sender
  Capacity   \* of the nbchan queue

ASSUME MpscAssumption == MaxSends \in Nat /\ Capacity \in Nat \ {0}

VARIABLES
  queue,     \* the nbchan queue
  senders,   \* "unborn", "ready", "sending", "dropping", "gone" for each
  sent,      \* how many messages each sender has pushed
  received,  \* how many of them the receiver has popped
  ended      \* Receiver::poll has returned Ready(None)

messageVars == <<queue, senders, sent, received, ended>>
mpscVars == <<schedVars, notifierVars, receiverVars, messageVars>>

Message == [from : Senders, number : 0 .. MaxSends - 1]

\* nbchan: every sender has been dropped.
Disconnected == \A s \in Senders : senders[s] \in {"unborn", "gone"}

----------------------------------------------------------------------------
(* The senders *)

\* Mutant of Send: the receiver is notified by the first message only.
SendNotifyFirst(s) ==
  /\ senders[s] = "ready"
  /\ sent[s] < MaxSends
  /\ rx # "gone" /\ Len(queue) < Capacity
  /\ queue' = Append(queue, [from |-> s, number |-> sent[s]])
  /\ sent' = [sent EXCEPT ![s] = @ + 1]
  /\ IF \A x \in Senders : sent[x] = 0
       THEN senders' = [senders EXCEPT ![s] = "sending"] /\ CallNotify(s)
       ELSE UNCHANGED <<senders, notifierVars>>
  /\ UNCHANGED <<schedVars, receiverVars, received, ended>>

\* Sender::send, SyncSender::start_send: the message is pushed, then the
\* receiver is notified.  If the receiver is gone or the queue is full the
\* caller gets its message back and nothing else happens.
Send(s) ==
  /\ senders[s] = "ready"
  /\ sent[s] < MaxSends
  /\ rx # "gone" /\ Len(queue) < Capacity
  /\ queue' = Append(queue, [from |-> s, number |-> sent[s]])
  /\ sent' = [sent EXCEPT ![s] = @ + 1]
  /\ senders' = [senders EXCEPT ![s] = "sending"]
  /\ CallNotify(s)
  /\ UNCHANGED <<schedVars, receiverVars, received, ended>>

\* notify has returned: the sender may be used again.
Sent(s) ==
  /\ senders[s] = "sending" /\ step[s] = "idle"
  /\ senders' = [senders EXCEPT ![s] = "ready"]
  /\ UNCHANGED <<schedVars, notifierVars, receiverVars, queue, sent, received, ended>>

\* Sender::clone
Clone(s, new) ==
  /\ senders[s] = "ready" /\ senders[new] = "unborn"
  /\ senders' = [senders EXCEPT ![new] = "ready"]
  /\ UNCHANGED <<schedVars, notifierVars, receiverVars, queue, sent, received, ended>>

\* Sender::drop notifies ...
DropSender(s) ==
  /\ senders[s] = "ready"
  /\ senders' = [senders EXCEPT ![s] = "dropping"]
  /\ CallNotify(s)
  /\ UNCHANGED <<schedVars, receiverVars, queue, sent, received, ended>>

\* ... and then its fields are dropped, the last one disconnects the queue.
SenderGone(s) ==
  /\ senders[s] = "dropping" /\ step[s] = "idle"
  /\ senders' = [senders EXCEPT ![s] = "gone"]
  /\ UNCHANGED <<schedVars, notifierVars, receiverVars, queue, sent, received, ended>>

----------------------------------------------------------------------------
(* The receiver *)

CallPoll == ~ ended /\ StartPoll /\ UNCHANGED messageVars

\* nbchan::mpsc::Receiver::try_recv
TryReceive ==
  \/ /\ queue # <<>>
     /\ queue' = Tail(queue)
     /\ received' = [received EXCEPT ![Head(queue).from] = @ + 1]
     /\ GetResult
     /\ UNCHANGED <<senders, sent, ended>>
  \/ /\ queue = <<>> /\ Disconnected
     /\ ended' = TRUE
     /\ GetResult
     /\ UNCHANGED <<queue, senders, sent, received>>
  \/ /\ queue = <<>> /\ ~ Disconnected
     /\ GetNothing
     /\ UNCHANGED messageVars

DropReceiver == StartDropReceiver /\ UNCHANGED messageVars

\* The messages that were not received are dropped with the queue.
ReceiverGone ==
  /\ EndDropReceiver
  /\ queue' = <<>>
  /\ UNCHANGED <<senders, sent, received, ended>>

----------------------------------------------------------------------------
MpscInit ==
  /\ ReceiverInit
  /\ queue = <<>>
  /\ \E s \in Senders :
       senders = [x \in Senders |-> IF x = s THEN "ready" ELSE "unborn"]
  /\ sent = [s \in Senders |-> 0]
  /\ received = [s \in Senders |-> 0]
  /\ ended = FALSE

SenderProceeds(s) ==
  \/ Sent(s)
  \/ SenderGone(s)
  \/ NotifierStep(s, NoTask) /\ UNCHANGED <<receiverVars, messageVars>>

ReceiverProceeds ==
  \/ TryReceive
  \/ ReceiverGone
  \/ NotifierStep(Rx, owner) /\ UNCHANGED <<receiverVars, messageVars>>

MpscNext ==
  \/ \E s \in Senders :
       \/ Send(s) \/ DropSender(s) \/ SenderProceeds(s)
       \/ \E new \in Senders : Clone(s, new)
  \/ CallPoll \/ DropReceiver \/ ReceiverProceeds
  \/ TakeReceiver /\ UNCHANGED messageVars
  \/ FiberReturns(ended) /\ UNCHANGED messageVars
  \/ Surroundings /\ UNCHANGED messageVars

\* As for the oneshot channel.
MpscFairness ==
  /\ WF_mpscVars(SchedulerRuns /\ UNCHANGED messageVars)
  /\ \A s \in Senders : WF_mpscVars(SenderProceeds(s))
  /\ WF_mpscVars(ReceiverProceeds)
  /\ WF_mpscVars(CallPoll)
  /\ WF_mpscVars(FiberReturns(ended) /\ UNCHANGED messageVars)
  /\ \A t \in Tasks : WF_mpscVars(WakeElsewhere(t) /\ UNCHANGED messageVars)

MpscSpec == MpscInit /\ [][MpscNext]_mpscVars /\ MpscFairness

----------------------------------------------------------------------------
(* Properties *)

MpscTypeOK ==
  /\ ReceiverTypeOK
  /\ queue \in Seq(Message)
  /\ senders \in [Senders -> {"unborn", "ready", "sending", "dropping", "gone"}]
  /\ sent \in [Senders -> 0 .. MaxSends]
  /\ received \in [Senders -> 0 .. MaxSends]
  /\ ended \in BOOLEAN

\* No message is left with a sleeping receiver, whichever of the senders finds
\* the Unpark in the cell they share, and however many messages the receiver
\* takes at once.
MessageWakesOwner == queue # <<>> /\ rx # "gone" => OwnerIsWoken

\* Every message that was sent is received, or the receiver is dropped,
\* although the senders share one notification.
MessagesAreReceived ==
  \A s \in Senders :
    sent[s] > received[s] ~> (sent[s] = received[s] \/ rx \in {"dropping", "gone"})
=============================================================================
