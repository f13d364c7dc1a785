------------------------- MODULE MpscChannelProofs -------------------------
(***************************************************************************)
(* TLAPS proofs about MpscChannel: a message never meets a sleeping        *)
(* receiver, and the messages of a sender are received in their order and  *)
(* once each, for any number of senders that share the one notifier, of    *)
(* fibers, ids, messages and parks, and any capacity.                      *)
(***************************************************************************)
EXTENDS MpscChannel, ChannelReceiverProofs

MessageTypes ==
  /\ queue \in Seq(Message)
  /\ senders \in [Senders -> {"unborn", "ready", "sending", "dropping", "gone"}]
  /\ sent \in [Senders -> 0 .. MaxSends]
  /\ received \in [Senders -> 0 .. MaxSends]
  /\ ended \in BOOLEAN

\* The messages of a sender wait in the order in which they were sent, and none
\* of them has been received already.
QueueInOrder ==
  /\ \A s \in Senders : received[s] <= sent[s]
  /\ \A n \in DOMAIN queue :
       LET e == queue[n] IN
       received[e.from] <= e.number /\ e.number < sent[e.from]
  /\ \A m, n \in DOMAIN queue :
       m < n /\ queue[m].from = queue[n].from => queue[m].number < queue[n].number

\* The end of the stream is final.
EndInStep == ended => queue = <<>> /\ Disconnected

\* While the owner is away and the stream has not ended, its Unpark is in the
\* cell or was dropped, and if there are messages, some sender is about to drop it.
MessageIsAnnounced ==
  OwnerAway /\ ~ ended => Registered /\ (queue # <<>> => Attended)

MpscInv ==
  /\ ReceiverInv /\ AllAccounted
  /\ MessageTypes /\ QueueInOrder /\ EndInStep /\ MessageIsAnnounced

\* A step of the channel is one of its senders, its receiver or its surroundings;
\* before the end, a fiber returns only when it has found nothing.
LEMMA MpscStep ==
  ASSUME [MpscNext]_mpscVars, ended \in BOOLEAN
  PROVE  /\ ChannelStep
         /\ ~ ended => CallStep \/ FiberReturns(FALSE)
<1>1. ASSUME NEW s \in Senders,
             Send(s) \/ DropSender(s) \/ SenderProceeds(s)
               \/ \E new \in Senders : Clone(s, new)
      PROVE  CallStep
  BY <1>1
  DEF Send, DropSender, SenderProceeds, Sent, SenderGone, Clone, CallStep, SenderStep
<1>2. CASE CallPoll \/ DropReceiver \/ ReceiverProceeds \/ TakeReceiver
  BY <1>2
  DEF CallPoll, DropReceiver, ReceiverProceeds, TryReceive, ReceiverGone, ChannelStep,
      CallStep, ReceiverStep, ReceiverCall
<1>3. CASE FiberReturns(ended)
  <2>1. CASE ended = FALSE
    BY <1>3, <2>1 DEF ChannelStep
  <2>2. CASE ended = TRUE
    BY <1>3, <2>2 DEF ChannelStep
  <2> QED
    BY <2>1, <2>2
<1>4. CASE Surroundings \/ UNCHANGED mpscVars
  BY <1>4 DEF ChannelStep, CallStep, mpscVars
<1> QED
  BY <1>1, <1>2, <1>3, <1>4 DEF MpscNext, ChannelStep

\* The messages in the queue are records of a sender and a number.
LEMMA MessageEntries ==
  ASSUME queue \in Seq(Message), NEW n \in DOMAIN queue
  PROVE  n \in 1 .. Len(queue) /\ queue[n].from \in Senders /\ queue[n].number \in Nat
<1>1. n \in 1 .. Len(queue) /\ queue[n] \in Message
  BY LenProperties
<1>2. \A e \in Message : e.from \in Senders /\ e.number \in 0 .. MaxSends - 1
  BY DEF Message
<1> QED
  BY <1>1, <1>2, MpscAssumption

\* What a send appends to the queue.
LEMMA SendEntries ==
  ASSUME MessageTypes, NEW s \in Senders, Send(s)
  PROVE  LET e == [from |-> s, number |-> sent[s]] IN
         /\ e \in Message /\ queue' = Append(queue, e) /\ queue' \in Seq(Message)
         /\ DOMAIN queue' = DOMAIN queue \cup {Len(queue) + 1}
         /\ \A n \in DOMAIN queue : queue'[n] = queue[n]
         /\ queue'[Len(queue) + 1] = e
<1> DEFINE e == [from |-> s, number |-> sent[s]]
<1>1. queue \in Seq(Message) /\ sent[s] \in 0 .. MaxSends /\ sent[s] < MaxSends
  BY DEF MessageTypes, Send
<1>2. sent[s] \in 0 .. MaxSends - 1
  BY <1>1, MpscAssumption
<1>3. e \in Message /\ queue' = Append(queue, e)
  BY <1>2 DEF Message, Send
<1>4. queue' \in Seq(Message)
  BY <1>1, <1>3, AppendProperties
<1> HIDE DEF e
<1>5. /\ DOMAIN queue' = DOMAIN queue \cup {Len(queue) + 1}
      /\ \A n \in DOMAIN queue : queue'[n] = queue[n]
      /\ queue'[Len(queue) + 1] = e
  BY <1>1, <1>3, AppendEntries
<1> QED
  BY <1>3, <1>4, <1>5 DEF e

\* Sending keeps types and order: the new message is the latest of its sender.
LEMMA SendInOrder ==
  ASSUME MessageTypes, QueueInOrder, NEW s \in Senders, Send(s)
  PROVE  MessageTypes' /\ QueueInOrder'
<1> DEFINE e == [from |-> s, number |-> sent[s]]
<1>1. /\ queue \in Seq(Message) /\ sent \in [Senders -> 0 .. MaxSends]
      /\ received \in [Senders -> 0 .. MaxSends] /\ MaxSends \in Nat
  BY MpscAssumption DEF MessageTypes
<1>2. /\ queue' \in Seq(Message)
      /\ DOMAIN queue' = DOMAIN queue \cup {Len(queue) + 1}
      /\ \A n \in DOMAIN queue : queue'[n] = queue[n]
      /\ queue'[Len(queue) + 1] = e
  BY SendEntries
<1>3. /\ sent[s] < MaxSends /\ sent' = [sent EXCEPT ![s] = @ + 1]
      /\ received' = received /\ ended' = ended
      /\ senders' = [senders EXCEPT ![s] = "sending"]
  BY DEF Send
<1>4. MessageTypes'
  BY <1>1, <1>2, <1>3 DEF MessageTypes
<1>5. \A n \in DOMAIN queue :
        n \in 1 .. Len(queue) /\ queue[n].from \in Senders /\ queue[n].number \in Nat
  BY <1>1, MessageEntries
<1>6. e.from = s /\ e.number = sent[s]
  OBVIOUS
<1> HIDE DEF e
<1>7. \A x \in Senders : received'[x] <= sent'[x]
  BY <1>1, <1>3 DEF QueueInOrder
<1>8. ASSUME NEW n \in DOMAIN queue'
      PROVE  received'[queue'[n].from] <= queue'[n].number
             /\ queue'[n].number < sent'[queue'[n].from]
  <2>1. CASE n \in DOMAIN queue
    <3>1. /\ received[queue[n].from] <= queue[n].number
          /\ queue[n].number < sent[queue[n].from]
      BY <2>1 DEF QueueInOrder
    <3> QED
      BY <1>1, <1>2, <1>3, <1>5, <2>1, <3>1
  <2>2. CASE n = Len(queue) + 1
    <3>1. received[s] <= sent[s]
      BY DEF QueueInOrder
    <3> QED
      BY <1>1, <1>2, <1>3, <1>6, <2>2, <3>1
  <2> QED
    BY <1>2, <2>1, <2>2
<1>9. ASSUME NEW m \in DOMAIN queue', NEW n \in DOMAIN queue', m < n,
             queue'[m].from = queue'[n].from
      PROVE  queue'[m].number < queue'[n].number
  <2>1. CASE n \in DOMAIN queue
    <3>1. m \in DOMAIN queue
      BY <1>1, <1>2, <1>5, <1>9, <2>1, LenProperties
    <3> QED
      BY <1>2, <1>9, <2>1, <3>1 DEF QueueInOrder
  <2>2. CASE n = Len(queue) + 1
    <3>1. m \in DOMAIN queue
      BY <1>2, <1>9, <2>2, <1>1, LenProperties
    <3>2. queue[m].number < sent[queue[m].from] /\ queue[m].from = s
      BY <1>2, <1>6, <1>9, <2>2, <3>1 DEF QueueInOrder
    <3> QED
      BY <1>2, <1>6, <2>2, <3>1, <3>2
  <2> QED
    BY <1>2, <2>1, <2>2
<1> QED
  BY <1>4, <1>7, <1>8, <1>9 DEF QueueInOrder

\* Receiving keeps types and order: the message at the head is the oldest one of
\* its sender, and the next one that this sender's count expects, or a later one.
LEMMA ReceiveInOrder ==
  ASSUME MessageTypes, QueueInOrder, queue # <<>>, queue' = Tail(queue),
         received' = [received EXCEPT ![Head(queue).from] = @ + 1],
         UNCHANGED <<senders, sent, ended>>
  PROVE  MessageTypes' /\ QueueInOrder'
<1> DEFINE h == queue[1]
<1>1. /\ queue \in Seq(Message) /\ sent \in [Senders -> 0 .. MaxSends]
      /\ received \in [Senders -> 0 .. MaxSends] /\ MaxSends \in Nat
  BY MpscAssumption DEF MessageTypes
<1>2. /\ queue' \in Seq(Message) /\ Head(queue) = h /\ 1 \in DOMAIN queue
      /\ DOMAIN queue' = 1 .. Len(queue) - 1 /\ Len(queue) \in Nat
      /\ DOMAIN queue = 1 .. Len(queue)
      /\ \A n \in DOMAIN queue' : n + 1 \in DOMAIN queue /\ queue'[n] = queue[n + 1]
  BY <1>1, HeadTailProperties, LenProperties, EmptySeq
<1>3. \A n \in DOMAIN queue :
        queue[n].from \in Senders /\ queue[n].number \in Nat
  BY <1>1, MessageEntries
<1>4. /\ h.from \in Senders /\ h.number \in Nat
      /\ received[h.from] <= h.number /\ h.number < sent[h.from]
  BY <1>2, <1>3 DEF QueueInOrder
<1>5. \A n \in DOMAIN queue' :
        queue'[n].from = h.from => h.number < queue'[n].number
  <2> SUFFICES ASSUME NEW n \in DOMAIN queue', queue'[n].from = h.from
               PROVE  h.number < queue'[n].number
    OBVIOUS
  <2>1. 1 \in DOMAIN queue /\ n + 1 \in DOMAIN queue /\ 1 < n + 1
    BY <1>2
  <2>2. queue[n + 1].from = queue[1].from /\ queue'[n] = queue[n + 1]
    BY <1>2
  <2> QED
    BY <2>1, <2>2 DEF QueueInOrder
<1> HIDE DEF h
<1>6. received' = [received EXCEPT ![h.from] = @ + 1] /\ sent' = sent
  BY <1>2
<1>7. received[h.from] + 1 \in 0 .. MaxSends /\ received[h.from] + 1 <= sent[h.from]
  BY <1>1, <1>4
<1>8. MessageTypes'
  BY <1>1, <1>2, <1>4, <1>6, <1>7 DEF MessageTypes
<1>9. \A x \in Senders : received'[x] <= sent'[x]
  BY <1>1, <1>4, <1>6, <1>7 DEF QueueInOrder
<1>10. ASSUME NEW n \in DOMAIN queue'
       PROVE  received'[queue'[n].from] <= queue'[n].number
              /\ queue'[n].number < sent'[queue'[n].from]
  <2>1. /\ received[queue'[n].from] <= queue'[n].number
        /\ queue'[n].number < sent[queue'[n].from]
        /\ queue'[n].from \in Senders /\ queue'[n].number \in Nat
    BY <1>2, <1>3 DEF QueueInOrder
  <2>2. CASE queue'[n].from = h.from
    <3>1. /\ received'[h.from] = received[h.from] + 1 /\ received[h.from] \in Nat
          /\ h.number < queue'[n].number
      BY <1>1, <1>4, <1>5, <1>6, <2>2
    <3> QED
      BY <1>4, <1>6, <2>1, <2>2, <3>1
  <2>3. CASE queue'[n].from # h.from
    BY <1>1, <1>4, <1>6, <2>1, <2>3
  <2> QED
    BY <2>2, <2>3
<1>11. ASSUME NEW m \in DOMAIN queue', NEW n \in DOMAIN queue', m < n,
              queue'[m].from = queue'[n].from
       PROVE  queue'[m].number < queue'[n].number
  <2>1. m + 1 < n + 1
    BY <1>2, <1>11
  <2> QED
    BY <1>2, <1>11, <2>1 DEF QueueInOrder
<1> QED
  BY <1>8, <1>9, <1>10, <1>11 DEF QueueInOrder

\* Every step keeps the types, the order of the queue, and the end of the stream.
LEMMA QueueInductive ==
  ASSUME MpscInv, [MpscNext]_mpscVars
  PROVE  MessageTypes' /\ QueueInOrder' /\ EndInStep'
<1>1. MessageTypes /\ QueueInOrder /\ EndInStep
  BY DEF MpscInv
<1>2. CASE UNCHANGED messageVars
  BY <1>1, <1>2
  DEF messageVars, MessageTypes, QueueInOrder, EndInStep, Disconnected
<1>3. ASSUME NEW s \in Senders, Send(s) PROVE MessageTypes' /\ QueueInOrder' /\ EndInStep'
  <2>1. ~ ended /\ ended' = ended
    BY <1>1, <1>3 DEF EndInStep, Send, Disconnected
  <2> QED
    BY <1>1, <1>3, <2>1, SendInOrder DEF EndInStep
<1>4. ASSUME UNCHANGED <<queue, sent, received, ended>>,
             NEW s \in Senders, NEW new \in Senders,
             \/ /\ senders[s] \in {"ready", "sending"}
                /\ \E x \in {"ready", "dropping"} : senders' = [senders EXCEPT ![new] = x]
             \/ senders' = [senders EXCEPT ![s] = "gone"]
      PROVE  MessageTypes' /\ QueueInOrder' /\ EndInStep'
  <2>1. MessageTypes'
    BY <1>1, <1>4 DEF MessageTypes
  <2>2. Disconnected => Disconnected'
    BY <1>1, <1>4 DEF MessageTypes, Disconnected
  <2> QED
    BY <1>1, <1>4, <2>1, <2>2 DEF QueueInOrder, EndInStep
<1>5. CASE \E s \in Senders : DropSender(s) \/ Sent(s) \/ SenderGone(s)
  BY <1>4, <1>5 DEF DropSender, Sent, SenderGone
<1>6. CASE \E s, new \in Senders : Clone(s, new)
  BY <1>4, <1>6 DEF Clone
<1>7. CASE TryReceive
  <2>1. CASE /\ queue # <<>> /\ queue' = Tail(queue)
             /\ received' = [received EXCEPT ![Head(queue).from] = @ + 1]
             /\ UNCHANGED <<senders, sent, ended>>
    BY <1>1, <2>1, ReceiveInOrder DEF EndInStep
  <2>2. CASE queue = <<>> /\ Disconnected /\ ended' = TRUE
             /\ UNCHANGED <<queue, senders, sent, received>>
    BY <1>1, <2>2 DEF MessageTypes, QueueInOrder, EndInStep, Disconnected
  <2> QED
    BY <1>2, <1>7, <2>1, <2>2 DEF TryReceive
<1>8. CASE ReceiverGone
  <2>1. queue' \in Seq(Message) /\ DOMAIN queue' = {}
    BY <1>8, EmptySeq, LenProperties DEF ReceiverGone
  <2> QED
    BY <1>1, <1>8, <2>1
    DEF ReceiverGone, MessageTypes, QueueInOrder, EndInStep, Disconnected
<1> QED
  BY <1>2, <1>3, <1>5, <1>6, <1>7, <1>8
  DEF MpscNext, SenderProceeds, CallPoll, DropReceiver, ReceiverProceeds, mpscVars

\* Every step keeps the promise that a message does not meet a sleeping receiver.
LEMMA AnnouncedInductive ==
  ASSUME MpscInv, [MpscNext]_mpscVars
  PROVE  MessageIsAnnounced'
<1> SUFFICES ASSUME OwnerAway', ~ ended'
             PROVE  Registered' /\ (queue' # <<>> => Attended')
  BY DEF MessageIsAnnounced
<1>1. ReceiverInv /\ MessageTypes /\ EndInStep /\ MessageIsAnnounced /\ ended \in BOOLEAN
  BY DEF MpscInv, MessageTypes
<1>2. ~ ended
  BY DEF MpscNext, Send, DropSender, SenderProceeds, Sent, SenderGone, Clone, CallPoll,
       DropReceiver, ReceiverProceeds, TryReceive, ReceiverGone, messageVars, mpscVars
<1>3. ChannelStep /\ (CallStep \/ FiberReturns(FALSE))
  BY <1>1, <1>2, MpscStep
<1>4. CASE OwnerAway
  <2>1. /\ Registered' /\ (Attended => Attended') /\ owner' = owner
        /\ queue # <<>> => Attended
    BY <1>1, <1>2, <1>3, <1>4, AwayStays DEF MessageIsAnnounced
  <2>2. ASSUME NEW s \in Senders, Send(s) PROVE Attended'
    <3>1. unpark' = unpark /\ step'[s] = "borrow" /\ unparks' = unparks
      BY <1>1, <2>2
      DEF Send, CallNotify, ReceiverInv, ReceiverTypeOK, NotifierTypeOK, Ends, schedVars,
          counterVars
    <3> QED
      BY <1>4, <2>1, <3>1 DEF OwnerAway, Registered, Attended
  <2>3. (\A s \in Senders : ~ Send(s)) /\ queue = <<>> => queue' = <<>>
    BY DEF MpscNext, DropSender, SenderProceeds, Sent, SenderGone, Clone, CallPoll,
       DropReceiver, ReceiverProceeds, TryReceive, ReceiverGone, messageVars, mpscVars
  <2> QED
    BY <2>1, <2>2, <2>3
<1>5. CASE ~ OwnerAway
  <2>1. Registered' /\ rx = "await" /\ GetNothing
    BY <1>1, <1>3, <1>5, BecomesAway
  <2>2. rx' = "idle" /\ step[Rx] = "idle" /\ UNCHANGED <<notifierVars, schedVars>>
    BY <2>1 DEF GetNothing, Trying, OwnerAway
  <2>3. TryReceive
    BY <2>1, <2>2
    DEF MpscNext, Send, DropSender, SenderProceeds, Sent, SenderGone, Clone, CallPoll,
        StartPoll, DropReceiver, StartDropReceiver, ReceiverProceeds, ReceiverGone,
        EndDropReceiver, TakeReceiver, FiberReturns, FiberNotReady, FiberReady,
        Surroundings, SchedulerRuns, ParkElsewhere, DropElsewhere, WakeElsewhere,
        SpawnElsewhere, receiverVars, mpscVars
  <2>4. ~ GetResult
    <3> SUFFICES ASSUME GetResult PROVE FALSE
      OBVIOUS
    <3>1. UNCHANGED <<polled, owner, current>>
      BY DEF GetResult, schedVars, threadVars
    <3>2. ~ polled /\ current = owner
      BY <1>1, <2>1, <3>1 DEF OwnerAway, ReceiverInv, EndsInStep
    <3> QED
      BY <3>1, <3>2 DEF OwnerAway
  <2> QED
    BY <2>1, <2>3, <2>4 DEF TryReceive, messageVars
<1> QED
  BY <1>4, <1>5

\* Everything together is inductive.
LEMMA MpscInvInductive == MpscInv /\ [MpscNext]_mpscVars => MpscInv'
<1> SUFFICES ASSUME MpscInv, [MpscNext]_mpscVars PROVE MpscInv'
  OBVIOUS
<1>1. ReceiverInv' /\ AllAccounted'
  BY MpscStep, ReceiverInvInductive, AccountedInductive DEF MpscInv, MessageTypes
<1> QED
  BY <1>1, QueueInductive, AnnouncedInductive DEF MpscInv

\* It holds initially.
LEMMA MpscInvInit == MpscInit => MpscInv
<1> SUFFICES ASSUME MpscInit PROVE MpscInv
  OBVIOUS
<1>1. ReceiverInv /\ AllAccounted
  BY ReceiverInvInit, AccountedInit DEF MpscInit
<1>2. ~ OwnerAway
  BY SchedulerAssumption DEF MpscInit, ReceiverInit, OwnerAway
<1>3. queue \in Seq(Message) /\ DOMAIN queue = {}
  BY EmptySeq, LenProperties DEF MpscInit
<1>4. MessageTypes
  <2>1. 0 \in 0 .. MaxSends
    BY MpscAssumption
  <2>2. senders \in [Senders -> {"unborn", "ready", "sending", "dropping", "gone"}]
    BY DEF MpscInit
  <2> QED
    BY <1>3, <2>1, <2>2 DEF MpscInit, MessageTypes
<1> QED
  BY <1>1, <1>2, <1>3, <1>4
  DEF MpscInit, MpscInv, QueueInOrder, EndInStep, MessageIsAnnounced

\* Every reachable state satisfies the invariant.
LEMMA MpscInvCorrect == MpscSpec => []MpscInv
BY MpscInvInit, MpscInvInductive, PTL DEF MpscSpec

\* Every variable of an mpsc channel keeps its type; no sender's messages are
\* received more often than they were sent.
THEOREM MpscTypeCorrect == MpscSpec => []MpscTypeOK
<1>1. MpscInv => MpscTypeOK
  BY DEF MpscInv, MessageTypes, ReceiverInv, MpscTypeOK
<1> QED
  BY <1>1, MpscInvCorrect, PTL

\* However the senders and the receiver race for the cell, no Unpark object is
\* leaked or dropped twice.
THEOREM UnparksAccountedCorrect == MpscSpec => []UnparksAccounted
<1>1. MpscInv => UnparksAccounted
  BY AccountedOneByOne DEF MpscInv
<1> QED
  BY <1>1, MpscInvCorrect, PTL

\* A message never meets a sleeping receiver, whichever of the senders finds the
\* Unpark in the cell that they share.
THEOREM MessageWakesOwnerCorrect == MpscSpec => []MessageWakesOwner
<1>1. MpscInv => MessageWakesOwner
  <2> SUFFICES ASSUME MpscInv, queue # <<>>, rx # "gone" PROVE OwnerIsWoken
    BY DEF MessageWakesOwner
  <2>1. ~ ended
    BY DEF MpscInv, EndInStep
  <2>2. OwnerAway => Attended
    BY <2>1 DEF MpscInv, MessageIsAnnounced
  <2> QED
    BY <2>2, AttendedIsWoken DEF MpscInv
<1> QED
  BY <1>1, MpscInvCorrect, PTL

(***************************************************************************)
(* Nothing is lost on the way, either.                                     *)
(***************************************************************************)

\* What a sender has sent and the receiver has not received is in the queue.
NothingLost ==
  rx # "gone" =>
    \A s \in Senders : \A k \in received[s] .. sent[s] - 1 :
      \E n \in DOMAIN queue : queue[n].from = s /\ queue[n].number = k

\* The message that the receiver takes next is its sender's oldest one that has
\* not been received.
TakesOldest ==
  queue # <<>> /\ rx # "gone" => Head(queue).number = received[Head(queue).from]

\* The oldest message of a sender cannot be queued behind another one of its.
LEMMA OldestFirst == ASSUME MpscInv, NothingLost PROVE TakesOldest
<1> SUFFICES ASSUME queue # <<>>, rx # "gone"
             PROVE  Head(queue).number = received[Head(queue).from]
  BY DEF TakesOldest
<1> DEFINE h == queue[1]
<1>1. queue \in Seq(Message) /\ sent \in [Senders -> 0 .. MaxSends] /\ MaxSends \in Nat
      /\ received \in [Senders -> 0 .. MaxSends] /\ QueueInOrder
  BY MpscAssumption DEF MpscInv, MessageTypes
<1>2. Head(queue) = h /\ 1 \in DOMAIN queue
  BY <1>1, TailEntries
<1>3. h.from \in Senders /\ h.number \in Nat
  BY <1>1, <1>2, MessageEntries
<1>4. received[h.from] <= h.number /\ h.number < sent[h.from]
  BY <1>1, <1>2 DEF QueueInOrder
<1>5. received[h.from] \in received[h.from] .. sent[h.from] - 1
  BY <1>1, <1>3, <1>4
<1>6. PICK n \in DOMAIN queue : queue[n].from = h.from /\ queue[n].number = received[h.from]
  BY <1>3, <1>5 DEF NothingLost
<1>7. CASE n = 1
  BY <1>2, <1>6, <1>7
<1>8. CASE n # 1
  <2>1. 1 < n
    BY <1>1, <1>8, MessageEntries
  <2>2. h.number < queue[n].number
    BY <1>1, <1>2, <1>6, <2>1 DEF QueueInOrder
  <2> QED
    BY <1>1, <1>3, <1>4, <1>6, <2>2
<1> QED
  BY <1>7, <1>8

\* A message that is sent is queued, and one that leaves the queue is received.
LEMMA NothingLostInductive ==
  ASSUME MpscInv, NothingLost, [MpscNext]_mpscVars PROVE NothingLost'
<1> SUFFICES ASSUME rx' # "gone", NEW x \in Senders,
                    NEW k \in received'[x] .. sent'[x] - 1
             PROVE  \E n \in DOMAIN queue' : queue'[n].from = x /\ queue'[n].number = k
  BY DEF NothingLost
<1>1. queue \in Seq(Message) /\ sent \in [Senders -> 0 .. MaxSends] /\ MaxSends \in Nat
      /\ received \in [Senders -> 0 .. MaxSends] /\ MessageTypes
  BY MpscAssumption DEF MpscInv, MessageTypes
<1>2. CASE UNCHANGED <<queue, sent, received>>
  <2>1. rx # "gone"
    BY DEF MpscNext, Send, DropSender, SenderProceeds, Sent, SenderGone, Clone, CallPoll,
       StartPoll, DropReceiver, StartDropReceiver, ReceiverProceeds, TryReceive, GetResult,
       GetNothing, Trying, ReceiverGone, EndDropReceiver, TakeReceiver, FiberReturns,
       FiberNotReady, FiberReady, Surroundings, SchedulerRuns, ParkElsewhere,
       DropElsewhere, WakeElsewhere, SpawnElsewhere, receiverVars, mpscVars
  <2> QED
    BY <1>2, <2>1 DEF NothingLost
<1>3. ASSUME NEW s \in Senders, Send(s)
      PROVE  \E n \in DOMAIN queue' : queue'[n].from = x /\ queue'[n].number = k
  <2> DEFINE e == [from |-> s, number |-> sent[s]]
  <2>1. rx # "gone" /\ received' = received /\ sent' = [sent EXCEPT ![s] = @ + 1]
    BY <1>3 DEF Send
  <2>2. /\ DOMAIN queue' = DOMAIN queue \cup {Len(queue) + 1}
        /\ \A n \in DOMAIN queue : queue'[n] = queue[n]
        /\ queue'[Len(queue) + 1] = e
    BY <1>1, <1>3, SendEntries
  <2>3. CASE x = s /\ k = sent[s]
    BY <2>2, <2>3
  <2>4. CASE ~ (x = s /\ k = sent[s])
    <3>1. k \in received[x] .. sent[x] - 1
      BY <1>1, <2>1, <2>4
    <3>2. PICK n \in DOMAIN queue : queue[n].from = x /\ queue[n].number = k
      BY <2>1, <3>1 DEF NothingLost
    <3> QED
      BY <2>2, <3>2
  <2> QED
    BY <2>3, <2>4
<1>4. CASE /\ queue # <<>> /\ queue' = Tail(queue) /\ sent' = sent /\ rx # "gone"
           /\ received' = [received EXCEPT ![Head(queue).from] = @ + 1]
  <2> DEFINE h == Head(queue)
  <2>1. h.number = received[h.from]
    BY <1>4, OldestFirst DEF TakesOldest
  <2>2. h = queue[1] /\ 1 \in DOMAIN queue
        /\ \A n \in DOMAIN queue \ {1} :
             n - 1 \in DOMAIN queue' /\ queue'[n - 1] = queue[n]
    BY <1>1, <1>4, TailEntries
  <2>3. h.from \in Senders
    BY <1>1, <2>2, MessageEntries
  <2>4. received' = [received EXCEPT ![h.from] = received[h.from] + 1]
    BY <1>4
  <2> HIDE DEF h
  <2>5. k \in received[x] .. sent[x] - 1 /\ (x = h.from => k # received[h.from])
    BY <1>1, <1>4, <2>3, <2>4
  <2>6. PICK n \in DOMAIN queue : queue[n].from = x /\ queue[n].number = k
    BY <1>4, <2>5 DEF NothingLost
  <2>7. n # 1
    BY <2>1, <2>2, <2>5, <2>6
  <2> QED
    BY <2>2, <2>6, <2>7
<1>5. ~ ReceiverGone
  BY DEF ReceiverGone, EndDropReceiver
<1>6. CASE TryReceive
  <2>1. rx # "gone"
    BY <1>6 DEF TryReceive, GetResult, GetNothing, Trying
  <2> QED
    BY <1>2, <1>4, <1>6, <2>1 DEF TryReceive, messageVars
<1> QED
  BY <1>2, <1>3, <1>5, <1>6
  DEF MpscNext, DropSender, SenderProceeds, Sent, SenderGone, Clone, CallPoll,
      DropReceiver, ReceiverProceeds, messageVars, mpscVars

\* Nothing has been sent at first.
LEMMA NothingLostInit == MpscInit => NothingLost
<1> SUFFICES ASSUME MpscInit, NEW s \in Senders, NEW k \in received[s] .. sent[s] - 1
             PROVE  FALSE
  BY DEF NothingLost
<1>1. received[s] = 0 /\ sent[s] = 0
  BY DEF MpscInit
<1> QED
  BY <1>1

\* The messages of each sender are received in the order in which it sent them,
\* each of them once and none left out, until the receiver is dropped.
THEOREM MessagesInOrder == MpscSpec => [](QueueInOrder /\ NothingLost /\ TakesOldest)
<1>1. MpscInv /\ NothingLost /\ [MpscNext]_mpscVars => NothingLost'
  BY NothingLostInductive
<1>2. MpscInv /\ NothingLost => TakesOldest
  BY OldestFirst
<1>3. MpscInv => QueueInOrder
  BY DEF MpscInv
<1> QED
  BY <1>1, <1>2, <1>3, NothingLostInit, MpscInvCorrect, PTL DEF MpscSpec
=============================================================================
