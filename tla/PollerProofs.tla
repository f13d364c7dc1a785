---------------------------- MODULE PollerProofs ----------------------------
(***************************************************************************)
(* TLAPS proofs about Poller: its invariants, for any number of evented    *)
(* objects, monitors, timers and tokens, and any durations.                *)
(***************************************************************************)
EXTENDS Poller, DataLemmas, FiniteSetTheorems, TLAPS

USE PollerAssumption

(***************************************************************************)
(* Types.                                                                  *)
(***************************************************************************)

\* The five kinds of requests, which differ.
LEMMA RequestKinds ==
  ASSUME NEW r \in Request
  PROVE  \/ r.op = "Register" /\ r.evented \in Evented /\ r = Register(r.evented)
         \/ r.op = "Deregister" /\ r.token \in Token /\ r = Deregister(r.token)
         \/ /\ r.op = "Monitor" /\ r.token \in Token /\ r.interest \in Interest
            /\ r.monitor \in Monitors /\ r = Monitor(r.token, r.interest, r.monitor)
         \/ r.op = "SetTimeout" /\ r.timer \in Timers /\ r = SetTimeout(r.timer)
         \/ r.op = "CancelTimeout" /\ r.timer \in Timers /\ r = CancelTimeout(r.timer)
BY DEF Request, Register, Deregister, Monitor, SetTimeout, CancelTimeout

\* What is sent is a request.
LEMMA AreRequests ==
  /\ \A o \in Evented : Register(o) \in Request
  /\ \A k \in Token : Deregister(k) \in Request
  /\ \A k \in Token, i \in Interest, m \in Monitors : Monitor(k, i, m) \in Request
  /\ \A t \in Timers : SetTimeout(t) \in Request /\ CancelTimeout(t) \in Request
BY DEF Request

\* The head of the channel is a request; the channel keeps its type when it is
\* taken off, and when a request is sent.
LEMMA ChannelType ==
  ASSUME requests \in Seq(Request)
  PROVE  /\ requests # <<>> => Head(requests) \in Request /\ Tail(requests) \in Seq(Request)
         /\ \A r \in Request : Append(requests, r) \in Seq(Request)
         /\ \A r \in Request : Send(r) => requests' \in Seq(Request)
         /\ requests # <<>> =>
              \A r \in Request : Append(Tail(requests), r) \in Seq(Request)
<1>1. requests # <<>> => Head(requests) \in Request /\ Tail(requests) \in Seq(Request)
  BY HeadTailProperties
<1>2. \A r \in Request : Append(requests, r) \in Seq(Request)
  BY AppendProperties
<1>3. requests # <<>> => \A r \in Request : Append(Tail(requests), r) \in Seq(Request)
  BY <1>1, AppendProperties
<1> QED
  BY <1>1, <1>2, <1>3 DEF Send

\* next_token stays a token.
LEMMA NextTokenType ==
  ASSUME NEW k \in Token, NextToken(k)
  PROVE  nextToken' \in Token
<1>1. k + 1 \in Nat
  BY DEF Token
<1> QED
  BY <1>1, WrapType DEF NextToken, Token

\* The three outcomes of arming an object in mio.
LEMMA MioRegisterCases ==
  ASSUME NEW o, NEW w, NEW next, MioRegister(o, w, next)
  PROVE  \/ w = NoWaitings /\ GoOn(next) /\ UNCHANGED <<isFirst, mioVars>>
         \/ /\ w # NoWaitings /\ isFirst' = isFirst \ {o} /\ GoOn(next)
            /\ registered' = registered \cup {o}
            /\ armed' = [armed EXCEPT ![o] = {i \in Interest : w[i] # {}}]
         \/ w # NoWaitings /\ isFirst' = isFirst \ {o} /\ Fail /\ UNCHANGED mioVars
BY DEF MioRegister

\* Arming an object in mio keeps the types, and goes on or fails.
LEMMA MioRegisterType ==
  ASSUME PollerTypeOK, NEW o \in Evented, NEW w \in [Interest -> SUBSET Monitors],
         NEW next, MioRegister(o, w, next)
  PROVE  /\ isFirst' \subseteq Evented /\ registered' \subseteq Evented
         /\ armed' \in [Evented -> SUBSET Interest]
         /\ pc' \in {next, "failed"} /\ erred' \in BOOLEAN
<1>1. /\ isFirst \subseteq Evented /\ registered \subseteq Evented
      /\ armed \in [Evented -> SUBSET Interest]
  BY DEF PollerTypeOK
<1>2. isFirst' \subseteq Evented /\ registered' \subseteq Evented
  BY <1>1, MioRegisterCases DEF mioVars
<1>3. armed' \in [Evented -> SUBSET Interest]
  BY <1>1, MioRegisterCases DEF mioVars
<1>4. pc' \in {next, "failed"} /\ erred' \in BOOLEAN
  BY MioRegisterCases DEF GoOn, Fail, PollerTypeOK
<1> QED
  BY <1>2, <1>3, <1>4

\* Taking a request keeps the types.
LEMMA TryRecvType == ASSUME PollerTypeOK, TryRecv PROVE PollerTypeOK'
<1>1. /\ UNCHANGED <<wait, instant, events, awake, longest, ready, target, clock, timerVars>>
      /\ requests \in Seq(Request)
  BY DEF TryRecv, PollerTypeOK
<1>2. CASE requests = <<>>
  BY <1>1, <1>2
  DEF TryRecv, PollerTypeOK, GoOn, tableVars, mioVars, handleVars, timerVars
<1> DEFINE r == Head(requests)
<1>3. CASE requests # <<>>
  <2>1. r \in Request /\ Tail(requests) \in Seq(Request) /\ didSomething' = TRUE
    BY <1>1, <1>3, ChannelType DEF TryRecv
  <2>2. \A k \in Token : Append(Tail(requests), Deregister(k)) \in Seq(Request)
    BY <1>1, <1>3, ChannelType, AreRequests
  <2> HIDE DEF r
  <2>3. CASE r.op = "Register" /\ HandleRegister(r.evented)
    <3>1. r.evented \in Evented
      BY <2>1, <2>3, RequestKinds
    <3>2. PICK k \in Token :
            /\ NextToken(k)
            /\ registrants' = [registrants EXCEPT ![k] = r.evented]
            /\ isFirst' = isFirst \cup {r.evented}
            /\ token' = [token EXCEPT ![r.evented] = k]
            /\ handle' = [handle EXCEPT ![r.evented] = "held"]
                 \/ handle' = [handle EXCEPT ![r.evented] = "dropped"]
            /\ requests' \in {Tail(requests), Append(Tail(requests), Deregister(k))}
            /\ GoOn("clock")
            /\ UNCHANGED <<waitings, timeoutQueue, mioVars, monitor>>
      BY <2>3 DEF HandleRegister
    <3>3. nextToken' \in Token /\ requests' \in Seq(Request)
      BY <2>1, <2>2, <3>2, NextTokenType
    <3> QED
      BY <1>1, <2>1, <3>1, <3>2, <3>3 DEF PollerTypeOK, GoOn, mioVars, timerVars
  <2>4. CASE r.op = "Deregister" /\ HandleDeregister(r.token)
    <3> DEFINE o == registrants[r.token]
    <3>1. o \in Evented
      BY <2>1, <2>4, RequestKinds DEF HandleDeregister, PollerTypeOK
    <3>2. requests' = Tail(requests)
      BY <2>4 DEF HandleDeregister
    <3>3. /\ registrants' = [registrants EXCEPT ![r.token] = None]
          /\ waitings' = [waitings EXCEPT ![o] = NoWaitings]
          /\ monitor' \in [Monitors -> {"unused", "waiting", "notified", "aborted"}]
          /\ registered' = registered \ {o} /\ armed' = [armed EXCEPT ![o] = {}]
          /\ pc' \in {"clock", "failed"} /\ erred' \in BOOLEAN
          /\ UNCHANGED <<isFirst, nextToken, timeoutQueue, handleVars>>
      BY <2>4 DEF HandleDeregister, GoOn, Fail, PollerTypeOK
    <3>4. NoWaitings \in [Interest -> SUBSET Monitors]
      BY DEF NoWaitings
    <3> HIDE DEF o
    <3> QED
      BY <1>1, <2>1, <3>1, <3>2, <3>3, <3>4 DEF PollerTypeOK, handleVars, timerVars
  <2>5. CASE r.op = "Monitor" /\ HandleMonitor(r.token, r.interest, r.monitor)
    <3> DEFINE o == registrants[r.token]
               w == [waitings[o] EXCEPT ![r.interest] = @ \cup {r.monitor}]
    <3>1. o \in Evented /\ r.interest \in Interest /\ r.monitor \in Monitors
      BY <2>1, <2>5, RequestKinds DEF HandleMonitor, PollerTypeOK
    <3>2. w \in [Interest -> SUBSET Monitors]
      BY <3>1 DEF PollerTypeOK
    <3>3. /\ requests' = Tail(requests) /\ waitings' = [waitings EXCEPT ![o] = w]
          /\ MioRegister(o, w, "clock")
               \/ (GoOn("clock") /\ UNCHANGED <<isFirst, mioVars>>)
          /\ UNCHANGED <<registrants, nextToken, timeoutQueue, handleVars, monitor>>
      BY <2>5 DEF HandleMonitor
    <3> HIDE DEF o, w
    <3>4. /\ isFirst' \subseteq Evented /\ registered' \subseteq Evented
          /\ armed' \in [Evented -> SUBSET Interest]
          /\ pc' \in {"clock", "failed"} /\ erred' \in BOOLEAN
      BY <3>1, <3>2, <3>3, MioRegisterType DEF GoOn, PollerTypeOK, mioVars
    <3> QED
      BY <1>1, <2>1, <3>1, <3>2, <3>3, <3>4 DEF PollerTypeOK, handleVars, timerVars
  <2>6. CASE r.op \in {"SetTimeout", "CancelTimeout"} /\ HandleTimer(r)
    <3>1. r.timer \in Timers
      BY <2>1, <2>6, RequestKinds
    <3> QED
      BY <1>1, <2>1, <2>6, <3>1
      DEF HandleTimer, PollerTypeOK, GoOn, mioVars, handleVars, timerVars
  <2> QED
    BY <1>3, <2>3, <2>4, <2>5, <2>6 DEF TryRecv, r
<1> QED
  BY <1>2, <1>3

\* Sums of durations and times.
LEMMA SumIsNat ==
  /\ \A a, b \in Nat : a + b \in Nat
  /\ \A a, b, c \in Nat : a <= (a + b) + c
OBVIOUS

\* When the loop over the expired timers ends, all others lie in the future,
\* and mio's timeout ends no later than any of them.
LEMMA MioTimeout ==
  ASSUME PollerTypeOK, EnterMioPoll
  PROVE  /\ wait' \in Nat
         /\ \A t \in timeoutQueue : instant < expiry[t] /\ instant + wait' <= expiry[t]
<1>1. /\ timeoutQueue \subseteq Timers /\ expiry \in [Timers -> Nat]
      /\ instant \in Nat /\ wait \in Nat
  BY DEF PollerTypeOK
<1>2. \A t \in timeoutQueue : expiry[t] \in Nat
  BY <1>1
<1>3. \A t \in timeoutQueue : instant < expiry[t]
  <2> SUFFICES ASSUME NEW t \in timeoutQueue PROVE instant < expiry[t]
    OBVIOUS
  <2> DEFINE times == {expiry[u] : u \in timeoutQueue}
  <2>1. times \in SUBSET Nat /\ times # {}
    BY <1>2
  <2>2. PICK x \in times : \A y \in times : x <= y
    BY <2>1, NatMin
  <2>3. PICK u \in timeoutQueue : x = expiry[u]
    OBVIOUS
  <2>4. u \in Smallest
    BY <2>2, <2>3 DEF Smallest
  <2>5. instant < expiry[u] /\ expiry[u] <= expiry[t]
    BY <1>1, <1>2, <2>2, <2>3, <2>4 DEF EnterMioPoll
  <2> QED
    BY <1>1, <1>2, <2>5
<1> DEFINE limits == {wait} \cup {expiry[t] - instant : t \in timeoutQueue}
<1>4. limits \in SUBSET Nat /\ limits # {}
  BY <1>1, <1>2, <1>3
<1>5. \E d \in limits : \A e \in limits : d <= e
  BY <1>4, NatMin
<1>6. wait' = IF didSomething THEN 0 ELSE CHOOSE d \in limits : \A e \in limits : d <= e
  BY DEF EnterMioPoll
<1>7. \A t \in timeoutQueue : expiry[t] - instant \in limits
  OBVIOUS
<1> HIDE DEF limits
<1>8. CASE didSomething
  BY <1>1, <1>2, <1>3, <1>6, <1>8
<1>9. CASE ~ didSomething
  <2>1. wait' \in limits /\ \A e \in limits : wait' <= e
    BY <1>5, <1>6, <1>9
  <2>2. wait' \in Nat
    BY <1>4, <2>1
  <2>3. \A t \in timeoutQueue : wait' <= expiry[t] - instant
    BY <1>7, <2>1
  <2> QED
    BY <1>1, <1>2, <1>3, <2>2, <2>3
<1> QED
  BY <1>8, <1>9

\* Every other step of the poller's thread keeps the types.
LEMMA ThreadType ==
  ASSUME PollerTypeOK, PollerThread PROVE PollerTypeOK'
<1>1. ASSUME NEW d \in Timeouts, CallPoll(d) PROVE PollerTypeOK'
  BY <1>1 DEF CallPoll, PollerTypeOK, tableVars, mioVars, sharedVars, handleVars, timerVars
<1>2. CASE ReadClock
  BY <1>2 DEF ReadClock, PollerTypeOK, tableVars, mioVars, sharedVars, handleVars, timerVars
<1>3. CASE PopExpired
  BY <1>3 DEF PopExpired, PollerTypeOK, threadVars, localVars, mioVars, handleVars, Smallest
<1>4. CASE EnterMioPoll
  <2>1. wait' \in Nat
    BY <1>4, MioTimeout
  <2>2. pc' = "io"
        /\ awake' = clock + wait'
        /\ UNCHANGED <<tableVars, didSomething, instant, events, longest, erred, mioVars,
                       sharedVars>>
    BY <1>4 DEF EnterMioPoll
  <2>3. clock \in Nat
    BY DEF PollerTypeOK
  <2>4. clock + wait' \in Nat
    BY <2>1, <2>3, SumIsNat, Zenon
  <2>5. awake' \in Nat
    BY <2>2, <2>4, Zenon
  <2> QED
    BY <2>1, <2>2, <2>5
    DEF PollerTypeOK, tableVars, mioVars, sharedVars, handleVars, timerVars
<1>5. ASSUME NEW spurious \in SUBSET Evented, MioPoll(spurious) PROVE PollerTypeOK'
  <2>1. /\ pc' = "events"
        /\ awake' \in {clock, awake}
        /\ UNCHANGED <<tableVars, wait, didSomething, instant, longest, erred, registered,
                       sharedVars>>
    BY <1>5 DEF MioPoll, WakeUp
  <2>2. armed' \in [Evented -> SUBSET Interest]
    BY <1>5 DEF MioPoll, PollerTypeOK
  <2>3. \A k \in Token : registrants[k] # None =>
           Event(k, Reported(registrants[k]))
             \in [token : Token, readiness : SUBSET Interest]
    BY DEF Event, Reported, PollerTypeOK
  <2>4. events' \subseteq [token : Token, readiness : SUBSET Interest]
    BY <1>5, <2>3 DEF MioPoll
  <2> QED
    BY <2>1, <2>2, <2>4 DEF PollerTypeOK, tableVars, sharedVars, handleVars, timerVars
<1>6. CASE MioPollFails
  BY <1>6 DEF MioPollFails, Fail, WakeUp, PollerTypeOK, tableVars, mioVars, sharedVars,
              handleVars, timerVars
<1>7. CASE ReturnOk
  BY <1>7 DEF ReturnOk, PollerTypeOK, tableVars, mioVars, sharedVars,
              handleVars, timerVars
<1>8. CASE PollAgain
  BY <1>8 DEF PollAgain, PollerTypeOK, tableVars, localVars, mioVars, sharedVars,
              handleVars, timerVars
<1>9. CASE DropPoller
  <2>1. /\ pc' = "gone" /\ requests' = <<>> /\ timeoutQueue' = {} /\ registered' = {}
        /\ registrants' = [k \in Token |-> None]
        /\ waitings' = [o \in Evented |-> NoWaitings]
        /\ armed' = [o \in Evented |-> {}]
        /\ UNCHANGED <<isFirst, nextToken, localVars, erred, ready, token, target, clock,
                       timer, due, expiry>>
    BY <1>9 DEF DropPoller
  <2>2. handle' \in [Evented -> {"none", "registering", "cancelled", "held", "dropped"}]
    BY <1>9 DEF DropPoller, PollerTypeOK
  <2>3. monitor' \in [Monitors -> {"unused", "waiting", "notified", "aborted"}]
    BY <1>9 DEF DropPoller, PollerTypeOK
  <2>4. outcome' \in [Timers -> {"none", "expired", "error"}]
    BY <1>9 DEF DropPoller, PollerTypeOK
  <2>5. requests' \in Seq(Request)
    BY <2>1
  <2> QED
    BY <2>1, <2>2, <2>3, <2>4, <2>5 DEF PollerTypeOK, localVars, NoWaitings
<1>10. CASE HandleEvent
  <2>1. PICK e \in events :
          LET o == registrants[e.token]
              w == [i \in Interest |-> IF i \in e.readiness THEN {} ELSE waitings[o][i]]
              notified == UNION {waitings[o][i] : i \in e.readiness} IN
          /\ waitings' = [waitings EXCEPT ![o] = w]
          /\ monitor' = [m \in Monitors |->
                           IF m \in notified THEN "notified" ELSE monitor[m]]
          /\ MioRegister(o, w, "events")
          /\ events' = IF pc' = "failed" THEN {} ELSE events \ {e}
    BY <1>10 DEF HandleEvent
  <2> DEFINE o == registrants[e.token]
             w == [i \in Interest |-> IF i \in e.readiness THEN {} ELSE waitings[o][i]]
  <2>2. UNCHANGED <<registrants, nextToken, timeoutQueue, wait, didSomething, instant,
                    awake, longest, requests, ready, handleVars, target, clock, timerVars>>
    BY <1>10 DEF HandleEvent
  <2>3. CASE o \in Evented
    <3>1. w \in [Interest -> SUBSET Monitors]
      BY <2>3 DEF PollerTypeOK
    <3>2. /\ waitings' = [waitings EXCEPT ![o] = w] /\ MioRegister(o, w, "events")
          /\ events' \subseteq events
      BY <2>1
    <3>3. monitor' \in [Monitors -> {"unused", "waiting", "notified", "aborted"}]
      BY <2>1 DEF PollerTypeOK
    <3> HIDE DEF o, w
    <3>4. /\ isFirst' \subseteq Evented /\ registered' \subseteq Evented
          /\ armed' \in [Evented -> SUBSET Interest]
          /\ pc' \in {"events", "failed"} /\ erred' \in BOOLEAN
      BY <2>3, <3>1, <3>2, MioRegisterType
    <3> QED
      BY <2>2, <2>3, <3>1, <3>2, <3>3, <3>4 DEF PollerTypeOK, handleVars, timerVars
  <2>4. CASE o = None
    <3>1. /\ waitings' = [waitings EXCEPT ![None] = w] /\ MioRegister(None, w, "events")
          /\ events' \subseteq events
      BY <2>1, <2>4
    <3>2. monitor' \in [Monitors -> {"unused", "waiting", "notified", "aborted"}]
      BY <2>1 DEF PollerTypeOK
    <3> HIDE DEF o, w
    <3>3. waitings' = waitings
      BY <3>1 DEF PollerTypeOK
    <3>4. isFirst' \subseteq Evented /\ pc' \in {"events", "failed"} /\ erred' \in BOOLEAN
      BY <3>1, MioRegisterCases DEF GoOn, Fail, PollerTypeOK
    <3>5. registered' \subseteq Evented /\ armed' \in [Evented -> SUBSET Interest]
      BY <3>1 DEF MioRegister, mioVars, PollerTypeOK
    <3> QED
      BY <2>2, <3>1, <3>2, <3>3, <3>4, <3>5 DEF PollerTypeOK, handleVars, timerVars
  <2>5. registrants[e.token] \in Evented \cup {None}
    BY DEF PollerTypeOK
  <2> QED
    BY <2>3, <2>4, <2>5
<1> QED
  BY <1>1, <1>2, <1>3, <1>4, <1>5, <1>6, <1>7, <1>8, <1>9, <1>10, TryRecvType
  DEF PollerThread

\* So does every step of its users.
LEMMA UserType ==
  ASSUME PollerTypeOK, PollerNext, ~ PollerThread PROVE PollerTypeOK'
<1>1. ASSUME NEW o \in Evented, RegisterEvented(o) PROVE PollerTypeOK'
  <2>1. requests' \in Seq(Request)
    BY <1>1, ChannelType, AreRequests DEF RegisterEvented, PollerTypeOK
  <2> QED
    BY <1>1, <2>1 DEF RegisterEvented, PollerTypeOK, tableVars, threadVars, localVars,
                      mioVars, timerVars
<1>2. ASSUME NEW o \in Evented, CancelRegister(o) PROVE PollerTypeOK'
  BY <1>2 DEF CancelRegister, PollerTypeOK, tableVars, threadVars, localVars, mioVars,
              timerVars
<1>3. ASSUME NEW o \in Evented, DropHandle(o) PROVE PollerTypeOK'
  <2>1. token[o] \in Token
    BY DEF PollerTypeOK
  <2>2. requests' \in Seq(Request)
    BY <1>3, <2>1, ChannelType, AreRequests DEF DropHandle, PollerTypeOK
  <2> QED
    BY <1>3, <2>2 DEF DropHandle, PollerTypeOK, tableVars, threadVars, localVars, mioVars,
                      timerVars
<1>4. ASSUME NEW m \in Monitors, NEW o \in Evented, NEW i \in Interest,
             CallMonitor(m, o, i)
      PROVE  PollerTypeOK'
  <2>1. token[o] \in Token
    BY DEF PollerTypeOK
  <2>2. requests' \in Seq(Request)
    BY <1>4, <2>1, ChannelType, AreRequests DEF CallMonitor, PollerTypeOK
  <2>3. target' \in [Monitors -> [evented : Evented, interest : Interest] \cup {None}]
    BY <1>4 DEF CallMonitor, PollerTypeOK
  <2>4. monitor' \in [Monitors -> {"unused", "waiting", "notified", "aborted"}]
    BY <1>4 DEF CallMonitor, PollerTypeOK
  <2> QED
    BY <1>4, <2>2, <2>3, <2>4
    DEF CallMonitor, PollerTypeOK, tableVars, threadVars, localVars, mioVars, handleVars,
        timerVars
<1>5. ASSUME NEW o \in Evented, NEW i \in Interest, ChangeReadiness(o, i)
      PROVE  PollerTypeOK'
  BY <1>5 DEF ChangeReadiness, PollerTypeOK, tableVars, threadVars, localVars, mioVars,
              handleVars, timerVars
<1>6. CASE Tick
  BY <1>6 DEF Tick, PollerTypeOK, tableVars, threadVars, localVars, mioVars, handleVars,
              timerVars
<1>7. ASSUME NEW t \in Timers, NEW d \in Durations, MakeTimeout(t, d) PROVE PollerTypeOK'
  BY <1>7 DEF MakeTimeout, PollerTypeOK, tableVars, threadVars, localVars, mioVars,
              handleVars
<1>8. ASSUME NEW t \in Timers, FirstPoll(t) PROVE PollerTypeOK'
  <2>0. due[t] \in Nat /\ clock \in Nat /\ expiry \in [Timers -> Nat]
    BY DEF PollerTypeOK
  <2>1. expiry' \in [Timers -> Nat]
    <3>1. CASE clock >= due[t]
      BY <1>8, <2>0, <3>1 DEF FirstPoll
    <3>2. CASE ~ (clock >= due[t])
      <4>1. due[t] - clock \in Nat /\ expiry' = [expiry EXCEPT ![t] = due[t] - clock]
        BY <1>8, <2>0, <3>2 DEF FirstPoll
      <4> QED
        BY <2>0, <4>1
    <3> QED
      BY <3>1, <3>2
  <2>2. timer' \in [Timers -> {"unborn", "created", "measured", "set", "done", "dropped"}]
    <3>1. \/ timer' = [timer EXCEPT ![t] = "done"]
          \/ timer' = [timer EXCEPT ![t] = "measured"]
      BY <1>8 DEF FirstPoll
    <3> QED
      BY <3>1 DEF PollerTypeOK
  <2>3. outcome' \in [Timers -> {"none", "expired", "error"}]
    BY <1>8 DEF FirstPoll, PollerTypeOK
  <2> QED
    BY <1>8, <2>1, <2>2, <2>3 DEF FirstPoll, PollerTypeOK, tableVars, threadVars, localVars, mioVars,
                      handleVars
<1>9. ASSUME NEW t \in Timers, CallSetTimeout(t) PROVE PollerTypeOK'
  <2>1. requests' \in Seq(Request)
    BY <1>9, ChannelType, AreRequests DEF CallSetTimeout, PollerTypeOK
  <2> QED
    BY <1>9, <2>1 DEF CallSetTimeout, PollerTypeOK, tableVars, threadVars, localVars,
                      mioVars, handleVars
<1>10. ASSUME NEW t \in Timers, PollTimeout(t) PROVE PollerTypeOK'
  BY <1>10 DEF PollTimeout, PollerTypeOK, tableVars, threadVars, localVars, mioVars,
               handleVars
<1>11. ASSUME NEW t \in Timers, DropTimeout(t) PROVE PollerTypeOK'
  <2>1. requests' \in Seq(Request)
    BY <1>11, ChannelType, AreRequests DEF DropTimeout, PollerTypeOK
  <2> QED
    BY <1>11, <2>1 DEF DropTimeout, PollerTypeOK, tableVars, threadVars, localVars,
                       mioVars, handleVars
<1> QED
  BY <1>1, <1>2, <1>3, <1>4, <1>5, <1>6, <1>7, <1>8, <1>9, <1>10, <1>11 DEF PollerNext

\* The types hold in the first state.
LEMMA TypeInit == PollerInit => PollerTypeOK
<1> SUFFICES ASSUME PollerInit PROVE PollerTypeOK
  OBVIOUS
<1>1. requests \in Seq(Request)
  BY DEF PollerInit
<1>2. waitings \in [Evented -> [Interest -> SUBSET Monitors]]
  BY DEF PollerInit, NoWaitings
<1>3. nextToken \in Token /\ token \in [Evented -> Token]
  BY DEF PollerInit, Token
<1> QED
  BY <1>1, <1>2, <1>3 DEF PollerInit, PollerTypeOK

\* A step that changes nothing keeps the types.
LEMMA TypeStutter ==
  ASSUME PollerTypeOK, UNCHANGED pollerVars PROVE PollerTypeOK'
BY DEF PollerTypeOK, pollerVars, tableVars, threadVars, localVars, mioVars, sharedVars,
       handleVars, timerVars

\* The types hold always: whatever users ask for, and whatever mio reports,
\* poll finds its tables, tokens, instants and waiters in shape.
THEOREM PollerTypeCorrect == PollerSpec => []PollerTypeOK
<1>1. PollerTypeOK /\ [PollerNext]_pollerVars => PollerTypeOK'
  BY ThreadType, UserType, TypeStutter
<1> QED
  BY TypeInit, <1>1, PTL DEF PollerSpec

(***************************************************************************)
(* Timers.  The invariant is about the set and cancel requests in the      *)
(* channel together with the heap, because a timer is on its way from one  *)
(* to the other.  It is stated for any channel q, heap T and states s of   *)
(* the timers, so that a step can be split into what it does to each.      *)
(***************************************************************************)

\* A timer is going to expire: it is in the heap or on its way there.
Pends(q, T, t) == t \in T \/ \E n \in DOMAIN q : q[n] = SetTimeout(t)

\* A timer is set once, while its owner has not seen it expire; it is
\* cancelled after it was set, and when it was dropped.
TimerRequests(q, T, s) ==
  \A t \in Timers :
    /\ Pends(q, T, t) => s[t] \in {"set", "dropped"}
    /\ \A n \in DOMAIN q : q[n] = SetTimeout(t) =>
         t \notin T /\ \A m \in DOMAIN q : q[m] = SetTimeout(t) => m = n
    /\ \A n \in DOMAIN q : q[n] = CancelTimeout(t) =>
         s[t] = "dropped" /\ \A m \in DOMAIN q : q[m] = SetTimeout(t) => m < n
    /\ s[t] = "dropped" /\ Pends(q, T, t) => \E n \in DOMAIN q : q[n] = CancelTimeout(t)

\* Requests about timers differ from each other and from all others.
LEMMA TimerRequestsDiffer ==
  ASSUME NEW t \in Timers
  PROVE  /\ SetTimeout(t).op = "SetTimeout" /\ SetTimeout(t).timer = t
         /\ CancelTimeout(t).op = "CancelTimeout" /\ CancelTimeout(t).timer = t
         /\ \A k \in Token : Deregister(k) # SetTimeout(t) /\ Deregister(k) # CancelTimeout(t)
BY DEF SetTimeout, CancelTimeout, Deregister

\* Handling the first request: only the timer it names is moved.
LEMMA HandleTimerRequest ==
  ASSUME NEW q \in Seq(Request), q # <<>>, NEW T \in SUBSET Timers, NEW s,
         TimerRequests(q, T, s), NEW U,
         \/ Head(q).op = "SetTimeout" /\ U = T \cup {Head(q).timer}
         \/ Head(q).op = "CancelTimeout" /\ U = T \ {Head(q).timer}
         \/ Head(q).op \notin {"SetTimeout", "CancelTimeout"} /\ U = T
  PROVE  /\ TimerRequests(Tail(q), U, s)
         /\ \A t \in Timers : Pends(Tail(q), U, t) => Pends(q, T, t)
<1> DEFINE r == Head(q)
           p == Tail(q)
<1>1. /\ 1 \in DOMAIN q /\ r = q[1]
      /\ \A n \in DOMAIN p : n + 1 \in DOMAIN q /\ p[n] = q[n + 1]
      /\ \A n \in DOMAIN q \ {1} : n - 1 \in DOMAIN p /\ p[n - 1] = q[n]
  BY TailEntries
<1>2. r \in Request
  BY HeadTailProperties
<1>3. DOMAIN p \subseteq Nat \ {0} /\ DOMAIN q \subseteq Nat \ {0}
  <2>1. p \in Seq(Request)
    BY HeadTailProperties
  <2> QED
    BY <2>1, LenProperties
<1> HIDE DEF r, p
<1>4. SUFFICES ASSUME NEW t \in Timers
      PROVE  /\ Pends(p, U, t) => Pends(q, T, t)
             /\ \A n \in DOMAIN p : p[n] = SetTimeout(t) =>
                  t \notin U /\ \A m \in DOMAIN p : p[m] = SetTimeout(t) => m = n
             /\ \A n \in DOMAIN p : p[n] = CancelTimeout(t) =>
                  s[t] = "dropped" /\ \A m \in DOMAIN p : p[m] = SetTimeout(t) => m < n
             /\ s[t] = "dropped" /\ Pends(p, U, t) =>
                  \E n \in DOMAIN p : p[n] = CancelTimeout(t)
  BY DEF TimerRequests, p
<1>5. /\ r = SetTimeout(t) => U = T \cup {t}
      /\ r = CancelTimeout(t) => U = T \ {t}
      /\ r # SetTimeout(t) /\ r # CancelTimeout(t) => (t \in U <=> t \in T)
  BY <1>2, RequestKinds, TimerRequestsDiffer DEF r
<1>6. /\ Pends(q, T, t) => s[t] \in {"set", "dropped"}
      /\ \A n \in DOMAIN q : q[n] = SetTimeout(t) =>
           t \notin T /\ \A m \in DOMAIN q : q[m] = SetTimeout(t) => m = n
      /\ \A n \in DOMAIN q : q[n] = CancelTimeout(t) =>
           s[t] = "dropped" /\ \A m \in DOMAIN q : q[m] = SetTimeout(t) => m < n
      /\ s[t] = "dropped" /\ Pends(q, T, t) => \E n \in DOMAIN q : q[n] = CancelTimeout(t)
  BY DEF TimerRequests
<1>7. SetTimeout(t) # CancelTimeout(t)
  BY TimerRequestsDiffer
<1>8. Pends(p, U, t) => Pends(q, T, t)
  BY <1>1, <1>5, <1>7 DEF Pends
<1>9. \A n \in DOMAIN p : p[n] = SetTimeout(t) =>
        t \notin U /\ \A m \in DOMAIN p : p[m] = SetTimeout(t) => m = n
  BY <1>1, <1>3, <1>5, <1>6
<1>10. \A n \in DOMAIN p : p[n] = CancelTimeout(t) =>
         s[t] = "dropped" /\ \A m \in DOMAIN p : p[m] = SetTimeout(t) => m < n
  BY <1>1, <1>3, <1>6
<1>11. ASSUME s[t] = "dropped", Pends(p, U, t)
       PROVE  \E n \in DOMAIN p : p[n] = CancelTimeout(t)
  <2>1. PICK n \in DOMAIN q : q[n] = CancelTimeout(t)
    BY <1>6, <1>8, <1>11
  <2>2. CASE n = 1
    <3>1. t \notin U
      BY <1>1, <1>5, <2>1, <2>2
    <3>2. PICK m \in DOMAIN p : p[m] = SetTimeout(t)
      BY <1>11, <3>1 DEF Pends
    <3>3. m + 1 \in DOMAIN q /\ q[m + 1] = SetTimeout(t) /\ m + 1 > 1
      BY <1>1, <1>3, <3>2
    <3>4. m + 1 < 1
      BY <1>6, <2>1, <2>2, <3>3
    <3> QED
      BY <1>3, <3>3, <3>4
  <2>3. CASE n # 1
    BY <1>1, <2>1, <2>3
  <2> QED
    BY <2>2, <2>3
<1> QED
  BY <1>8, <1>9, <1>10, <1>11

\* Sending a request that is not about timers.
LEMMA SendOther ==
  ASSUME NEW q \in Seq(Request), NEW T, NEW s, TimerRequests(q, T, s), NEW r \in Request,
         r.op \notin {"SetTimeout", "CancelTimeout"}
  PROVE  /\ TimerRequests(Append(q, r), T, s)
         /\ \A t \in Timers : Pends(Append(q, r), T, t) <=> Pends(q, T, t)
<1> DEFINE p == Append(q, r)
           last == Len(q) + 1
<1>1. /\ DOMAIN p = DOMAIN q \cup {last} /\ last \notin DOMAIN q
      /\ \A n \in DOMAIN q : p[n] = q[n]
      /\ p[last] = r
  BY AppendEntries
<1> HIDE DEF p, last
<1>2. \A t \in Timers : r # SetTimeout(t) /\ r # CancelTimeout(t)
  BY TimerRequestsDiffer
<1>3. \A t \in Timers : Pends(p, T, t) <=> Pends(q, T, t)
  BY <1>1, <1>2 DEF Pends
<1>4. TimerRequests(p, T, s)
  BY <1>1, <1>2, <1>3 DEF TimerRequests
<1> QED
  BY <1>3, <1>4 DEF p

\* A timer that does not pend and is not dropped may change its state.
LEMMA TimerMoves ==
  ASSUME NEW q, NEW T, NEW s, TimerRequests(q, T, s), NEW t \in Timers,
         ~ Pends(q, T, t), s[t] # "dropped", NEW u,
         \A v \in Timers : v # t => u[v] = s[v]
  PROVE  TimerRequests(q, T, u)
<1> SUFFICES ASSUME NEW v \in Timers
    PROVE  /\ Pends(q, T, v) => u[v] \in {"set", "dropped"}
           /\ \A n \in DOMAIN q : q[n] = SetTimeout(v) =>
                v \notin T /\ \A m \in DOMAIN q : q[m] = SetTimeout(v) => m = n
           /\ \A n \in DOMAIN q : q[n] = CancelTimeout(v) =>
                u[v] = "dropped" /\ \A m \in DOMAIN q : q[m] = SetTimeout(v) => m < n
           /\ u[v] = "dropped" /\ Pends(q, T, v) =>
                \E n \in DOMAIN q : q[n] = CancelTimeout(v)
  BY DEF TimerRequests
<1>1. CASE v = t
  BY <1>1 DEF TimerRequests
<1>2. CASE v # t
  BY <1>2 DEF TimerRequests
<1> QED
  BY <1>1, <1>2

\* A timer that does not pend is set.
LEMMA SendSet ==
  ASSUME NEW q \in Seq(Request), NEW T, NEW s, TimerRequests(q, T, s), NEW t \in Timers,
         ~ Pends(q, T, t), s[t] # "dropped", NEW u, u[t] = "set",
         \A v \in Timers : v # t => u[v] = s[v]
  PROVE  /\ TimerRequests(Append(q, SetTimeout(t)), T, u)
         /\ \A v \in Timers : v # t =>
              (Pends(Append(q, SetTimeout(t)), T, v) <=> Pends(q, T, v))
<1> DEFINE p == Append(q, SetTimeout(t))
           last == Len(q) + 1
<1>1. /\ DOMAIN p = DOMAIN q \cup {last} /\ last \notin DOMAIN q
      /\ \A n \in DOMAIN q : p[n] = q[n]
      /\ p[last] = SetTimeout(t)
  BY AppendEntries, AreRequests
<1> HIDE DEF p, last
<1>2. TimerRequests(q, T, u)
  BY TimerMoves
<1>3. \A v \in Timers : SetTimeout(t) # CancelTimeout(v)
                        /\ (v # t => SetTimeout(t) # SetTimeout(v))
  BY TimerRequestsDiffer
<1>4. \A v \in Timers : v # t => (Pends(p, T, v) <=> Pends(q, T, v))
  BY <1>1, <1>3 DEF Pends
<1>5. ASSUME NEW v \in Timers
      PROVE  /\ Pends(p, T, v) => u[v] \in {"set", "dropped"}
             /\ \A n \in DOMAIN p : p[n] = SetTimeout(v) =>
                  v \notin T /\ \A m \in DOMAIN p : p[m] = SetTimeout(v) => m = n
             /\ \A n \in DOMAIN p : p[n] = CancelTimeout(v) =>
                  u[v] = "dropped" /\ \A m \in DOMAIN p : p[m] = SetTimeout(v) => m < n
             /\ u[v] = "dropped" /\ Pends(p, T, v) =>
                  \E n \in DOMAIN p : p[n] = CancelTimeout(v)
  <2>1. CASE v = t
    <3>1. \A n \in DOMAIN q : q[n] # SetTimeout(t) /\ q[n] # CancelTimeout(t)
      BY DEF TimerRequests, Pends
    <3>2. t \notin T
      BY DEF Pends
    <3> QED
      BY <1>1, <1>3, <2>1, <3>1, <3>2
  <2>2. CASE v # t
    BY <1>1, <1>2, <1>3, <1>4, <2>2 DEF TimerRequests
  <2> QED
    BY <2>1, <2>2
<1> QED
  BY <1>4, <1>5 DEF TimerRequests, p

\* A timer that was set is dropped and cancelled.
LEMMA SendCancel ==
  ASSUME NEW q \in Seq(Request), NEW T, NEW s, TimerRequests(q, T, s), NEW t \in Timers,
         NEW u, u[t] = "dropped", \A v \in Timers : v # t => u[v] = s[v]
  PROVE  /\ TimerRequests(Append(q, CancelTimeout(t)), T, u)
         /\ \A v \in Timers : Pends(Append(q, CancelTimeout(t)), T, v) <=> Pends(q, T, v)
<1> DEFINE p == Append(q, CancelTimeout(t))
           last == Len(q) + 1
<1>1. /\ DOMAIN p = DOMAIN q \cup {last} /\ last \notin DOMAIN q
      /\ \A n \in DOMAIN q : p[n] = q[n]
      /\ p[last] = CancelTimeout(t)
  BY AppendEntries, AreRequests
<1>2. \A n \in DOMAIN q : n < last
  <2>1. DOMAIN q = 1 .. Len(q) /\ Len(q) \in Nat
    BY LenProperties
  <2> QED
    BY <2>1
<1> HIDE DEF p, last
<1>3. \A v \in Timers : CancelTimeout(t) # SetTimeout(v)
                        /\ (v # t => CancelTimeout(t) # CancelTimeout(v))
  BY TimerRequestsDiffer
<1>4. \A v \in Timers : Pends(p, T, v) <=> Pends(q, T, v)
  BY <1>1, <1>3 DEF Pends
<1>5. ASSUME NEW v \in Timers
      PROVE  /\ Pends(p, T, v) => u[v] \in {"set", "dropped"}
             /\ \A n \in DOMAIN p : p[n] = SetTimeout(v) =>
                  v \notin T /\ \A m \in DOMAIN p : p[m] = SetTimeout(v) => m = n
             /\ \A n \in DOMAIN p : p[n] = CancelTimeout(v) =>
                  u[v] = "dropped" /\ \A m \in DOMAIN p : p[m] = SetTimeout(v) => m < n
             /\ u[v] = "dropped" /\ Pends(p, T, v) =>
                  \E n \in DOMAIN p : p[n] = CancelTimeout(v)
  <2>1. CASE v = t
    BY <1>1, <1>2, <1>3, <2>1 DEF TimerRequests
  <2>2. CASE v # t
    BY <1>1, <1>3, <1>4, <2>2 DEF TimerRequests
  <2> QED
    BY <2>1, <2>2
<1> QED
  BY <1>4, <1>5 DEF TimerRequests, p

\* What holds of one timer: it has not expired early, nor may it; and who has
\* an outcome does not pend.
TimerIsFair(t) ==
  /\ outcome[t] = "expired" => clock >= due[t]
  /\ timer[t] = "measured" => clock + expiry[t] >= due[t]
  /\ timer[t] \in {"unborn", "created", "measured"} => outcome[t] = "none"
  /\ Pends(requests, timeoutQueue, t) => outcome[t] = "none" /\ expiry[t] >= due[t]

\* Nothing is left in the channel and the heap of a poller that is gone.
GoneIsEmpty == pc = "gone" => requests = <<>> /\ timeoutQueue = {}

TimerInv ==
  /\ PollerTypeOK
  /\ TimerRequests(requests, timeoutQueue, timer)
  /\ GoneIsEmpty
  /\ instant <= clock
  /\ \A t \in Timers : TimerIsFair(t)

\* A step that neither touches the timers themselves nor makes one pend.
LEMMA TimersUntouched ==
  ASSUME \A t \in Timers : TimerIsFair(t),
         UNCHANGED <<clock, timer, due, expiry, outcome>>,
         \A t \in Timers :
           Pends(requests', timeoutQueue', t) => Pends(requests, timeoutQueue, t)
  PROVE  \A t \in Timers : TimerIsFair(t)'
<1> SUFFICES ASSUME NEW t \in Timers PROVE TimerIsFair(t)'
  OBVIOUS
<1>1. Pends(requests, timeoutQueue, t)' <=> Pends(requests', timeoutQueue', t)
  BY DEF Pends
<1> QED
  BY <1>1 DEF TimerIsFair

\* The same about the requests, when channel, heap and timers are unchanged.
LEMMA TimerRequestsUnchanged ==
  ASSUME UNCHANGED <<requests, timeoutQueue, timer>>
  PROVE  /\ TimerRequests(requests, timeoutQueue, timer)
              => TimerRequests(requests, timeoutQueue, timer)'
         /\ \A t \in Timers :
              Pends(requests', timeoutQueue', t) => Pends(requests, timeoutQueue, t)
BY DEF TimerRequests, Pends

\* Handling a request keeps the timers in order.
LEMMA TryRecvTimers == ASSUME TimerInv, TryRecv PROVE TimerInv'
<1>1. /\ PollerTypeOK' /\ PollerTypeOK /\ requests \in Seq(Request)
      /\ timeoutQueue \in SUBSET Timers
      /\ UNCHANGED <<instant, clock, timerVars>>
  BY TryRecvType DEF TryRecv, TimerInv, PollerTypeOK
<1>2. pc' \in {"clock", "failed"}
  <2>1. ASSUME NEW o, NEW w, MioRegister(o, w, "clock") PROVE pc' \in {"clock", "failed"}
    BY <2>1, MioRegisterCases DEF GoOn, Fail
  <2> QED
    BY <2>1 DEF TryRecv, GoOn, Fail, HandleRegister, HandleDeregister, HandleMonitor,
                HandleTimer
<1>3. GoneIsEmpty' /\ (instant <= clock)'
  BY <1>1, <1>2 DEF GoneIsEmpty, TimerInv
<1>4. SUFFICES /\ TimerRequests(requests', timeoutQueue', timer)
               /\ \A t \in Timers :
                    Pends(requests', timeoutQueue', t) => Pends(requests, timeoutQueue, t)
  <2>1. TimerRequests(requests, timeoutQueue, timer)'
    BY <1>1, <1>4 DEF TimerRequests, Pends, timerVars
  <2>2. \A t \in Timers : TimerIsFair(t)'
    BY <1>1, <1>4, TimersUntouched DEF TimerInv, timerVars
  <2> QED
    BY <1>1, <1>3, <2>1, <2>2 DEF TimerInv
<1>5. CASE requests = <<>>
  BY <1>1, <1>5, TimerRequestsUnchanged DEF TryRecv, tableVars, TimerInv
<1>6. CASE requests # <<>>
  <2> DEFINE r == Head(requests)
             q == Tail(requests)
             U == IF r.op = "SetTimeout" THEN timeoutQueue \cup {r.timer}
                  ELSE IF r.op = "CancelTimeout" THEN timeoutQueue \ {r.timer}
                  ELSE timeoutQueue
  <2>1. q \in Seq(Request)
    BY <1>1, <1>6, ChannelType
  <2>2. /\ TimerRequests(q, U, timer)
        /\ \A t \in Timers : Pends(q, U, t) => Pends(requests, timeoutQueue, t)
    <3>1. \/ r.op = "SetTimeout" /\ U = timeoutQueue \cup {r.timer}
          \/ r.op = "CancelTimeout" /\ U = timeoutQueue \ {r.timer}
          \/ r.op \notin {"SetTimeout", "CancelTimeout"} /\ U = timeoutQueue
      OBVIOUS
    <3>2. TimerRequests(requests, timeoutQueue, timer)
      BY DEF TimerInv
    <3> HIDE DEF U
    <3> QED
      BY <1>1, <1>6, <3>1, <3>2, HandleTimerRequest
  <2>3. CASE requests' = q /\ timeoutQueue' = U
    BY <2>2, <2>3
  <2>4. CASE \E k \in Token : requests' = Append(q, Deregister(k)) /\ timeoutQueue' = U
    <3>1. PICK k \in Token : requests' = Append(q, Deregister(k)) /\ timeoutQueue' = U
      BY <2>4
    <3>2. Deregister(k) \in Request
          /\ Deregister(k).op \notin {"SetTimeout", "CancelTimeout"}
      BY AreRequests DEF Deregister
    <3> HIDE DEF U, q
    <3> QED
      BY <2>1, <2>2, <3>1, <3>2, SendOther
  <2>5. \/ r.op = "Register" /\ HandleRegister(r.evented)
        \/ r.op = "Deregister" /\ HandleDeregister(r.token)
        \/ r.op = "Monitor" /\ HandleMonitor(r.token, r.interest, r.monitor)
        \/ r.op \in {"SetTimeout", "CancelTimeout"} /\ HandleTimer(r)
    BY <1>6 DEF TryRecv
  <2> QED
    BY <2>3, <2>4, <2>5
    DEF HandleRegister, HandleDeregister, HandleMonitor, HandleTimer
<1> QED
  BY <1>1, <1>5, <1>6

\* A step that leaves channel, heap and timers alone; time may pass.
LEMMA TimersLeftAlone ==
  ASSUME TimerInv, PollerTypeOK',
         UNCHANGED <<requests, timeoutQueue, timer, due, expiry, outcome>>,
         clock' \in {clock, clock + 1}, instant' \in {0, instant, clock},
         pc' = "gone" => pc = "gone"
  PROVE  TimerInv'
<1>1. clock \in Nat /\ instant \in Nat /\ instant <= clock
      /\ due \in [Timers -> Nat] /\ expiry \in [Timers -> Nat]
  BY DEF TimerInv, PollerTypeOK
<1>2. (instant <= clock)' /\ clock' \in Nat /\ clock <= clock'
  BY <1>1
<1>3. TimerRequests(requests, timeoutQueue, timer)'
  BY TimerRequestsUnchanged DEF TimerInv
<1>4. ASSUME NEW t \in Timers PROVE TimerIsFair(t)'
  <2>1. due[t] \in Nat /\ expiry[t] \in Nat
    BY <1>1
  <2>2. Pends(requests, timeoutQueue, t)' => Pends(requests, timeoutQueue, t)
    BY DEF Pends
  <2>3. TimerIsFair(t)
    BY DEF TimerInv
  <2>4. (outcome[t] = "expired" => clock >= due[t])'
    BY <1>1, <1>2, <2>1, <2>3 DEF TimerIsFair
  <2>5. (timer[t] = "measured" => clock + expiry[t] >= due[t])'
    BY <1>1, <1>2, <2>1, <2>3 DEF TimerIsFair
  <2> QED
    BY <2>2, <2>3, <2>4, <2>5 DEF TimerIsFair
<1> QED
  BY <1>2, <1>3, <1>4 DEF TimerInv, GoneIsEmpty

\* Sending a request that is not about timers.
LEMMA OtherSent ==
  ASSUME TimerInv, PollerTypeOK', NEW r \in Request,
         r.op \notin {"SetTimeout", "CancelTimeout"}, Send(r),
         UNCHANGED <<timeoutQueue, pc, instant, clock, timer, due, expiry, outcome>>
  PROVE  TimerInv'
<1>1. requests \in Seq(Request) /\ TimerRequests(requests, timeoutQueue, timer)
  BY DEF TimerInv, PollerTypeOK
<1>2. CASE pc = "gone"
  BY <1>2, TimersLeftAlone DEF Send
<1>3. CASE pc # "gone"
  <2>1. requests' = Append(requests, r)
    BY <1>3 DEF Send
  <2>2. /\ TimerRequests(requests', timeoutQueue', timer')
        /\ \A t \in Timers :
             Pends(requests', timeoutQueue', t) => Pends(requests, timeoutQueue, t)
    BY <1>1, <2>1, SendOther
  <2>3. TimerRequests(requests, timeoutQueue, timer)'
    BY <2>2 DEF TimerRequests, Pends
  <2>4. \A t \in Timers : TimerIsFair(t)'
    BY <2>2, TimersUntouched DEF TimerInv
  <2> QED
    BY <1>3, <2>3, <2>4 DEF TimerInv, GoneIsEmpty
<1> QED
  BY <1>2, <1>3

\* The expired timer with the smallest key is answered.
LEMMA PopExpiredTimers == ASSUME TimerInv, PopExpired, PollerTypeOK' PROVE TimerInv'
<1>1. PICK t \in Smallest :
        /\ expiry[t] <= instant
        /\ timeoutQueue' = timeoutQueue \ {t}
        /\ outcome' = [outcome EXCEPT ![t] = "expired"]
  BY DEF PopExpired
<1>2. /\ pc = "timeouts" /\ UNCHANGED <<pc, wait, instant>>
      /\ UNCHANGED <<requests, clock, timer, due, expiry>>
  BY DEF PopExpired, threadVars, localVars
<1>3. t \in timeoutQueue /\ t \in Timers
  BY DEF Smallest, TimerInv, PollerTypeOK
<1>4. /\ clock \in Nat /\ instant \in Nat /\ instant <= clock
      /\ due[t] \in Nat /\ expiry[t] \in Nat /\ outcome \in [Timers -> {"none", "expired", "error"}]
  BY <1>3 DEF TimerInv, PollerTypeOK
<1>5. Pends(requests, timeoutQueue, t) /\ TimerIsFair(t)
  BY <1>3 DEF Pends, TimerInv
<1>6. clock >= due[t] /\ timer[t] \in {"set", "dropped"}
  BY <1>1, <1>3, <1>4, <1>5 DEF TimerIsFair, TimerInv, TimerRequests
<1>7. \A n \in DOMAIN requests : requests[n] # SetTimeout(t)
  BY <1>3 DEF TimerInv, TimerRequests
<1>8. \A u \in Timers :
        Pends(requests', timeoutQueue', u) => u # t /\ Pends(requests, timeoutQueue, u)
  BY <1>1, <1>2, <1>7 DEF Pends
<1>9. TimerRequests(requests, timeoutQueue, timer)'
  <2>1. TimerRequests(requests, timeoutQueue \ {t}, timer)
    BY <1>1, <1>2, <1>8 DEF TimerInv, TimerRequests
  <2> QED
    BY <1>1, <1>2, <2>1 DEF TimerRequests, Pends
<1>10. ASSUME NEW u \in Timers PROVE TimerIsFair(u)'
  <2>1. Pends(requests, timeoutQueue, u)' <=> Pends(requests', timeoutQueue', u)
    BY DEF Pends
  <2>2. CASE u = t
    BY <1>1, <1>2, <1>4, <1>6, <1>8, <2>1, <2>2 DEF TimerIsFair
  <2>3. CASE u # t
    <3>1. TimerIsFair(u) /\ outcome'[u] = outcome[u]
      BY <1>1, <1>4, <2>3 DEF TimerInv
    <3> QED
      BY <1>2, <1>8, <2>1, <3>1 DEF TimerIsFair
  <2> QED
    BY <2>2, <2>3
<1>11. GoneIsEmpty' /\ (instant <= clock)'
  BY <1>2, <1>4 DEF GoneIsEmpty
<1> QED
  BY <1>9, <1>10, <1>11 DEF TimerInv

\* Without a poller nothing pends any more.
LEMMA DropPollerTimers == ASSUME TimerInv, DropPoller, PollerTypeOK' PROVE TimerInv'
<1>1. /\ pc' = "gone" /\ requests' = <<>> /\ timeoutQueue' = {}
      /\ outcome' = [t \in Timers |->
           IF timer[t] = "set" /\ outcome[t] = "none" THEN "error" ELSE outcome[t]]
      /\ UNCHANGED <<instant, clock, timer, due, expiry>>
  BY DEF DropPoller, localVars
<1>2. \A t \in Timers : ~ Pends(requests, timeoutQueue, t)'
  BY <1>1 DEF Pends
<1>3. \A t \in Timers : \A n \in DOMAIN requests' : FALSE
  BY <1>1
<1>4. TimerRequests(requests, timeoutQueue, timer)'
  BY <1>2, <1>3 DEF TimerRequests
<1>5. \A t \in Timers : TimerIsFair(t)'
  BY <1>1, <1>2 DEF TimerIsFair, TimerInv
<1> QED
  BY <1>1, <1>4, <1>5 DEF TimerInv, GoneIsEmpty

\* Every step of the poller's thread keeps the timers in order.
LEMMA ThreadTimers == ASSUME TimerInv, PollerThread PROVE TimerInv'
<1>1. PollerTypeOK /\ PollerTypeOK'
  BY ThreadType DEF TimerInv
<1>2. ASSUME NEW d \in Timeouts, CallPoll(d) PROVE TimerInv'
  BY <1>1, <1>2, TimersLeftAlone
  DEF CallPoll, tableVars, sharedVars, timerVars
<1>3. CASE ReadClock
  BY <1>1, <1>3, TimersLeftAlone
  DEF ReadClock, tableVars, sharedVars, timerVars
<1>4. CASE EnterMioPoll
  <2>1. pc' = "io" /\ UNCHANGED <<tableVars, instant, sharedVars>>
    BY <1>4 DEF EnterMioPoll
  <2> QED
    BY <1>1, <2>1, TimersLeftAlone DEF tableVars, sharedVars, timerVars
<1>5. ASSUME NEW spurious \in SUBSET Evented, MioPoll(spurious) PROVE TimerInv'
  <2>1. pc' = "events" /\ UNCHANGED <<tableVars, instant, sharedVars>>
    BY <1>5 DEF MioPoll
  <2> QED
    BY <1>1, <2>1, TimersLeftAlone DEF tableVars, sharedVars, timerVars
<1>6. CASE MioPollFails
  BY <1>1, <1>6, TimersLeftAlone
  DEF MioPollFails, Fail, tableVars, sharedVars, timerVars
<1>7. CASE HandleEvent
  <2>1. /\ pc' \in {"events", "failed"}
        /\ UNCHANGED <<timeoutQueue, instant, requests, clock, timerVars>>
    <3>1. PICK o, w : MioRegister(o, w, "events")
      BY <1>7 DEF HandleEvent
    <3> QED
      BY <1>7, <3>1, MioRegisterCases DEF HandleEvent, GoOn, Fail
  <2> QED
    BY <1>1, <2>1, TimersLeftAlone DEF timerVars
<1>8. CASE ReturnOk
  BY <1>1, <1>8, TimersLeftAlone
  DEF ReturnOk, tableVars, sharedVars, timerVars
<1>9. CASE PollAgain
  BY <1>1, <1>9, TimersLeftAlone
  DEF PollAgain, tableVars, localVars, sharedVars, timerVars
<1> QED
  BY <1>1, <1>2, <1>3, <1>4, <1>5, <1>6, <1>7, <1>8, <1>9, TryRecvTimers,
     PopExpiredTimers, DropPollerTimers
  DEF PollerThread

\* A timer is set: it was measured before, and cannot have been set already.
LEMMA SetTimers ==
  ASSUME TimerInv, NEW t \in Timers, CallSetTimeout(t), PollerTypeOK' PROVE TimerInv'
<1>1. /\ timer[t] = "measured"
      /\ timer' = [timer EXCEPT ![t] = "set"]
      /\ expiry' = [expiry EXCEPT ![t] = clock + expiry[t]]
      /\ Send(SetTimeout(t))
      /\ outcome' = [outcome EXCEPT ![t] = IF pc = "gone" THEN "error" ELSE "none"]
      /\ UNCHANGED <<timeoutQueue, pc, wait, instant, clock, due>>
  BY DEF CallSetTimeout, tableVars, threadVars, localVars
<1>2. /\ requests \in Seq(Request) /\ timeoutQueue \subseteq Timers
      /\ clock \in Nat /\ expiry \in [Timers -> Nat] /\ due \in [Timers -> Nat]
      /\ timer \in [Timers -> {"unborn", "created", "measured", "set", "done", "dropped"}]
      /\ outcome \in [Timers -> {"none", "expired", "error"}]
  BY DEF TimerInv, PollerTypeOK
<1>3. TimerRequests(requests, timeoutQueue, timer) /\ \A u \in Timers : TimerIsFair(u)
  BY DEF TimerInv
<1>4. ~ Pends(requests, timeoutQueue, t)
  BY <1>1, <1>3 DEF TimerRequests
<1>5. timer'[t] = "set" /\ \A u \in Timers : u # t => timer'[u] = timer[u]
  BY <1>1, <1>2
<1>6. /\ TimerRequests(requests', timeoutQueue', timer')
      /\ \A u \in Timers : u # t =>
           (Pends(requests', timeoutQueue', u) => Pends(requests, timeoutQueue, u))
      /\ pc = "gone" => ~ Pends(requests', timeoutQueue', t)
  <2>1. CASE pc = "gone"
    <3>1. UNCHANGED <<requests, timeoutQueue>>
      BY <1>1, <2>1 DEF Send
    <3>2. TimerRequests(requests, timeoutQueue, timer')
      BY <1>1, <1>3, <1>4, <1>5, TimerMoves
    <3> QED
      BY <1>4, <3>1, <3>2
  <2>2. CASE pc # "gone"
    <3>1. requests' = Append(requests, SetTimeout(t)) /\ UNCHANGED timeoutQueue
      BY <1>1, <2>2 DEF Send
    <3>2. timer[t] # "dropped"
      BY <1>1
    <3>3. /\ TimerRequests(Append(requests, SetTimeout(t)), timeoutQueue, timer')
          /\ \A u \in Timers : u # t =>
               (Pends(Append(requests, SetTimeout(t)), timeoutQueue, u)
                  <=> Pends(requests, timeoutQueue, u))
      BY <1>2, <1>3, <1>4, <1>5, <3>2, SendSet
    <3> QED
      BY <2>2, <3>1, <3>3
  <2> QED
    BY <2>1, <2>2
<1>7. TimerRequests(requests, timeoutQueue, timer)'
  BY <1>6 DEF TimerRequests, Pends
<1>8. ASSUME NEW u \in Timers PROVE TimerIsFair(u)'
  <2>1. Pends(requests, timeoutQueue, u)' <=> Pends(requests', timeoutQueue', u)
    BY DEF Pends
  <2>2. CASE u = t
    <3>1. clock + expiry[t] >= due[t]
      BY <1>1, <1>3 DEF TimerIsFair
    <3>2. expiry'[t] = clock + expiry[t] /\ due' = due /\ timer'[t] = "set"
      BY <1>1, <1>2
    <3>3. outcome'[t] = IF pc = "gone" THEN "error" ELSE "none"
      BY <1>1, <1>2
    <3> QED
      BY <1>6, <2>1, <2>2, <3>1, <3>2, <3>3 DEF TimerIsFair
  <2>3. CASE u # t
    <3>1. /\ TimerIsFair(u) /\ outcome'[u] = outcome[u] /\ timer'[u] = timer[u]
          /\ expiry'[u] = expiry[u] /\ due' = due /\ clock' = clock
      BY <1>1, <1>2, <1>3, <2>3
    <3> QED
      BY <1>6, <2>1, <2>3, <3>1 DEF TimerIsFair
  <2> QED
    BY <2>2, <2>3
<1>9. GoneIsEmpty' /\ (instant <= clock)'
  BY <1>1 DEF GoneIsEmpty, TimerInv, Send
<1> QED
  BY <1>7, <1>8, <1>9 DEF TimerInv

\* A timer is dropped, and cancelled if it was set.
LEMMA DropTimers ==
  ASSUME TimerInv, NEW t \in Timers, DropTimeout(t), PollerTypeOK' PROVE TimerInv'
<1>1. /\ timer[t] \in {"created", "set"}
      /\ timer' = [timer EXCEPT ![t] = "dropped"]
      /\ IF timer[t] = "set" THEN Send(CancelTimeout(t)) ELSE UNCHANGED requests
      /\ due' = [due EXCEPT ![t] = 0]
      /\ UNCHANGED <<timeoutQueue, pc, wait, instant, clock, expiry, outcome>>
  BY DEF DropTimeout, tableVars, threadVars, localVars
<1>2. /\ requests \in Seq(Request)
      /\ timer \in [Timers -> {"unborn", "created", "measured", "set", "done", "dropped"}]
  BY DEF TimerInv, PollerTypeOK
<1>3. TimerRequests(requests, timeoutQueue, timer) /\ \A u \in Timers : TimerIsFair(u)
  BY DEF TimerInv
<1>4. timer'[t] = "dropped" /\ \A u \in Timers : u # t => timer'[u] = timer[u]
  BY <1>1, <1>2
<1>5. /\ TimerRequests(requests', timeoutQueue', timer')
      /\ \A u \in Timers :
           Pends(requests', timeoutQueue', u) => Pends(requests, timeoutQueue, u)
  <2>1. CASE requests' = requests
    <3>1. timer[t] # "dropped" /\ ~ Pends(requests, timeoutQueue, t)
      <4>1. CASE timer[t] = "created"
        BY <1>3, <4>1 DEF TimerRequests
      <4>2. CASE timer[t] = "set"
        <5>1. CASE pc = "gone"
          BY <4>2, <5>1 DEF TimerInv, GoneIsEmpty, Pends
        <5>2. CASE pc # "gone"
          <6>1. requests' = Append(requests, CancelTimeout(t))
            BY <1>1, <4>2, <5>2 DEF Send
          <6>2. Len(requests) + 1 \in DOMAIN requests' /\ Len(requests) + 1 \notin DOMAIN requests
            BY <1>2, <6>1, AppendEntries, AreRequests
          <6> QED
            BY <2>1, <6>2
        <5> QED
          BY <5>1, <5>2
      <4> QED
        BY <1>1, <4>1, <4>2
    <3>2. TimerRequests(requests, timeoutQueue, timer')
      BY <1>1, <1>3, <1>4, <3>1, TimerMoves
    <3> QED
      BY <1>1, <2>1, <3>2
  <2>2. CASE requests' = Append(requests, CancelTimeout(t))
    BY <1>1, <1>2, <1>3, <1>4, <2>2, SendCancel
  <2> QED
    BY <1>1, <2>1, <2>2 DEF Send
<1>6. TimerRequests(requests, timeoutQueue, timer)'
  BY <1>5 DEF TimerRequests, Pends
<1>7. ASSUME NEW u \in Timers PROVE TimerIsFair(u)'
  <2>1. Pends(requests, timeoutQueue, u)' <=> Pends(requests', timeoutQueue', u)
    BY DEF Pends
  <2>2. /\ timer'[u] \in {"measured", "unborn", "created"} => u # t /\ timer'[u] = timer[u]
        /\ TimerIsFair(u)
    BY <1>3, <1>4
  <2>3. clock \in Nat /\ due \in [Timers -> Nat] /\ expiry[u] \in Nat
    BY DEF TimerInv, PollerTypeOK
  <2>4. CASE u # t
    <3>1. due'[u] = due[u]
      BY <1>1, <2>3, <2>4
    <3> QED
      BY <1>1, <1>5, <2>1, <2>2, <3>1 DEF TimerIsFair
  <2>5. CASE u = t
    <3>1. due'[u] = 0
      BY <1>1, <2>3, <2>5
    <3>2. clock' >= 0 /\ expiry'[u] >= 0
      BY <1>1, <2>3
    <3>3. timer'[u] = "dropped"
      BY <1>4, <2>5
    <3> QED
      BY <1>1, <1>5, <2>1, <2>2, <3>1, <3>2, <3>3 DEF TimerIsFair
  <2> QED
    BY <2>4, <2>5
<1>8. GoneIsEmpty' /\ (instant <= clock)'
  BY <1>1 DEF GoneIsEmpty, TimerInv, Send
<1> QED
  BY <1>6, <1>7, <1>8 DEF TimerInv

\* A timer that does not pend is made, measured or found expired.
LEMMA ViewTimers ==
  ASSUME TimerInv, NEW t \in Timers, PollerTypeOK',
         (\E d \in Durations : MakeTimeout(t, d)) \/ FirstPoll(t) \/ PollTimeout(t)
  PROVE  TimerInv'
<1>1. /\ timer[t] \in {"unborn", "created", "set"}
      /\ timer[t] = "set" => outcome[t] # "none"
      /\ \A u \in Timers \ {t} : /\ timer'[u] = timer[u] /\ due'[u] = due[u]
                                 /\ expiry'[u] = expiry[u] /\ outcome'[u] = outcome[u]
      /\ UNCHANGED <<requests, timeoutQueue, pc, wait, instant, clock>>
  <2>1. timer \in [Timers -> {"unborn", "created", "measured", "set", "done", "dropped"}]
        /\ due \in [Timers -> Nat] /\ expiry \in [Timers -> Nat]
        /\ outcome \in [Timers -> {"none", "expired", "error"}]
    BY DEF TimerInv, PollerTypeOK
  <2>2. UNCHANGED <<requests, timeoutQueue, pc, wait, instant, clock>>
    BY DEF MakeTimeout, FirstPoll, PollTimeout, tableVars, threadVars, localVars
  <2>3. CASE \E d \in Durations : MakeTimeout(t, d)
    BY <2>1, <2>2, <2>3 DEF MakeTimeout
  <2>4. CASE FirstPoll(t)
    BY <2>1, <2>2, <2>4 DEF FirstPoll
  <2>5. CASE PollTimeout(t)
    BY <2>1, <2>2, <2>5 DEF PollTimeout
  <2> QED
    BY <2>3, <2>4, <2>5
<1>2. /\ clock \in Nat /\ due[t] \in Nat /\ expiry[t] \in Nat
      /\ timer \in [Timers -> {"unborn", "created", "measured", "set", "done", "dropped"}]
      /\ due \in [Timers -> Nat] /\ expiry \in [Timers -> Nat]
      /\ outcome \in [Timers -> {"none", "expired", "error"}]
  BY DEF TimerInv, PollerTypeOK
<1>3. TimerRequests(requests, timeoutQueue, timer) /\ \A u \in Timers : TimerIsFair(u)
  BY DEF TimerInv
<1>4. ~ Pends(requests, timeoutQueue, t)
  BY <1>1, <1>3 DEF TimerRequests, TimerIsFair
<1>5. TimerRequests(requests, timeoutQueue, timer')
  <2>1. \A u \in Timers : u # t => timer'[u] = timer[u]
    BY <1>1
  <2> QED
    BY <1>1, <1>3, <1>4, <2>1, TimerMoves
<1>6. TimerRequests(requests, timeoutQueue, timer)'
  BY <1>1, <1>5 DEF TimerRequests, Pends
<1>7. ASSUME NEW u \in Timers PROVE TimerIsFair(u)'
  <2>1. Pends(requests, timeoutQueue, u)' <=> Pends(requests, timeoutQueue, u)
    BY <1>1 DEF Pends
  <2>2. CASE u # t
    BY <1>1, <1>3, <2>1, <2>2 DEF TimerIsFair
  <2>3. CASE u = t
    <3>1. TimerIsFair(t)
      BY <1>3
    <3>2. ASSUME NEW d \in Durations, MakeTimeout(t, d) PROVE TimerIsFair(t)'
      <4>1. timer'[t] = "created" /\ outcome'[t] = "none"
        BY <1>2, <3>1, <3>2 DEF MakeTimeout, TimerIsFair
      <4> QED
        BY <1>4, <2>1, <2>3, <4>1 DEF TimerIsFair
    <3>3. CASE FirstPoll(t)
      <4>1. CASE clock >= due[t]
        <5>1. timer'[t] = "done" /\ outcome'[t] = "expired" /\ due' = due /\ clock' = clock
          BY <1>2, <3>3, <4>1 DEF FirstPoll
        <5> QED
          BY <1>4, <2>1, <2>3, <4>1, <5>1 DEF TimerIsFair
      <4>2. CASE ~ (clock >= due[t])
        <5>1. /\ timer'[t] = "measured" /\ outcome' = outcome /\ due' = due /\ clock' = clock
              /\ expiry'[t] = due[t] - clock
          BY <1>2, <3>3, <4>2 DEF FirstPoll
        <5>2. outcome[t] = "none"
          BY <3>1, <3>3 DEF TimerIsFair, FirstPoll
        <5> QED
          BY <1>2, <1>4, <2>1, <2>3, <5>1, <5>2 DEF TimerIsFair
      <4> QED
        BY <4>1, <4>2
    <3>4. CASE PollTimeout(t)
      <4>1. timer'[t] = "done" /\ UNCHANGED <<outcome, due, clock>>
        BY <1>2, <3>4 DEF PollTimeout
      <4> QED
        BY <1>4, <2>1, <2>3, <3>1, <4>1 DEF TimerIsFair
    <3> QED
      BY <2>3, <3>2, <3>3, <3>4
  <2> QED
    BY <2>2, <2>3
<1> QED
  BY <1>1, <1>6, <1>7 DEF TimerInv, GoneIsEmpty

\* Every step of the users keeps the timers in order.
LEMMA UserTimers == ASSUME TimerInv, PollerNext, ~ PollerThread PROVE TimerInv'
<1>1. PollerTypeOK /\ PollerTypeOK'
  BY UserType DEF TimerInv
<1>2. ASSUME NEW o \in Evented, RegisterEvented(o) PROVE TimerInv'
  <2>1. Register(o) \in Request /\ Register(o).op = "Register"
    BY AreRequests DEF Register
  <2> QED
    BY <1>1, <1>2, <2>1, OtherSent
    DEF RegisterEvented, tableVars, threadVars, localVars, timerVars
<1>3. ASSUME NEW o \in Evented, CancelRegister(o) PROVE TimerInv'
  BY <1>1, <1>3, TimersLeftAlone
  DEF CancelRegister, tableVars, threadVars, localVars, timerVars
<1>4. ASSUME NEW o \in Evented, DropHandle(o) PROVE TimerInv'
  <2>1. token[o] \in Token
    BY <1>1 DEF PollerTypeOK
  <2>2. Deregister(token[o]) \in Request /\ Deregister(token[o]).op = "Deregister"
    BY <2>1, AreRequests DEF Deregister
  <2> QED
    BY <1>1, <1>4, <2>2, OtherSent
    DEF DropHandle, tableVars, threadVars, localVars, timerVars
<1>5. ASSUME NEW m \in Monitors, NEW o \in Evented, NEW i \in Interest,
             CallMonitor(m, o, i)
      PROVE  TimerInv'
  <2>1. token[o] \in Token
    BY <1>1 DEF PollerTypeOK
  <2>2. Monitor(token[o], i, m) \in Request /\ Monitor(token[o], i, m).op = "Monitor"
    BY <2>1, AreRequests DEF Monitor
  <2> QED
    BY <1>1, <1>5, <2>2, OtherSent
    DEF CallMonitor, tableVars, threadVars, localVars, timerVars
<1>6. ASSUME NEW o \in Evented, NEW i \in Interest, ChangeReadiness(o, i) PROVE TimerInv'
  BY <1>1, <1>6, TimersLeftAlone
  DEF ChangeReadiness, tableVars, threadVars, localVars, timerVars
<1>7. CASE Tick
  BY <1>1, <1>7, TimersLeftAlone
  DEF Tick, tableVars, threadVars, localVars, timerVars
<1> QED
  BY <1>1, <1>2, <1>3, <1>4, <1>5, <1>6, <1>7, SetTimers, DropTimers, ViewTimers
  DEF PollerNext

\* The timers are in order in the first state.
LEMMA TimerInit == ASSUME PollerInit PROVE TimerInv
<1>1. PollerTypeOK
  BY TypeInit
<1>2. \A t \in Timers : ~ Pends(requests, timeoutQueue, t)
  BY DEF PollerInit, Pends
<1>3. TimerRequests(requests, timeoutQueue, timer)
  BY <1>2 DEF PollerInit, TimerRequests
<1>4. \A t \in Timers : TimerIsFair(t)
  BY <1>2 DEF PollerInit, TimerIsFair
<1> QED
  BY <1>1, <1>3, <1>4 DEF PollerInit, TimerInv, GoneIsEmpty

\* So does a step that changes nothing.
LEMMA TimerStutter == ASSUME TimerInv, UNCHANGED pollerVars PROVE TimerInv'
<1>1. PollerTypeOK'
  BY TypeStutter DEF TimerInv
<1> QED
  BY <1>1, TimersLeftAlone
  DEF pollerVars, tableVars, threadVars, localVars, sharedVars, timerVars

\* The timers are always in order.
LEMMA TimerInvCorrect == PollerSpec => []TimerInv
<1>1. PollerInit => TimerInv
  BY TimerInit
<1>2. TimerInv /\ [PollerNext]_pollerVars => TimerInv'
  BY ThreadTimers, UserTimers, TimerStutter
<1> QED
  BY <1>1, <1>2, PTL DEF PollerSpec

\* No timer expires before its duration has passed, however the readings of
\* the clock in timer::Timeout and in PollerHandle::set_timeout interleave
\* with time and with the poller.
THEOREM NeverEarlyCorrect == PollerSpec => []NeverEarly
<1>1. TimerInv => NeverEarly
  BY DEF TimerInv, TimerIsFair, NeverEarly
<1> QED
  BY <1>1, TimerInvCorrect, PTL

(***************************************************************************)
(* How late a timer may be.  The clock is no further past the end of the   *)
(* last sleep than the thread was ever busy, and the end of the sleep is   *)
(* no further past a timer than that, for the sleep is as long as the      *)
(* timer was away when the clock was read, which was after the thread      *)
(* woke up.                                                                *)
(***************************************************************************)

LatenessInv ==
  /\ clock <= awake + longest
  /\ pc # "io" => awake <= clock
  /\ pc = "timeouts" => awake <= instant
  /\ RequestJustHandled \/ \A t \in timeoutQueue : awake <= expiry[t] + longest

\* A step that takes no time, is not about mio's poll, and pushes no timer.
LEMMA LatenessLeftAlone ==
  ASSUME LatenessInv, UNCHANGED <<clock, awake, longest>>,
         \A t \in timeoutQueue' : t \in timeoutQueue /\ expiry'[t] = expiry[t],
         pc' # "io" => pc # "io",
         pc' = "timeouts" => awake <= instant',
         RequestJustHandled => RequestJustHandled'
  PROVE  LatenessInv'
<1>1. (clock <= awake + longest)' /\ (pc # "io" => awake <= clock)'
      /\ (pc = "timeouts" => awake <= instant)'
  BY DEF LatenessInv
<1>2. (RequestJustHandled \/ \A t \in timeoutQueue : awake <= expiry[t] + longest)'
  BY DEF LatenessInv
<1> QED
  BY <1>1, <1>2 DEF LatenessInv

\* Handling a request pushes a timer only in a poll that goes on.
LEMMA TryRecvLateness == ASSUME LatenessInv, TryRecv PROVE LatenessInv'
<1>1. /\ pc = "request" /\ ~ RequestJustHandled
      /\ UNCHANGED <<clock, awake, longest, instant, timerVars>>
  BY DEF TryRecv, RequestJustHandled
<1>2. pc' \in {"clock", "failed"}
  <2>1. ASSUME NEW o, NEW w, MioRegister(o, w, "clock") PROVE pc' \in {"clock", "failed"}
    BY <2>1, MioRegisterCases DEF GoOn, Fail
  <2> QED
    BY <2>1 DEF TryRecv, GoOn, Fail, HandleRegister, HandleDeregister, HandleMonitor,
                HandleTimer
<1>3. CASE timeoutQueue' = timeoutQueue
  BY <1>1, <1>2, <1>3, LatenessLeftAlone DEF timerVars
<1>4. CASE RequestJustHandled'
  BY <1>1, <1>2, <1>4 DEF LatenessInv
<1>5. timeoutQueue' = timeoutQueue \/ RequestJustHandled'
  BY <1>2 DEF TryRecv, HandleRegister, HandleDeregister, HandleMonitor, HandleTimer, GoOn,
              RequestJustHandled, tableVars
<1> QED
  BY <1>3, <1>4, <1>5

\* mio is called: its timeout runs from now, and now is at most a busy period
\* later than the reading of the clock that it was told from.
LEMMA EnterMioPollLateness ==
  ASSUME LatenessInv, PollerTypeOK, instant <= clock, EnterMioPoll PROVE LatenessInv'
<1>1. /\ clock \in Nat /\ instant \in Nat /\ awake \in Nat /\ longest \in Nat
      /\ timeoutQueue \subseteq Timers /\ expiry \in [Timers -> Nat]
  BY DEF PollerTypeOK
<1>2. /\ pc = "timeouts" /\ pc' = "io" /\ awake' = clock + wait'
      /\ UNCHANGED <<timeoutQueue, clock, longest, expiry>>
  BY DEF EnterMioPoll, tableVars, sharedVars, timerVars
<1>3. wait' \in Nat /\ \A t \in timeoutQueue : instant + wait' <= expiry[t]
  BY MioTimeout
<1>4. clock <= awake + longest /\ awake <= instant
  BY <1>2 DEF LatenessInv
<1>5. ASSUME NEW t \in timeoutQueue PROVE awake' <= expiry[t] + longest
  <2>1. expiry[t] \in Nat
    BY <1>1
  <2>2. clock <= instant + longest /\ instant + wait' <= expiry[t]
    BY <1>1, <1>3, <1>4
  <2> QED
    BY <1>1, <1>2, <1>3, <2>1, <2>2
<1>6. clock' <= awake' + longest'
  <2>1. clock <= (clock + wait') + longest
    BY <1>1, <1>3, SumIsNat, Zenon
  <2>2. awake' = clock + wait' /\ clock' = clock /\ longest' = longest
    BY <1>2
  <2> QED
    BY <2>1, <2>2, Zenon
<1> QED
  BY <1>2, <1>5, <1>6 DEF LatenessInv

\* mio's poll ends, before its timeout or after it.
LEMMA WakeUpLateness ==
  ASSUME LatenessInv, PollerTypeOK, pc = "io", WakeUp, pc' \in {"events", "failed"},
         UNCHANGED <<timeoutQueue, clock, longest, expiry>>
  PROVE  LatenessInv'
<1>1. /\ clock \in Nat /\ awake \in Nat /\ longest \in Nat
      /\ timeoutQueue \subseteq Timers /\ expiry \in [Timers -> Nat]
  BY DEF PollerTypeOK
<1>2. awake' \in Nat /\ awake' <= awake /\ awake' <= clock /\ clock <= awake' + longest
  BY <1>1 DEF WakeUp, LatenessInv
<1>3. ASSUME NEW t \in timeoutQueue PROVE awake' <= expiry[t] + longest
  <2>1. expiry[t] \in Nat /\ awake <= expiry[t] + longest
    BY <1>1 DEF LatenessInv, RequestJustHandled
  <2> QED
    BY <1>1, <1>2, <2>1
<1> QED
  BY <1>2, <1>3 DEF LatenessInv

\* Time passes; if the thread is busy, that may be for longer than ever.
LEMMA TickLateness == ASSUME LatenessInv, PollerTypeOK, Tick PROVE LatenessInv'
<1>1. /\ clock \in Nat /\ awake \in Nat /\ longest \in Nat
      /\ timeoutQueue \subseteq Timers /\ expiry \in [Timers -> Nat]
  BY DEF PollerTypeOK
<1>2. /\ clock' = clock + 1
      /\ longest' = IF clock' > awake + longest THEN clock' - awake ELSE longest
      /\ UNCHANGED <<pc, didSomething, instant, awake, timeoutQueue, expiry>>
  BY DEF Tick, tableVars, timerVars
<1>3. longest' \in Nat /\ longest <= longest' /\ clock' <= awake' + longest'
  BY <1>1, <1>2
<1>4. ASSUME NEW t \in timeoutQueue, awake <= expiry[t] + longest
      PROVE  awake' <= expiry'[t] + longest'
  <2>1. expiry[t] \in Nat
    BY <1>1
  <2> QED
    BY <1>1, <1>2, <1>3, <1>4, <2>1
<1>5. (RequestJustHandled \/ \A t \in timeoutQueue : awake <= expiry[t] + longest)'
  BY <1>2, <1>4 DEF LatenessInv, RequestJustHandled
<1>6. (pc # "io" => awake <= clock)' /\ (pc = "timeouts" => awake <= instant)'
  BY <1>1, <1>2 DEF LatenessInv
<1> QED
  BY <1>3, <1>5, <1>6 DEF LatenessInv

\* Every step of the poller's thread keeps the lateness in bounds.
LEMMA ThreadLateness ==
  ASSUME TimerInv, LatenessInv, PollerThread PROVE LatenessInv'
<1>1. PollerTypeOK /\ instant <= clock
  BY DEF TimerInv
<1>2. ASSUME NEW d \in Timeouts, CallPoll(d) PROVE LatenessInv'
  BY <1>2, LatenessLeftAlone
  DEF CallPoll, RequestJustHandled, tableVars, sharedVars, timerVars
<1>3. CASE ReadClock
  <2>1. /\ pc = "clock" /\ pc' = "timeouts" /\ instant' = clock
        /\ UNCHANGED <<timeoutQueue, didSomething, clock, awake, longest, expiry>>
    BY <1>3 DEF ReadClock, tableVars, sharedVars, timerVars
  <2>2. awake <= instant'
    BY <2>1 DEF LatenessInv
  <2> QED
    BY <2>1, <2>2, LatenessLeftAlone DEF RequestJustHandled
<1>4. CASE PopExpired
  <2>1. /\ pc = "timeouts" /\ timeoutQueue' \subseteq timeoutQueue
        /\ UNCHANGED <<pc, didSomething, instant, clock, awake, longest, expiry>>
    BY <1>4 DEF PopExpired, threadVars, localVars
  <2>2. awake <= instant'
    BY <2>1 DEF LatenessInv
  <2> QED
    BY <2>1, <2>2, LatenessLeftAlone DEF RequestJustHandled
<1>5. ASSUME NEW spurious \in SUBSET Evented, MioPoll(spurious) PROVE LatenessInv'
  BY <1>1, <1>5, WakeUpLateness DEF MioPoll, tableVars, sharedVars, timerVars
<1>6. CASE MioPollFails
  BY <1>1, <1>6, WakeUpLateness
  DEF MioPollFails, Fail, tableVars, sharedVars, timerVars
<1>7. CASE HandleEvent
  <2>1. /\ pc = "events" /\ pc' \in {"events", "failed"}
        /\ UNCHANGED <<timeoutQueue, clock, awake, longest, timerVars>>
    <3>1. PICK o, w : MioRegister(o, w, "events")
      BY <1>7 DEF HandleEvent
    <3> QED
      BY <1>7, <3>1, MioRegisterCases DEF HandleEvent, GoOn, Fail
  <2> QED
    BY <2>1, LatenessLeftAlone DEF RequestJustHandled, timerVars
<1>8. CASE ReturnOk
  BY <1>8, LatenessLeftAlone
  DEF ReturnOk, RequestJustHandled, tableVars, sharedVars, timerVars
<1>9. CASE PollAgain
  BY <1>9, LatenessLeftAlone
  DEF PollAgain, RequestJustHandled, tableVars, localVars, sharedVars, timerVars
<1>10. CASE DropPoller
  <2>1. /\ pc \in {"failed", "out"} /\ pc' = "gone" /\ timeoutQueue' = {}
        /\ UNCHANGED <<clock, awake, longest>>
    BY <1>10 DEF DropPoller, localVars
  <2> QED
    BY <2>1, LatenessLeftAlone DEF RequestJustHandled
<1> QED
  BY <1>1, <1>2, <1>3, <1>4, <1>5, <1>6, <1>7, <1>8, <1>9, <1>10, TryRecvLateness,
     EnterMioPollLateness
  DEF PollerThread

\* The users leave the thread alone, and the expiry_time of pending timers.
LEMMA UserLateness ==
  ASSUME TimerInv, LatenessInv, PollerNext, ~ PollerThread PROVE LatenessInv'
<1>1. CASE Tick
  BY <1>1, TickLateness DEF TimerInv
<1>2. CASE /\ UNCHANGED <<timeoutQueue, pc, didSomething, instant, clock, awake, longest>>
           /\ \A t \in timeoutQueue : expiry'[t] = expiry[t]
  BY <1>2, LatenessLeftAlone DEF LatenessInv, RequestJustHandled
<1>3. /\ timeoutQueue \subseteq Timers /\ expiry \in [Timers -> Nat]
      /\ \A t \in timeoutQueue : timer[t] \in {"set", "dropped"}
  <2>1. \A t \in timeoutQueue : Pends(requests, timeoutQueue, t)
    BY DEF Pends
  <2> QED
    BY <2>1 DEF TimerInv, PollerTypeOK, TimerRequests
<1>4. ASSUME NEW t \in Timers,
             \/ \E d \in Durations : MakeTimeout(t, d)
             \/ FirstPoll(t) \/ CallSetTimeout(t) \/ PollTimeout(t) \/ DropTimeout(t)
      PROVE  LatenessInv'
  <2>1. UNCHANGED <<timeoutQueue, pc, didSomething, instant, clock, awake, longest>>
    BY <1>4 DEF MakeTimeout, FirstPoll, CallSetTimeout, PollTimeout, DropTimeout, tableVars,
                threadVars, localVars
  <2>2. \/ expiry' = expiry
        \/ /\ timer[t] \in {"created", "measured"}
           /\ \E x : expiry' = [expiry EXCEPT ![t] = x]
    BY <1>4 DEF MakeTimeout, FirstPoll, CallSetTimeout, PollTimeout, DropTimeout
  <2>3. \A u \in timeoutQueue : expiry'[u] = expiry[u]
    BY <1>3, <2>2
  <2> QED
    BY <1>2, <2>1, <2>3
<1>5. ASSUME NEW o \in Evented,
             \/ RegisterEvented(o) \/ CancelRegister(o) \/ DropHandle(o)
             \/ \E i \in Interest :
                  ChangeReadiness(o, i) \/ \E m \in Monitors : CallMonitor(m, o, i)
      PROVE  LatenessInv'
  <2>1. UNCHANGED <<timeoutQueue, pc, didSomething, instant, clock, awake, longest, expiry>>
    BY <1>5 DEF RegisterEvented, CancelRegister, DropHandle, ChangeReadiness, CallMonitor,
                tableVars, threadVars, localVars, timerVars
  <2> QED
    BY <1>2, <2>1
<1> QED
  BY <1>1, <1>4, <1>5 DEF PollerNext

\* A pending timer is overdue by at most two busy periods of the thread: the
\* one by which the reading of the clock is stale when mio's poll begins, and
\* the one in which the thread gets round to popping the timer.
THEOREM LatenessIsBoundedCorrect == PollerSpec => []LatenessIsBounded
<1>1. PollerInit => LatenessInv
  BY DEF PollerInit, LatenessInv, RequestJustHandled
<1>2. TimerInv /\ LatenessInv /\ [PollerNext]_pollerVars => LatenessInv'
  <2>1. ASSUME TimerInv, LatenessInv, UNCHANGED pollerVars PROVE LatenessInv'
    BY <2>1 DEF LatenessInv, RequestJustHandled, pollerVars, tableVars, threadVars,
                localVars, sharedVars, timerVars
  <2> QED
    BY <2>1, ThreadLateness, UserLateness
<1>3. ASSUME TimerInv, LatenessInv PROVE LatenessIsBounded
  <2> SUFFICES ASSUME ~ RequestJustHandled, NEW t \in timeoutQueue
               PROVE  clock <= expiry[t] + 2 * longest
    BY DEF LatenessIsBounded
  <2>1. /\ clock \in Nat /\ awake \in Nat /\ longest \in Nat /\ expiry[t] \in Nat
    BY <1>3 DEF TimerInv, PollerTypeOK
  <2>2. clock <= awake + longest /\ awake <= expiry[t] + longest
    BY <1>3 DEF LatenessInv
  <2> QED
    BY <2>1, <2>2
<1> QED
  BY <1>1, <1>2, <1>3, TimerInvCorrect, PTL DEF PollerSpec

\* What is in the channel is at one of its positions.
LEMMA QueuedSomewhere ==
  ASSUME requests \in Seq(Request), NEW r
  PROVE  Queued(r) <=> \E n \in DOMAIN requests : requests[n] = r
<1>1. Len(requests) \in Nat /\ DOMAIN requests = 1 .. Len(requests)
  BY LenProperties
<1>2. Len(requests) + 1 - 1 = Len(requests)
  BY <1>1
<1> QED
  BY <1>1, <1>2 DEF Queued, QueuedBefore

\* A timer that is over is neither in the heap nor on its way there, unless it
\* was dropped and its cancellation is on the way.
THEOREM CancelledTimersAreFreedCorrect == PollerSpec => []CancelledTimersAreFreed
<1>1. ASSUME TimerInv PROVE CancelledTimersAreFreed
  <2>1. requests \in Seq(Request) /\ TimerRequests(requests, timeoutQueue, timer)
    BY <1>1 DEF TimerInv, PollerTypeOK
  <2>2. \A t \in Timers : t \in timeoutQueue \/ Queued(SetTimeout(t))
                            <=> Pends(requests, timeoutQueue, t)
    BY <2>1, QueuedSomewhere DEF Pends
  <2>3. \A t \in Timers :
          timer[t] \in {"done", "dropped"} /\ Pends(requests, timeoutQueue, t)
            => timer[t] = "dropped" /\ Queued(CancelTimeout(t))
    BY <2>1, QueuedSomewhere DEF TimerRequests
  <2> QED
    BY <2>2, <2>3 DEF CancelledTimersAreFreed
<1> QED
  BY <1>1, TimerInvCorrect, PTL

(***************************************************************************)
(* Tokens.  A token belongs to one object from the handling of its         *)
(* Register request to that of its Deregister request; what the channel    *)
(* says about it lies in between.  Again this is stated for any channel q, *)
(* registrants R, states h of the handles, monitors w and their targets v. *)
(***************************************************************************)

\* An object is registered once, while nobody holds it yet; a token is
\* returned once, after its handle was dropped, and after all monitors that
\* were asked for with it.
TokenRequests(q, R, h, w, v) ==
  /\ \A o \in Evented : \A n \in DOMAIN q : q[n] = Register(o) =>
       h[o] \in {"registering", "cancelled"} /\ \A l \in DOMAIN q : q[l] = Register(o) => l = n
  /\ \A k \in Token : \A n \in DOMAIN q : q[n] = Deregister(k) =>
       /\ R[k] # None /\ h[R[k]] = "dropped"
       /\ \A l \in DOMAIN q : q[l] = Deregister(k) => l = n
  /\ \A k \in Token, i \in Interest, m \in Monitors : \A n \in DOMAIN q :
       q[n] = Monitor(k, i, m) =>
         /\ w[m] # "unused" /\ R[k] # None /\ R[k] = v[m].evented
         /\ \A l \in DOMAIN q : q[l] = Deregister(k) => n < l

\* A token in use is that of the object's handle, which is held, or about to
\* be returned; so no two tokens belong to one object.
TokensOfHandles(q, R, h, g) ==
  \A k \in Token : R[k] # None =>
    /\ g[R[k]] = k
    /\ \/ h[R[k]] = "held"
       \/ h[R[k]] = "dropped" /\ \E n \in DOMAIN q : q[n] = Deregister(k)

\* Who holds a handle owns its token.
HandlesOwnTokens(R, h, g) == \A o \in Evented : h[o] = "held" => R[g[o]] = o

\* Requests carry what they were made with.
LEMMA RequestFields ==
  /\ \A o \in Evented : Register(o).op = "Register" /\ Register(o).evented = o
  /\ \A k \in Token : Deregister(k).op = "Deregister" /\ Deregister(k).token = k
  /\ \A k \in Token, i \in Interest, m \in Monitors :
       /\ Monitor(k, i, m).op = "Monitor" /\ Monitor(k, i, m).token = k
       /\ Monitor(k, i, m).interest = i /\ Monitor(k, i, m).monitor = m
BY DEF Register, Deregister, Monitor

\* Without its first request the channel is in order too; and what the first
\* request was about is not mentioned any more.
LEMMA FirstRequestTaken ==
  ASSUME NEW q \in Seq(Request), q # <<>>, NEW R, NEW h, NEW w, NEW v,
         TokenRequests(q, R, h, w, v)
  PROVE  LET p == Tail(q) IN
         /\ TokenRequests(p, R, h, w, v)
         /\ \A o \in Evented : Head(q) = Register(o) =>
              /\ h[o] \in {"registering", "cancelled"}
              /\ \A n \in DOMAIN p : p[n] # Register(o)
         /\ \A k \in Token : Head(q) = Deregister(k) =>
              /\ R[k] # None /\ h[R[k]] = "dropped"
              /\ \A n \in DOMAIN p : p[n] # Deregister(k)
              /\ \A n \in DOMAIN p, i \in Interest, m \in Monitors : p[n] # Monitor(k, i, m)
         /\ \A k \in Token : Head(q) # Deregister(k) =>
              ((\E n \in DOMAIN q : q[n] = Deregister(k))
                 => \E n \in DOMAIN p : p[n] = Deregister(k))
<1> DEFINE p == Tail(q)
<1>1. /\ 1 \in DOMAIN q /\ Head(q) = q[1]
      /\ \A n \in DOMAIN p : n + 1 \in DOMAIN q /\ p[n] = q[n + 1]
      /\ \A n \in DOMAIN q \ {1} : n - 1 \in DOMAIN p /\ p[n - 1] = q[n]
  BY TailEntries
<1>2. DOMAIN p \subseteq Nat \ {0} /\ DOMAIN q \subseteq Nat \ {0}
  <2>1. p \in Seq(Request)
    BY HeadTailProperties
  <2> QED
    BY <2>1, LenProperties
<1> HIDE DEF p
<1>3. \A o \in Evented : \A n \in DOMAIN p : p[n] = Register(o) =>
        h[o] \in {"registering", "cancelled"} /\ \A l \in DOMAIN p : p[l] = Register(o) => l = n
  BY <1>1, <1>2 DEF TokenRequests
<1>4. \A k \in Token : \A n \in DOMAIN p : p[n] = Deregister(k) =>
        /\ R[k] # None /\ h[R[k]] = "dropped"
        /\ \A l \in DOMAIN p : p[l] = Deregister(k) => l = n
  BY <1>1, <1>2 DEF TokenRequests
<1>5. ASSUME NEW k \in Token, NEW i \in Interest, NEW m \in Monitors, NEW n \in DOMAIN p,
             p[n] = Monitor(k, i, m)
      PROVE  /\ w[m] # "unused" /\ R[k] # None /\ R[k] = v[m].evented
             /\ \A l \in DOMAIN p : p[l] = Deregister(k) => n < l
  BY <1>1, <1>2, <1>5 DEF TokenRequests
<1>6. TokenRequests(p, R, h, w, v)
  BY <1>3, <1>4, <1>5 DEF TokenRequests
<1>7. \A o \in Evented : Head(q) = Register(o) =>
        h[o] \in {"registering", "cancelled"} /\ \A n \in DOMAIN p : p[n] # Register(o)
  BY <1>1, <1>2 DEF TokenRequests
<1>8. ASSUME NEW k \in Token, Head(q) = Deregister(k)
      PROVE  /\ R[k] # None /\ h[R[k]] = "dropped"
             /\ \A n \in DOMAIN p : p[n] # Deregister(k)
             /\ \A n \in DOMAIN p, i \in Interest, m \in Monitors : p[n] # Monitor(k, i, m)
  <2>1. R[k] # None /\ h[R[k]] = "dropped" /\ \A n \in DOMAIN p : p[n] # Deregister(k)
    BY <1>1, <1>2, <1>8 DEF TokenRequests
  <2>2. ASSUME NEW n \in DOMAIN p, NEW i \in Interest, NEW m \in Monitors,
               p[n] = Monitor(k, i, m)
        PROVE  FALSE
    <3>1. n + 1 \in DOMAIN q /\ q[n + 1] = Monitor(k, i, m)
      BY <1>1, <2>2
    <3>2. n + 1 < 1
      BY <1>1, <1>8, <3>1 DEF TokenRequests
    <3> QED
      BY <1>2, <3>2
  <2> QED
    BY <2>1, <2>2
<1>9. \A k \in Token : Head(q) # Deregister(k) =>
        ((\E n \in DOMAIN q : q[n] = Deregister(k))
           => \E n \in DOMAIN p : p[n] = Deregister(k))
  BY <1>1
<1> QED
  BY <1>6, <1>7, <1>8, <1>9 DEF p

\* A token is returned that no request in the channel returns yet.
LEMMA DeregisterSent ==
  ASSUME NEW q \in Seq(Request), NEW R, NEW h, NEW w, NEW v,
         TokenRequests(q, R, h, w, v), NEW k \in Token,
         \A n \in DOMAIN q : q[n] # Deregister(k),
         R[k] # None, h[R[k]] = "dropped"
  PROVE  /\ TokenRequests(Append(q, Deregister(k)), R, h, w, v)
         /\ \A j \in Token :
              (\E n \in DOMAIN Append(q, Deregister(k)) :
                 Append(q, Deregister(k))[n] = Deregister(j))
              <=> j = k \/ \E n \in DOMAIN q : q[n] = Deregister(j)
<1> DEFINE p == Append(q, Deregister(k))
           last == Len(q) + 1
<1>1. /\ DOMAIN p = DOMAIN q \cup {last} /\ last \notin DOMAIN q
      /\ \A n \in DOMAIN q : p[n] = q[n]
      /\ p[last] = Deregister(k)
  BY AppendEntries, AreRequests
<1>2. \A n \in DOMAIN q : n < last
  <2>1. DOMAIN q = 1 .. Len(q) /\ Len(q) \in Nat
    BY LenProperties
  <2> QED
    BY <2>1
<1> HIDE DEF p, last
<1>3. \A o \in Evented : \A n \in DOMAIN p : p[n] = Register(o) =>
        h[o] \in {"registering", "cancelled"} /\ \A l \in DOMAIN p : p[l] = Register(o) => l = n
  BY <1>1, RequestFields DEF TokenRequests
<1>4. \A j \in Token : \A n \in DOMAIN p : p[n] = Deregister(j) =>
        /\ R[j] # None /\ h[R[j]] = "dropped"
        /\ \A l \in DOMAIN p : p[l] = Deregister(j) => l = n
  BY <1>1, RequestFields DEF TokenRequests
<1>5. ASSUME NEW j \in Token, NEW i \in Interest, NEW m \in Monitors, NEW n \in DOMAIN p,
             p[n] = Monitor(j, i, m)
      PROVE  /\ w[m] # "unused" /\ R[j] # None /\ R[j] = v[m].evented
             /\ \A l \in DOMAIN p : p[l] = Deregister(j) => n < l
  <2>1. n \in DOMAIN q /\ q[n] = Monitor(j, i, m)
    BY <1>1, <1>5, RequestFields
  <2> QED
    BY <1>1, <1>2, <2>1 DEF TokenRequests
<1>6. TokenRequests(p, R, h, w, v)
  BY <1>3, <1>4, <1>5 DEF TokenRequests
<1>7. \A j \in Token : (\E n \in DOMAIN p : p[n] = Deregister(j))
                         <=> j = k \/ \E n \in DOMAIN q : q[n] = Deregister(j)
  BY <1>1, RequestFields
<1> QED
  BY <1>6, <1>7 DEF p

\* What the poller and the handles know of the tokens.
TokenInv ==
  /\ TimerInv
  /\ TokenRequests(requests, registrants, handle, monitor, target)
  /\ TokensOfHandles(requests, registrants, handle, token)
  /\ pc # "gone" => HandlesOwnTokens(registrants, handle, token)
  /\ pc = "gone" => \A k \in Token : registrants[k] = None
  /\ \A e \in events : registrants[e.token] # None
  /\ events # {} => pc = "events"

\* What TokenInv says of a later state, written in that state's values.
LEMMA TokenInvNext ==
  ASSUME TimerInv',
         TokenRequests(requests', registrants', handle', monitor', target'),
         TokensOfHandles(requests', registrants', handle', token'),
         pc' # "gone" => HandlesOwnTokens(registrants', handle', token'),
         pc' = "gone" => \A k \in Token : registrants'[k] = None,
         \A e \in events' : registrants'[e.token] # None,
         events' # {} => pc' = "events"
  PROVE  TokenInv'
<1>1. TokenRequests(requests, registrants, handle, monitor, target)'
  BY DEF TokenRequests
<1>2. TokensOfHandles(requests, registrants, handle, token)'
  BY DEF TokensOfHandles
<1>3. (pc # "gone" => HandlesOwnTokens(registrants, handle, token))'
  BY DEF HandlesOwnTokens
<1> QED
  BY <1>1, <1>2, <1>3 DEF TokenInv

\* An object gets the next free token.
LEMMA RegisterTokens ==
  ASSUME TokenInv, TimerInv', requests # <<>>, pc = "request", NEW o \in Evented,
         Head(requests) = Register(o), HandleRegister(o), UNCHANGED <<events, target>>
  PROVE  TokenInv'
<1> DEFINE p == Tail(requests)
<1>1. PICK k \in Token :
        /\ NextToken(k)
        /\ registrants' = [registrants EXCEPT ![k] = o]
        /\ isFirst' = isFirst \cup {o}
        /\ token' = [token EXCEPT ![o] = k]
        /\ IF handle[o] = "registering"
             THEN handle' = [handle EXCEPT ![o] = "held"] /\ requests' = p
             ELSE /\ handle' = [handle EXCEPT ![o] = "dropped"]
                  /\ requests' = Append(p, Deregister(k))
        /\ GoOn("clock")
        /\ UNCHANGED <<waitings, timeoutQueue, mioVars, monitor>>
  BY DEF HandleRegister
<1>2. /\ registrants[k] = None /\ pc' = "clock" /\ pc # "gone" /\ events' = {}
      /\ UNCHANGED <<monitor, target>> /\ o # None
  BY <1>1 DEF NextToken, GoOn, TokenInv
<1>3. /\ requests \in Seq(Request) /\ p \in Seq(Request)
      /\ registrants \in [Token -> Evented \cup {None}] /\ token \in [Evented -> Token]
      /\ handle \in [Evented -> {"none", "registering", "cancelled", "held", "dropped"}]
  BY ChannelType DEF TokenInv, TimerInv, PollerTypeOK
<1>4. /\ TokenRequests(p, registrants, handle, monitor, target)
      /\ handle[o] \in {"registering", "cancelled"}
      /\ \A n \in DOMAIN p : p[n] # Register(o)
      /\ \A j \in Token :
           (\E n \in DOMAIN requests : requests[n] = Deregister(j))
             => \E n \in DOMAIN p : p[n] = Deregister(j)
  <2>1. \A j \in Token : Head(requests) # Deregister(j)
    BY RequestFields
  <2>2. TokenRequests(requests, registrants, handle, monitor, target)
    BY DEF TokenInv
  <2> QED
    BY <1>3, <2>1, <2>2, FirstRequestTaken
<1> HIDE DEF p
<1>5. /\ \A j \in Token : registrants[j] # o /\ (j # k => registrants'[j] = registrants[j])
      /\ registrants'[k] = o /\ token'[o] = k
      /\ \A u \in Evented : u # o => handle'[u] = handle[u] /\ token'[u] = token[u]
  BY <1>1, <1>2, <1>3, <1>4 DEF TokenInv, TokensOfHandles
<1>6. \A j \in Token : registrants[j] # None => registrants[j] \in Evented /\ j # k
  BY <1>2, <1>3
<1>7. TokenRequests(p, registrants', handle', monitor', target')
  <2>1. \A u \in Evented : \A n \in DOMAIN p : p[n] = Register(u) => u # o
    BY <1>4
  <2>2. \A u \in Evented : \A n \in DOMAIN p : p[n] = Register(u) =>
          /\ handle'[u] \in {"registering", "cancelled"}
          /\ \A l \in DOMAIN p : p[l] = Register(u) => l = n
    BY <1>4, <1>5, <2>1 DEF TokenRequests
  <2>3. \A j \in Token : \A n \in DOMAIN p : p[n] = Deregister(j) =>
          /\ registrants'[j] # None /\ handle'[registrants'[j]] = "dropped"
          /\ \A l \in DOMAIN p : p[l] = Deregister(j) => l = n
    BY <1>4, <1>5, <1>6 DEF TokenRequests
  <2>4. \A j \in Token, i \in Interest, m \in Monitors : \A n \in DOMAIN p :
          p[n] = Monitor(j, i, m) =>
            /\ monitor'[m] # "unused" /\ registrants'[j] # None
            /\ registrants'[j] = target'[m].evented
            /\ \A l \in DOMAIN p : p[l] = Deregister(j) => n < l
    BY <1>2, <1>4, <1>5, <1>6 DEF TokenRequests
  <2> QED
    BY <2>2, <2>3, <2>4 DEF TokenRequests
<1>8. \A j \in Token : j # k /\ registrants'[j] # None =>
        /\ registrants'[j] \in Evented /\ registrants'[j] # o
        /\ token'[registrants'[j]] = j
        /\ \/ handle'[registrants'[j]] = "held"
           \/ /\ handle'[registrants'[j]] = "dropped"
              /\ \E n \in DOMAIN p : p[n] = Deregister(j)
  BY <1>4, <1>5, <1>6 DEF TokenInv, TokensOfHandles
<1>9. HandlesOwnTokens(registrants', handle', token')
  <2> SUFFICES ASSUME NEW u \in Evented, handle'[u] = "held"
      PROVE  registrants'[token'[u]] = u
    BY DEF HandlesOwnTokens
  <2>1. CASE u = o
    BY <1>5, <2>1
  <2>2. CASE u # o
    <3>1. registrants[token[u]] = u /\ token[u] \in Token /\ u # None
      BY <1>2, <1>3, <1>5, <2>2 DEF TokenInv, HandlesOwnTokens
    <3> QED
      BY <1>2, <1>5, <2>2, <3>1
  <2> QED
    BY <2>1, <2>2
<1>10. CASE handle[o] = "registering"
  <2>1. handle'[o] = "held" /\ requests' = p
    BY <1>1, <1>3, <1>10
  <2>2. TokensOfHandles(requests', registrants', handle', token')
    BY <1>5, <1>8, <2>1 DEF TokensOfHandles
  <2> QED
    BY <1>2, <1>7, <1>9, <2>1, <2>2, TokenInvNext
<1>11. CASE handle[o] # "registering"
  <2>1. handle'[o] = "dropped" /\ requests' = Append(p, Deregister(k))
    BY <1>1, <1>3, <1>11
  <2>2. Deregister(k) \in Request
    BY AreRequests
  <2>3. TokenRequests(requests', registrants', handle', monitor', target')
    <3>1. \A n \in DOMAIN p : p[n] # Deregister(k)
      BY <1>2, <1>4 DEF TokenRequests
    <3> QED
      BY <1>2, <1>3, <1>5, <1>7, <2>1, <2>2, <3>1, DeregisterSent
  <2>4. TokensOfHandles(requests', registrants', handle', token')
    <3>1. /\ \A n \in DOMAIN p : n \in DOMAIN requests' /\ requests'[n] = p[n]
          /\ \E n \in DOMAIN requests' : requests'[n] = Deregister(k)
      BY <1>3, <2>1, <2>2, AppendEntries
    <3> QED
      BY <1>5, <1>8, <2>1, <3>1 DEF TokensOfHandles
  <2> QED
    BY <1>2, <1>9, <2>3, <2>4, TokenInvNext
<1> QED
  BY <1>10, <1>11

\* A request that is neither to register nor to deregister is handled.
LEMMA OtherTokens ==
  ASSUME TokenInv, TimerInv', requests # <<>>, pc = "request", requests' = Tail(requests),
         \A k \in Token : Head(requests) # Deregister(k),
         UNCHANGED <<registrants, handle, token, monitor, target, events>>,
         pc' \in {"clock", "failed"}
  PROVE  TokenInv'
<1>1. /\ requests \in Seq(Request)
      /\ TokenRequests(requests, registrants, handle, monitor, target)
  BY DEF TokenInv, TimerInv, PollerTypeOK
<1>2. /\ TokenRequests(requests', registrants, handle, monitor, target)
      /\ \A k \in Token :
           (\E n \in DOMAIN requests : requests[n] = Deregister(k))
             => \E n \in DOMAIN requests' : requests'[n] = Deregister(k)
  BY <1>1, FirstRequestTaken
<1>3. TokensOfHandles(requests', registrants, handle, token)
  BY <1>2 DEF TokenInv, TokensOfHandles
<1>4. events = {} /\ HandlesOwnTokens(registrants, handle, token)
  BY DEF TokenInv
<1> QED
  BY <1>2, <1>3, <1>4, TokenInvNext

\* A token is returned; no handle has it any more.
LEMMA DeregisterTokens ==
  ASSUME TokenInv, TimerInv', requests # <<>>, pc = "request", NEW k \in Token,
         Head(requests) = Deregister(k), HandleDeregister(k), UNCHANGED <<events, target>>
  PROVE  TokenInv'
<1> DEFINE o == registrants[k]
<1>1. /\ o # None /\ requests' = Tail(requests)
      /\ registrants' = [registrants EXCEPT ![k] = None]
      /\ monitor' = [m \in Monitors |->
           IF \E i \in Interest : m \in waitings[o][i] THEN "aborted" ELSE monitor[m]]
      /\ UNCHANGED <<handle, token>>
      /\ pc' \in {"clock", "failed"}
  BY DEF HandleDeregister, handleVars, GoOn, Fail
<1>2. /\ requests \in Seq(Request) /\ registrants \in [Token -> Evented \cup {None}]
      /\ token \in [Evented -> Token]
      /\ TokenRequests(requests, registrants, handle, monitor, target)
  BY DEF TokenInv, TimerInv, PollerTypeOK
<1>3. /\ TokenRequests(requests', registrants, handle, monitor, target)
      /\ handle[o] = "dropped"
      /\ \A n \in DOMAIN requests' : requests'[n] # Deregister(k)
      /\ \A n \in DOMAIN requests', i \in Interest, m \in Monitors :
           requests'[n] # Monitor(k, i, m)
      /\ \A j \in Token : j # k =>
           ((\E n \in DOMAIN requests : requests[n] = Deregister(j))
             => \E n \in DOMAIN requests' : requests'[n] = Deregister(j))
  <2>1. \A j \in Token : j # k => Head(requests) # Deregister(j)
    BY RequestFields
  <2> QED
    BY <1>1, <1>2, <2>1, FirstRequestTaken
<1>4. \A m \in Monitors : monitor'[m] \in {monitor[m], "aborted"}
  BY <1>1
<1>5. /\ \A j \in Token : j # k => registrants'[j] = registrants[j]
      /\ registrants'[k] = None
  BY <1>1, <1>2
<1> HIDE DEF o
<1>6. TokenRequests(requests', registrants', handle', monitor', target')
  <2> DEFINE p == requests'
  <2>1. \A j \in Token : \A n \in DOMAIN p : p[n] = Deregister(j) => j # k
    BY <1>3
  <2>2. \A j \in Token : \A n \in DOMAIN p : p[n] = Deregister(j) =>
          /\ registrants'[j] # None /\ handle[registrants'[j]] = "dropped"
          /\ \A l \in DOMAIN p : p[l] = Deregister(j) => l = n
    BY <1>3, <1>5, <2>1 DEF TokenRequests
  <2>3. ASSUME NEW j \in Token, NEW i \in Interest, NEW m \in Monitors,
               NEW n \in DOMAIN p, p[n] = Monitor(j, i, m)
        PROVE  /\ monitor'[m] # "unused" /\ registrants'[j] # None
               /\ registrants'[j] = target[m].evented
               /\ \A l \in DOMAIN p : p[l] = Deregister(j) => n < l
    <3>1. j # k
      BY <1>3, <2>3
    <3>2. registrants'[j] = registrants[j]
      BY <1>5, <3>1
    <3>3. monitor[m] # "unused" => monitor'[m] # "unused"
      BY <1>4
    <3> QED
      BY <1>3, <2>3, <3>2, <3>3 DEF TokenRequests
  <2>4. \A u \in Evented : \A n \in DOMAIN p : p[n] = Register(u) =>
          /\ handle[u] \in {"registering", "cancelled"}
          /\ \A l \in DOMAIN p : p[l] = Register(u) => l = n
    BY <1>3 DEF TokenRequests
  <2> QED
    BY <1>1, <2>2, <2>3, <2>4 DEF TokenRequests
<1>7. TokensOfHandles(requests', registrants', handle', token')
  BY <1>1, <1>3, <1>5 DEF TokenInv, TokensOfHandles
<1>8. HandlesOwnTokens(registrants', handle', token')
  <2> SUFFICES ASSUME NEW u \in Evented, handle[u] = "held"
      PROVE  registrants'[token[u]] = u
    BY <1>1 DEF HandlesOwnTokens
  <2>1. registrants[token[u]] = u /\ token[u] \in Token
    BY <1>2 DEF TokenInv, HandlesOwnTokens
  <2>2. token[u] # k
    BY <1>3, <2>1 DEF o
  <2> QED
    BY <1>5, <2>1, <2>2
<1>9. events' = {}
  BY DEF TokenInv
<1> QED
  BY <1>1, <1>6, <1>7, <1>8, <1>9, TokenInvNext

\* Handling any request keeps the tokens in order.
LEMMA TryRecvTokens == ASSUME TokenInv, TryRecv PROVE TokenInv'
<1>1. TimerInv' /\ requests \in Seq(Request)
  BY TryRecvTimers DEF TokenInv, TimerInv, PollerTypeOK
<1>2. /\ pc = "request" /\ UNCHANGED <<events, ready, target, clock, timerVars>>
  BY DEF TryRecv
<1>3. CASE requests = <<>>
  <2>1. /\ pc' = "clock"
        /\ UNCHANGED <<requests, registrants, handle, token, monitor, target, events>>
    BY <1>2, <1>3 DEF TryRecv, tableVars, handleVars, GoOn
  <2> QED
    BY <1>1, <1>2, <2>1, TokenInvNext DEF TokenInv
<1>4. CASE requests # <<>>
  <2> DEFINE r == Head(requests)
  <2>1. r \in Request
    BY <1>1, <1>4, ChannelType
  <2>2. \/ r.op = "Register" /\ HandleRegister(r.evented)
        \/ r.op = "Deregister" /\ HandleDeregister(r.token)
        \/ r.op = "Monitor" /\ HandleMonitor(r.token, r.interest, r.monitor)
        \/ r.op \in {"SetTimeout", "CancelTimeout"} /\ HandleTimer(r)
    BY <1>4 DEF TryRecv
  <2> HIDE DEF r
  <2>3. CASE r.op = "Register" /\ HandleRegister(r.evented)
    <3>1. r.evented \in Evented /\ r = Register(r.evented)
      BY <2>1, <2>3, RequestKinds
    <3> QED
      BY <1>1, <1>2, <1>4, <2>3, <3>1, RegisterTokens DEF r
  <2>4. CASE r.op = "Deregister" /\ HandleDeregister(r.token)
    <3>1. r.token \in Token /\ r = Deregister(r.token)
      BY <2>1, <2>4, RequestKinds
    <3> QED
      BY <1>1, <1>2, <1>4, <2>4, <3>1, DeregisterTokens DEF r
  <2>5. CASE r.op = "Monitor" /\ HandleMonitor(r.token, r.interest, r.monitor)
    <3>1. \A k \in Token : r # Deregister(k)
      BY <2>5, RequestFields
    <3>2. /\ requests' = Tail(requests) /\ pc' \in {"clock", "failed"}
          /\ UNCHANGED <<registrants, handle, token, monitor>>
      <4>1. ASSUME NEW o, NEW w, MioRegister(o, w, "clock") PROVE pc' \in {"clock", "failed"}
        BY <4>1, MioRegisterCases DEF GoOn, Fail
      <4> QED
        BY <2>5, <4>1 DEF HandleMonitor, handleVars, GoOn
    <3> QED
      BY <1>1, <1>2, <1>4, <3>1, <3>2, OtherTokens DEF r
  <2>6. CASE r.op \in {"SetTimeout", "CancelTimeout"} /\ HandleTimer(r)
    <3>1. \A k \in Token : r # Deregister(k)
      BY <2>6, RequestFields
    <3>2. /\ requests' = Tail(requests) /\ pc' = "clock"
          /\ UNCHANGED <<registrants, handle, token, monitor>>
      BY <2>6 DEF HandleTimer, handleVars, GoOn
    <3> QED
      BY <1>1, <1>2, <1>4, <3>1, <3>2, OtherTokens DEF r
  <2> QED
    BY <2>2, <2>3, <2>4, <2>5, <2>6
<1> QED
  BY <1>3, <1>4

\* A step that leaves channel, registrants, handles and targets alone.
LEMMA TokensLeftAlone ==
  ASSUME TokenInv, TimerInv', UNCHANGED <<requests, registrants, handle, token, target>>,
         \A m \in Monitors : monitor[m] # "unused" => monitor'[m] # "unused",
         pc' = "gone" <=> pc = "gone",
         \A e \in events' : registrants[e.token] # None,
         events' # {} => pc' = "events"
  PROVE  TokenInv'
<1>1. TokenRequests(requests', registrants', handle', monitor', target')
  BY DEF TokenInv, TokenRequests
<1>2. TokensOfHandles(requests', registrants', handle', token')
  BY DEF TokenInv
<1>3. /\ pc' # "gone" => HandlesOwnTokens(registrants', handle', token')
      /\ pc' = "gone" => \A k \in Token : registrants'[k] = None
  BY DEF TokenInv
<1> QED
  BY <1>1, <1>2, <1>3, TokenInvNext

\* Every step of the poller's thread keeps the tokens in order.
LEMMA ThreadTokens == ASSUME TokenInv, PollerThread PROVE TokenInv'
<1>1. TimerInv' /\ PollerTypeOK
  BY ThreadTimers DEF TokenInv, TimerInv
<1>2. /\ events # {} => pc = "events"
      /\ \A e \in events : registrants[e.token] # None
  BY DEF TokenInv
<1>3. ASSUME NEW d \in Timeouts, CallPoll(d) PROVE TokenInv'
  BY <1>1, <1>2, <1>3, TokensLeftAlone DEF CallPoll, tableVars, sharedVars, handleVars
<1>4. CASE ReadClock
  BY <1>1, <1>2, <1>4, TokensLeftAlone DEF ReadClock, tableVars, sharedVars, handleVars
<1>5. CASE PopExpired
  BY <1>1, <1>2, <1>5, TokensLeftAlone DEF PopExpired, threadVars, localVars, handleVars
<1>6. CASE EnterMioPoll
  BY <1>1, <1>2, <1>6, TokensLeftAlone DEF EnterMioPoll, tableVars, sharedVars, handleVars
<1>7. ASSUME NEW spurious \in SUBSET Evented, MioPoll(spurious) PROVE TokenInv'
  <2>1. /\ pc = "io" /\ pc' = "events"
        /\ UNCHANGED <<tableVars, registered, sharedVars>>
    BY <1>7 DEF MioPoll
  <2>2. \A e \in events' : \E k \in Token :
          registrants[k] # None /\ e = Event(k, Reported(registrants[k]))
    BY <1>7 DEF MioPoll
  <2>3. \A e \in events' : registrants[e.token] # None
    BY <2>2 DEF Event
  <2> QED
    BY <1>1, <2>1, <2>3, TokensLeftAlone DEF tableVars, sharedVars, handleVars
<1>8. CASE MioPollFails
  BY <1>1, <1>2, <1>8, TokensLeftAlone
  DEF MioPollFails, Fail, tableVars, localVars, sharedVars, handleVars
<1>9. CASE HandleEvent
  <2>1. PICK e \in events :
          LET o == registrants[e.token]
              w == [i \in Interest |-> IF i \in e.readiness THEN {} ELSE waitings[o][i]]
              notified == UNION {waitings[o][i] : i \in e.readiness} IN
          /\ monitor' = [m \in Monitors |->
                           IF m \in notified THEN "notified" ELSE monitor[m]]
          /\ MioRegister(o, w, "events")
          /\ events' = IF pc' = "failed" THEN {} ELSE events \ {e}
    BY <1>9 DEF HandleEvent
  <2>2. pc = "events" /\ pc' \in {"events", "failed"}
    <3>1. ASSUME NEW o, NEW w, MioRegister(o, w, "events") PROVE pc' \in {"events", "failed"}
      BY <3>1, MioRegisterCases DEF GoOn, Fail
    <3> QED
      BY <1>9, <2>1, <3>1 DEF HandleEvent
  <2>3. /\ events' \subseteq events /\ (events' # {} => pc' = "events")
        /\ \A m \in Monitors : monitor[m] # "unused" => monitor'[m] # "unused"
    BY <2>1, <2>2
  <2>4. UNCHANGED <<requests, registrants, handle, token, target>>
    BY <1>9 DEF HandleEvent, handleVars
  <2> QED
    BY <1>1, <1>2, <2>2, <2>3, <2>4, TokensLeftAlone
<1>10. CASE ReturnOk
  BY <1>1, <1>2, <1>10, TokensLeftAlone
  DEF ReturnOk, tableVars, localVars, sharedVars, handleVars
<1>11. CASE PollAgain
  BY <1>1, <1>2, <1>11, TokensLeftAlone
  DEF PollAgain, tableVars, localVars, sharedVars, handleVars
<1>12. CASE DropPoller
  <2>1. /\ pc' = "gone" /\ requests' = <<>> /\ registrants' = [k \in Token |-> None]
        /\ events' = {}
    BY <1>2, <1>12 DEF DropPoller, localVars
  <2>2. DOMAIN requests' = {}
    BY <2>1
  <2>3. TokenRequests(requests', registrants', handle', monitor', target')
    BY <2>2 DEF TokenRequests
  <2>4. TokensOfHandles(requests', registrants', handle', token')
    BY <2>1 DEF TokensOfHandles
  <2> QED
    BY <1>1, <2>1, <2>3, <2>4, TokenInvNext
<1> QED
  BY <1>3, <1>4, <1>5, <1>6, <1>7, <1>8, <1>9, <1>10, <1>11, <1>12, TryRecvTokens
  DEF PollerThread

\* The channel after sending a request that does not return a token: what is
\* new in it is only that request.
LEMMA SentLast ==
  ASSUME NEW q \in Seq(Request), NEW r \in Request, \A k \in Token : r # Deregister(k)
  PROVE  LET p == Append(q, r) IN
         /\ \A n \in DOMAIN q : n \in DOMAIN p /\ p[n] = q[n]
         /\ \A n \in DOMAIN p : n \in DOMAIN q \/ (n = Len(q) + 1 /\ p[n] = r)
         /\ \A k \in Token : \A n \in DOMAIN p : p[n] = Deregister(k) =>
              n \in DOMAIN q /\ q[n] = Deregister(k)
BY AppendEntries

\* Requests about timers do not concern the tokens.
LEMMA TimerRequestSent ==
  ASSUME NEW q \in Seq(Request), NEW R, NEW h, NEW w, NEW v, NEW g,
         TokenRequests(q, R, h, w, v), TokensOfHandles(q, R, h, g),
         NEW t \in Timers, NEW r \in {SetTimeout(t), CancelTimeout(t)}
  PROVE  /\ TokenRequests(Append(q, r), R, h, w, v)
         /\ TokensOfHandles(Append(q, r), R, h, g)
<1> DEFINE p == Append(q, r)
<1>1. r \in Request /\ r.op \in {"SetTimeout", "CancelTimeout"}
  BY AreRequests, TimerRequestsDiffer
<1>2. /\ \A n \in DOMAIN q : n \in DOMAIN p /\ p[n] = q[n]
      /\ \A n \in DOMAIN p : p[n] # r => n \in DOMAIN q /\ p[n] = q[n]
  BY <1>1, RequestFields, SentLast
<1> HIDE DEF p
<1>3. /\ \A o \in Evented : r # Register(o)
      /\ \A k \in Token : r # Deregister(k)
      /\ \A k \in Token, i \in Interest, m \in Monitors : r # Monitor(k, i, m)
  BY <1>1, RequestFields
<1>4. \A o \in Evented : \A n \in DOMAIN p : p[n] = Register(o) =>
        h[o] \in {"registering", "cancelled"} /\ \A l \in DOMAIN p : p[l] = Register(o) => l = n
  BY <1>2, <1>3 DEF TokenRequests
<1>5. \A k \in Token : \A n \in DOMAIN p : p[n] = Deregister(k) =>
        /\ R[k] # None /\ h[R[k]] = "dropped"
        /\ \A l \in DOMAIN p : p[l] = Deregister(k) => l = n
  BY <1>2, <1>3 DEF TokenRequests
<1>6. \A k \in Token, i \in Interest, m \in Monitors : \A n \in DOMAIN p :
        p[n] = Monitor(k, i, m) =>
          /\ w[m] # "unused" /\ R[k] # None /\ R[k] = v[m].evented
          /\ \A l \in DOMAIN p : p[l] = Deregister(k) => n < l
  BY <1>2, <1>3 DEF TokenRequests
<1>7. TokenRequests(p, R, h, w, v)
  BY <1>4, <1>5, <1>6 DEF TokenRequests
<1>8. TokensOfHandles(p, R, h, g)
  BY <1>2 DEF TokensOfHandles
<1> QED
  BY <1>7, <1>8 DEF p

\* A closed object is registered.
LEMMA RegisterSent ==
  ASSUME NEW q \in Seq(Request), NEW R, NEW h, NEW f, NEW w, NEW v, NEW o \in Evented,
         TokenRequests(q, R, h, w, v), h[o] \notin {"registering", "cancelled"},
         \A k \in Token : R[k] # None => R[k] \in Evented \ {o},
         f[o] = "registering", \A u \in Evented : u # o => f[u] = h[u]
  PROVE  TokenRequests(Append(q, Register(o)), R, f, w, v)
<1> DEFINE p == Append(q, Register(o))
           last == Len(q) + 1
<1>1. /\ DOMAIN p = DOMAIN q \cup {last} /\ last \notin DOMAIN q
      /\ \A n \in DOMAIN q : p[n] = q[n]
      /\ p[last] = Register(o)
  BY AppendEntries, AreRequests
<1> HIDE DEF p, last
<1>2. /\ \A u \in Evented : Register(o) = Register(u) => u = o
      /\ \A k \in Token : Register(o) # Deregister(k)
      /\ \A k \in Token, i \in Interest, m \in Monitors : Register(o) # Monitor(k, i, m)
  BY RequestFields
<1>3. \A n \in DOMAIN q : q[n] # Register(o)
  BY DEF TokenRequests
<1>4. \A u \in Evented : \A n \in DOMAIN p : p[n] = Register(u) =>
        f[u] \in {"registering", "cancelled"} /\ \A l \in DOMAIN p : p[l] = Register(u) => l = n
  BY <1>1, <1>2, <1>3 DEF TokenRequests
<1>5. \A k \in Token : \A n \in DOMAIN p : p[n] = Deregister(k) =>
        /\ R[k] # None /\ f[R[k]] = "dropped"
        /\ \A l \in DOMAIN p : p[l] = Deregister(k) => l = n
  BY <1>1, <1>2 DEF TokenRequests
<1>6. \A k \in Token, i \in Interest, m \in Monitors : \A n \in DOMAIN p :
        p[n] = Monitor(k, i, m) =>
          /\ w[m] # "unused" /\ R[k] # None /\ R[k] = v[m].evented
          /\ \A l \in DOMAIN p : p[l] = Deregister(k) => n < l
  BY <1>1, <1>2 DEF TokenRequests
<1> QED
  BY <1>4, <1>5, <1>6 DEF TokenRequests, p

\* A monitor that was not used is asked for with a held token.
LEMMA MonitorSent ==
  ASSUME NEW q \in Seq(Request), NEW R, NEW h, NEW w, NEW x, NEW v, NEW y,
         TokenRequests(q, R, h, w, v), NEW k \in Token, NEW i \in Interest,
         NEW m \in Monitors, w[m] = "unused", x[m] # "unused",
         R[k] # None, R[k] = y[m].evented, h[R[k]] = "held",
         \A l \in Monitors : l # m => x[l] = w[l] /\ y[l] = v[l]
  PROVE  TokenRequests(Append(q, Monitor(k, i, m)), R, h, x, y)
<1> DEFINE p == Append(q, Monitor(k, i, m))
           last == Len(q) + 1
<1>1. /\ DOMAIN p = DOMAIN q \cup {last} /\ last \notin DOMAIN q
      /\ \A n \in DOMAIN q : p[n] = q[n]
      /\ p[last] = Monitor(k, i, m)
  BY AppendEntries, AreRequests
<1> HIDE DEF p, last
<1>2. /\ \A o \in Evented : Monitor(k, i, m) # Register(o)
      /\ \A j \in Token : Monitor(k, i, m) # Deregister(j)
      /\ \A j \in Token, e \in Interest, l \in Monitors :
           Monitor(k, i, m) = Monitor(j, e, l) => j = k /\ l = m
  BY RequestFields
<1>3. \A n \in DOMAIN q : q[n] # Deregister(k)
  BY DEF TokenRequests
<1>4. \A n \in DOMAIN q, j \in Token, e \in Interest, l \in Monitors :
        q[n] = Monitor(j, e, l) => l # m
  BY DEF TokenRequests
<1>5. \A o \in Evented : \A n \in DOMAIN p : p[n] = Register(o) =>
        h[o] \in {"registering", "cancelled"} /\ \A l \in DOMAIN p : p[l] = Register(o) => l = n
  BY <1>1, <1>2 DEF TokenRequests
<1>6. \A j \in Token : \A n \in DOMAIN p : p[n] = Deregister(j) =>
        /\ R[j] # None /\ h[R[j]] = "dropped"
        /\ \A l \in DOMAIN p : p[l] = Deregister(j) => l = n
  BY <1>1, <1>2 DEF TokenRequests
<1>7. ASSUME NEW j \in Token, NEW e \in Interest, NEW l \in Monitors, NEW n \in DOMAIN p,
             p[n] = Monitor(j, e, l)
      PROVE  /\ x[l] # "unused" /\ R[j] # None /\ R[j] = y[l].evented
             /\ \A a \in DOMAIN p : p[a] = Deregister(j) => n < a
  <2>1. CASE n = last
    <3>1. j = k /\ l = m
      BY <1>1, <1>2, <1>7, <2>1
    <3> QED
      BY <1>1, <1>2, <1>3, <3>1
  <2>2. CASE n # last
    <3>1. n \in DOMAIN q /\ q[n] = Monitor(j, e, l) /\ l # m
      BY <1>1, <1>4, <1>7, <2>2
    <3> QED
      BY <1>1, <1>2, <3>1 DEF TokenRequests
  <2> QED
    BY <2>1, <2>2
<1> QED
  BY <1>5, <1>6, <1>7 DEF TokenRequests, p

\* A step without a poller: nothing is in the channel, and no token in use.
LEMMA TokensWhenGone ==
  ASSUME TokenInv, TimerInv', pc = "gone", UNCHANGED <<pc, registrants, events>>
  PROVE  TokenInv'
<1>1. requests' = <<>> /\ \A k \in Token : registrants'[k] = None
  BY DEF TokenInv, TimerInv, GoneIsEmpty
<1>2. DOMAIN requests' = {}
  BY <1>1
<1>3. TokenRequests(requests', registrants', handle', monitor', target')
  BY <1>2 DEF TokenRequests
<1>4. TokensOfHandles(requests', registrants', handle', token')
  BY <1>1 DEF TokensOfHandles
<1>5. events = {}
  BY DEF TokenInv
<1> QED
  BY <1>1, <1>3, <1>4, <1>5, TokenInvNext

\* An object is registered, a registration cancelled.
LEMMA RegisterUserTokens ==
  ASSUME TokenInv, TimerInv', NEW o \in Evented, RegisterEvented(o) \/ CancelRegister(o)
  PROVE  TokenInv'
<1>1. /\ requests \in Seq(Request) /\ registrants \in [Token -> Evented \cup {None}]
      /\ handle \in [Evented -> {"none", "registering", "cancelled", "held", "dropped"}]
  BY DEF TokenInv, TimerInv, PollerTypeOK
<1>2. UNCHANGED <<registrants, pc, events, token, monitor, target>>
  BY DEF RegisterEvented, CancelRegister, tableVars, threadVars, localVars
<1>3. /\ TokenRequests(requests, registrants, handle, monitor, target)
      /\ TokensOfHandles(requests, registrants, handle, token)
      /\ events # {} => pc = "events"
      /\ \A e \in events : registrants[e.token] # None
  BY DEF TokenInv
<1>4. CASE pc = "gone"
  BY <1>2, <1>4, TokensWhenGone
<1>5. CASE pc # "gone"
  <2>1. \A k \in Token : registrants[k] # None => registrants[k] \in Evented \ {o}
    <3>1. CASE RegisterEvented(o)
      BY <1>1, <3>1 DEF RegisterEvented, Open
    <3>2. CASE CancelRegister(o)
      BY <1>1, <1>3, <3>2 DEF CancelRegister, TokensOfHandles
    <3> QED
      BY <3>1, <3>2
  <2>2. handle[o] # "held" /\ handle'[o] # "held"
        /\ \A u \in Evented : u # o => handle'[u] = handle[u]
    <3>1. handle[o] # "held"
      BY DEF RegisterEvented, CancelRegister, Open
    <3> QED
      BY <1>1, <1>5, <3>1 DEF RegisterEvented, CancelRegister
  <2>3. TokenRequests(requests', registrants', handle', monitor', target')
    <3>1. CASE RegisterEvented(o)
      <4>1. /\ requests' = Append(requests, Register(o)) /\ handle'[o] = "registering"
            /\ handle[o] \notin {"registering", "cancelled"}
        BY <1>1, <1>5, <3>1 DEF RegisterEvented, Send, Open
      <4>2. TokenRequests(Append(requests, Register(o)), registrants, handle', monitor, target)
        BY <1>1, <1>3, <2>1, <2>2, <4>1, RegisterSent
      <4> QED
        BY <1>2, <4>1, <4>2
    <3>2. CASE CancelRegister(o)
      <4>1. /\ requests' = requests /\ handle[o] = "registering" /\ handle'[o] = "cancelled"
        BY <1>1, <3>2 DEF CancelRegister
      <4> QED
        BY <1>2, <1>3, <2>1, <2>2, <4>1 DEF TokenRequests
    <3> QED
      BY <3>1, <3>2
  <2>4. TokensOfHandles(requests', registrants', handle', token')
    <3>1. \A k \in Token : (\E n \in DOMAIN requests : requests[n] = Deregister(k))
                             => \E n \in DOMAIN requests' : requests'[n] = Deregister(k)
      <4>1. CASE RegisterEvented(o)
        <5>1. requests' = Append(requests, Register(o)) /\ Register(o) \in Request
              /\ \A k \in Token : Register(o) # Deregister(k)
          BY <1>5, <4>1, AreRequests, RequestFields DEF RegisterEvented, Send
        <5> QED
          BY <1>1, <5>1, SentLast
      <4>2. CASE CancelRegister(o)
        BY <4>2 DEF CancelRegister
      <4> QED
        BY <4>1, <4>2
    <3> QED
      BY <1>2, <1>3, <2>1, <2>2, <3>1 DEF TokensOfHandles
  <2>5. HandlesOwnTokens(registrants', handle', token')
    BY <1>2, <1>5, <2>2 DEF TokenInv, HandlesOwnTokens
  <2> QED
    BY <1>2, <1>3, <1>5, <2>3, <2>4, <2>5, TokenInvNext
<1> QED
  BY <1>4, <1>5

\* A handle is dropped; its token is on its way back.
LEMMA DropHandleTokens ==
  ASSUME TokenInv, TimerInv', NEW o \in Evented, DropHandle(o)
  PROVE  TokenInv'
<1> DEFINE k == token[o]
<1>1. /\ requests \in Seq(Request) /\ registrants \in [Token -> Evented \cup {None}]
      /\ handle \in [Evented -> {"none", "registering", "cancelled", "held", "dropped"}]
      /\ k \in Token
  BY DEF TokenInv, TimerInv, PollerTypeOK
<1>2. /\ UNCHANGED <<registrants, pc, events, token, monitor, target>>
      /\ handle[o] = "held" /\ handle' = [handle EXCEPT ![o] = "dropped"]
      /\ Send(Deregister(k))
  BY DEF DropHandle, tableVars, threadVars, localVars
<1>3. /\ TokenRequests(requests, registrants, handle, monitor, target)
      /\ TokensOfHandles(requests, registrants, handle, token)
      /\ events # {} => pc = "events"
      /\ \A e \in events : registrants[e.token] # None
  BY DEF TokenInv
<1>4. CASE pc = "gone"
  BY <1>2, <1>4, TokensWhenGone
<1>5. CASE pc # "gone"
  <2>1. registrants[k] = o /\ o # None
    BY <1>2, <1>5 DEF TokenInv, HandlesOwnTokens
  <2>2. requests' = Append(requests, Deregister(k))
    BY <1>2, <1>5 DEF Send
  <2>3. handle'[o] = "dropped" /\ \A u \in Evented : u # o => handle'[u] = handle[u]
    BY <1>1, <1>2
  <2>4. TokenRequests(requests, registrants, handle', monitor, target)
    <3>1. \A j \in Token : registrants[j] # None => registrants[j] \in Evented
      BY <1>1
    <3> QED
      BY <1>2, <1>3, <2>3, <3>1 DEF TokenRequests
  <2>5. \A n \in DOMAIN requests : requests[n] # Deregister(k)
    BY <1>1, <1>2, <1>3, <2>1 DEF TokenRequests
  <2> HIDE DEF k
  <2>6. /\ TokenRequests(Append(requests, Deregister(k)), registrants, handle', monitor, target)
        /\ \A j \in Token :
             (\E n \in DOMAIN Append(requests, Deregister(k)) :
                Append(requests, Deregister(k))[n] = Deregister(j))
             <=> j = k \/ \E n \in DOMAIN requests : requests[n] = Deregister(j)
    BY <1>1, <2>1, <2>3, <2>4, <2>5, DeregisterSent
  <2>7. TokenRequests(requests', registrants', handle', monitor', target')
    BY <1>2, <2>2, <2>6
  <2>8. TokensOfHandles(requests', registrants', handle', token')
    <3> SUFFICES ASSUME NEW j \in Token, registrants[j] # None
        PROVE  /\ token[registrants[j]] = j
               /\ \/ handle'[registrants[j]] = "held"
                  \/ /\ handle'[registrants[j]] = "dropped"
                     /\ \E n \in DOMAIN requests' : requests'[n] = Deregister(j)
      BY <1>2 DEF TokensOfHandles
    <3>1. token[registrants[j]] = j /\ registrants[j] \in Evented
      BY <1>1, <1>3 DEF TokensOfHandles
    <3>2. CASE registrants[j] = o
      BY <2>2, <2>3, <2>6, <3>1, <3>2 DEF k
    <3>3. CASE registrants[j] # o
      BY <1>3, <2>2, <2>3, <2>6, <3>1, <3>3 DEF TokensOfHandles
    <3> QED
      BY <3>2, <3>3
  <2>9. HandlesOwnTokens(registrants', handle', token')
    BY <1>2, <1>5, <2>3 DEF TokenInv, HandlesOwnTokens
  <2> QED
    BY <1>2, <1>3, <1>5, <2>7, <2>8, <2>9, TokenInvNext
<1> QED
  BY <1>4, <1>5

\* The holder of a handle monitors its object.
LEMMA MonitorTokens ==
  ASSUME TokenInv, TimerInv', NEW m \in Monitors, NEW o \in Evented, NEW i \in Interest,
         CallMonitor(m, o, i)
  PROVE  TokenInv'
<1> DEFINE k == token[o]
<1>1. /\ requests \in Seq(Request) /\ k \in Token
      /\ monitor \in [Monitors -> {"unused", "waiting", "notified", "aborted"}]
      /\ target \in [Monitors -> [evented : Evented, interest : Interest] \cup {None}]
  BY DEF TokenInv, TimerInv, PollerTypeOK
<1>2. /\ UNCHANGED <<registrants, pc, events, token, handle>>
      /\ monitor[m] = "unused" /\ handle[o] = "held"
      /\ monitor' = [monitor EXCEPT ![m] = IF pc = "gone" THEN "aborted" ELSE "waiting"]
      /\ target' = [target EXCEPT ![m] = [evented |-> o, interest |-> i]]
      /\ Send(Monitor(k, i, m))
  BY DEF CallMonitor, tableVars, threadVars, localVars, handleVars
<1>3. /\ TokenRequests(requests, registrants, handle, monitor, target)
      /\ TokensOfHandles(requests, registrants, handle, token)
      /\ events # {} => pc = "events"
      /\ \A e \in events : registrants[e.token] # None
  BY DEF TokenInv
<1>4. CASE pc = "gone"
  BY <1>2, <1>4, TokensWhenGone
<1>5. CASE pc # "gone"
  <2>1. registrants[k] = o /\ o # None
    BY <1>2, <1>5 DEF TokenInv, HandlesOwnTokens
  <2>2. requests' = Append(requests, Monitor(k, i, m))
    BY <1>2, <1>5 DEF Send
  <2>3. monitor'[m] # "unused" /\ target'[m].evented = o
    BY <1>1, <1>2
  <2>4. \A l \in Monitors : l # m => monitor'[l] = monitor[l] /\ target'[l] = target[l]
    BY <1>1, <1>2
  <2> HIDE DEF k
  <2>5. TokenRequests(Append(requests, Monitor(k, i, m)), registrants, handle, monitor',
                      target')
    BY <1>1, <1>2, <1>3, <2>1, <2>3, <2>4, MonitorSent
  <2>6. TokensOfHandles(requests', registrants', handle', token')
    <3>1. Monitor(k, i, m) \in Request /\ \A j \in Token : Monitor(k, i, m) # Deregister(j)
      BY <1>1, AreRequests, RequestFields
    <3>2. \A n \in DOMAIN requests : n \in DOMAIN requests' /\ requests'[n] = requests[n]
      BY <1>1, <2>2, <3>1, SentLast
    <3> QED
      BY <1>2, <1>3, <3>2 DEF TokensOfHandles
  <2>7. HandlesOwnTokens(registrants', handle', token')
    BY <1>2, <1>5 DEF TokenInv
  <2> QED
    BY <1>2, <1>3, <1>5, <2>2, <2>5, <2>6, <2>7, TokenInvNext
<1> QED
  BY <1>4, <1>5

\* A timer is set or dropped.
LEMMA TimerUserTokens ==
  ASSUME TokenInv, TimerInv', NEW t \in Timers, CallSetTimeout(t) \/ DropTimeout(t)
  PROVE  TokenInv'
<1>1. /\ UNCHANGED <<registrants, pc, events, token, handle, monitor, target>>
      /\ UNCHANGED requests \/ Send(SetTimeout(t)) \/ Send(CancelTimeout(t))
  BY DEF CallSetTimeout, DropTimeout, tableVars, threadVars, localVars, handleVars
<1>2. /\ TokenRequests(requests, registrants, handle, monitor, target)
      /\ TokensOfHandles(requests, registrants, handle, token)
      /\ events # {} => pc = "events"
      /\ \A e \in events : registrants[e.token] # None
      /\ requests \in Seq(Request)
  BY DEF TokenInv, TimerInv, PollerTypeOK
<1>3. CASE UNCHANGED requests
  BY <1>1, <1>2, <1>3, TokensLeftAlone
<1>4. CASE \E r \in {SetTimeout(t), CancelTimeout(t)} : requests' = Append(requests, r)
  <2>1. PICK r \in {SetTimeout(t), CancelTimeout(t)} : requests' = Append(requests, r)
    BY <1>4
  <2>2. /\ TokenRequests(Append(requests, r), registrants, handle, monitor, target)
        /\ TokensOfHandles(Append(requests, r), registrants, handle, token)
    BY <1>2, TimerRequestSent
  <2>3. /\ pc' # "gone" => HandlesOwnTokens(registrants', handle', token')
        /\ pc' = "gone" => \A k \in Token : registrants'[k] = None
    BY <1>1 DEF TokenInv
  <2> QED
    BY <1>1, <1>2, <2>1, <2>2, <2>3, TokenInvNext
<1> QED
  BY <1>1, <1>3, <1>4 DEF Send

\* Every step of the users keeps the tokens in order.
LEMMA UserTokens == ASSUME TokenInv, PollerNext, ~ PollerThread PROVE TokenInv'
<1>1. TimerInv'
  BY UserTimers DEF TokenInv
<1>2. /\ events # {} => pc = "events"
      /\ \A e \in events : registrants[e.token] # None
  BY DEF TokenInv
<1>3. ASSUME NEW o \in Evented, NEW i \in Interest, ChangeReadiness(o, i) PROVE TokenInv'
  BY <1>1, <1>2, <1>3, TokensLeftAlone
  DEF ChangeReadiness, tableVars, threadVars, localVars, handleVars
<1>4. CASE Tick
  BY <1>1, <1>2, <1>4, TokensLeftAlone
  DEF Tick, tableVars, threadVars, localVars, handleVars
<1>5. ASSUME NEW t \in Timers, NEW d \in Durations, MakeTimeout(t, d) PROVE TokenInv'
  BY <1>1, <1>2, <1>5, TokensLeftAlone
  DEF MakeTimeout, tableVars, threadVars, localVars, handleVars
<1>6. ASSUME NEW t \in Timers, FirstPoll(t) PROVE TokenInv'
  BY <1>1, <1>2, <1>6, TokensLeftAlone
  DEF FirstPoll, tableVars, threadVars, localVars, handleVars
<1>7. ASSUME NEW t \in Timers, PollTimeout(t) PROVE TokenInv'
  BY <1>1, <1>2, <1>7, TokensLeftAlone
  DEF PollTimeout, tableVars, threadVars, localVars, handleVars
<1> QED
  BY <1>1, <1>3, <1>4, <1>5, <1>6, <1>7, RegisterUserTokens, DropHandleTokens,
     MonitorTokens, TimerUserTokens
  DEF PollerNext

\* The tokens are in order in the first state.
LEMMA TokenInit == ASSUME PollerInit PROVE TokenInv
<1>1. TimerInv
  BY TimerInit
<1>2. DOMAIN requests = {} /\ \A k \in Token : registrants[k] = None
  BY DEF PollerInit
<1>3. TokenRequests(requests, registrants, handle, monitor, target)
  BY <1>2 DEF TokenRequests
<1>4. TokensOfHandles(requests, registrants, handle, token)
  BY <1>2 DEF TokensOfHandles
<1>5. HandlesOwnTokens(registrants, handle, token)
  BY DEF PollerInit, HandlesOwnTokens
<1> QED
  BY <1>1, <1>3, <1>4, <1>5 DEF PollerInit, TokenInv

\* So does a step that changes nothing.
LEMMA TokenStutter == ASSUME TokenInv, UNCHANGED pollerVars PROVE TokenInv'
<1>1. TimerInv'
  BY TimerStutter DEF TokenInv
<1>2. UNCHANGED <<requests, registrants, handle, token, target, monitor, pc, events>>
  BY DEF pollerVars, tableVars, threadVars, localVars, sharedVars, handleVars
<1>3. /\ events # {} => pc = "events"
      /\ \A e \in events : registrants[e.token] # None
  BY DEF TokenInv
<1> QED
  BY <1>1, <1>2, <1>3, TokensLeftAlone

\* The tokens are always in order.
LEMMA TokenInvCorrect == PollerSpec => []TokenInv
<1>1. PollerInit => TokenInv
  BY TokenInit
<1>2. TokenInv /\ [PollerNext]_pollerVars => TokenInv'
  BY ThreadTokens, UserTokens, TokenStutter
<1> QED
  BY <1>1, <1>2, PTL DEF PollerSpec

\* None of the assertions in handle_request and poll fails: a token in a
\* request or an event is still that of the object it was meant for, although
\* tokens are reused, and no timer is pushed to the heap twice.
THEOREM AssertionsHoldCorrect == PollerSpec => []AssertionsHold
<1>1. ASSUME TokenInv PROVE AssertionsHold
  <2>1. /\ requests \in Seq(Request)
        /\ TokenRequests(requests, registrants, handle, monitor, target)
        /\ TimerRequests(requests, timeoutQueue, timer)
        /\ \A e \in events : registrants[e.token] # None
    BY <1>1 DEF TokenInv, TimerInv, PollerTypeOK
  <2>2. DOMAIN requests = 1 .. Len(requests) /\ Len(requests) \in Nat
    BY <2>1, LenProperties
  <2> SUFFICES ASSUME NEW n \in DOMAIN requests
      PROVE  LET r == requests[n] IN
             /\ r.op = "Monitor" => registrants[r.token] = target[r.monitor].evented
             /\ r.op = "Deregister" =>
                  registrants[r.token] # None /\ handle[registrants[r.token]] = "dropped"
             /\ r.op \in {"Monitor", "Deregister"} => ~ QueuedBefore(Deregister(r.token), n)
             /\ r.op = "SetTimeout" => r.timer \notin timeoutQueue
    BY <2>1 DEF AssertionsHold
  <2> DEFINE r == requests[n]
  <2>3. r \in Request
    BY <2>1, ElementOfSeq, <2>2
  <2>4. ASSUME NEW k \in Token, QueuedBefore(Deregister(k), n)
        PROVE  \E l \in DOMAIN requests : l < n /\ requests[l] = Deregister(k)
    BY <2>2, <2>4 DEF QueuedBefore
  <2> HIDE DEF r
  <2>5. CASE r.op = "Monitor"
    <3>1. r.token \in Token /\ r.interest \in Interest /\ r.monitor \in Monitors
          /\ r = Monitor(r.token, r.interest, r.monitor)
      BY <2>3, <2>5, RequestKinds
    <3>2. /\ registrants[r.token] = target[r.monitor].evented
          /\ \A l \in DOMAIN requests : requests[l] = Deregister(r.token) => n < l
      BY <2>1, <3>1 DEF TokenRequests, r
    <3>3. ~ QueuedBefore(Deregister(r.token), n)
      BY <2>2, <2>4, <3>1, <3>2
    <3> QED
      BY <2>5, <3>2, <3>3 DEF r
  <2>6. CASE r.op = "Deregister"
    <3>1. r.token \in Token /\ r = Deregister(r.token)
      BY <2>3, <2>6, RequestKinds
    <3>2. /\ registrants[r.token] # None /\ handle[registrants[r.token]] = "dropped"
          /\ \A l \in DOMAIN requests : requests[l] = Deregister(r.token) => l = n
      BY <2>1, <3>1 DEF TokenRequests, r
    <3>3. ~ QueuedBefore(Deregister(r.token), n)
      BY <2>2, <2>4, <3>1, <3>2
    <3> QED
      BY <2>6, <3>2, <3>3 DEF r
  <2>7. CASE r.op = "SetTimeout"
    <3>1. r.timer \in Timers /\ r = SetTimeout(r.timer)
      BY <2>3, <2>7, RequestKinds
    <3>2. r.timer \notin timeoutQueue
      BY <2>1, <3>1 DEF TimerRequests, r
    <3> QED
      BY <2>7, <3>2 DEF r
  <2> QED
    BY <2>5, <2>6, <2>7 DEF r
<1> QED
  BY <1>1, TokenInvCorrect, PTL

\* A registrant does not outlive its handle.
THEOREM RegistrantsAreFreedCorrect == PollerSpec => []RegistrantsAreFreed
<1>1. ASSUME TokenInv PROVE RegistrantsAreFreed
  <2>1. requests \in Seq(Request)
    BY <1>1 DEF TokenInv, TimerInv, PollerTypeOK
  <2>2. TokensOfHandles(requests, registrants, handle, token)
    BY <1>1 DEF TokenInv
  <2> QED
    BY <2>1, <2>2, QueuedSomewhere DEF TokensOfHandles, RegistrantsAreFreed
<1> QED
  BY <1>1, TokenInvCorrect, PTL

(***************************************************************************)
(* mio.  The tokens being in order, what mio has been told and who waits   *)
(* are inductive together, as long as no poll has failed.                  *)
(***************************************************************************)

MioInv == TokenInv /\ MioAgrees /\ WaitersCovered

\* An object is in use if a token is its own.
InUse(o) == \E k \in Token : registrants[k] = o

\* MioAgrees, object by object.
LEMMA MioAgreesPointwise ==
  ASSUME PollerTypeOK
  PROVE  MioAgrees <=>
           (~ erred => \A o \in Evented :
              /\ o \in registered <=> InUse(o) /\ o \notin isFirst
              /\ armed[o] # {} => o \in registered)
<1>1. /\ registered \subseteq Evented /\ None \notin Evented
      /\ registrants \in [Token -> Evented \cup {None}]
  BY DEF PollerTypeOK
<1>2. registered = {registrants[k] : k \in Token} \ ({None} \cup isFirst)
        <=> \A o \in Evented : o \in registered <=> InUse(o) /\ o \notin isFirst
  BY <1>1 DEF InUse
<1> QED
  BY <1>2 DEF MioAgrees

\* The same about a later state.
LEMMA MioAgreesNext ==
  ASSUME PollerTypeOK',
         ~ erred' => \A o \in Evented :
           /\ o \in registered' <=> (\E k \in Token : registrants'[k] = o) /\ o \notin isFirst'
           /\ armed'[o] # {} => o \in registered'
  PROVE  MioAgrees'
<1>1. /\ registered' \subseteq Evented /\ None \notin Evented
      /\ registrants' \in [Token -> Evented \cup {None}]
  BY DEF PollerTypeOK
<1>2. ~ erred' => registered' = {registrants'[k] : k \in Token} \ ({None} \cup isFirst')
  BY <1>1
<1> QED
  BY <1>2 DEF MioAgrees

\* Nothing mio knows and nobody who waits is concerned.
LEMMA MioLeftAlone ==
  ASSUME MioInv, TokenInv', UNCHANGED <<registrants, isFirst, waitings, mioVars, events>>,
         erred => erred'
  PROVE  MioInv'
BY DEF MioInv, MioAgrees, WaitersCovered, mioVars

\* An object in use is armed for all its waiters.  Those of other objects are
\* covered as before, unless the events that covered them are forgotten.
LEMMA ArmedForWaiters ==
  ASSUME MioInv, TokenInv', NEW o \in Evented, InUse(o), UNCHANGED registrants,
         NEW w \in [Interest -> SUBSET Monitors], waitings' = [waitings EXCEPT ![o] = w],
         NEW next, MioRegister(o, w, next),
         ~ erred' => \A e \in events : registrants[e.token] # o => e \in events'
  PROVE  MioInv'
<1>1. /\ PollerTypeOK /\ PollerTypeOK'
      /\ waitings \in [Evented -> [Interest -> SUBSET Monitors]]
      /\ armed \in [Evented -> SUBSET Interest] /\ o # None
  BY DEF MioInv, TokenInv, TimerInv, PollerTypeOK
<1>2. SUFFICES ASSUME ~ erred'
      PROVE  /\ \A u \in Evented :
                  /\ u \in registered' <=> InUse(u) /\ u \notin isFirst'
                  /\ armed'[u] # {} => u \in registered'
             /\ \A u \in Evented, i \in Interest : waitings'[u][i] # {} =>
                  i \in armed'[u] \/ \E e \in events' : registrants[e.token] = u
  <2>1. \A u \in Evented : (\E k \in Token : registrants'[k] = u) <=> InUse(u)
    BY DEF InUse
  <2>2. ~ erred' => \A u \in Evented :
          /\ u \in registered' <=> (\E k \in Token : registrants'[k] = u) /\ u \notin isFirst'
          /\ armed'[u] # {} => u \in registered'
    BY <1>2, <2>1
  <2>3. MioAgrees'
    BY <1>1, <2>2, MioAgreesNext
  <2>4. WaitersCovered'
    BY <1>2 DEF WaitersCovered
  <2> QED
    BY <2>3, <2>4 DEF MioInv
<1>3. ~ erred
  BY <1>2, MioRegisterCases DEF GoOn, Fail
<1>4. /\ \A u \in Evented : u \in registered <=> InUse(u) /\ u \notin isFirst
      /\ \A u \in Evented : armed[u] # {} => u \in registered
      /\ \A u \in Evented, i \in Interest : waitings[u][i] # {} =>
           i \in armed[u] \/ \E e \in events : registrants[e.token] = u
  BY <1>1, <1>3, MioAgreesPointwise DEF MioInv, WaitersCovered
<1>5. \A u \in Evented, i \in Interest : u # o /\ waitings'[u][i] # {} =>
        i \in armed[u] \/ \E e \in events' : registrants[e.token] = u
  <2>1. \A u \in Evented : u # o => waitings'[u] = waitings[u]
    BY <1>1
  <2> QED
    BY <1>2, <1>4, <2>1
<1>6. waitings'[o] = w
  BY <1>1
<1>7. CASE w = NoWaitings /\ UNCHANGED <<isFirst, mioVars>>
  BY <1>4, <1>5, <1>6, <1>7 DEF NoWaitings, mioVars
<1>8. CASE /\ isFirst' = isFirst \ {o} /\ registered' = registered \cup {o}
           /\ armed' = [armed EXCEPT ![o] = {i \in Interest : w[i] # {}}]
  <2>1. /\ armed'[o] = {i \in Interest : w[i] # {}}
        /\ \A u \in Evented : u # o => armed'[u] = armed[u]
    BY <1>1, <1>8
  <2> QED
    BY <1>4, <1>5, <1>6, <1>8, <2>1
<1> QED
  BY <1>2, <1>7, <1>8, MioRegisterCases DEF Fail

\* What MioInv says of each object.
LEMMA MioInvPointwise ==
  ASSUME MioInv, ~ erred
  PROVE  /\ \A o \in Evented : o \in registered <=> InUse(o) /\ o \notin isFirst
         /\ \A o \in Evented : armed[o] # {} => o \in registered
         /\ \A o \in Evented, i \in Interest : waitings[o][i] # {} =>
              i \in armed[o] \/ \E e \in events : registrants[e.token] = o
<1>1. PollerTypeOK
  BY DEF MioInv, TokenInv, TimerInv
<1> QED
  BY <1>1, MioAgreesPointwise DEF MioInv, WaitersCovered

\* A new object is not known to mio, and first in line to be registered.
LEMMA RegisterMio ==
  ASSUME MioInv, TokenInv', pc = "request", requests # <<>>, NEW o \in Evented,
         Head(requests) = Register(o), HandleRegister(o), UNCHANGED events
  PROVE  MioInv'
<1>1. PICK k \in Token :
        /\ registrants[k] = None /\ registrants' = [registrants EXCEPT ![k] = o]
        /\ isFirst' = isFirst \cup {o}
        /\ UNCHANGED <<erred, waitings, mioVars>>
  BY DEF HandleRegister, NextToken, GoOn
<1>2. /\ PollerTypeOK /\ PollerTypeOK' /\ events = {} /\ requests \in Seq(Request)
      /\ registrants \in [Token -> Evented \cup {None}] /\ None \notin Evented
      /\ TokenRequests(requests, registrants, handle, monitor, target)
      /\ TokensOfHandles(requests, registrants, handle, token)
  BY DEF MioInv, TokenInv, TimerInv, PollerTypeOK
<1>3. handle[o] \in {"registering", "cancelled"}
  BY <1>2, FirstRequestTaken
<1>4. ~ InUse(o)
  BY <1>2, <1>3 DEF InUse, TokensOfHandles
<1>5. \A u \in Evented : (\E j \in Token : registrants'[j] = u) <=> InUse(u) \/ u = o
  <2>1. /\ \A j \in Token : j # k => registrants'[j] = registrants[j]
        /\ registrants'[k] = o
    BY <1>1, <1>2
  <2> QED
    BY <1>1, <1>2, <2>1 DEF InUse
<1>6. ~ erred' => \A u \in Evented :
        /\ u \in registered' <=> (\E j \in Token : registrants'[j] = u) /\ u \notin isFirst'
        /\ armed'[u] # {} => u \in registered'
  BY <1>1, <1>4, <1>5, MioInvPointwise DEF mioVars
<1>7. MioAgrees'
  BY <1>2, <1>6, MioAgreesNext
<1>8. WaitersCovered'
  BY <1>1, <1>2, MioInvPointwise DEF WaitersCovered, mioVars
<1> QED
  BY <1>7, <1>8 DEF MioInv

\* mio forgets an object whose token is returned; nobody else has the token.
LEMMA DeregisterMio ==
  ASSUME MioInv, TokenInv', pc = "request", NEW k \in Token, HandleDeregister(k),
         UNCHANGED events
  PROVE  MioInv'
<1> DEFINE o == registrants[k]
<1>1. /\ o # None /\ registrants' = [registrants EXCEPT ![k] = None]
      /\ waitings' = [waitings EXCEPT ![o] = NoWaitings]
      /\ registered' = registered \ {o} /\ armed' = [armed EXCEPT ![o] = {}]
      /\ UNCHANGED isFirst
      /\ erred => erred'
  BY DEF HandleDeregister, GoOn, Fail
<1>2. /\ PollerTypeOK' /\ events = {} /\ registrants \in [Token -> Evented \cup {None}]
      /\ armed \in [Evented -> SUBSET Interest]
      /\ waitings \in [Evented -> [Interest -> SUBSET Monitors]]
      /\ TokensOfHandles(requests, registrants, handle, token)
  BY DEF MioInv, TokenInv, TimerInv, PollerTypeOK
<1>3. o \in Evented /\ InUse(o) /\ \A j \in Token : registrants[j] = o => j = k
  BY <1>1, <1>2 DEF TokensOfHandles, InUse
<1>4. \A u \in Evented : (\E j \in Token : registrants'[j] = u) <=> InUse(u) /\ u # o
  <2>1. /\ \A j \in Token : j # k => registrants'[j] = registrants[j]
        /\ registrants'[k] = None
    BY <1>1, <1>2
  <2> QED
    BY <1>3, <2>1, PollerAssumption DEF InUse
<1> HIDE DEF o
<1>5. /\ armed'[o] = {} /\ waitings'[o] = NoWaitings
      /\ \A u \in Evented : u # o => armed'[u] = armed[u] /\ waitings'[u] = waitings[u]
  BY <1>1, <1>2, <1>3
<1>6. ~ erred' => \A u \in Evented :
        /\ u \in registered' <=> (\E j \in Token : registrants'[j] = u) /\ u \notin isFirst'
        /\ armed'[u] # {} => u \in registered'
  BY <1>1, <1>4, <1>5, MioInvPointwise
<1>7. MioAgrees'
  BY <1>2, <1>6, MioAgreesNext
<1>8. ~ erred' => \A u \in Evented, i \in Interest :
        waitings'[u][i] # {} => i \in armed'[u]
  BY <1>1, <1>2, <1>5, MioInvPointwise DEF NoWaitings
<1>9. WaitersCovered'
  BY <1>8 DEF WaitersCovered
<1> QED
  BY <1>7, <1>9 DEF MioInv

\* The object of a monitor is armed anew unless each list had a waiter before
\* or still has none.
LEMMA MonitorMio ==
  ASSUME MioInv, TokenInv', pc = "request", NEW k \in Token, NEW i \in Interest,
         NEW m \in Monitors, HandleMonitor(k, i, m), UNCHANGED events
  PROVE  MioInv'
<1> DEFINE o == registrants[k]
           w == [waitings[o] EXCEPT ![i] = @ \cup {m}]
<1>1. /\ o # None /\ waitings' = [waitings EXCEPT ![o] = w]
      /\ IF \E j \in Interest : Cardinality(w[j]) = 1
           THEN MioRegister(o, w, "clock")
           ELSE GoOn("clock") /\ UNCHANGED <<isFirst, mioVars>>
      /\ UNCHANGED registrants
  BY DEF HandleMonitor
<1>2. /\ PollerTypeOK' /\ events = {} /\ registrants \in [Token -> Evented \cup {None}]
      /\ waitings \in [Evented -> [Interest -> SUBSET Monitors]]
  BY DEF MioInv, TokenInv, TimerInv, PollerTypeOK
<1>3. o \in Evented /\ InUse(o) /\ w \in [Interest -> SUBSET Monitors]
  BY <1>1, <1>2 DEF InUse
<1>4. CASE \E j \in Interest : Cardinality(w[j]) = 1
  <2>1. MioRegister(o, w, "clock")
    BY <1>1, <1>4
  <2>2. waitings' = [waitings EXCEPT ![o] = w] /\ UNCHANGED registrants
    BY <1>1
  <2> HIDE DEF o, w
  <2> QED
    BY <1>2, <1>3, <2>1, <2>2, ArmedForWaiters
<1>5. CASE ~ \E j \in Interest : Cardinality(w[j]) = 1
  <2>1. GoOn("clock") /\ UNCHANGED <<isFirst, mioVars>>
    BY <1>1, <1>5
  <2>2. waitings[o][i] # {}
    <3>1. SUFFICES ASSUME waitings[o][i] = {} PROVE FALSE
      OBVIOUS
    <3>2. w[i] = {m}
      BY <1>2, <1>3, <3>1
    <3>3. Cardinality({m}) = 1
      BY FS_Singleton
    <3> QED
      BY <1>5, <3>2, <3>3
  <2>3. \A u \in Evented, j \in Interest : waitings'[u][j] # {} => waitings[u][j] # {}
    <3>1. \A j \in Interest : j # i => w[j] = waitings[o][j]
      BY <1>2, <1>3
    <3> QED
      BY <1>1, <1>2, <1>3, <2>2, <3>1
  <2>4. WaitersCovered'
    BY <1>1, <2>1, <2>3, <1>2, MioInvPointwise DEF WaitersCovered, GoOn, mioVars
  <2>5. MioAgrees'
    BY <1>1, <2>1 DEF MioInv, MioAgrees, GoOn, mioVars
  <2> QED
    BY <2>4, <2>5 DEF MioInv
<1> QED
  BY <1>4, <1>5

\* mio reports events, and disarms their objects.
LEMMA MioPollMio ==
  ASSUME MioInv, TokenInv', NEW spurious \in SUBSET Evented, MioPoll(spurious)
  PROVE  MioInv'
<1> DEFINE hit == {k \in Token : registrants[k] # None /\ armed[registrants[k]] # {} /\
                     (Reported(registrants[k]) # {} \/ registrants[k] \in spurious)}
           disarmed == {registrants[k] : k \in hit}
<1>1. /\ pc = "io" /\ events' = {Event(k, Reported(registrants[k])) : k \in hit}
      /\ armed' = [o \in Evented |-> IF o \in disarmed THEN {} ELSE armed[o]]
      /\ UNCHANGED <<registrants, isFirst, waitings, erred, registered>>
  BY DEF MioPoll, tableVars
<1>2. events = {}
  BY <1>1 DEF MioInv, TokenInv
<1>3. \A o \in Evented : o \in disarmed =>
        \E e \in events' : registrants[e.token] = o
  <2> SUFFICES ASSUME NEW k \in hit
      PROVE  \E e \in events' : registrants[e.token] = registrants[k]
    OBVIOUS
  <2>1. Event(k, Reported(registrants[k])) \in events'
    BY <1>1
  <2>2. Event(k, Reported(registrants[k])).token = k
    BY DEF Event
  <2> QED
    BY <2>1, <2>2
<1> HIDE DEF disarmed, hit
<1>4. WaitersCovered'
  BY <1>1, <1>2, <1>3, MioInvPointwise DEF WaitersCovered
<1>5. MioAgrees'
  BY <1>1 DEF MioInv, MioAgrees
<1> QED
  BY <1>4, <1>5 DEF MioInv

\* The waiters that an event is for are taken off, and the object is armed for
\* the others.
LEMMA HandleEventMio == ASSUME MioInv, TokenInv', HandleEvent PROVE MioInv'
<1>1. PICK e \in events :
        LET o == registrants[e.token]
            w == [i \in Interest |-> IF i \in e.readiness THEN {} ELSE waitings[o][i]] IN
        /\ waitings' = [waitings EXCEPT ![o] = w]
        /\ MioRegister(o, w, "events")
        /\ events' = IF pc' = "failed" THEN {} ELSE events \ {e}
  BY DEF HandleEvent
<1> DEFINE o == registrants[e.token]
           w == [i \in Interest |-> IF i \in e.readiness THEN {} ELSE waitings[o][i]]
<1>2. /\ registrants \in [Token -> Evented \cup {None}] /\ e.token \in Token
      /\ waitings \in [Evented -> [Interest -> SUBSET Monitors]] /\ o # None
  BY DEF MioInv, TokenInv, TimerInv, PollerTypeOK
<1>3. o \in Evented /\ InUse(o) /\ w \in [Interest -> SUBSET Monitors]
  BY <1>2 DEF InUse
<1>4. UNCHANGED registrants
  BY DEF HandleEvent
<1>5. /\ waitings' = [waitings EXCEPT ![o] = w] /\ MioRegister(o, w, "events")
      /\ events' = IF pc' = "failed" THEN {} ELSE events \ {e}
  BY <1>1
<1>6. \A d \in events : registrants[d.token] # o => d # e
  OBVIOUS
<1> HIDE DEF o, w
<1>7. ~ erred' => \A d \in events : registrants[d.token] # o => d \in events'
  <2>1. pc' = "failed" => erred'
    BY <1>5, MioRegisterCases DEF GoOn, Fail
  <2> QED
    BY <1>5, <1>6, <2>1
<1> QED
  BY <1>3, <1>4, <1>5, <1>7, ArmedForWaiters

\* Every step of the poller's thread.
LEMMA ThreadMio == ASSUME MioInv, PollerThread PROVE MioInv'
<1>1. TokenInv' /\ PollerTypeOK'
  BY ThreadTokens DEF MioInv, TokenInv, TimerInv
<1>2. ASSUME NEW d \in Timeouts, CallPoll(d) PROVE MioInv'
  BY <1>1, <1>2, MioLeftAlone DEF CallPoll, tableVars
<1>3. CASE ReadClock
  BY <1>1, <1>3, MioLeftAlone DEF ReadClock, tableVars
<1>4. CASE PopExpired
  BY <1>1, <1>4, MioLeftAlone DEF PopExpired, threadVars, localVars
<1>5. CASE EnterMioPoll
  BY <1>1, <1>5, MioLeftAlone DEF EnterMioPoll, tableVars
<1>6. CASE MioPollFails
  BY <1>1, <1>6, MioLeftAlone DEF MioPollFails, Fail, tableVars, localVars
<1>7. CASE ReturnOk
  BY <1>1, <1>7, MioLeftAlone DEF ReturnOk, tableVars, localVars
<1>8. CASE PollAgain
  BY <1>1, <1>8, MioLeftAlone DEF PollAgain, tableVars, localVars
<1>9. CASE DropPoller
  <2>1. /\ registrants' = [k \in Token |-> None] /\ registered' = {}
        /\ waitings' = [o \in Evented |-> NoWaitings]
        /\ armed' = [o \in Evented |-> {}]
    BY <1>9 DEF DropPoller
  <2>2. WaitersCovered'
    BY <2>1 DEF WaitersCovered, NoWaitings
  <2>3. MioAgrees'
    BY <1>1, <2>1, MioAgreesNext
  <2> QED
    BY <1>1, <2>2, <2>3 DEF MioInv
<1>10. CASE TryRecv
  <2> DEFINE r == Head(requests)
  <2>1. pc = "request" /\ UNCHANGED events
    BY <1>10 DEF TryRecv
  <2>2. CASE requests = <<>>
    BY <1>1, <1>10, <2>1, <2>2, MioLeftAlone DEF TryRecv, tableVars, GoOn
  <2>3. CASE requests # <<>>
    <3>1. r \in Request
      BY <2>3, ChannelType DEF MioInv, TokenInv, TimerInv, PollerTypeOK
    <3>2. \/ r.op = "Register" /\ HandleRegister(r.evented)
          \/ r.op = "Deregister" /\ HandleDeregister(r.token)
          \/ r.op = "Monitor" /\ HandleMonitor(r.token, r.interest, r.monitor)
          \/ r.op \in {"SetTimeout", "CancelTimeout"} /\ HandleTimer(r)
      BY <1>10, <2>3 DEF TryRecv
    <3> HIDE DEF r
    <3>3. CASE r.op = "Register" /\ HandleRegister(r.evented)
      <4>1. r.evented \in Evented /\ r = Register(r.evented)
        BY <3>1, <3>3, RequestKinds
      <4> QED
        BY <1>1, <2>1, <2>3, <3>3, <4>1, RegisterMio DEF r
    <3>4. CASE r.op = "Deregister" /\ HandleDeregister(r.token)
      <4>1. r.token \in Token
        BY <3>1, <3>4, RequestKinds
      <4> QED
        BY <1>1, <2>1, <3>4, <4>1, DeregisterMio
    <3>5. CASE r.op = "Monitor" /\ HandleMonitor(r.token, r.interest, r.monitor)
      <4>1. r.token \in Token /\ r.interest \in Interest /\ r.monitor \in Monitors
        BY <3>1, <3>5, RequestKinds
      <4> QED
        BY <1>1, <2>1, <3>5, <4>1, MonitorMio
    <3>6. CASE HandleTimer(r)
      BY <1>1, <2>1, <3>6, MioLeftAlone DEF HandleTimer, GoOn
    <3> QED
      BY <3>2, <3>3, <3>4, <3>5, <3>6
  <2> QED
    BY <2>2, <2>3
<1> QED
  BY <1>1, <1>2, <1>3, <1>4, <1>5, <1>6, <1>7, <1>8, <1>9, <1>10, MioPollMio,
     HandleEventMio
  DEF PollerThread

\* The users do not touch what mio knows.
LEMMA UserMio == ASSUME MioInv, PollerNext, ~ PollerThread PROVE MioInv'
<1>1. TokenInv'
  BY UserTokens DEF MioInv
<1>2. UNCHANGED <<tableVars, pc, events, erred, mioVars>>
  BY DEF PollerNext, RegisterEvented, CancelRegister, DropHandle, ChangeReadiness,
         CallMonitor, Tick, MakeTimeout, FirstPoll, CallSetTimeout, PollTimeout, DropTimeout,
         threadVars, localVars
<1> QED
  BY <1>1, <1>2, MioLeftAlone DEF tableVars

\* mio knows nothing in the first state.
LEMMA MioInit == ASSUME PollerInit PROVE MioInv
<1>1. TokenInv /\ PollerTypeOK
  BY TokenInit DEF TokenInv, TimerInv
<1>2. WaitersCovered
  BY DEF PollerInit, WaitersCovered, NoWaitings
<1>3. MioAgrees
  BY DEF PollerInit, MioAgrees
<1> QED
  BY <1>1, <1>2, <1>3 DEF MioInv

\* The agreement with mio and its waiters is never lost.
LEMMA MioInvCorrect == PollerSpec => []MioInv
<1>1. PollerInit => MioInv
  BY MioInit
<1>2. MioInv /\ [PollerNext]_pollerVars => MioInv'
  <2>1. ASSUME MioInv, UNCHANGED pollerVars PROVE MioInv'
    <3>1. TokenInv'
      BY <2>1, TokenStutter DEF MioInv
    <3> QED
      BY <2>1, <3>1, MioLeftAlone
      DEF pollerVars, tableVars, threadVars, localVars
  <2> QED
    BY <2>1, ThreadMio, UserMio
<1> QED
  BY <1>1, <1>2, PTL DEF PollerSpec

\* No waiter is forgotten: mio is armed for whatever somebody waits for, or an
\* event of that object is about to be handled, although mio is only told
\* about first waiters and every event disarms the whole object.
THEOREM WaitersCoveredCorrect == PollerSpec => []WaitersCovered
<1>1. MioInv => WaitersCovered
  BY DEF MioInv
<1> QED
  BY <1>1, MioInvCorrect, PTL

\* mio knows exactly the objects in use that have been armed once: is_first
\* tells register from reregister correctly.
THEOREM MioAgreesCorrect == PollerSpec => []MioAgrees
<1>1. MioInv => MioAgrees
  BY DEF MioInv
<1> QED
  BY <1>1, MioInvCorrect, PTL
=============================================================================
