------------------------ MODULE FiberSchedulerProofs ------------------------
(***************************************************************************)
(* TLAPS proofs about FiberScheduler for every value of its constants: its *)
(* invariants, and that it implements the safety part of FiberLifecycle.   *)
(***************************************************************************)
EXTENDS FiberSchedulerRefinement, DataLemmas, SequenceTheorems, TLAPS

USE SchedulerAssumption

\* What Scheduler, fibers and threads may do without the bounds that Next sets to
\* their environment: the proofs need none of them, and modules that build on
\* FiberScheduler take steps that respect other bounds.
UnboundedNext ==
  \/ SchedulerStep \/ PollReturns \/ PollPanics
  \/ ParkFiber \/ YieldOnce \/ RegisterFails
  \/ \E t \in Tasks : Spawn(t) \/ DropUnpark(t) \/ SendWakeUp(t)
  \/ \E id \in FiberId : ForceWakeUp(id)

\* Every step of the specification is one of them.
LEMMA NextIsUnbounded == Next => UnboundedNext
BY DEF Next, UnboundedNext

(***************************************************************************)
(* Type correctness.                                                       *)
(***************************************************************************)

\* Counters stay natural numbers when one of them is incremented, or
\* decremented from a positive value.
LEMMA CounterType ==
  ASSUME NEW S, NEW x \in S, NEW f \in [S -> Nat]
  PROVE  /\ [f EXCEPT ![x] = @ + 1] \in [S -> Nat]
         /\ f[x] > 0 => [f EXCEPT ![x] = @ - 1] \in [S -> Nat]
OBVIOUS

\* Requests are well-typed records of one of two kinds, which differ.
LEMMA RequestType ==
  ASSUME NEW r \in Request
  PROVE  /\ r.op \in {"Spawn", "WakeUp"}
         /\ r.op = "Spawn" => r.task \in Tasks /\ r = SpawnRequest(r.task)
         /\ r.op = "WakeUp" => r.id \in FiberId /\ r = WakeUpRequest(r.id)
BY DEF Request, SpawnRequest, WakeUpRequest

\* Scheduling keeps the queue and the flags well-typed.
LEMMA ScheduleType ==
  ASSUME TypeOK, NEW id \in FiberId, NEW t \in Tasks, Schedule(id, t)
  PROVE  runQueue' \in Seq(FiberId) /\ inRunQueue' \subseteq Tasks
<1>1. runQueue \in Seq(FiberId) /\ inRunQueue \subseteq Tasks
  BY DEF TypeOK
<1>2. Append(runQueue, id) \in Seq(FiberId)
  BY <1>1, AppendProperties
<1> QED
  BY <1>1, <1>2 DEF Schedule

\* Handling the request at the head of the channel keeps the types.
LEMMA HandleRequestType ==
  ASSUME TypeOK, HandleRequest, pc' \in {"request", "task"}
  PROVE  TypeOK'
<1> DEFINE r == Head(requests)
<1>1. r \in Request /\ requests' \in Seq(Request)
  BY HeadTailProperties DEF TypeOK, HandleRequest
<1>2. CASE r.op = "Spawn" /\ SpawnFiber(r.task)
  <2>1. PICK id \in FiberId :
          /\ NextFiberId(id)
          /\ fibers' = [fibers EXCEPT ![id] = r.task]
          /\ fiberId' = [fiberId EXCEPT ![r.task] = id]
          /\ Schedule(id, r.task)
    BY <1>2 DEF SpawnFiber
  <2>2. r.task \in Tasks
    BY <1>1, <1>2, RequestType
  <2>3. nextFiberId' \in FiberId
    BY <2>1 DEF NextFiberId, WrappingSucc, FiberId
  <2>4. runQueue' \in Seq(FiberId) /\ inRunQueue' \subseteq Tasks
    BY <2>1, <2>2, ScheduleType
  <2> QED
    BY <1>1, <2>1, <2>2, <2>3, <2>4 DEF TypeOK, HandleRequest, counterVars
<1>3. CASE /\ r.op = "WakeUp"
           /\ IF fibers[r.id] # NoTask
                THEN Schedule(r.id, fibers[r.id])
                ELSE UNCHANGED <<runQueue, inRunQueue>>
           /\ UNCHANGED <<fibers, fiberId, nextFiberId>>
  <2>1. r.id \in FiberId
    BY <1>1, <1>3, RequestType
  <2>2. runQueue' \in Seq(FiberId) /\ inRunQueue' \subseteq Tasks
    BY <1>3, <2>1, ScheduleType DEF TypeOK
  <2> QED
    BY <1>1, <1>3, <2>2 DEF TypeOK, HandleRequest, counterVars
<1> QED
  BY <1>2, <1>3 DEF HandleRequest

\* The counters stay natural numbers when a poll consumes an unpark.
LEMMA ConsumeUnparkType ==
  ASSUME TypeOK, NEW t \in Tasks, ConsumeUnpark(t)
  PROVE  parks' \in [Tasks -> Nat] /\ unparks' \in [Tasks -> Nat]
<1>1. parks \in [Tasks -> Nat] /\ unparks \in [Tasks -> Nat]
  BY DEF TypeOK
<1>2. CASE parks[t] > 0 /\ unparks[t] > 0
  <2>1. /\ parks' = [parks EXCEPT ![t] = @ - 1]
        /\ unparks' = [unparks EXCEPT ![t] = @ - 1]
    BY <1>2 DEF ConsumeUnpark
  <2> QED
    BY <1>1, <1>2, <2>1, CounterType
<1>3. CASE ~ (parks[t] > 0 /\ unparks[t] > 0)
  BY <1>1, <1>3 DEF ConsumeUnpark
<1> QED
  BY <1>2, <1>3

\* Every step keeps the types.
LEMMA TypeInductive == TypeOK /\ [UnboundedNext]_schedVars => TypeOK'
<1> SUFFICES ASSUME TypeOK, [UnboundedNext]_schedVars PROVE TypeOK'
  OBVIOUS
<1> USE DEF TypeOK, queueVars, counterVars, threadVars
<1>1. ASSUME NEW block \in BOOLEAN, RunOnce(block) PROVE TypeOK'
  BY <1>1 DEF RunOnce
<1>2. CASE TryRecv
  BY <1>2, HandleRequestType DEF TryRecv
<1>3. CASE NextRunnable
  <2>1. PICK n \in DOMAIN runQueue :
          /\ FirstAlive(n)
          /\ runQueue' = SubSeq(runQueue, n + 1, Len(runQueue))
          /\ inRunQueue' = inRunQueue \ {fibers[runQueue[n]]}
          /\ IF pollerAlive
               THEN /\ ConsumeUnpark(fibers[runQueue[n]])
                    /\ current' = fibers[runQueue[n]]
                    /\ pc' = "poll"
               ELSE /\ pc' = "panicked"
                    /\ UNCHANGED <<parks, unparks, current>>
    BY <1>3 DEF NextRunnable
  <2>2. fibers[runQueue[n]] \in Tasks
    BY <2>1 DEF FirstAlive
  <2>3. runQueue' \in Seq(FiberId)
    BY <2>1, SubSeqProperties
  <2>4. /\ parks' \in [Tasks -> Nat] /\ unparks' \in [Tasks -> Nat]
        /\ pc' \in {"poll", "panicked"}
        /\ current' \in Tasks \cup {NoTask}
        /\ pc' = "poll" => current' \in Tasks
    <3>1. CASE pollerAlive
      <4>1. ConsumeUnpark(fibers[runQueue[n]]) /\ current' = fibers[runQueue[n]]
            /\ pc' = "poll"
        BY <2>1, <3>1
      <4>2. parks' \in [Tasks -> Nat] /\ unparks' \in [Tasks -> Nat]
        BY <2>2, <4>1, ConsumeUnparkType
      <4> QED
        BY <2>2, <4>1, <4>2
    <3>2. CASE ~ pollerAlive
      BY <2>1, <2>2, <3>2
    <3> QED
      BY <3>1, <3>2
  <2> QED
    BY <1>3, <2>1, <2>2, <2>3, <2>4 DEF NextRunnable
<1>4. CASE NothingRunnable
  BY <1>4 DEF NothingRunnable
<1>5. CASE Recv
  BY <1>5, HandleRequestType DEF Recv
<1>6. CASE PollReady
  BY <1>6 DEF PollReady
<1>7. CASE PollNotReady
  <2>1. runQueue' \in Seq(FiberId) /\ inRunQueue' \subseteq Tasks
    BY <1>7, ScheduleType DEF PollNotReady
  <2> QED
    BY <1>7, <2>1 DEF PollNotReady
<1>8. CASE PollPanics
  BY <1>8 DEF PollPanics
<1>9. CASE ParkFiber
  BY <1>9, CounterType DEF ParkFiber
<1>16. CASE YieldOnce
  BY <1>16, CounterType DEF YieldOnce
<1>15. CASE RegisterFails
  BY <1>15 DEF RegisterFails
<1>10. ASSUME NEW t \in Tasks, Spawn(t) PROVE TypeOK'
  <2>1. SpawnRequest(t) \in Request
    BY <1>10 DEF Request
  <2>2. requests' \in Seq(Request)
    BY <1>10, <2>1, AppendProperties DEF Spawn
  <2> QED
    BY <1>10, <2>2 DEF Spawn
<1>11. ASSUME NEW t \in Tasks, DropUnpark(t) PROVE TypeOK'
  BY <1>11, CounterType DEF DropUnpark
<1>12. ASSUME NEW t \in Tasks, SendWakeUp(t) PROVE TypeOK'
  <2>1. WakeUpRequest(fiberId[t]) \in Request
    BY <1>12 DEF Request
  <2>2. requests' \in Seq(Request)
    BY <1>12, <2>1, AppendProperties DEF SendWakeUp
  <2>3. waking' \in [Tasks -> Nat]
    BY <1>12, CounterType DEF SendWakeUp
  <2> QED
    BY <1>12, <2>2, <2>3 DEF SendWakeUp
<1>13. ASSUME NEW id \in FiberId, ForceWakeUp(id) PROVE TypeOK'
  <2>1. WakeUpRequest(id) \in Request
    BY <1>13 DEF Request
  <2>2. requests' \in Seq(Request)
    BY <1>13, <2>1, AppendProperties DEF ForceWakeUp
  <2> QED
    BY <1>13, <2>2 DEF ForceWakeUp
<1>14. CASE UNCHANGED schedVars
  BY <1>14 DEF schedVars
<1> HIDE DEF TypeOK, queueVars, counterVars, threadVars
<1> QED
  BY <1>1, <1>2, <1>3, <1>4, <1>5, <1>6, <1>7, <1>8, <1>9, <1>10, <1>11, <1>12,
     <1>13, <1>14, <1>15, <1>16 DEF UnboundedNext, SchedulerStep, PollReturns

\* The initial state is well-typed.
LEMMA TypeInit == Init => TypeOK
<1> SUFFICES ASSUME Init PROVE TypeOK
  OBVIOUS
<1>1. requests \in Seq(Request) /\ runQueue \in Seq(FiberId)
  BY DEF Init
<1>2. 0 \in FiberId
  BY DEF FiberId
<1> QED
  BY <1>1, <1>2 DEF Init, TypeOK

\* Every reachable state is well-typed.
THEOREM TypeCorrect == Spec => []TypeOK
BY TypeInit, TypeInductive, NextIsUnbounded, PTL DEF Spec
(***************************************************************************)
(* Parks and unparks.                                                      *)
(***************************************************************************)

\* Every step keeps the balance of parks and unparks.
LEMMA ParkBalanceInductive ==
  TypeOK /\ ParkBalance /\ [UnboundedNext]_schedVars => ParkBalance'
<1> SUFFICES ASSUME TypeOK, ParkBalance, [UnboundedNext]_schedVars PROVE ParkBalance'
  OBVIOUS
<1>1. /\ parks \in [Tasks -> Nat] /\ unparks \in [Tasks -> Nat]
      /\ held \in [Tasks -> Nat] /\ fibers \in [FiberId -> Tasks \cup {NoTask}]
      /\ pc = "poll" => current \in Tasks
  BY DEF TypeOK
<1>2. CASE UNCHANGED counterVars
  BY <1>2 DEF ParkBalance, counterVars
<1>3. CASE NextRunnable
  <2>1. PICK n \in DOMAIN runQueue :
          /\ fibers[runQueue[n]] # NoTask
          /\ IF pollerAlive
               THEN ConsumeUnpark(fibers[runQueue[n]])
               ELSE UNCHANGED <<parks, unparks>>
    BY <1>3 DEF NextRunnable, FirstAlive
  <2>2. fibers[runQueue[n]] \in Tasks
    BY <1>1, <2>1 DEF TypeOK
  <2>3. CASE ConsumeUnpark(fibers[runQueue[n]])
    <3> DEFINE t == fibers[runQueue[n]]
    <3>1. held' = held /\ t \in Tasks
      BY <1>3, <2>2 DEF NextRunnable
    <3>2. \/ /\ parks' = [parks EXCEPT ![t] = @ - 1]
             /\ unparks' = [unparks EXCEPT ![t] = @ - 1]
          \/ UNCHANGED <<parks, unparks>>
      BY <2>3 DEF ConsumeUnpark
    <3> HIDE DEF t
    <3> QED
      BY <1>1, <3>1, <3>2 DEF ParkBalance
  <2>4. CASE UNCHANGED <<parks, unparks>>
    BY <1>3, <2>4 DEF ParkBalance, NextRunnable
  <2> QED
    BY <2>1, <2>3, <2>4
<1>4. CASE ParkFiber
  BY <1>1, <1>4 DEF ParkFiber, ParkBalance
<1>5. CASE YieldOnce
  BY <1>1, <1>5 DEF YieldOnce, ParkBalance
<1>6. ASSUME NEW t \in Tasks, DropUnpark(t) PROVE ParkBalance'
  BY <1>1, <1>6 DEF DropUnpark, ParkBalance
<1>7. ASSUME NEW t \in Tasks, SendWakeUp(t) PROVE ParkBalance'
  BY <1>7 DEF SendWakeUp, ParkBalance
<1> QED
  BY <1>2, <1>3, <1>4, <1>5, <1>6, <1>7
  DEF UnboundedNext, SchedulerStep, PollReturns, RunOnce, TryRecv, HandleRequest,
      NothingRunnable, Recv, PollReady, PollNotReady, PollPanics, RegisterFails,
      Spawn, ForceWakeUp, schedVars

\* It holds initially.
LEMMA ParkBalanceInit == Init => ParkBalance
BY DEF Init, ParkBalance

\* The parks and unparks counters of a fiber differ by the Unpark objects alive.
THEOREM ParkBalanceCorrect == Spec => []ParkBalance
BY ParkBalanceInit, TypeCorrect, ParkBalanceInductive, NextIsUnbounded, PTL DEF Spec

(***************************************************************************)
(* The fiber table.                                                        *)
(***************************************************************************)

\* Scheduling flags the fiber as queued.
LEMMA ScheduleFlags ==
  ASSUME NEW id, NEW t, Schedule(id, t)
  PROVE  inRunQueue' = inRunQueue \cup {t}
BY DEF Schedule

\* The two outcomes of handling a request, in terms of the first request.
LEMMA HandleRequestCases ==
  ASSUME TypeOK, HandleRequest
  PROVE  /\ requests # <<>> /\ requests' = Tail(requests)
         /\ 1 \in DOMAIN requests /\ requests[1] \in Request
         /\ \A n \in DOMAIN requests' :
              /\ n + 1 \in DOMAIN requests /\ n + 1 # 1
              /\ requests'[n] = requests[n + 1] /\ requests[n + 1] \in Request
         /\ \A n \in DOMAIN requests \ {1} :
              n - 1 \in DOMAIN requests' /\ requests'[n - 1] = requests[n]
         /\ UNCHANGED <<unspawned, counterVars, current, pollerAlive>>
         /\ \/ \E t \in Tasks, id \in FiberId :
                 /\ requests[1] = SpawnRequest(t)
                 /\ NextFiberId(id)
                 /\ fibers' = [fibers EXCEPT ![id] = t]
                 /\ fiberId' = [fiberId EXCEPT ![t] = id]
                 /\ Schedule(id, t)
            \/ \E id \in FiberId :
                 /\ requests[1] = WakeUpRequest(id)
                 /\ IF fibers[id] # NoTask
                      THEN Schedule(id, fibers[id])
                      ELSE UNCHANGED <<runQueue, inRunQueue>>
                 /\ UNCHANGED <<fibers, fiberId, nextFiberId>>
<1> DEFINE r == Head(requests)
<1>1. requests \in Seq(Request) /\ requests # <<>> /\ requests' = Tail(requests)
  BY DEF TypeOK, HandleRequest
<1>2. DOMAIN requests \subseteq Nat \ {0} /\ DOMAIN requests' \subseteq Nat \ {0}
  BY <1>1, HeadTailProperties, LenProperties
<1>3. \A n \in DOMAIN requests : requests[n] \in Request
  BY <1>1, LenProperties
<1>4. /\ 1 \in DOMAIN requests /\ r = requests[1]
      /\ \A n \in DOMAIN requests' : n + 1 \in DOMAIN requests /\ requests'[n] = requests[n + 1]
      /\ \A n \in DOMAIN requests \ {1} :
           n - 1 \in DOMAIN requests' /\ requests'[n - 1] = requests[n]
  BY <1>1, TailEntries
<1>5. r \in Request
  BY <1>3, <1>4
<1>8. /\ requests # <<>> /\ requests' = Tail(requests)
      /\ 1 \in DOMAIN requests /\ requests[1] \in Request
      /\ \A n \in DOMAIN requests' :
           /\ n + 1 \in DOMAIN requests /\ n + 1 # 1
           /\ requests'[n] = requests[n + 1] /\ requests[n + 1] \in Request
      /\ \A n \in DOMAIN requests \ {1} :
           n - 1 \in DOMAIN requests' /\ requests'[n - 1] = requests[n]
      /\ UNCHANGED <<unspawned, counterVars, current, pollerAlive>>
  BY <1>1, <1>2, <1>3, <1>4 DEF HandleRequest
<1>6. CASE r.op = "Spawn" /\ SpawnFiber(r.task)
  <2>1. r.task \in Tasks /\ r = SpawnRequest(r.task)
    BY <1>5, <1>6, RequestType
  <2>2. PICK id \in FiberId :
          /\ NextFiberId(id)
          /\ fibers' = [fibers EXCEPT ![id] = r.task]
          /\ fiberId' = [fiberId EXCEPT ![r.task] = id]
          /\ Schedule(id, r.task)
    BY <1>6 DEF SpawnFiber
  <2>3. requests[1] = SpawnRequest(r.task)
    BY <1>4, <2>1
  <2> HIDE DEF r
  <2> QED
    BY <1>8, <2>1, <2>2, <2>3
<1>7. CASE /\ r.op = "WakeUp"
           /\ IF fibers[r.id] # NoTask
                THEN Schedule(r.id, fibers[r.id])
                ELSE UNCHANGED <<runQueue, inRunQueue>>
           /\ UNCHANGED <<fibers, fiberId, nextFiberId>>
  <2>1. r.id \in FiberId /\ r = WakeUpRequest(r.id)
    BY <1>5, <1>7, RequestType
  <2> QED
    BY <1>4, <1>7, <1>8, <2>1
<1> QED
  BY <1>6, <1>7 DEF HandleRequest

\* Handling a request keeps the fiber table consistent.
LEMMA HandleRequestTable ==
  ASSUME TypeOK, FiberTableConsistent, HandleRequest,
         pc \in {"request", "recv"}, pc' \in {"task", "request"}
  PROVE  FiberTableConsistent'
<1>1. /\ fibers \in [FiberId -> Tasks \cup {NoTask}] /\ fiberId \in [Tasks -> FiberId]
      /\ inRunQueue \subseteq Tasks
  BY DEF TypeOK
<1>2. /\ 1 \in DOMAIN requests /\ requests[1] \in Request
      /\ \A n \in DOMAIN requests' :
           /\ n + 1 \in DOMAIN requests /\ n + 1 # 1
           /\ requests'[n] = requests[n + 1] /\ requests[n + 1] \in Request
      /\ unspawned' = unspawned /\ current' = NoTask
  BY HandleRequestCases DEF FiberTableConsistent
<1>3. \A m, n \in DOMAIN requests' : m + 1 = n + 1 => m = n
  <2>1. requests' \in Seq(Request)
    BY HeadTailProperties DEF TypeOK, HandleRequest
  <2> QED
    BY <2>1, LenProperties
<1>4. ASSUME NEW t \in Tasks, NEW id \in FiberId,
             requests[1] = SpawnRequest(t), NextFiberId(id), Schedule(id, t),
             fibers' = [fibers EXCEPT ![id] = t], fiberId' = [fiberId EXCEPT ![t] = id]
      PROVE  FiberTableConsistent'
  <2>1. ~ Live(t) /\ t \notin unspawned /\ fibers[id] = NoTask
    BY <1>2, <1>4 DEF FiberTableConsistent, SpawnedOnce, SpawnRequest, NextFiberId
  <2>2. FoundUnderOwnId'
    BY <1>1, <1>2, <1>4, <2>1 DEF FiberTableConsistent, FoundUnderOwnId, Live
  <2>3. \A n \in DOMAIN requests' : requests'[n].op = "Spawn" =>
          requests'[n].task \in Tasks \ {t}
    BY <1>2, <1>4, RequestType DEF FiberTableConsistent, SpawnedOnce, SpawnRequest
  <2>4. SpawnedOnce'
    BY <1>1, <1>2, <1>3, <1>4, <2>3 DEF FiberTableConsistent, SpawnedOnce, Live
  <2>5. (\A u \in inRunQueue : Live(u))'
    BY <1>1, <1>4, <2>1, ScheduleFlags DEF FiberTableConsistent, Live
  <2> QED
    BY <1>2, <2>2, <2>4, <2>5 DEF FiberTableConsistent
<1>5. ASSUME NEW id \in FiberId, UNCHANGED <<fibers, fiberId>>,
             IF fibers[id] # NoTask
               THEN Schedule(id, fibers[id])
               ELSE UNCHANGED <<runQueue, inRunQueue>>
      PROVE  FiberTableConsistent'
  <2>1. FoundUnderOwnId'
    BY <1>2, <1>5 DEF FiberTableConsistent, FoundUnderOwnId
  <2>2. SpawnedOnce'
    BY <1>2, <1>3, <1>5 DEF FiberTableConsistent, SpawnedOnce, Live
  <2>3. (\A u \in inRunQueue : Live(u))'
    BY <1>1, <1>5, ScheduleFlags DEF FiberTableConsistent, FoundUnderOwnId, Live
  <2> QED
    BY <1>2, <2>1, <2>2, <2>3 DEF FiberTableConsistent
<1> QED
  BY <1>4, <1>5, HandleRequestCases

\* Every step keeps the fiber table consistent.
LEMMA FiberTableInductive ==
  TypeOK /\ FiberTableConsistent /\ [UnboundedNext]_schedVars => FiberTableConsistent'
<1> SUFFICES ASSUME TypeOK, FiberTableConsistent, [UnboundedNext]_schedVars
             PROVE  FiberTableConsistent'
  OBVIOUS
<1>1. /\ fibers \in [FiberId -> Tasks \cup {NoTask}] /\ fiberId \in [Tasks -> FiberId]
      /\ inRunQueue \subseteq Tasks /\ requests \in Seq(Request)
      /\ runQueue \in Seq(FiberId)
      /\ pc = "poll" => current \in Tasks
  BY DEF TypeOK
<1>2. \A n \in DOMAIN requests : requests[n] \in Request
  BY <1>1, LenProperties
<1>3. CASE TryRecv
  <2>1. CASE HandleRequest
    BY <1>3, <2>1, HandleRequestTable DEF TryRecv
  <2>2. CASE UNCHANGED <<unspawned, queueVars, counterVars, current, mayBlock, pollerAlive>>
    BY <1>3, <2>2 DEF TryRecv, queueVars, FiberTableConsistent, FoundUnderOwnId,
       SpawnedOnce, Live
  <2> QED
    BY <1>3, <2>1, <2>2 DEF TryRecv
<1>4. CASE Recv
  BY <1>4, HandleRequestTable DEF Recv
<1>5. CASE NextRunnable
  <2>1. PICK n \in DOMAIN runQueue :
          /\ fibers[runQueue[n]] # NoTask
          /\ inRunQueue' = inRunQueue \ {fibers[runQueue[n]]}
          /\ pc' = "poll" => current' = fibers[runQueue[n]]
    BY <1>5 DEF NextRunnable, FirstAlive
  <2>2. runQueue[n] \in FiberId
    BY <1>1, LenProperties
  <2>3. PICK t \in Tasks : t = fibers[runQueue[n]] /\ Live(t)
    BY <1>1, <2>1, <2>2 DEF FiberTableConsistent, FoundUnderOwnId, Live
  <2>4. UNCHANGED <<unspawned, requests, fibers, fiberId>>
    BY <1>5 DEF NextRunnable
  <2>5. FoundUnderOwnId' /\ SpawnedOnce'
    BY <2>4 DEF FiberTableConsistent, FoundUnderOwnId, SpawnedOnce, Live
  <2>6. (\A u \in inRunQueue : Live(u))'
    BY <2>1, <2>4 DEF FiberTableConsistent, Live
  <2>7. pc' = "poll" => current' = t /\ t \notin inRunQueue' /\ fibers'[fiberId'[t]] = t
    BY <2>1, <2>3, <2>4 DEF Live
  <2>8. pc' \in {"poll", "panicked"}
    BY <1>5 DEF NextRunnable
  <2> QED
    BY <2>5, <2>6, <2>7, <2>8 DEF FiberTableConsistent, Live
<1>6. CASE PollReady
  <2>1. /\ Live(current) /\ current \notin inRunQueue /\ current \in Tasks
        /\ UNCHANGED <<unspawned, requests, fiberId, inRunQueue>>
        /\ fibers' = [fibers EXCEPT ![fiberId[current]] = NoTask]
        /\ pc' = "out" /\ current' = NoTask
    BY <1>1, <1>6 DEF PollReady, FiberTableConsistent
  <2>2. FoundUnderOwnId'
    BY <1>1, <2>1 DEF FiberTableConsistent, FoundUnderOwnId
  <2>3. \A n \in DOMAIN requests : requests[n].op = "Spawn" => requests[n].task \in Tasks
    BY <1>2, RequestType
  <2>4. SpawnedOnce'
    BY <1>1, <2>1, <2>3 DEF FiberTableConsistent, SpawnedOnce, Live
  <2>5. (\A u \in inRunQueue : Live(u))'
    BY <1>1, <2>1 DEF FiberTableConsistent, Live
  <2> QED
    BY <2>1, <2>2, <2>4, <2>5 DEF FiberTableConsistent
<1>7. CASE PollNotReady
  <2>1. /\ Live(current) /\ current \in Tasks /\ pc' = "out" /\ current' = NoTask
        /\ UNCHANGED <<unspawned, requests, fibers, fiberId>>
        /\ inRunQueue' \subseteq inRunQueue \cup {current}
    BY <1>1, <1>7, ScheduleFlags DEF PollNotReady, FiberTableConsistent
  <2>2. FoundUnderOwnId' /\ SpawnedOnce'
    BY <2>1 DEF FiberTableConsistent, FoundUnderOwnId, SpawnedOnce, Live
  <2>3. (\A u \in inRunQueue : Live(u))'
    BY <2>1 DEF FiberTableConsistent, Live
  <2> QED
    BY <2>1, <2>2, <2>3 DEF FiberTableConsistent
<1>8. ASSUME NEW t \in Tasks, Spawn(t) PROVE FiberTableConsistent'
  <2>1. /\ t \in unspawned /\ unspawned' = unspawned \ {t}
        /\ UNCHANGED <<fibers, fiberId, inRunQueue, pc, current>>
    BY <1>8 DEF Spawn, threadVars
  <2>2. SpawnRequest(t) \in Request /\ requests' = Append(requests, SpawnRequest(t))
    BY <1>8 DEF Spawn, Request
  <2>3. /\ DOMAIN requests' = DOMAIN requests \cup {Len(requests) + 1}
        /\ \A n \in DOMAIN requests : requests'[n] = requests[n]
        /\ requests'[Len(requests) + 1] = SpawnRequest(t)
    BY <1>1, <2>2, AppendEntries
  <2>4. ~ Live(t)
    BY <1>1, <2>1 DEF FiberTableConsistent, FoundUnderOwnId, Live
  <2>5. \A n \in DOMAIN requests : requests[n] # SpawnRequest(t)
    BY <2>1 DEF FiberTableConsistent, SpawnedOnce, SpawnRequest
  <2>6. SpawnedOnce'
    BY <2>1, <2>3, <2>4, <2>5 DEF FiberTableConsistent, SpawnedOnce, SpawnRequest, Live
  <2>7. FoundUnderOwnId'
    BY <2>1 DEF FiberTableConsistent, FoundUnderOwnId
  <2> QED
    BY <2>1, <2>6, <2>7 DEF FiberTableConsistent, Live
<1>9. ASSUME NEW id \in FiberId, requests' = Append(requests, WakeUpRequest(id)),
             UNCHANGED <<unspawned, fibers, fiberId, inRunQueue, threadVars>>
      PROVE  FiberTableConsistent'
  <2>1. WakeUpRequest(id) \in Request
    BY DEF Request
  <2>2. /\ DOMAIN requests' = DOMAIN requests \cup {Len(requests) + 1}
        /\ \A n \in DOMAIN requests : requests'[n] = requests[n]
        /\ requests'[Len(requests) + 1] = WakeUpRequest(id)
    BY <1>1, <1>9, <2>1, AppendEntries
  <2>3. SpawnedOnce'
    BY <1>9, <2>2 DEF FiberTableConsistent, SpawnedOnce, WakeUpRequest, Live
  <2> QED
    BY <1>9, <2>3 DEF FiberTableConsistent, FoundUnderOwnId, Live, threadVars
<1>10. ASSUME NEW t \in Tasks, SendWakeUp(t) PROVE FiberTableConsistent'
  BY <1>1, <1>9, <1>10 DEF SendWakeUp
<1>11. ASSUME NEW id \in FiberId, ForceWakeUp(id) PROVE FiberTableConsistent'
  BY <1>9, <1>11 DEF ForceWakeUp
<1>12. ASSUME UNCHANGED <<unspawned, requests, fibers, fiberId, inRunQueue>>,
              \/ UNCHANGED <<pc, current>>
              \/ pc' = "panicked"
              \/ pc \in {"out", "task"} /\ pc' # "poll" /\ current' = current
       PROVE  FiberTableConsistent'
  BY <1>12 DEF FiberTableConsistent, FoundUnderOwnId, SpawnedOnce, Live
<1> QED
  BY <1>3, <1>4, <1>5, <1>6, <1>7, <1>8, <1>10, <1>11, <1>12
  DEF UnboundedNext, SchedulerStep, PollReturns, RunOnce, NothingRunnable, PollPanics,
      ParkFiber, YieldOnce, RegisterFails, DropUnpark, schedVars, queueVars, threadVars

\* It holds initially.
LEMMA FiberTableInit == Init => FiberTableConsistent
BY DEF Init, FiberTableConsistent, FoundUnderOwnId, SpawnedOnce

\* The fiber table stays consistent although fiber ids are reused.
THEOREM FiberTableCorrect == Spec => []FiberTableConsistent
BY FiberTableInit, TypeCorrect, FiberTableInductive, NextIsUnbounded, PTL DEF Spec

(***************************************************************************)
(* The run queue.                                                          *)
(***************************************************************************)

\* Scheduling the fiber t under its id keeps the run queue consistent, if the
\* fibers already queued keep their ids.
LEMMA ScheduleQueue ==
  ASSUME TypeOK, RunQueueConsistent, NEW id \in FiberId, NEW t \in Tasks,
         \A n \in DOMAIN runQueue : fibers'[runQueue[n]] = fibers[runQueue[n]],
         \A u \in inRunQueue : fiberId'[u] = fiberId[u],
         fibers'[id] = t, fiberId'[t] = id, Schedule(id, t)
  PROVE  RunQueueConsistent'
<1>1. runQueue \in Seq(FiberId)
  BY DEF TypeOK
<1>2. CASE t \in inRunQueue
  BY <1>2 DEF Schedule, RunQueueConsistent, QueuedIsFlagged, FlaggedIsQueued
<1>3. CASE t \notin inRunQueue
  <2>1. runQueue' = Append(runQueue, id) /\ inRunQueue' = inRunQueue \cup {t}
    BY <1>3 DEF Schedule
  <2>2. /\ DOMAIN runQueue' = DOMAIN runQueue \cup {Len(runQueue) + 1}
        /\ \A n \in DOMAIN runQueue : runQueue'[n] = runQueue[n]
        /\ runQueue'[Len(runQueue) + 1] = id
    BY <1>1, <2>1, AppendEntries
  <2>3. \A n \in DOMAIN runQueue : runQueue[n] # id
    BY <1>3 DEF RunQueueConsistent, QueuedIsFlagged
  <2>4. QueuedIsFlagged'
    BY <2>1, <2>2 DEF RunQueueConsistent, QueuedIsFlagged
  <2>5. FlaggedIsQueued'
    BY <2>1, <2>2 DEF RunQueueConsistent, FlaggedIsQueued
  <2>6. (\A m, n \in DOMAIN runQueue : runQueue[m] = runQueue[n] => m = n)'
    BY <2>2, <2>3 DEF RunQueueConsistent
  <2> QED
    BY <2>4, <2>5, <2>6 DEF RunQueueConsistent
<1> QED
  BY <1>2, <1>3

\* Handling a request keeps the run queue consistent.
LEMMA HandleRequestQueue ==
  ASSUME TypeOK, FiberTableConsistent, RunQueueConsistent, HandleRequest
  PROVE  RunQueueConsistent'
<1>1. /\ fibers \in [FiberId -> Tasks \cup {NoTask}] /\ fiberId \in [Tasks -> FiberId]
      /\ inRunQueue \subseteq Tasks /\ 1 \in DOMAIN requests
  BY HandleRequestCases DEF TypeOK
<1>2. ASSUME NEW t \in Tasks, NEW id \in FiberId,
             requests[1] = SpawnRequest(t), NextFiberId(id), Schedule(id, t),
             fibers' = [fibers EXCEPT ![id] = t], fiberId' = [fiberId EXCEPT ![t] = id]
      PROVE  RunQueueConsistent'
  <2>1. t \notin inRunQueue /\ fibers[id] = NoTask
    BY <1>1, <1>2 DEF FiberTableConsistent, SpawnedOnce, SpawnRequest, NextFiberId
  <2>2. \A n \in DOMAIN runQueue : fibers'[runQueue[n]] = fibers[runQueue[n]]
    BY <1>1, <1>2, <2>1 DEF RunQueueConsistent, QueuedIsFlagged
  <2>3. \A u \in inRunQueue : fiberId'[u] = fiberId[u]
    BY <1>1, <1>2, <2>1
  <2>4. fibers'[id] = t /\ fiberId'[t] = id
    BY <1>1, <1>2
  <2> QED
    BY <1>2, <2>2, <2>3, <2>4, ScheduleQueue
<1>3. ASSUME NEW id \in FiberId, UNCHANGED <<fibers, fiberId>>,
             IF fibers[id] # NoTask
               THEN Schedule(id, fibers[id])
               ELSE UNCHANGED <<runQueue, inRunQueue>>
      PROVE  RunQueueConsistent'
  <2>1. CASE fibers[id] # NoTask
    <3>1. fibers[id] \in Tasks /\ fiberId[fibers[id]] = id
      BY <1>1, <2>1 DEF FiberTableConsistent, FoundUnderOwnId
    <3> QED
      BY <1>3, <2>1, <3>1, ScheduleQueue
  <2>2. CASE fibers[id] = NoTask
    BY <1>3, <2>2 DEF RunQueueConsistent, QueuedIsFlagged, FlaggedIsQueued
  <2> QED
    BY <2>1, <2>2
<1> QED
  BY <1>2, <1>3, HandleRequestCases

\* What next_runnable does: in a consistent queue the first entry is alive.
LEMMA NextRunnableFirst ==
  ASSUME TypeOK, FiberTableConsistent, RunQueueConsistent, NextRunnable
  PROVE  \E t \in Tasks :
           /\ Live(t) /\ t \in inRunQueue /\ inRunQueue' = inRunQueue \ {t}
           /\ runQueue # <<>> /\ runQueue[1] = fiberId[t]
           /\ runQueue' = Tail(runQueue)
           /\ \/ pollerAlive /\ ConsumeUnpark(t) /\ current' = t /\ pc' = "poll"
              \/ pc' = "panicked"
<1>1. /\ runQueue \in Seq(FiberId) /\ fibers \in [FiberId -> Tasks \cup {NoTask}]
  BY DEF TypeOK
<1>2. PICK n \in DOMAIN runQueue :
        /\ FirstAlive(n)
        /\ runQueue' = SubSeq(runQueue, n + 1, Len(runQueue))
        /\ inRunQueue' = inRunQueue \ {fibers[runQueue[n]]}
        /\ \/ /\ pollerAlive /\ ConsumeUnpark(fibers[runQueue[n]])
              /\ current' = fibers[runQueue[n]] /\ pc' = "poll"
           \/ pc' = "panicked"
  BY DEF NextRunnable
<1>3. DOMAIN runQueue = 1 .. Len(runQueue) /\ Len(runQueue) \in Nat
      /\ \A m \in DOMAIN runQueue : runQueue[m] \in FiberId
  BY <1>1, LenProperties
<1>4. n = 1
  <2>1. \A m \in DOMAIN runQueue : fibers[runQueue[m]] # NoTask
    BY DEF RunQueueConsistent, QueuedIsFlagged
  <2>2. \A m \in 1 .. n - 1 : m \in DOMAIN runQueue /\ fibers[runQueue[m]] = NoTask
    BY <1>2, <1>3 DEF FirstAlive
  <2>3. 1 .. n - 1 = {}
    BY <2>1, <2>2
  <2> QED
    BY <1>3, <2>3
<1>5. runQueue # <<>>
  BY <1>3, EmptySeq
<1>6. runQueue' = Tail(runQueue)
  BY <1>1, <1>2, <1>4, <1>5, TailIsSubSeq
<1>7. PICK t \in Tasks : t = fibers[runQueue[n]] /\ Live(t) /\ t \in inRunQueue
                         /\ fiberId[t] = runQueue[n]
  BY <1>1, <1>2, <1>3 DEF FirstAlive, RunQueueConsistent, QueuedIsFlagged, Live
<1> QED
  BY <1>2, <1>4, <1>5, <1>6, <1>7

\* Every step keeps the run queue consistent.
LEMMA RunQueueInductive ==
  TypeOK /\ FiberTableConsistent /\ RunQueueConsistent /\ [UnboundedNext]_schedVars
    => RunQueueConsistent'
<1> SUFFICES ASSUME TypeOK, FiberTableConsistent, RunQueueConsistent, [UnboundedNext]_schedVars
             PROVE  RunQueueConsistent'
  OBVIOUS
<1>1. /\ fibers \in [FiberId -> Tasks \cup {NoTask}] /\ fiberId \in [Tasks -> FiberId]
      /\ inRunQueue \subseteq Tasks /\ runQueue \in Seq(FiberId)
      /\ pc = "poll" => current \in Tasks
  BY DEF TypeOK
<1>2. \A n \in DOMAIN runQueue : runQueue[n] \in FiberId
  BY <1>1, LenProperties
<1>3. ASSUME UNCHANGED <<fibers, fiberId, runQueue, inRunQueue>>
      PROVE  RunQueueConsistent'
  BY <1>3 DEF RunQueueConsistent, QueuedIsFlagged, FlaggedIsQueued
<1>4. CASE TryRecv
  BY <1>3, <1>4, HandleRequestQueue DEF TryRecv, queueVars
<1>5. CASE Recv
  BY <1>5, HandleRequestQueue DEF Recv
<1>6. CASE NextRunnable
  <2>1. PICK t \in Tasks :
          /\ Live(t) /\ t \in inRunQueue /\ inRunQueue' = inRunQueue \ {t}
          /\ runQueue # <<>> /\ runQueue[1] = fiberId[t]
          /\ runQueue' = Tail(runQueue)
    BY <1>6, NextRunnableFirst
  <2>2. UNCHANGED <<fibers, fiberId>>
    BY <1>6 DEF NextRunnable
  <2>3. /\ DOMAIN runQueue \subseteq Nat \ {0} /\ DOMAIN runQueue' \subseteq Nat \ {0}
        /\ 1 \in DOMAIN runQueue
        /\ \A n \in DOMAIN runQueue' :
             n + 1 \in DOMAIN runQueue /\ runQueue'[n] = runQueue[n + 1]
        /\ \A n \in DOMAIN runQueue \ {1} :
             n - 1 \in DOMAIN runQueue' /\ runQueue'[n - 1] = runQueue[n]
    BY <1>1, <2>1, TailEntries, HeadTailProperties, LenProperties
  <2>4. \A n \in DOMAIN runQueue \ {1} : runQueue[n] # fiberId[t]
    BY <2>1, <2>3 DEF RunQueueConsistent
  <2>5. QueuedIsFlagged'
    BY <2>1, <2>2, <2>3, <2>4 DEF RunQueueConsistent, QueuedIsFlagged
  <2>6. \A u \in inRunQueue \ {t} : fiberId[u] # fiberId[t]
    BY <2>1 DEF FiberTableConsistent, Live
  <2>7. FlaggedIsQueued'
    <3> SUFFICES ASSUME NEW u \in inRunQueue \ {t}
                 PROVE  \E n \in DOMAIN runQueue' : runQueue'[n] = fiberId[u]
      BY <2>1, <2>2 DEF FlaggedIsQueued
    <3>1. PICK n \in DOMAIN runQueue : runQueue[n] = fiberId[u]
      BY DEF RunQueueConsistent, FlaggedIsQueued
    <3>2. n # 1
      BY <2>1, <2>6, <3>1
    <3> QED
      BY <2>3, <3>1, <3>2
  <2>8. (\A m, n \in DOMAIN runQueue : runQueue[m] = runQueue[n] => m = n)'
    BY <2>3 DEF RunQueueConsistent
  <2> QED
    BY <2>5, <2>7, <2>8 DEF RunQueueConsistent
<1>7. CASE NothingRunnable
  <2>1. DOMAIN runQueue = {} /\ runQueue' = <<>> /\ inRunQueue' = inRunQueue
    BY <1>7 DEF NothingRunnable, RunQueueConsistent, QueuedIsFlagged
  <2>2. inRunQueue = {} /\ DOMAIN runQueue' = {}
    BY <2>1, EmptySeq, LenProperties DEF RunQueueConsistent, FlaggedIsQueued
  <2> QED
    BY <2>1, <2>2 DEF RunQueueConsistent, QueuedIsFlagged, FlaggedIsQueued
<1>8. CASE PollReady
  <2>1. /\ Live(current) /\ current \notin inRunQueue /\ current \in Tasks
        /\ UNCHANGED <<fiberId, runQueue, inRunQueue>>
        /\ fibers' = [fibers EXCEPT ![fiberId[current]] = NoTask]
    BY <1>1, <1>8 DEF PollReady, FiberTableConsistent
  <2>2. \A n \in DOMAIN runQueue : fibers'[runQueue[n]] = fibers[runQueue[n]]
    BY <1>1, <1>2, <2>1 DEF RunQueueConsistent, QueuedIsFlagged, Live
  <2> QED
    BY <2>1, <2>2 DEF RunQueueConsistent, QueuedIsFlagged, FlaggedIsQueued
<1>9. CASE PollNotReady
  <2>1. /\ Live(current) /\ current \in Tasks /\ fiberId[current] \in FiberId
        /\ UNCHANGED <<fibers, fiberId>>
        /\ \/ Schedule(fiberId[current], current)
           \/ UNCHANGED <<runQueue, inRunQueue>>
    BY <1>1, <1>9 DEF PollNotReady, FiberTableConsistent
  <2>2. CASE Schedule(fiberId[current], current)
    BY <2>1, <2>2, ScheduleQueue DEF Live
  <2> QED
    BY <1>3, <2>1, <2>2
<1> QED
  BY <1>3, <1>4, <1>5, <1>6, <1>7, <1>8, <1>9
  DEF UnboundedNext, SchedulerStep, PollReturns, RunOnce, PollPanics, ParkFiber, YieldOnce,
      RegisterFails, Spawn, DropUnpark, SendWakeUp, ForceWakeUp, schedVars, queueVars

\* It holds initially.
LEMMA RunQueueInit == Init => RunQueueConsistent
BY EmptySeq, LenProperties
DEF Init, RunQueueConsistent, QueuedIsFlagged, FlaggedIsQueued

\* The run queue and the in_run_queue flags always agree.
THEOREM RunQueueCorrect == Spec => []RunQueueConsistent
BY RunQueueInit, TypeCorrect, FiberTableCorrect, RunQueueInductive, NextIsUnbounded, PTL DEF Spec

(***************************************************************************)
(* Wakeups.                                                                *)
(***************************************************************************)

\* Handling a request loses no wakeup.
LEMMA HandleRequestWakeup ==
  ASSUME TypeOK, FiberTableConsistent, NoLostWakeup, HandleRequest,
         pc # "panicked"
  PROVE  NoLostWakeup'
<1>1. /\ fibers \in [FiberId -> Tasks \cup {NoTask}] /\ fiberId \in [Tasks -> FiberId]
      /\ inRunQueue \subseteq Tasks
  BY DEF TypeOK
<1>2. /\ 1 \in DOMAIN requests
      /\ \A n \in DOMAIN requests \ {1} :
           n - 1 \in DOMAIN requests' /\ requests'[n - 1] = requests[n]
      /\ UNCHANGED <<parks, unparks, held, waking, current>>
  BY HandleRequestCases DEF counterVars
<1>3. ASSUME NEW t \in Tasks, NEW id \in FiberId,
             requests[1] = SpawnRequest(t), NextFiberId(id), Schedule(id, t),
             fibers' = [fibers EXCEPT ![id] = t], fiberId' = [fiberId EXCEPT ![t] = id],
             NEW u \in Tasks, Live(u)', IsRunnable(u)'
      PROVE  (current = u \/ WillBeScheduled(u))'
  <2>1. CASE u = t
    BY <1>3, <2>1, ScheduleFlags DEF WillBeScheduled
  <2>2. CASE u # t
    <3>1. fiberId'[u] = fiberId[u] /\ Live(u) /\ IsRunnable(u)
      BY <1>1, <1>2, <1>3, <2>2 DEF Live, IsRunnable
    <3>2. WakeUpPending(u) => WakeUpPending(u)'
      BY <1>2, <1>3, <3>1 DEF WakeUpPending, SpawnRequest, WakeUpRequest
    <3> QED
      BY <1>2, <1>3, <3>1, <3>2, ScheduleFlags DEF NoLostWakeup, WillBeScheduled
  <2> QED
    BY <2>1, <2>2
<1>4. ASSUME NEW id \in FiberId, requests[1] = WakeUpRequest(id),
             UNCHANGED <<fibers, fiberId, nextFiberId>>,
             IF fibers[id] # NoTask
               THEN Schedule(id, fibers[id])
               ELSE UNCHANGED <<runQueue, inRunQueue>>,
             NEW u \in Tasks, Live(u)', IsRunnable(u)'
      PROVE  (current = u \/ WillBeScheduled(u))'
  <2>1. Live(u) /\ IsRunnable(u)
    BY <1>2, <1>4 DEF Live, IsRunnable
  <2>2. CASE id = fiberId[u]
    BY <1>4, <2>1, <2>2, ScheduleFlags DEF Live, WillBeScheduled
  <2>3. CASE id # fiberId[u]
    <3>1. WakeUpPending(u) => WakeUpPending(u)'
      BY <1>2, <1>4, <2>3 DEF WakeUpPending, WakeUpRequest
    <3>2. inRunQueue \subseteq inRunQueue'
      BY <1>4, ScheduleFlags
    <3> QED
      BY <1>2, <2>1, <3>1, <3>2 DEF NoLostWakeup, WillBeScheduled
  <2> QED
    BY <2>2, <2>3
<1> QED
  BY <1>3, <1>4, HandleRequestCases DEF NoLostWakeup

\* Every step keeps the promise that a runnable fiber will be scheduled.
LEMMA WakeupInductive ==
  /\ TypeOK /\ FiberTableConsistent /\ RunQueueConsistent
  /\ NoLostWakeup /\ [UnboundedNext]_schedVars
  => NoLostWakeup'
<1> SUFFICES ASSUME TypeOK, FiberTableConsistent, RunQueueConsistent,
                    NoLostWakeup, [UnboundedNext]_schedVars
             PROVE  NoLostWakeup'
  OBVIOUS
<1>1. /\ fibers \in [FiberId -> Tasks \cup {NoTask}] /\ fiberId \in [Tasks -> FiberId]
      /\ inRunQueue \subseteq Tasks /\ requests \in Seq(Request)
      /\ unparks \in [Tasks -> Nat] /\ parks \in [Tasks -> Nat]
      /\ waking \in [Tasks -> Nat]
      /\ pc = "poll" => current \in Tasks
      /\ pc \in {"out", "request", "task", "poll", "recv", "panicked"}
  BY DEF TypeOK
<1>2. CASE TryRecv
  <2>1. CASE HandleRequest
    BY <1>2, <2>1, HandleRequestWakeup DEF TryRecv
  <2>2. CASE UNCHANGED <<unspawned, queueVars, counterVars, current, mayBlock, pollerAlive>>
    BY <1>2, <2>2 DEF TryRecv, queueVars, counterVars, NoLostWakeup, Live, IsRunnable,
       WillBeScheduled, WakeUpPending
  <2> QED
    BY <1>2, <2>1, <2>2 DEF TryRecv
<1>3. CASE Recv
  BY <1>3, HandleRequestWakeup DEF Recv
<1>4. CASE NextRunnable
  <2>1. PICK t \in Tasks :
          /\ Live(t) /\ t \in inRunQueue /\ inRunQueue' = inRunQueue \ {t}
          /\ \/ pollerAlive /\ ConsumeUnpark(t) /\ current' = t /\ pc' = "poll"
             \/ pc' = "panicked"
    BY <1>4, NextRunnableFirst
  <2>2. /\ UNCHANGED <<requests, fibers, fiberId, waking>>
        /\ pc = "task" /\ current = NoTask
    BY <1>4 DEF NextRunnable, FiberTableConsistent
  <2>3. CASE pc' = "panicked"
    BY <2>3 DEF NoLostWakeup
  <2>4. CASE ConsumeUnpark(t) /\ current' = t
    <3>1. \A u \in Tasks \ {t} : parks'[u] = parks[u] /\ unparks'[u] = unparks[u]
      BY <1>1, <2>4 DEF ConsumeUnpark
    <3> QED
      BY <2>1, <2>2, <2>4, <3>1 DEF NoLostWakeup, Live, IsRunnable, WillBeScheduled,
         WakeUpPending
  <2> QED
    BY <2>1, <2>3, <2>4
<1>5. CASE PollReady
  <2>1. /\ Live(current) /\ current \in Tasks /\ pc = "poll"
        /\ UNCHANGED <<requests, fiberId, inRunQueue, counterVars>>
        /\ fibers' = [fibers EXCEPT ![fiberId[current]] = NoTask]
    BY <1>1, <1>5 DEF PollReady, FiberTableConsistent
  <2>2. \A u \in Tasks : Live(u)' => Live(u) /\ u # current
    BY <1>1, <2>1 DEF Live
  <2> QED
    BY <2>1, <2>2 DEF NoLostWakeup, IsRunnable, WillBeScheduled, WakeUpPending,
       counterVars
<1>6. CASE PollNotReady
  <2>1. /\ pc = "poll" /\ current' = NoTask
        /\ UNCHANGED <<requests, fibers, fiberId, counterVars>>
        /\ IsRunnable(current) => current \in inRunQueue'
        /\ inRunQueue \subseteq inRunQueue'
    BY <1>6, ScheduleFlags DEF PollNotReady
  <2> QED
    BY <2>1 DEF NoLostWakeup, Live, IsRunnable, WillBeScheduled, WakeUpPending,
       counterVars
<1>7. CASE ParkFiber \/ YieldOnce
  <2>1. /\ current \in Tasks /\ pc = "poll"
        /\ UNCHANGED <<queueVars, waking, threadVars>>
        /\ \A u \in Tasks \ {current} : parks'[u] = parks[u] /\ unparks'[u] = unparks[u]
    BY <1>1, <1>7 DEF ParkFiber, YieldOnce
  <2> QED
    BY <2>1 DEF NoLostWakeup, Live, IsRunnable, WillBeScheduled, WakeUpPending,
       queueVars, threadVars
<1>8. ASSUME NEW e \in Request, requests' = Append(requests, e),
             UNCHANGED <<fibers, fiberId, inRunQueue, parks, unparks, pc, current>>,
             \A u \in Tasks : WillBeScheduled(u) => WillBeScheduled(u)'
      PROVE  NoLostWakeup'
  BY <1>8 DEF NoLostWakeup, Live, IsRunnable
<1>9. \A e \in Request : requests' = Append(requests, e) /\ fiberId' = fiberId =>
        \A u \in Tasks : WakeUpPending(u) => WakeUpPending(u)'
  BY <1>1, AppendEntries DEF WakeUpPending
<1>10. ASSUME NEW t \in Tasks, Spawn(t) PROVE NoLostWakeup'
  <2>1. SpawnRequest(t) \in Request
    BY DEF Request
  <2> QED
    BY <1>8, <1>9, <1>10, <2>1 DEF Spawn, counterVars, threadVars, WillBeScheduled
<1>11. ASSUME NEW id \in FiberId, ForceWakeUp(id) PROVE NoLostWakeup'
  <2>1. WakeUpRequest(id) \in Request
    BY DEF Request
  <2> QED
    BY <1>8, <1>9, <1>11, <2>1 DEF ForceWakeUp, counterVars, threadVars, WillBeScheduled
<1>12. ASSUME NEW t \in Tasks, SendWakeUp(t) PROVE NoLostWakeup'
  <2>1. WakeUpRequest(fiberId[t]) \in Request
    BY <1>1 DEF Request
  <2>2. requests' = Append(requests, WakeUpRequest(fiberId[t])) /\ fiberId' = fiberId
    BY <1>12 DEF SendWakeUp
  <2>3. WakeUpPending(t)'
    BY <1>1, <2>1, <2>2, AppendEntries DEF WakeUpPending
  <2>4. \A u \in Tasks \ {t} : waking'[u] = waking[u]
    BY <1>1, <1>12 DEF SendWakeUp
  <2>5. \A u \in Tasks : WillBeScheduled(u) => WillBeScheduled(u)'
    BY <1>9, <1>12, <2>1, <2>2, <2>3, <2>4 DEF SendWakeUp, WillBeScheduled
  <2> QED
    BY <1>8, <1>12, <2>1, <2>2, <2>5 DEF SendWakeUp, threadVars
<1>13. ASSUME NEW t \in Tasks, DropUnpark(t) PROVE NoLostWakeup'
  <2>1. /\ UNCHANGED <<requests, fibers, fiberId, inRunQueue, parks, pc, current>>
        /\ \A u \in Tasks \ {t} : unparks'[u] = unparks[u] /\ waking'[u] = waking[u]
    BY <1>1, <1>13 DEF DropUnpark, queueVars, threadVars
  <2>2. unparks[t] = 0 => waking'[t] > 0
    BY <1>1, <1>13 DEF DropUnpark
  <2>3. unparks[t] # 0 => IsRunnable(t) /\ waking' = waking
    BY <1>1, <1>13 DEF DropUnpark, IsRunnable
  <2> QED
    BY <2>1, <2>2, <2>3 DEF NoLostWakeup, Live, IsRunnable, WillBeScheduled, WakeUpPending
<1>14. ASSUME UNCHANGED <<requests, fibers, fiberId, inRunQueue, counterVars, current>>,
              pc # "panicked" \/ pc' = "panicked"
       PROVE  NoLostWakeup'
  BY <1>14 DEF NoLostWakeup, Live, IsRunnable, WillBeScheduled, WakeUpPending, counterVars
<1>15. CASE PollPanics \/ RegisterFails \/ NothingRunnable
            \/ \E block \in BOOLEAN : RunOnce(block)
  BY <1>14, <1>15 DEF PollPanics, RegisterFails, NothingRunnable, RunOnce, queueVars
<1>16. CASE UNCHANGED schedVars
  BY <1>14, <1>16 DEF schedVars, queueVars, threadVars
<1> QED
  BY <1>2, <1>3, <1>4, <1>5, <1>6, <1>7, <1>10, <1>11, <1>12, <1>13, <1>15, <1>16
  DEF UnboundedNext, SchedulerStep, PollReturns

\* It holds initially.
LEMMA WakeupInit == Init => NoLostWakeup
<1> SUFFICES ASSUME Init, NEW t \in Tasks PROVE ~ Live(t)
  BY DEF NoLostWakeup
<1>1. 0 \in FiberId
  BY DEF FiberId
<1>2. fiberId[t] = 0 /\ fibers[0] = NoTask
  BY <1>1 DEF Init
<1> QED
  BY <1>2 DEF Live

\* A runnable fiber is being polled or will be scheduled, in every reachable
\* state: the race between Unpark::drop and run_once loses no wakeup.
THEOREM NoLostWakeupCorrect == Spec => []NoLostWakeup
BY WakeupInit, TypeCorrect, FiberTableCorrect, RunQueueCorrect, WakeupInductive, NextIsUnbounded, PTL DEF Spec

\* A live fiber that nobody is about to schedule has an Unpark object alive.
THEOREM NoFiberStrandedCorrect == Spec => []NoFiberStranded
<1>1. TypeOK /\ ParkBalance /\ NoLostWakeup => NoFiberStranded
  <2> SUFFICES ASSUME TypeOK, ParkBalance, NoLostWakeup, pc # "panicked",
                      NEW t \in Tasks, Live(t), current # t, ~ WillBeScheduled(t)
               PROVE  held[t] > 0
    BY DEF NoFiberStranded
  <2>1. parks[t] \in Nat /\ unparks[t] \in Nat /\ held[t] \in Nat
    BY DEF TypeOK
  <2>2. parks[t] # 0 /\ unparks[t] = 0
    BY <2>1 DEF NoLostWakeup, IsRunnable
  <2> QED
    BY <2>1, <2>2 DEF ParkBalance
<1> QED
  BY <1>1, TypeCorrect, ParkBalanceCorrect, NoLostWakeupCorrect, PTL

(***************************************************************************)
(* For modules that build on FiberScheduler: all of the above together.    *)
(***************************************************************************)

SchedulerInv ==
  TypeOK /\ ParkBalance /\ FiberTableConsistent /\ RunQueueConsistent /\ NoLostWakeup

\* The initial states satisfy all invariants.
LEMMA SchedulerInvInit == Init => SchedulerInv
BY TypeInit, ParkBalanceInit, FiberTableInit, RunQueueInit, WakeupInit DEF SchedulerInv

\* Every step, bounded by the environment or not, keeps all invariants.
LEMMA SchedulerInvInductive ==
  SchedulerInv /\ [UnboundedNext]_schedVars => SchedulerInv'
BY TypeInductive, ParkBalanceInductive, FiberTableInductive, RunQueueInductive,
   WakeupInductive DEF SchedulerInv


(***************************************************************************)
(* FiberScheduler implements the safety part of FiberLifecycle: every step *)
(* of the scheduler and of the threads around it is a step of some fiber's *)
(* life, or changes nobody's life.  That the lives go on (fairness) is     *)
(* checked by TLC only.                                                    *)
(***************************************************************************)

LifecycleStep == [Lifecycle!Next]_(Lifecycle!lifecycleVars)

\* The status of a task that the step does not concern.
LEMMA StatusKept ==
  ASSUME NEW t \in Tasks,
         pc = "panicked" <=> pc' = "panicked",
         t \in unspawned <=> t \in unspawned',
         SpawnPending(t) <=> SpawnPending(t)',
         Live(t) <=> Live(t)',
         current = t <=> current' = t,
         Live(t) /\ current # t => (WillBeScheduled(t) <=> WillBeScheduled(t)')
  PROVE  Status(t)' = Status(t)
BY DEF Status

\* A step that changes nobody's status and credit.
LEMMA Stutters ==
  ASSUME \A t \in Tasks : Status(t)' = Status(t), unparks' = unparks
  PROVE  LifecycleStep
BY DEF LifecycleStep, Lifecycle!lifecycleVars

\* A step that changes the status of one task.
LEMMA Moves ==
  ASSUME NEW t \in Tasks, NEW from, NEW to,
         Status(t) = from, Status(t)' = to,
         \A u \in Tasks \ {t} : Status(u)' = Status(u)
  PROVE  Lifecycle!Move(t, from, to)
BY DEF Lifecycle!Move

\* A step that leaves the scheduler panicked halts all lives.
LEMMA Halts ==
  ASSUME pc' = "panicked", unparks' = unparks
  PROVE  LifecycleStep
<1>1. Lifecycle!Halt
  BY DEF Lifecycle!Halt, Status
<1> QED
  BY <1>1 DEF LifecycleStep, Lifecycle!Next

\* Appending a request makes it pending, and nothing else.
LEMMA AppendPending ==
  ASSUME TypeOK, NEW r \in Request, requests' = Append(requests, r),
         fiberId' = fiberId, NEW u \in Tasks
  PROVE  /\ SpawnPending(u)' <=> SpawnPending(u) \/ r = SpawnRequest(u)
         /\ WakeUpPending(u)' <=> WakeUpPending(u) \/ r = WakeUpRequest(fiberId[u])
<1>1. /\ DOMAIN requests' = DOMAIN requests \cup {Len(requests) + 1}
      /\ \A n \in DOMAIN requests : requests'[n] = requests[n]
      /\ requests'[Len(requests) + 1] = r
  BY AppendEntries DEF TypeOK
<1> QED
  BY <1>1 DEF SpawnPending, WakeUpPending

\* Taking the request at the head off the channel makes it no longer pending.
LEMMA TakePending ==
  ASSUME TypeOK, HandleRequest, NEW u \in Tasks, fiberId'[u] = fiberId[u]
  PROVE  /\ SpawnPending(u)' \/ requests[1] = SpawnRequest(u) <=> SpawnPending(u)
         /\ WakeUpPending(u)' \/ requests[1] = WakeUpRequest(fiberId[u])
              <=> WakeUpPending(u)
BY HandleRequestCases DEF SpawnPending, WakeUpPending

\* A fiber in the table is neither to be spawned nor about to be.
LEMMA LiveIsSpawned ==
  ASSUME TypeOK, FiberTableConsistent, NEW t \in Tasks, Live(t)
  PROVE  t \notin unspawned /\ ~ SpawnPending(t)
<1>1. fiberId[t] \in FiberId /\ fibers[fiberId[t]] = t /\ t # NoTask
  BY SchedulerAssumption DEF TypeOK, Live
<1>2. t \notin unspawned
  BY <1>1 DEF FiberTableConsistent, FoundUnderOwnId
<1>3. ASSUME NEW n \in DOMAIN requests, requests[n] = SpawnRequest(t) PROVE FALSE
  <2>1. requests[n].op = "Spawn" /\ requests[n].task = t
    BY <1>3 DEF SpawnRequest
  <2> QED
    BY <2>1 DEF FiberTableConsistent, SpawnedOnce
<1> QED
  BY <1>2, <1>3 DEF SpawnPending

\* Handling a request changes nobody's life: the task of a Spawn request was ready
\* and is ready in the run queue, and so is the fiber that a WakeUp request names.
LEMMA HandleRequestStutters ==
  ASSUME SchedulerInv, HandleRequest,
         pc \in {"request", "recv"}, pc' \in {"task", "request"}
  PROVE  LifecycleStep
<1>1. /\ TypeOK /\ FiberTableConsistent /\ current = NoTask
      /\ fibers \in [FiberId -> Tasks \cup {NoTask}] /\ fiberId \in [Tasks -> FiberId]
      /\ NoTask \notin Tasks
  BY SchedulerAssumption DEF SchedulerInv, FiberTableConsistent, TypeOK
<1>2. UNCHANGED <<unspawned, unparks, waking, current>>
  BY <1>1, HandleRequestCases DEF counterVars
<1>3. ASSUME NEW t \in Tasks, NEW id \in FiberId,
             requests[1] = SpawnRequest(t), NextFiberId(id), Schedule(id, t),
             fibers' = [fibers EXCEPT ![id] = t], fiberId' = [fiberId EXCEPT ![t] = id],
             NEW u \in Tasks
      PROVE  Status(u)' = Status(u)
  <2>1. inRunQueue' = inRunQueue \cup {t} /\ fibers[id] = NoTask
    BY <1>3, ScheduleFlags DEF NextFiberId
  <2>2. CASE u = t
    <3>1. SpawnPending(t) /\ t \notin unspawned /\ Live(t)'
      <4>1. 1 \in DOMAIN requests /\ requests[1].op = "Spawn" /\ requests[1].task = t
        BY <1>1, <1>3, HandleRequestCases DEF SpawnRequest
      <4> QED
        BY <1>1, <1>3, <4>1
        DEF SpawnPending, FiberTableConsistent, SpawnedOnce, Live
    <3>2. t \in inRunQueue' /\ current' # t
      BY <1>1, <1>2, <2>1
    <3> QED
      BY <1>2, <2>2, <3>1, <3>2 DEF Status, WillBeScheduled
  <2>3. CASE u # t
    <3>1. fiberId'[u] = fiberId[u] /\ (Live(u)' <=> Live(u))
      BY <1>1, <1>3, <2>1, <2>3 DEF Live
    <3>2. requests[1] # SpawnRequest(u) /\ requests[1] # WakeUpRequest(fiberId[u])
      BY <1>3, <2>3 DEF SpawnRequest, WakeUpRequest
    <3>3. (SpawnPending(u)' <=> SpawnPending(u)) /\ (WakeUpPending(u)' <=> WakeUpPending(u))
      BY <1>1, <3>1, <3>2, TakePending
    <3> QED
      BY <1>2, <2>1, <2>3, <3>1, <3>3, StatusKept DEF WillBeScheduled
  <2> QED
    BY <2>2, <2>3
<1>4. ASSUME NEW id \in FiberId, requests[1] = WakeUpRequest(id),
             UNCHANGED <<fibers, fiberId>>,
             IF fibers[id] # NoTask
               THEN Schedule(id, fibers[id])
               ELSE UNCHANGED <<runQueue, inRunQueue>>,
             NEW u \in Tasks
      PROVE  Status(u)' = Status(u)
  <2>1. (Live(u)' <=> Live(u)) /\ fiberId'[u] = fiberId[u]
    BY <1>4 DEF Live
  <2>2. requests[1] # SpawnRequest(u)
    BY <1>4 DEF SpawnRequest, WakeUpRequest
  <2>3. requests[1] = WakeUpRequest(fiberId[u]) <=> id = fiberId[u]
    BY <1>4 DEF WakeUpRequest
  <2>4. /\ SpawnPending(u)' <=> SpawnPending(u)
        /\ WakeUpPending(u)' \/ id = fiberId[u] <=> WakeUpPending(u)
    BY <1>1, <2>1, <2>2, <2>3, TakePending
  <2>5. ASSUME Live(u) PROVE WillBeScheduled(u) <=> WillBeScheduled(u)'
    <3>1. CASE id = fiberId[u]
      <4>1. u \in inRunQueue'
        BY <1>1, <1>4, <2>5, <3>1, ScheduleFlags DEF Live
      <4> QED
        BY <2>4, <3>1, <4>1 DEF WillBeScheduled
    <3>2. CASE id # fiberId[u]
      <4>1. fibers[id] # u
        BY <1>1, <2>5, <3>2 DEF FiberTableConsistent, FoundUnderOwnId
      <4>2. u \in inRunQueue' <=> u \in inRunQueue
        BY <1>4, <4>1, ScheduleFlags
      <4> QED
        BY <1>2, <2>4, <3>2, <4>2 DEF WillBeScheduled
    <3> QED
      BY <3>1, <3>2
  <2> QED
    BY <1>2, <2>1, <2>4, <2>5, StatusKept
<1> QED
  BY <1>1, <1>2, <1>3, <1>4, HandleRequestCases, Stutters

\* Starting a poll runs a fiber that was ready, or halts them all.
LEMMA NextRunnableRuns ==
  ASSUME SchedulerInv, NextRunnable
  PROVE  LifecycleStep
<1>1. /\ TypeOK /\ FiberTableConsistent /\ ParkBalance /\ RunQueueConsistent
      /\ pc = "task" /\ current = NoTask /\ NoTask \notin Tasks
      /\ parks \in [Tasks -> Nat] /\ unparks \in [Tasks -> Nat] /\ held \in [Tasks -> Nat]
      /\ fibers \in [FiberId -> Tasks \cup {NoTask}] /\ fiberId \in [Tasks -> FiberId]
  BY SchedulerAssumption DEF SchedulerInv, NextRunnable, FiberTableConsistent, TypeOK
<1>2. PICK t \in Tasks :
        /\ Live(t) /\ t \in inRunQueue /\ inRunQueue' = inRunQueue \ {t}
        /\ \/ pollerAlive /\ ConsumeUnpark(t) /\ current' = t /\ pc' = "poll"
           \/ pc' = "panicked"
  BY <1>1, NextRunnableFirst
<1>3. UNCHANGED <<unspawned, requests, fibers, fiberId, waking>>
  BY DEF NextRunnable
<1>4. CASE pc' = "panicked"
  <2>1. unparks' = unparks
    BY <1>4 DEF NextRunnable
  <2> QED
    BY <1>4, <2>1, Halts
<1>5. CASE ConsumeUnpark(t) /\ current' = t /\ pc' = "poll"
  <2>1. t \notin unspawned /\ ~ SpawnPending(t)
    BY <1>1, <1>2, LiveIsSpawned
  <2>2. Status(t) = "ready" /\ Status(t)' = "running"
    BY <1>1, <1>2, <1>3, <1>5, <2>1
    DEF Status, WillBeScheduled, Live, SpawnPending
  <2>3. ASSUME NEW u \in Tasks \ {t} PROVE Status(u)' = Status(u)
    <3>1. /\ (SpawnPending(u)' <=> SpawnPending(u)) /\ (Live(u)' <=> Live(u))
          /\ WillBeScheduled(u)' <=> WillBeScheduled(u)
      BY <1>2, <1>3 DEF WillBeScheduled, WakeUpPending, Live, SpawnPending
    <3>2. pc # "panicked" /\ pc' # "panicked" /\ current # u /\ current' # u
      BY <1>1, <1>5
    <3> QED
      BY <1>3, <3>1, <3>2, StatusKept
  <2>4. Lifecycle!Move(t, "ready", "running")
    BY <2>2, <2>3, Moves
  <2>5. Lifecycle!NobodyRuns
    BY <1>1 DEF Lifecycle!NobodyRuns, Status
  <2>6. unparks' = IF unparks[t] > 0 THEN [unparks EXCEPT ![t] = @ - 1] ELSE unparks
    BY <1>1, <1>5 DEF ConsumeUnpark, ParkBalance
  <2> QED
    BY <2>4, <2>5, <2>6 DEF LifecycleStep, Lifecycle!Next, Lifecycle!Run
<1> QED
  BY <1>2, <1>4, <1>5

\* The end of a poll ends the fiber's life, makes it ready, or suspends it, which it
\* does only when no unpark is left to its credit.
LEMMA PollReturnsEnds ==
  ASSUME SchedulerInv, PollReturns
  PROVE  LifecycleStep
<1>0. PICK t \in Tasks : t = current
  BY DEF SchedulerInv, PollReturns, PollReady, PollNotReady, TypeOK
<1>1. /\ TypeOK /\ FiberTableConsistent /\ NoTask \notin Tasks
      /\ pc = "poll" /\ pc' = "out" /\ current' = NoTask
      /\ t = current /\ Live(t) /\ unparks \in [Tasks -> Nat]
      /\ fibers \in [FiberId -> Tasks \cup {NoTask}] /\ fiberId \in [Tasks -> FiberId]
  BY <1>0, SchedulerAssumption
  DEF SchedulerInv, PollReturns, PollReady, PollNotReady, FiberTableConsistent, TypeOK
<1>2. UNCHANGED <<unspawned, requests, fiberId, unparks, waking>>
  BY DEF PollReturns, PollReady, PollNotReady, counterVars
<1>3. t \notin unspawned /\ ~ SpawnPending(t) /\ ~ SpawnPending(t)'
  BY <1>1, <1>2, LiveIsSpawned DEF SpawnPending
<1>4. Status(t) = "running"
  BY <1>1, <1>3 DEF Status
<1>5. ASSUME NEW u \in Tasks \ {t},
             Live(u)' <=> Live(u), u \in inRunQueue' <=> u \in inRunQueue
      PROVE  Status(u)' = Status(u)
  <2>1. /\ SpawnPending(u)' <=> SpawnPending(u)
        /\ WillBeScheduled(u)' <=> WillBeScheduled(u)
    BY <1>2, <1>5 DEF WillBeScheduled, WakeUpPending, SpawnPending
  <2>2. pc # "panicked" /\ pc' # "panicked" /\ current # u /\ current' # u
    BY <1>1
  <2> QED
    BY <1>2, <1>5, <2>1, <2>2, StatusKept
<1>6. CASE PollReady
  <2>1. fibers' = [fibers EXCEPT ![fiberId[t]] = NoTask] /\ inRunQueue' = inRunQueue
    BY <1>1, <1>6 DEF PollReady
  <2>2. ~ Live(t)'
    BY <1>1, <1>2, <2>1 DEF Live
  <2>3. Status(t)' = "done"
    BY <1>1, <1>2, <1>3, <2>2 DEF Status
  <2>4. ASSUME NEW u \in Tasks \ {t} PROVE Status(u)' = Status(u)
    <3>1. Live(u)' <=> Live(u)
      BY <1>1, <1>2, <2>1 DEF Live
    <3> QED
      BY <1>5, <2>1, <3>1
  <2>5. Lifecycle!Move(t, "running", "done")
    BY <1>1, <1>4, <2>3, <2>4, Moves
  <2> QED
    BY <1>1, <1>2, <2>5
    DEF LifecycleStep, Lifecycle!Next, Lifecycle!PollEnds, Lifecycle!Finish
<1>7. CASE PollNotReady
  <2>1. /\ fibers' = fibers
        /\ inRunQueue' = inRunQueue \cup (IF IsRunnable(t) THEN {t} ELSE {})
    BY <1>1, <1>7, ScheduleFlags DEF PollNotReady
  <2>2. ASSUME NEW u \in Tasks PROVE Live(u)' <=> Live(u)
    BY <1>2, <2>1 DEF Live
  <2>3. ASSUME NEW u \in Tasks \ {t} PROVE Status(u)' = Status(u)
    BY <1>5, <2>1, <2>2
  <2>4. Status(t)' = IF WillBeScheduled(t)' THEN "ready" ELSE "waiting"
    BY <1>1, <1>2, <1>3, <2>2 DEF Status
  <2>5. CASE WillBeScheduled(t)'
    <3>1. Lifecycle!Move(t, "running", "ready")
      BY <1>1, <1>4, <2>3, <2>4, <2>5, Moves
    <3> QED
      BY <1>1, <1>2, <3>1
      DEF LifecycleStep, Lifecycle!Next, Lifecycle!PollEnds, Lifecycle!GoOn
  <2>6. CASE ~ WillBeScheduled(t)'
    <3>1. Lifecycle!Move(t, "running", "waiting")
      BY <1>1, <1>4, <2>3, <2>4, <2>6, Moves
    <3>2. ~ IsRunnable(t)
      BY <2>1, <2>6 DEF WillBeScheduled
    <3>3. unparks[t] = 0
      BY <1>1, <3>2 DEF IsRunnable
    <3> QED
      BY <1>1, <1>2, <3>1, <3>3
      DEF LifecycleStep, Lifecycle!Next, Lifecycle!PollEnds, Lifecycle!Suspend
  <2> QED
    BY <2>5, <2>6
<1> QED
  BY <1>6, <1>7 DEF PollReturns

\* A new request to wake a fiber up makes it ready if it was waiting; at most one
\* fiber in the table has the id that the request names.
LEMMA WakeUpNudges ==
  ASSUME SchedulerInv, NEW id \in FiberId,
         requests' = Append(requests, WakeUpRequest(id)),
         UNCHANGED <<unspawned, fibers, fiberId, inRunQueue, unparks, pc, current>>,
         \A u \in Tasks :
           \/ waking'[u] = waking[u]
           \/ fiberId[u] = id /\ waking[u] > 0
  PROVE  LifecycleStep
<1>1. /\ TypeOK /\ FiberTableConsistent /\ NoTask \notin Tasks
      /\ fibers \in [FiberId -> Tasks \cup {NoTask}] /\ fiberId \in [Tasks -> FiberId]
  BY SchedulerAssumption DEF SchedulerInv, TypeOK
<1>2. WakeUpRequest(id) \in Request
  BY DEF Request
<1>3. ASSUME NEW u \in Tasks
      PROVE  /\ SpawnPending(u)' <=> SpawnPending(u)
             /\ WakeUpPending(u)' <=> WakeUpPending(u) \/ id = fiberId[u]
             /\ Live(u)' <=> Live(u)
  <2>1. WakeUpRequest(id) # SpawnRequest(u)
        /\ (WakeUpRequest(id) = WakeUpRequest(fiberId[u]) <=> id = fiberId[u])
    BY DEF WakeUpRequest, SpawnRequest
  <2> QED
    BY <1>1, <1>2, <2>1, AppendPending DEF Live
<1>4. ASSUME NEW u \in Tasks, fiberId[u] # id PROVE Status(u)' = Status(u)
  BY <1>3, <1>4, StatusKept DEF WillBeScheduled
<1>5. ASSUME NEW u \in Tasks, Status(u)' # Status(u)
      PROVE  Status(u) = "waiting" /\ Status(u)' = "ready" /\ fibers[id] = u
  <2>1. fiberId[u] = id
    BY <1>4, <1>5
  <2>2. WillBeScheduled(u)'
    BY <1>3, <2>1 DEF WillBeScheduled
  <2>3. pc # "panicked" /\ Live(u) /\ current # u /\ ~ WillBeScheduled(u)
    BY <1>3, <1>5, <2>2, StatusKept DEF Status
  <2>4. u \notin unspawned /\ ~ SpawnPending(u)
    BY <1>3, <1>5, <2>2 DEF Status
  <2> QED
    BY <1>3, <2>1, <2>2, <2>3, <2>4 DEF Status, Live
<1>6. CASE \A u \in Tasks : Status(u)' = Status(u)
  BY <1>6, Stutters
<1>7. ASSUME NEW u \in Tasks, Status(u)' # Status(u) PROVE LifecycleStep
  <2>1. Lifecycle!Move(u, "waiting", "ready")
    BY <1>5, <1>7, Moves
  <2> QED
    BY <2>1 DEF LifecycleStep, Lifecycle!Next, Lifecycle!Nudge
<1> QED
  BY <1>6, <1>7

\* The drop of an Unpark makes a waiting fiber ready at once: its counter is zero,
\* so that the thread is now about to send the request.
LEMMA DropUnparkUnparks ==
  ASSUME SchedulerInv, NEW t \in Tasks, DropUnpark(t)
  PROVE  LifecycleStep
<1>1. /\ unparks \in [Tasks -> Nat] /\ waking \in [Tasks -> Nat]
      /\ NoLostWakeup
  BY DEF SchedulerInv, TypeOK
<1>2. /\ UNCHANGED <<unspawned, requests, fibers, fiberId, inRunQueue, pc, current>>
      /\ unparks' = [unparks EXCEPT ![t] = @ + 1]
      /\ waking' = IF unparks[t] = 0 THEN [waking EXCEPT ![t] = @ + 1] ELSE waking
  BY DEF DropUnpark, queueVars, threadVars
<1>3. ASSUME NEW u \in Tasks, u # t \/ waking' = waking \/ waking[t] > 0
      PROVE  Status(u)' = Status(u)
  <2>1. waking'[u] > 0 <=> waking[u] > 0
    BY <1>1, <1>2, <1>3
  <2> QED
    BY <1>2, <2>1, StatusKept DEF Live, WillBeScheduled, WakeUpPending, SpawnPending
<1>4. Status(t)' = IF Status(t) = "waiting" THEN "ready" ELSE Status(t)
  <2>1. CASE Status(t) = "waiting"
    <3>1. /\ pc # "panicked" /\ t \notin unspawned /\ ~ SpawnPending(t)
          /\ Live(t) /\ current # t /\ ~ WillBeScheduled(t)
      BY <2>1 DEF Status
    <3>2. unparks[t] = 0
      BY <1>1, <3>1 DEF NoLostWakeup, IsRunnable
    <3>3. waking'[t] > 0
      BY <1>1, <1>2, <3>2
    <3> QED
      BY <1>2, <2>1, <3>1, <3>3 DEF Status, WillBeScheduled, Live, SpawnPending
  <2>2. CASE Status(t) # "waiting"
    <3>1. WillBeScheduled(t) => WillBeScheduled(t)'
      BY <1>1, <1>2 DEF WillBeScheduled, WakeUpPending
    <3> QED
      BY <1>2, <2>2, <3>1 DEF Status, Live, SpawnPending
  <2> QED
    BY <2>1, <2>2
<1>5. Lifecycle!Unpark(t)
  BY <1>2, <1>3, <1>4 DEF Lifecycle!Unpark
<1> QED
  BY <1>5 DEF LifecycleStep, Lifecycle!Next

\* Every step of the specification is a step of a fiber's life, or a stutter.
LEMMA StepsAreLifecycleSteps ==
  SchedulerInv /\ [UnboundedNext]_schedVars => LifecycleStep
<1> SUFFICES ASSUME SchedulerInv, [UnboundedNext]_schedVars PROVE LifecycleStep
  OBVIOUS
<1>1. TypeOK /\ unparks \in [Tasks -> Nat] /\ (pc = "poll" => current \in Tasks)
      /\ fiberId \in [Tasks -> FiberId]
  BY DEF SchedulerInv, TypeOK
<1>2. ASSUME UNCHANGED <<unspawned, requests, fibers, fiberId, inRunQueue, waking, current>>,
             pc' = "panicked" <=> pc = "panicked", NEW u \in Tasks
      PROVE  Status(u)' = Status(u)
  BY <1>2, StatusKept DEF Live, WillBeScheduled, WakeUpPending, SpawnPending
<1>3. CASE (\E block \in BOOLEAN : RunOnce(block)) \/ NothingRunnable \/ RegisterFails
             \/ UNCHANGED schedVars
  <2>1. /\ UNCHANGED <<unspawned, requests, fibers, fiberId, inRunQueue, waking, current>>
        /\ unparks' = unparks /\ (pc' = "panicked" <=> pc = "panicked")
    BY <1>3
    DEF RunOnce, NothingRunnable, RegisterFails, schedVars, queueVars, counterVars,
        threadVars
  <2> QED
    BY <1>2, <2>1, Stutters
<1>4. CASE TryRecv \/ Recv
  <2>1. CASE HandleRequest
    BY <1>4, <2>1, HandleRequestStutters DEF TryRecv, Recv
  <2>2. CASE UNCHANGED <<unspawned, queueVars, counterVars, current, mayBlock, pollerAlive>>
             /\ pc = "request" /\ pc' = "task"
    BY <1>2, <2>2, Stutters DEF queueVars, counterVars
  <2> QED
    BY <1>4, <2>1, <2>2 DEF TryRecv, Recv
<1>5. CASE NextRunnable
  BY <1>5, NextRunnableRuns
<1>6. CASE PollReturns
  BY <1>6, PollReturnsEnds
<1>7. CASE PollPanics
  BY <1>7, Halts DEF PollPanics, counterVars
<1>8. CASE ParkFiber
  BY <1>2, <1>8, Stutters DEF ParkFiber, queueVars, threadVars
<1>9. CASE YieldOnce
  <2>1. \A u \in Tasks : Status(u)' = Status(u)
    BY <1>2, <1>9 DEF YieldOnce, queueVars, threadVars
  <2>2. Status(current) # "waiting" /\ current \in Tasks
    BY <1>1, <1>9 DEF YieldOnce, Status
  <2>3. Lifecycle!Unpark(current)
    BY <1>9, <2>1, <2>2 DEF Lifecycle!Unpark, YieldOnce
  <2> QED
    BY <2>2, <2>3 DEF LifecycleStep, Lifecycle!Next
<1>10. ASSUME NEW t \in Tasks, Spawn(t) PROVE LifecycleStep
  <2>1. /\ UNCHANGED <<fibers, fiberId, inRunQueue, waking, current, unparks, pc>>
        /\ t \in unspawned /\ unspawned' = unspawned \ {t}
        /\ requests' = Append(requests, SpawnRequest(t)) /\ SpawnRequest(t) \in Request
    BY <1>10 DEF Spawn, counterVars, threadVars, Request
  <2>2. ASSUME NEW u \in Tasks
        PROVE  /\ SpawnPending(u)' <=> SpawnPending(u) \/ u = t
               /\ WakeUpPending(u)' <=> WakeUpPending(u)
    <3>1. /\ SpawnRequest(t) = SpawnRequest(u) <=> u = t
          /\ SpawnRequest(t) # WakeUpRequest(fiberId[u])
      BY DEF SpawnRequest, WakeUpRequest
    <3> QED
      BY <1>1, <2>1, <3>1, AppendPending
  <2>3. ASSUME NEW u \in Tasks \ {t} PROVE Status(u)' = Status(u)
    BY <2>1, <2>2, StatusKept DEF Live, WillBeScheduled
  <2>4. CASE pc = "panicked"
    BY <2>1, <2>4, Halts
  <2>5. CASE pc # "panicked"
    <3>1. Status(t) = "new" /\ Status(t)' = "ready"
      BY <2>1, <2>2, <2>5 DEF Status
    <3>2. Lifecycle!Move(t, "new", "ready")
      BY <2>3, <3>1, Moves
    <3> QED
      BY <2>1, <3>2 DEF LifecycleStep, Lifecycle!Next, Lifecycle!Spawn
  <2> QED
    BY <2>4, <2>5
<1>11. ASSUME NEW t \in Tasks, DropUnpark(t) PROVE LifecycleStep
  BY <1>11, DropUnparkUnparks
<1>12. ASSUME NEW t \in Tasks, SendWakeUp(t) PROVE LifecycleStep
  <2>1. \A u \in Tasks : waking'[u] = waking[u] \/ (fiberId[u] = fiberId[t] /\ waking[u] > 0)
    BY <1>1, <1>12 DEF SendWakeUp, TypeOK
  <2>2. /\ requests' = Append(requests, WakeUpRequest(fiberId[t])) /\ fiberId[t] \in FiberId
        /\ UNCHANGED <<unspawned, fibers, fiberId, inRunQueue, unparks, pc, current>>
    BY <1>1, <1>12 DEF SendWakeUp, threadVars
  <2> QED
    BY <2>1, <2>2, WakeUpNudges
<1>13. ASSUME NEW id \in FiberId, ForceWakeUp(id) PROVE LifecycleStep
  BY <1>13, WakeUpNudges DEF ForceWakeUp, counterVars, threadVars
<1> QED
  BY <1>3, <1>4, <1>5, <1>6, <1>7, <1>8, <1>9, <1>10, <1>11, <1>12, <1>13
  DEF UnboundedNext, SchedulerStep

\* The initial states are initial states of the lives.
LEMMA InitIsLifecycleInit == Init => Lifecycle!Init
<1> SUFFICES ASSUME Init PROVE Lifecycle!Init
  OBVIOUS
<1>1. \A t \in Tasks : Status(t) = "new"
  BY DEF Init, Status
<1> QED
  BY <1>1 DEF Init, Lifecycle!Init

\* The invariants hold in every reachable state.
LEMMA SchedulerInvCorrect == Spec => []SchedulerInv
BY SchedulerInvInit, SchedulerInvInductive, NextIsUnbounded, PTL DEF Spec

\* The scheduler, its channel and its counters implement the life cycle of fibers:
\* an unpark takes effect atomically, and no fiber with an unpark to its credit is
\* ever suspended.
THEOREM LifecycleImplemented ==
  Spec => Lifecycle!Init /\ [][Lifecycle!Next]_(Lifecycle!lifecycleVars)
<1>1. SchedulerInv /\ [Next]_schedVars => [Lifecycle!Next]_(Lifecycle!lifecycleVars)
  BY StepsAreLifecycleSteps, NextIsUnbounded DEF LifecycleStep
<1> QED
  BY <1>1, InitIsLifecycleInit, SchedulerInvCorrect, PTL DEF Spec
=============================================================================
