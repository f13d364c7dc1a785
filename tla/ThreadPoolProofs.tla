-------------------------- MODULE ThreadPoolProofs --------------------------
(***************************************************************************)
(* TLAPS proofs about ThreadPool: its types, and that tasks are spread     *)
(* evenly, for any number of threads and any value at which the counters   *)
(* wrap around.                                                            *)
(***************************************************************************)
EXTENDS ThreadPool, DataLemmas, TLAPS

USE PoolAssumption

(***************************************************************************)
(* Counting modulo a number.                                               *)
(***************************************************************************)

\* A number has one quotient and one remainder.
LEMMA DivisionUnique ==
  ASSUME NEW n \in Nat \ {0}, NEW p \in Nat, NEW q \in Nat,
         NEW r \in 0 .. n - 1, NEW s \in 0 .. n - 1, p * n + r = q * n + s
  PROVE  p = q /\ r = s
<1>1. ASSUME NEW a \in Nat, NEW b \in Nat, a < b PROVE a * n + n <= b * n
  <2>1. b - a - 1 \in Nat /\ n \in Nat
    BY <1>1
  <2>2. (b - a - 1) * n \in Nat
    BY <2>1
  <2>3. (b - a - 1) * n = b * n - a * n - n
    BY <2>1
  <2> QED
    BY <2>2, <2>3
<1>2. p * n \in Nat /\ q * n \in Nat
  OBVIOUS
<1>3. ~ (p < q)
  BY <1>1, <1>2
<1>4. ~ (q < p)
  BY <1>1, <1>2
<1>5. p = q
  BY <1>3, <1>4
<1> QED
  BY <1>2, <1>5

\* One more: the remainder goes up by one, or to zero when it wraps around.
LEMMA CountOn ==
  ASSUME NEW x \in Nat, NEW n \in Nat \ {0}
  PROVE  /\ (x % n) + 1 < n => (x + 1) % n = (x % n) + 1 /\ (x + 1) \div n = x \div n
         /\ (x % n) + 1 = n => (x + 1) % n = 0 /\ (x + 1) \div n = (x \div n) + 1
         /\ x % n \in 0 .. n - 1 /\ x \div n \in Nat
<1>1. ASSUME NEW y \in Nat
      PROVE  y % n \in 0 .. n - 1 /\ y \div n \in Nat /\ y = (y \div n) * n + (y % n)
  OBVIOUS
<1>2. /\ x % n \in 0 .. n - 1 /\ x \div n \in Nat /\ x = (x \div n) * n + (x % n)
      /\ (x + 1) % n \in 0 .. n - 1 /\ (x + 1) \div n \in Nat
      /\ x + 1 = ((x + 1) \div n) * n + ((x + 1) % n)
  BY <1>1
<1> DEFINE p == x \div n
           r == x % n
           q == (x + 1) \div n
           s == (x + 1) % n
<1> HIDE DEF p, q, r, s
<1>3. /\ r \in 0 .. n - 1 /\ p \in Nat /\ x = p * n + r
      /\ s \in 0 .. n - 1 /\ q \in Nat /\ x + 1 = q * n + s
  BY <1>2 DEF p, q, r, s
<1>4. p * n \in Nat
  BY <1>3
<1>5. CASE r + 1 < n
  <2>1. r + 1 \in 0 .. n - 1 /\ p * n + (r + 1) = q * n + s
    BY <1>3, <1>4, <1>5
  <2>2. p = q /\ r + 1 = s
    BY <1>3, <2>1, DivisionUnique
  <2> QED
    BY <1>2, <1>5, <2>2 DEF p, q, r, s
<1>6. CASE r + 1 = n
  <2>1. (p + 1) * n = p * n + n
    BY <1>3
  <2>2. (p + 1) * n + 0 = q * n + s /\ 0 \in 0 .. n - 1 /\ p + 1 \in Nat
    BY <1>3, <1>4, <1>6, <2>1
  <2>3. p + 1 = q /\ 0 = s
    BY <1>3, <2>2, DivisionUnique
  <2> QED
    BY <1>2, <1>6, <2>3 DEF p, q, r, s
<1> QED
  BY <1>2, <1>3, <1>5, <1>6 DEF p, q, r, s

\* A number below the modulus is its own remainder.
LEMMA SmallModulo ==
  ASSUME NEW n \in Nat \ {0}, NEW x \in Nat, x < n
  PROVE  x % n = x
<1>1. x % n \in 0 .. n - 1 /\ x \div n \in Nat /\ x = (x \div n) * n + (x % n)
  OBVIOUS
<1>2. 0 \in Nat /\ x \in 0 .. n - 1 /\ 0 * n + x = x
  OBVIOUS
<1> QED
  BY <1>1, <1>2, DivisionUnique

\* The modulus itself has none.
LEMMA SelfModulo ==
  ASSUME NEW n \in Nat \ {0}, NEW x \in Nat, x = n
  PROVE  x % n = 0
<1>1. x % n \in 0 .. n - 1 /\ x \div n \in Nat /\ x = (x \div n) * n + (x % n)
  OBVIOUS
<1>2. 1 \in Nat /\ 0 \in 0 .. n - 1 /\ 1 * n + 0 = x
  OBVIOUS
<1> QED
  BY <1>1, <1>2, DivisionUnique

\* Tasks spawned so far stay tasks spawned so far.
LEMMA MoreTasks ==
  ASSUME NEW m \in Nat, NEW s \in Seq(1 .. m)
  PROVE  s \in Seq(1 .. m + 1)
<1>1. 1 .. m \subseteq 1 .. m + 1
  OBVIOUS
<1>2. Len(s) \in Nat /\ s \in [1 .. Len(s) -> 1 .. m]
  BY LenProperties
<1>3. s \in [1 .. Len(s) -> 1 .. m + 1]
  BY <1>1, <1>2
<1> QED
  BY <1>2, <1>3

(***************************************************************************)
(* Types.  That only spawned tasks are started needs that only spawned     *)
(* tasks are queued.                                                       *)
(***************************************************************************)

PoolInv ==
  /\ PoolTypeOK
  /\ spawnQueue \in Seq(1 .. spawned)
  /\ inbox \in [Thread -> Seq(1 .. spawned)]

\* The two facts about queues say more than the types do.
LEMMA QueuesTyped ==
  ASSUME NEW m \in 0 .. MaxSpawns, NEW s \in Seq(1 .. m)
  PROVE  s \in Seq(Task)
<1>1. 1 .. m \subseteq Task
  BY DEF Task
<1>2. Len(s) \in Nat /\ s \in [1 .. Len(s) -> 1 .. m]
  BY LenProperties
<1>3. s \in [1 .. Len(s) -> Task]
  BY <1>1, <1>2
<1> QED
  BY <1>2, <1>3

\* So the types follow from what the variables hold, the queues' types from
\* what is in them.
LEMMA PoolInvNext ==
  ASSUME spawned' \in 0 .. MaxSpawns, started' \subseteq 1 .. spawned',
         spawnQueue' \in Seq(1 .. spawned'), inbox' \in [Thread -> Seq(1 .. spawned')],
         round' \in 0 .. Wrap - 1, steps' \in 0 .. Wrap - 1,
         executor' \in {"spawn", "check", "dropped"}, reported' \subseteq Thread,
         assigned' \in [Thread -> Nat],
         scheduler' \in [Thread -> {"link", "run", "aborted", "exited"}],
         poller' \in [Thread -> {"run", "aborted", "exited"}]
  PROVE  PoolInv'
<1>1. spawnQueue' \in Seq(Task)
  BY QueuesTyped
<1>2. \A i \in Thread : inbox'[i] \in Seq(Task)
  BY QueuesTyped
<1>3. inbox' \in [Thread -> Seq(Task)]
  BY <1>2
<1> QED
  BY <1>1, <1>3 DEF PoolInv, PoolTypeOK

\* Every step keeps the types.
LEMMA PoolInvInductive == ASSUME PoolInv, [PoolNext]_poolVars PROVE PoolInv'
<1>1. /\ spawned \in 0 .. MaxSpawns /\ started \subseteq 1 .. spawned
      /\ spawnQueue \in Seq(1 .. spawned) /\ inbox \in [Thread -> Seq(1 .. spawned)]
      /\ round \in 0 .. Wrap - 1 /\ steps \in 0 .. Wrap - 1
      /\ executor \in {"spawn", "check", "dropped"} /\ reported \subseteq Thread
      /\ assigned \in [Thread -> Nat]
      /\ scheduler \in [Thread -> {"link", "run", "aborted", "exited"}]
      /\ poller \in [Thread -> {"run", "aborted", "exited"}]
  BY DEF PoolInv, PoolTypeOK
<1>2. round % Size \in Thread /\ ((steps + 1) % Wrap) % Size \in Thread
      /\ (round + 1) % Wrap \in 0 .. Wrap - 1 /\ (steps + 1) % Wrap \in 0 .. Wrap - 1
  <2>1. round \in Nat /\ steps \in Nat /\ round + 1 \in Nat /\ steps + 1 \in Nat
    BY <1>1
  <2>2. (round + 1) % Wrap \in 0 .. Wrap - 1 /\ (steps + 1) % Wrap \in 0 .. Wrap - 1
    BY <2>1, WrapType
  <2>3. (steps + 1) % Wrap \in Nat
    BY <2>2
  <2> QED
    BY <2>1, <2>2, <2>3, WrapType DEF Thread
<1>3. CASE UNCHANGED poolVars
  BY <1>1, <1>3, PoolInvNext DEF poolVars, taskVars, executorVars
<1>4. CASE SpawnBoxed
  <2>1. spawned' = spawned + 1 /\ spawned' \in 0 .. MaxSpawns /\ spawned \in Nat
        /\ spawned' \in 1 .. spawned'
    BY <1>1, <1>4 DEF SpawnBoxed
  <2>2. spawnQueue \in Seq(1 .. spawned')
    BY <1>1, <2>1, MoreTasks
  <2>3. spawnQueue' \in Seq(1 .. spawned')
    <3>1. Append(spawnQueue, spawned') \in Seq(1 .. spawned')
      BY <2>1, <2>2, AppendProperties
    <3> QED
      BY <1>4, <2>2, <3>1 DEF SpawnBoxed
  <2>4. \A i \in Thread : inbox[i] \in Seq(1 .. spawned')
    BY <1>1, <2>1, MoreTasks
  <2>5. inbox' \in [Thread -> Seq(1 .. spawned')]
    BY <1>1, <1>4, <2>4 DEF SpawnBoxed
  <2>6. started' \subseteq 1 .. spawned'
    BY <1>1, <1>4, <2>1 DEF SpawnBoxed
  <2> QED
    BY <1>1, <1>4, <2>1, <2>3, <2>5, <2>6, PoolInvNext DEF SpawnBoxed, executorVars
<1>5. CASE RunOnceSpawn
  <2> DEFINE i == round % Size
  <2>1. UNCHANGED <<spawned, started, steps, reported, scheduler, poller>>
        /\ executor' = "check"
    BY <1>5 DEF RunOnceSpawn, taskVars
  <2>2. CASE spawnQueue = <<>>
    BY <1>1, <1>5, <2>1, <2>2, PoolInvNext DEF RunOnceSpawn
  <2>3. CASE spawnQueue # <<>>
    <3>1. /\ spawnQueue' = Tail(spawnQueue)
          /\ assigned' = [assigned EXCEPT ![i] = @ + 1]
          /\ inbox' \in {inbox, [inbox EXCEPT ![i] = Append(@, Head(spawnQueue))]}
          /\ round' = (round + 1) % Wrap
      BY <1>5, <2>3 DEF RunOnceSpawn
    <3>2. Head(spawnQueue) \in 1 .. spawned /\ Tail(spawnQueue) \in Seq(1 .. spawned)
      BY <1>1, <2>3, HeadTailProperties
    <3>3. inbox[i] \in Seq(1 .. spawned)
      BY <1>1, <1>2
    <3>4. Append(inbox[i], Head(spawnQueue)) \in Seq(1 .. spawned)
      BY <3>2, <3>3, AppendProperties
    <3> HIDE DEF i
    <3>5. inbox' \in [Thread -> Seq(1 .. spawned)]
      BY <1>1, <3>1, <3>4
    <3>6. assigned' \in [Thread -> Nat]
      <4>1. \A n \in Thread : assigned[n] \in Nat /\ assigned[n] + 1 \in Nat
        BY <1>1
      <4> QED
        BY <1>1, <3>1, <4>1
    <3> QED
      BY <1>1, <1>2, <2>1, <3>1, <3>2, <3>5, <3>6, PoolInvNext
  <2> QED
    BY <2>2, <2>3
<1>6. CASE RunOnceCheck
  <2>1. reported' \subseteq Thread
    BY <1>1, <1>2, <1>6 DEF RunOnceCheck
  <2> QED
    BY <1>1, <1>2, <1>6, <2>1, PoolInvNext DEF RunOnceCheck, taskVars
<1>7. CASE DropExecutor
  BY <1>1, <1>7, PoolInvNext DEF DropExecutor, taskVars
<1>8. ASSUME NEW i \in Thread, PollSchedulerLink(i) PROVE PoolInv'
  <2>1. inbox' \in [Thread -> Seq(1 .. spawned)]
    <3>1. inbox' = inbox \/ inbox' = [inbox EXCEPT ![i] = <<>>]
      BY <1>8 DEF PollSchedulerLink
    <3> QED
      BY <1>1, <3>1, EmptySeq
  <2>2. scheduler' \in [Thread -> {"link", "run", "aborted", "exited"}]
    BY <1>1, <1>8 DEF PollSchedulerLink
  <2> QED
    BY <1>1, <1>8, <2>1, <2>2, PoolInvNext DEF PollSchedulerLink, taskVars, executorVars
<1>9. ASSUME NEW i \in Thread, RunTask(i) PROVE PoolInv'
  <2>1. inbox[i] \in Seq(1 .. spawned) /\ inbox[i] # <<>>
    BY <1>1, <1>9 DEF RunTask
  <2>2. Head(inbox[i]) \in 1 .. spawned /\ Tail(inbox[i]) \in Seq(1 .. spawned)
    BY <2>1, HeadTailProperties
  <2>3. inbox' \in [Thread -> Seq(1 .. spawned)]
    <3>1. \/ inbox' = [inbox EXCEPT ![i] = <<>>]
          \/ inbox' = [inbox EXCEPT ![i] = Tail(inbox[i])]
      BY <1>1, <1>9 DEF RunTask
    <3> QED
      BY <1>1, <2>2, <3>1, EmptySeq
  <2>4. scheduler' \in [Thread -> {"link", "run", "aborted", "exited"}]
    BY <1>1, <1>9 DEF RunTask
  <2>5. started' \subseteq 1 .. spawned
    BY <1>1, <1>9, <2>2 DEF RunTask
  <2> QED
    BY <1>1, <1>9, <2>3, <2>4, <2>5, PoolInvNext DEF RunTask, executorVars
<1>10. ASSUME NEW i \in Thread, RunAgain(i) PROVE PoolInv'
  <2>1. inbox' \in [Thread -> Seq(1 .. spawned)]
    <3>1. inbox' = inbox \/ inbox' = [inbox EXCEPT ![i] = <<>>]
      BY <1>10 DEF RunAgain
    <3> QED
      BY <1>1, <3>1, EmptySeq
  <2>2. scheduler' \in [Thread -> {"link", "run", "aborted", "exited"}]
    BY <1>1, <1>10 DEF RunAgain
  <2> QED
    BY <1>1, <1>10, <2>1, <2>2, PoolInvNext DEF RunAgain, taskVars, executorVars
<1>11. ASSUME NEW i \in Thread, PollPollerLink(i) \/ PollerFails(i) PROVE PoolInv'
  BY <1>1, <1>11, PoolInvNext DEF PollPollerLink, PollerFails, taskVars, executorVars
<1> QED
  BY <1>3, <1>4, <1>5, <1>6, <1>7, <1>8, <1>9, <1>10, <1>11
  DEF PoolNext, RunOnce, SchedulerThread

\* The types hold in the first state.
LEMMA PoolInvInit == ASSUME PoolInit PROVE PoolInv
<1>1. \A i \in Thread : inbox[i] \in Seq(1 .. spawned) /\ inbox[i] \in Seq(Task)
  BY DEF PoolInit
<1> QED
  BY <1>1 DEF PoolInit, PoolInv, PoolTypeOK

\* Every variable of the executor keeps its type; only what was spawned is
\* started.
THEOREM PoolTypeCorrect == PoolSpec => []PoolTypeOK
<1>1. PoolInit => PoolInv
  BY PoolInvInit
<1>2. PoolInv /\ [PoolNext]_poolVars => PoolInv'
  BY PoolInvInductive
<1>3. PoolInv => PoolTypeOK
  BY DEF PoolInv
<1> QED
  BY <1>1, <1>2, <1>3, PTL DEF PoolSpec

(***************************************************************************)
(* Round robin.                                                            *)
(***************************************************************************)

\* The schedulers that were given a task in this round already.
Ahead(i, n) == IF i < n % Size THEN 1 ELSE 0

\* What has been taken from the queue is counted by round, up to the wraps;
\* and a scheduler is ahead of another by the wraps, and by this round's task.
SpreadInv ==
  /\ PoolInv
  /\ executor # "dropped" =>
       /\ spawned - Len(spawnQueue) \in Nat
       /\ round = (spawned - Len(spawnQueue)) % Wrap
       /\ \A i, j \in Thread :
            assigned[i] - assigned[j] <= Wraps + Ahead(i, round) - Ahead(j, round)

\* Taking a task from the queue keeps the tasks spread.
LEMMA TakenIsSpread ==
  ASSUME SpreadInv, RunOnceSpawn, spawnQueue # <<>>, PoolInv'
  PROVE  SpreadInv'
<1> DEFINE k == spawned - Len(spawnQueue)
           here == round % Size
<1>1. /\ spawnQueue \in Seq(1 .. spawned) /\ spawned \in Nat /\ round \in Nat
      /\ assigned \in [Thread -> Nat] /\ executor = "spawn"
      /\ spawnQueue' = Tail(spawnQueue) /\ spawned' = spawned
      /\ assigned' = [assigned EXCEPT ![here] = assigned[here] + 1]
      /\ round' = (round + 1) % Wrap
  <2>1. /\ spawnQueue \in Seq(1 .. spawned) /\ spawned \in 0 .. MaxSpawns
        /\ round \in 0 .. Wrap - 1 /\ assigned \in [Thread -> Nat]
    BY DEF SpreadInv, PoolInv, PoolTypeOK
  <2>2. /\ executor = "spawn" /\ spawnQueue' = Tail(spawnQueue) /\ spawned' = spawned
        /\ assigned' = [assigned EXCEPT ![here] = @ + 1]
        /\ round' = (round + 1) % Wrap
    BY DEF RunOnceSpawn, taskVars
  <2> HIDE DEF here
  <2>3. spawned \in Nat /\ round \in Nat
    BY <2>1
  <2> QED
    BY <2>1, <2>2, <2>3
<1>2. Len(spawnQueue) \in Nat \ {0} /\ Len(spawnQueue') = Len(spawnQueue) - 1
  BY <1>1, HeadTailProperties, EmptySeq, LenProperties
<1>3. /\ k \in Nat /\ round = k % Wrap
      /\ \A i, j \in Thread :
           assigned[i] - assigned[j] <= k \div Wrap + Ahead(i, round) - Ahead(j, round)
  BY <1>1 DEF SpreadInv, Wraps
<1>4. spawned' - Len(spawnQueue') = k + 1
  BY <1>1, <1>2
<1> HIDE DEF k
<1>5. /\ round + 1 < Wrap => (k + 1) % Wrap = round + 1 /\ (k + 1) \div Wrap = k \div Wrap
      /\ round + 1 = Wrap => (k + 1) % Wrap = 0 /\ (k + 1) \div Wrap = (k \div Wrap) + 1
      /\ round \in 0 .. Wrap - 1 /\ k \div Wrap \in Nat
  BY <1>3, CountOn
<1>6. round' = (k + 1) % Wrap
  <2>1. CASE round + 1 < Wrap
    <3>1. (round + 1) % Wrap = round + 1
      <4>1. round + 1 \in Nat /\ round + 1 < Wrap /\ Wrap \in Nat \ {0}
        BY <1>1, <2>1
      <4> DEFINE next == round + 1
      <4> HIDE DEF next
      <4>2. next % Wrap = next
        BY <4>1, SmallModulo DEF next
      <4> QED
        BY <4>2 DEF next
    <3> QED
      BY <1>1, <1>5, <2>1, <3>1
  <2>2. CASE round + 1 = Wrap
    <3>1. (round + 1) % Wrap = 0
      BY <1>1, <2>2, SelfModulo
    <3> QED
      BY <1>1, <1>5, <2>2, <3>1
  <2> QED
    BY <1>5, <2>1, <2>2
<1>7. /\ here + 1 < Size => (round + 1) % Size = here + 1
      /\ here + 1 = Size => (round + 1) % Size = 0
      /\ here \in 0 .. Size - 1
  BY <1>1, CountOn
<1> HIDE DEF here
<1>8. /\ here \in Thread /\ assigned'[here] = assigned[here] + 1
      /\ \A i \in Thread : i # here => assigned'[i] = assigned[i]
      /\ \A i \in Thread : assigned[i] \in Nat /\ assigned'[i] \in Nat
  BY <1>1, <1>7 DEF Thread
<1>9. \A i \in Thread : Ahead(i, round) = IF i < here THEN 1 ELSE 0
  BY DEF Ahead, here
<1>10. \A i \in Thread : Ahead(i, round + 1) =
         IF i < (IF here + 1 < Size THEN here + 1 ELSE 0) THEN 1 ELSE 0
  BY <1>7 DEF Ahead
<1> DEFINE w == k \div Wrap
<1>11. w \in Nat /\ \A i, j \in Thread :
         assigned[i] - assigned[j] <= w + Ahead(i, round) - Ahead(j, round)
  BY <1>3, <1>5
<1> HIDE DEF w
<1>12. ASSUME NEW i \in Thread, NEW j \in Thread
       PROVE  assigned'[i] - assigned'[j]
                <= w + Ahead(i, round + 1) - Ahead(j, round + 1)
  <2>1. assigned[i] - assigned[j] <= w + Ahead(i, round) - Ahead(j, round)
    BY <1>11
  <2>2. i \in 0 .. Size - 1 /\ j \in 0 .. Size - 1
    BY DEF Thread
  <2> DEFINE a == assigned[i]
             b == assigned[j]
             c == assigned'[i]
             d == assigned'[j]
  <2>3. /\ a \in Nat /\ b \in Nat /\ c \in Nat /\ d \in Nat
        /\ c = IF i = here THEN a + 1 ELSE a
        /\ d = IF j = here THEN b + 1 ELSE b
        /\ i = j => a = b
    BY <1>8
  <2>4. a - b <= w + (IF i < here THEN 1 ELSE 0) - (IF j < here THEN 1 ELSE 0)
    BY <1>9, <2>1
  <2>5. here \in 0 .. Size - 1 /\ w \in Nat
    BY <1>7, <1>11
  <2> HIDE DEF a, b, c, d
  <2>6. CASE here + 1 < Size
    <3>1. /\ Ahead(i, round + 1) = IF i < here + 1 THEN 1 ELSE 0
          /\ Ahead(j, round + 1) = IF j < here + 1 THEN 1 ELSE 0
      BY <1>10, <2>6
    <3>2. c - d <= w + (IF i < here + 1 THEN 1 ELSE 0) - (IF j < here + 1 THEN 1 ELSE 0)
      BY <2>2, <2>3, <2>4, <2>5
    <3> QED
      BY <3>1, <3>2 DEF c, d
  <2>7. CASE here + 1 = Size
    <3>1. Ahead(i, round + 1) = 0 /\ Ahead(j, round + 1) = 0
      BY <1>10, <2>2, <2>7
    <3>2. c - d <= w
      BY <2>2, <2>3, <2>4, <2>5, <2>7
    <3> QED
      BY <2>5, <3>1, <3>2 DEF c, d
  <2> QED
    BY <2>5, <2>6, <2>7
<1>13. \A i, j \in Thread :
         assigned'[i] - assigned'[j]
           <= (k + 1) \div Wrap + Ahead(i, round') - Ahead(j, round')
  <2>1. CASE round + 1 < Wrap
    BY <1>5, <1>6, <1>12, <2>1 DEF w
  <2>2. CASE round + 1 = Wrap
    <3>1. round' = 0 /\ (k + 1) \div Wrap = w + 1
      BY <1>5, <1>6, <2>2 DEF w
    <3>2. \A i \in Thread : Ahead(i, 0) = 0 /\ Ahead(i, round + 1) \in {0, 1}
      <4>1. 0 % Size = 0
        OBVIOUS
      <4> QED
        BY <4>1 DEF Ahead, Thread
    <3>3. ASSUME NEW i \in Thread, NEW j \in Thread
          PROVE  assigned'[i] - assigned'[j] <= w + 1
      <4>1. assigned'[i] - assigned'[j]
              <= w + Ahead(i, round + 1) - Ahead(j, round + 1)
        BY <1>12
      <4>2. Ahead(i, round + 1) \in {0, 1} /\ Ahead(j, round + 1) \in {0, 1}
        BY <3>2
      <4>3. assigned'[i] \in Nat /\ assigned'[j] \in Nat /\ w \in Nat
        BY <1>8, <1>11
      <4> QED
        BY <4>1, <4>2, <4>3
    <3> QED
      <4>1. w + 1 + 0 - 0 = w + 1
        BY <1>11
      <4> QED
        BY <3>1, <3>2, <3>3, <4>1
  <2> QED
    BY <1>5, <2>1, <2>2
<1>14. k + 1 \in Nat /\ Wraps' = (k + 1) \div Wrap
  BY <1>3, <1>4 DEF Wraps
<1>15. \A i, j \in Thread :
         (assigned[i] - assigned[j] <= Wraps + Ahead(i, round) - Ahead(j, round))'
  BY <1>13, <1>14 DEF Ahead
<1> QED
  BY <1>4, <1>6, <1>14, <1>15 DEF SpreadInv

\* A task that is spawned joins the queue, and so was not taken from it yet.
LEMMA SpawnedIsSpread ==
  ASSUME SpreadInv, SpawnBoxed, PoolInv' PROVE SpreadInv'
<1>1. /\ spawned' = spawned + 1 /\ executor' = executor /\ round' = round
      /\ assigned' = assigned
      /\ executor # "dropped" => spawnQueue' = Append(spawnQueue, spawned')
  BY DEF SpawnBoxed, executorVars
<1>2. /\ spawnQueue \in Seq(1 .. spawned) /\ spawned \in Nat
      /\ spawned' \in 1 .. spawned'
  BY <1>1 DEF SpreadInv, PoolInv, PoolTypeOK
<1>3. Len(Append(spawnQueue, spawned')) = Len(spawnQueue) + 1 /\ Len(spawnQueue) \in Nat
  <2>1. spawnQueue \in Seq(1 .. spawned')
    BY <1>1, <1>2, MoreTasks
  <2> QED
    BY <1>2, <2>1, AppendProperties, LenProperties
<1>4. executor # "dropped" => spawned' - Len(spawnQueue') = spawned - Len(spawnQueue)
  BY <1>1, <1>2, <1>3
<1> QED
  BY <1>1, <1>4 DEF SpreadInv, Wraps, Ahead

\* A step that takes and spawns nothing changes nothing about the spread.
LEMMA RestIsSpread ==
  ASSUME SpreadInv, PoolInv',
         \/ UNCHANGED <<spawned, spawnQueue, round, assigned, executor>>
         \/ /\ executor # "dropped"
            /\ UNCHANGED <<spawned, spawnQueue, round, assigned>>
  PROVE  SpreadInv'
BY DEF SpreadInv, Wraps, Ahead

\* Every step keeps the tasks spread.
LEMMA SpreadInvInductive == ASSUME SpreadInv, [PoolNext]_poolVars PROVE SpreadInv'
<1>1. PoolInv /\ PoolInv'
  BY PoolInvInductive DEF SpreadInv
<1>2. CASE SpawnBoxed
  BY <1>1, <1>2, SpawnedIsSpread
<1>3. CASE RunOnceSpawn
  <2>1. CASE spawnQueue = <<>>
    BY <1>1, <1>3, <2>1, RestIsSpread DEF RunOnceSpawn, taskVars
  <2> QED
    BY <1>1, <1>3, <2>1, TakenIsSpread
<1>4. CASE RunOnceCheck
  BY <1>1, <1>4, RestIsSpread DEF RunOnceCheck, taskVars
<1>5. CASE DropExecutor
  <2>1. executor' = "dropped"
    BY <1>5 DEF DropExecutor
  <2> QED
    BY <1>1, <2>1 DEF SpreadInv
<1>6. CASE UNCHANGED <<taskVars, spawnQueue, executorVars>> \/ UNCHANGED poolVars
  <2>1. UNCHANGED <<spawned, spawnQueue, round, assigned, executor>>
    BY <1>6 DEF poolVars, taskVars, executorVars
  <2> QED
    BY <1>1, <2>1, RestIsSpread
<1>7. ASSUME NEW i \in Thread,
             SchedulerThread(i) \/ PollPollerLink(i) \/ PollerFails(i)
      PROVE  SpreadInv'
  <2>1. UNCHANGED <<spawned, spawnQueue, round, assigned, executor>>
    BY <1>7 DEF SchedulerThread, PollSchedulerLink, RunTask, RunAgain, PollPollerLink,
                PollerFails, taskVars, executorVars
  <2> QED
    BY <1>1, <2>1, RestIsSpread
<1> QED
  BY <1>2, <1>3, <1>4, <1>5, <1>6, <1>7 DEF PoolNext, RunOnce

\* Nothing is taken in the first state.
LEMMA SpreadInvInit == ASSUME PoolInit PROVE SpreadInv
<1>1. PoolInv
  BY PoolInvInit
<1>2. spawned = 0 /\ spawnQueue = <<>> /\ Len(spawnQueue) = 0 /\ round = 0
      /\ \A i \in Thread : assigned[i] = 0
  BY EmptySeq DEF PoolInit
<1>3. spawned - Len(spawnQueue) = 0
  <2> DEFINE len == Len(spawnQueue)
  <2>1. spawned = 0 /\ len = 0
    BY <1>2
  <2> HIDE DEF len
  <2>2. spawned - len = 0
    BY <2>1
  <2> QED
    BY <2>2 DEF len
<1>4. 0 % Wrap = 0 /\ 0 \div Wrap \in Nat
  BY SmallModulo
<1>5. \A i, j \in Thread :
        assigned[i] - assigned[j] <= Wraps + Ahead(i, round) - Ahead(j, round)
  <2>1. \A i \in Thread : Ahead(i, 0) = 0
    <3>1. 0 % Size = 0
      BY SmallModulo
    <3> QED
      BY <3>1 DEF Ahead, Thread
  <2>2. Wraps \in Nat
    BY <1>3, <1>4 DEF Wraps
  <2> QED
    BY <1>2, <2>1, <2>2
<1> QED
  BY <1>1, <1>2, <1>3, <1>4, <1>5 DEF SpreadInv

\* No scheduler gets more than one task more than another, and one for each time
\* that round has wrapped around, until the executor is dropped.
THEOREM TasksAreSpreadCorrect == PoolSpec => []TasksAreSpread
<1>1. PoolInit => SpreadInv
  BY SpreadInvInit
<1>2. SpreadInv /\ [PoolNext]_poolVars => SpreadInv'
  BY SpreadInvInductive
<1>3. SpreadInv => TasksAreSpread
  <2> SUFFICES ASSUME SpreadInv, executor # "dropped", NEW i \in Thread, NEW j \in Thread
               PROVE  assigned[i] - assigned[j] <= 1 + Wraps
    BY DEF TasksAreSpread
  <2>1. assigned[i] - assigned[j] <= Wraps + Ahead(i, round) - Ahead(j, round)
    BY DEF SpreadInv
  <2>2. assigned[i] \in Nat /\ assigned[j] \in Nat
    BY DEF SpreadInv, PoolInv, PoolTypeOK
  <2>3. Wraps \in Nat
    <3>1. spawned - Len(spawnQueue) \in Nat
      BY DEF SpreadInv
    <3> DEFINE k == spawned - Len(spawnQueue)
    <3> HIDE DEF k
    <3>2. k \div Wrap \in Nat
      BY <3>1, CountOn DEF k
    <3> QED
      BY <3>2 DEF k, Wraps
  <2>4. Ahead(i, round) \in {0, 1} /\ Ahead(j, round) \in {0, 1}
    BY DEF Ahead
  <2> QED
    BY <2>1, <2>2, <2>3, <2>4
<1> QED
  BY <1>1, <1>2, <1>3, PTL DEF PoolSpec
=============================================================================
