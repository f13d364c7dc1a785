--------------------------- MODULE FiberScheduler ---------------------------
(***************************************************************************)
(* One fiber scheduler (src/src/fiber/schedule.rs) together with the       *)
(* park/unpark counters of its fibers (src/src/fiber/mod.rs).              *)
(*                                                                         *)
(* The scheduler thread owns the fiber table, the run queue and the parks  *)
(* counters.  The request channel and the unparks counters are shared with *)
(* every thread that holds a SchedulerHandle or an Unpark object.          *)
(*                                                                         *)
(* A step is one access to shared state together with the thread-private   *)
(* work around it.  Dropping an Unpark is two steps, because its fetch_add *)
(* and the send of the WakeUp request are two accesses.                    *)
(***************************************************************************)
EXTENDS Integers, Sequences, FiniteSets

CONSTANTS
  Tasks,       \* the futures that may be spawned, each at most once
  NoTask,      \* "no fiber"
  IdSpace,     \* number of fiber ids; usize arithmetic wraps at this value
  MaxParks,    \* bound of the environment: outstanding parks
  MaxRequests  \* bound of the environment: queue length for forced wakeups

ASSUME SchedulerAssumption ==
  /\ NoTask \notin Tasks
  /\ IdSpace \in Nat \ {0}
  /\ MaxParks \in Nat
  /\ MaxRequests \in Nat

VARIABLES
  unspawned,    \* tasks nobody has passed to SchedulerHandle::spawn_boxed yet
  requests,     \* the request channel (request_tx / request_rx)
  fibers,       \* Scheduler.fibers: fiber id -> task, NoTask when absent
  runQueue,     \* Scheduler.run_queue
  nextFiberId,  \* Scheduler.next_fiber_id
  fiberId,      \* FiberState.fiber_id of each task
  parks,        \* FiberState.parks
  unparks,      \* FiberState.unparks, the shared atomic counter
  inRunQueue,   \* the tasks whose FiberState.in_run_queue is set
  held,         \* number of live Unpark objects of each task
  waking,       \* Unpark drops that saw 0 and have not sent WakeUp yet
  pc,           \* where the scheduler thread is in run_once
  current,      \* CURRENT_CONTEXT.fiber: the fiber being polled
  mayBlock,     \* block_if_idle && !did_something, the locals of run_once
  pollerAlive   \* CURRENT_CONTEXT.scheduler.poller.is_alive

queueVars   == <<requests, fibers, runQueue, nextFiberId, fiberId, inRunQueue>>
counterVars == <<parks, unparks, held, waking>>
threadVars  == <<pc, current, mayBlock, pollerAlive>>
schedVars   == <<unspawned, queueVars, counterVars, threadVars>>

FiberId == 0 .. IdSpace - 1

SpawnRequest(t) == [op |-> "Spawn", task |-> t]
WakeUpRequest(id) == [op |-> "WakeUp", id |-> id]
Request == {SpawnRequest(t) : t \in Tasks} \cup {WakeUpRequest(id) : id \in FiberId}

\* The fiber of task t is in the scheduler's table.
Live(t) == fibers[fiberId[t]] = t

\* Mutant of IsRunnable: a fiber that never parked is not runnable.
IsRunnableOnlyUnparked(t) == unparks[t] > 0

\* Mutant of IsRunnable: unparks that have arrived are overlooked.
IsRunnableOnlyUnblocked(t) == parks[t] = 0

\* FiberState::is_runnable
IsRunnable(t) == parks[t] = 0 \/ unparks[t] > 0

----------------------------------------------------------------------------
(* Handling of one request, on the scheduler thread. *)

\* Mutant of Schedule: the in_run_queue flag is not tested.
ScheduleAgain(id, t) ==
  /\ runQueue' = Append(runQueue, id)
  /\ inRunQueue' = inRunQueue \cup {t}

\* Mutant of Schedule: the run queue is a stack.
ScheduleInFront(id, t) ==
  IF t \in inRunQueue
    THEN UNCHANGED <<runQueue, inRunQueue>>
    ELSE /\ runQueue' = <<id>> \o runQueue
         /\ inRunQueue' = inRunQueue \cup {t}

\* Scheduler::schedule
Schedule(id, t) ==
  IF t \in inRunQueue
    THEN UNCHANGED <<runQueue, inRunQueue>>
    ELSE /\ runQueue' = Append(runQueue, id)
         /\ inRunQueue' = inRunQueue \cup {t}

\* usize::wrapping_add(1)
WrappingSucc(id) == IF id + 1 = IdSpace THEN 0 ELSE id + 1

\* The ids from first up to, and without, id, wrapping around.
IdsBefore(first, id) ==
  IF first <= id THEN first .. id - 1
  ELSE (first .. IdSpace - 1) \cup (0 .. id - 1)

\* Mutant of NextFiberId: ids in use are not skipped.
NextFiberIdUnchecked(id) == id = nextFiberId /\ nextFiberId' = WrappingSucc(id)

\* Scheduler::next_fiber_id returns id: the first one at or after
\* next_fiber_id that no live fiber has.
NextFiberId(id) ==
  /\ fibers[id] = NoTask
  /\ \A skipped \in IdsBefore(nextFiberId, id) : fibers[skipped] # NoTask
  /\ nextFiberId' = WrappingSucc(id)

\* Scheduler::spawn_fiber
SpawnFiber(t) ==
  \E id \in FiberId :
    /\ NextFiberId(id)
    /\ fibers' = [fibers EXCEPT ![id] = t]
    /\ fiberId' = [fiberId EXCEPT ![t] = id]
    /\ Schedule(id, t)

\* Scheduler::handle_request applied to the request at the head of the channel
HandleRequest ==
  LET r == Head(requests) IN
  /\ requests # <<>>
  /\ requests' = Tail(requests)
  /\ \/ /\ r.op = "Spawn"
        /\ SpawnFiber(r.task)
     \/ /\ r.op = "WakeUp"
        /\ IF fibers[r.id] # NoTask
             THEN Schedule(r.id, fibers[r.id])
             ELSE UNCHANGED <<runQueue, inRunQueue>>
        /\ UNCHANGED <<fibers, fiberId, nextFiberId>>
  /\ mayBlock' = FALSE
  /\ UNCHANGED <<unspawned, counterVars, current, pollerAlive>>

----------------------------------------------------------------------------
(* Scheduler::run_once, on the scheduler thread. *)

\* The caller enters run_once(block).
RunOnce(block) ==
  /\ pc = "out"
  /\ pc' = "request"
  /\ mayBlock' = block
  /\ UNCHANGED <<unspawned, queueVars, counterVars, current, pollerAlive>>

\* Mutant of TryRecv: requests wait until the run queue is empty.
TryRecvWhenIdle ==
  /\ pc = "request"
  /\ pc' = "task"
  /\ \/ runQueue = <<>> /\ HandleRequest
     \/ /\ runQueue # <<>> \/ requests = <<>>
        /\ UNCHANGED <<unspawned, queueVars, counterVars, current, mayBlock,
                       pollerAlive>>

\* request_rx.try_recv() finds a request / finds the channel empty
TryRecv ==
  /\ pc = "request"
  /\ pc' = "task"
  /\ \/ HandleRequest
     \/ /\ requests = <<>>
        /\ UNCHANGED <<unspawned, queueVars, counterVars, current, mayBlock,
                       pollerAlive>>

\* The n-th entry of the run queue is the first one next_runnable finds alive.
FirstAlive(n) ==
  /\ fibers[runQueue[n]] # NoTask
  /\ \A m \in 1 .. n - 1 : fibers[runQueue[m]] = NoTask

\* Mutant of ConsumeUnpark: either counter suffices.
ConsumeUnparkEither(t) ==
  IF parks[t] > 0 \/ unparks[t] > 0
    THEN /\ parks' = [parks EXCEPT ![t] = @ - 1]
         /\ unparks' = [unparks EXCEPT ![t] = @ - 1]
    ELSE UNCHANGED <<parks, unparks>>

\* Mutant of ConsumeUnpark: the unpark is consumed and the park is kept.
ConsumeUnparkOnly(t) ==
  /\ unparks' = IF unparks[t] > 0 THEN [unparks EXCEPT ![t] = @ - 1] ELSE unparks
  /\ UNCHANGED parks

\* The counters at the start of FiberState::run_once.  Only this thread ever
\* decrements unparks, so its load and its fetch_sub count as one step.
ConsumeUnpark(t) ==
  IF parks[t] > 0 /\ unparks[t] > 0
    THEN /\ parks' = [parks EXCEPT ![t] = @ - 1]
         /\ unparks' = [unparks EXCEPT ![t] = @ - 1]
    ELSE UNCHANGED <<parks, unparks>>

\* Scheduler::next_runnable finds a fiber and Scheduler::run_fiber starts to
\* poll it, or panics because a failed registration marked the poller as down.
NextRunnable ==
  /\ pc = "task"
  /\ \E n \in DOMAIN runQueue :
       LET t == fibers[runQueue[n]] IN
       /\ FirstAlive(n)
       /\ runQueue' = SubSeq(runQueue, n + 1, Len(runQueue))
       /\ inRunQueue' = inRunQueue \ {t}
       /\ IF pollerAlive
            THEN /\ ConsumeUnpark(t)
                 /\ current' = t
                 /\ pc' = "poll"
            ELSE /\ pc' = "panicked"
                 /\ UNCHANGED <<parks, unparks, current>>
  /\ mayBlock' = FALSE
  /\ UNCHANGED <<unspawned, requests, fibers, nextFiberId, fiberId, held, waking,
                 pollerAlive>>

\* Scheduler::next_runnable finds no fiber: leave run_once, or go on to the
\* blocking recv if the caller wants to block and nothing was done.
NothingRunnable ==
  /\ pc = "task"
  /\ \A n \in DOMAIN runQueue : fibers[runQueue[n]] = NoTask
  /\ runQueue' = <<>>
  /\ pc' = IF mayBlock THEN "recv" ELSE "out"
  /\ UNCHANGED <<unspawned, requests, fibers, nextFiberId, fiberId, inRunQueue,
                 counterVars, current, mayBlock, pollerAlive>>

\* request_rx.recv() returns a request; the loop starts over.
Recv ==
  /\ pc = "recv"
  /\ HandleRequest
  /\ pc' = "request"

\* The poll returned Ready or an error: the fiber is removed.
PollReady ==
  /\ pc = "poll"
  /\ fibers' = [fibers EXCEPT ![fiberId[current]] = NoTask]
  /\ current' = NoTask
  /\ pc' = "out"
  /\ UNCHANGED <<unspawned, requests, runQueue, nextFiberId, fiberId, inRunQueue,
                 counterVars, mayBlock, pollerAlive>>

\* The poll returned NotReady: the fiber is rescheduled if it is runnable.
PollNotReady ==
  /\ pc = "poll"
  /\ IF IsRunnable(current)
       THEN Schedule(fiberId[current], current)
       ELSE UNCHANGED <<runQueue, inRunQueue>>
  /\ current' = NoTask
  /\ pc' = "out"
  /\ UNCHANGED <<unspawned, requests, fibers, nextFiberId, fiberId, counterVars,
                 mayBlock, pollerAlive>>

\* The future panics: run_once unwinds and the scheduler is not run again.
PollPanics ==
  /\ pc = "poll"
  /\ pc' = "panicked"
  /\ UNCHANGED <<unspawned, queueVars, counterVars, current, mayBlock, pollerAlive>>

----------------------------------------------------------------------------
(* What a future does to its own fiber while it is polled. *)

\* Context::park: one more park, and one more Unpark object somewhere.
ParkFiber ==
  /\ pc = "poll"
  /\ parks' = [parks EXCEPT ![current] = @ + 1]
  /\ held' = [held EXCEPT ![current] = @ + 1]
  /\ UNCHANGED <<unspawned, queueVars, unparks, waking, threadVars>>

\* yield_poll
YieldOnce ==
  /\ pc = "poll"
  /\ parks' = [parks EXCEPT ![current] = @ + 1]
  /\ unparks' = [unparks EXCEPT ![current] = @ + 1]
  /\ UNCHANGED <<unspawned, queueVars, held, waking, threadVars>>

\* PollerHandle::register fails because the poller is gone.
RegisterFails ==
  /\ pc = "poll"
  /\ pollerAlive' = FALSE
  /\ UNCHANGED <<unspawned, queueVars, counterVars, pc, current, mayBlock>>

----------------------------------------------------------------------------
(* What any thread, the scheduler's own included, may do. *)

\* SchedulerHandle::spawn_boxed
Spawn(t) ==
  /\ t \in unspawned
  /\ unspawned' = unspawned \ {t}
  /\ requests' = Append(requests, SpawnRequest(t))
  /\ UNCHANGED <<fibers, runQueue, nextFiberId, fiberId, inRunQueue, counterVars,
                 threadVars>>

\* Mutant of DropUnpark: the request is sent when the counter was one, not zero.
DropUnparkLate(t) ==
  /\ held[t] > 0
  /\ held' = [held EXCEPT ![t] = @ - 1]
  /\ unparks' = [unparks EXCEPT ![t] = @ + 1]
  /\ waking' = IF unparks[t] = 1 THEN [waking EXCEPT ![t] = @ + 1] ELSE waking
  /\ UNCHANGED <<unspawned, queueVars, parks, threadVars>>

\* Unpark::drop up to its fetch_add
DropUnpark(t) ==
  /\ held[t] > 0
  /\ held' = [held EXCEPT ![t] = @ - 1]
  /\ unparks' = [unparks EXCEPT ![t] = @ + 1]
  /\ waking' = IF unparks[t] = 0 THEN [waking EXCEPT ![t] = @ + 1] ELSE waking
  /\ UNCHANGED <<unspawned, queueVars, parks, threadVars>>

\* Unpark::drop after a fetch_add that returned 0: SchedulerHandle::wakeup
SendWakeUp(t) ==
  /\ waking[t] > 0
  /\ waking' = [waking EXCEPT ![t] = @ - 1]
  /\ requests' = Append(requests, WakeUpRequest(fiberId[t]))
  /\ UNCHANGED <<unspawned, fibers, runQueue, nextFiberId, fiberId, inRunQueue,
                 parks, unparks, held, threadVars>>

\* SchedulerHandle::wakeup called by a user with an id of his choice
ForceWakeUp(id) ==
  /\ requests' = Append(requests, WakeUpRequest(id))
  /\ UNCHANGED <<unspawned, fibers, runQueue, nextFiberId, fiberId, inRunQueue,
                 counterVars, threadVars>>

----------------------------------------------------------------------------
Init ==
  /\ unspawned = Tasks
  /\ requests = <<>>
  /\ fibers = [id \in FiberId |-> NoTask]
  /\ runQueue = <<>>
  /\ nextFiberId = 0
  /\ fiberId = [t \in Tasks |-> 0]
  /\ parks = [t \in Tasks |-> 0]
  /\ unparks = [t \in Tasks |-> 0]
  /\ inRunQueue = {}
  /\ held = [t \in Tasks |-> 0]
  /\ waking = [t \in Tasks |-> 0]
  /\ pc = "out"
  /\ current = NoTask
  /\ mayBlock = FALSE
  /\ pollerAlive = TRUE

\* A Spawn request of task t is in the channel.
SpawnPending(t) == \E n \in DOMAIN requests : requests[n] = SpawnRequest(t)

\* A WakeUp request that reaches task t is in the channel.
WakeUpPending(t) == \E n \in DOMAIN requests : requests[n] = WakeUpRequest(fiberId[t])

\* The environment never has as many fibers alive as there are ids (2^64
\* fibers would not fit in memory), so next_fiber_id always finds one.
IdsSuffice == Cardinality({t \in Tasks : Live(t) \/ SpawnPending(t)}) < IdSpace

\* The unparks of t that are under way: dropped, to be dropped or consumed.
Outstanding(t) == waking[t] + IF Live(t) THEN parks[t] ELSE held[t]

\* The environment bounds how many unparks of all fibers are under way.
ParksSuffice ==
  /\ pc = "poll"
  /\ Cardinality({u \in Tasks \X (1 .. MaxParks) : u[2] <= Outstanding(u[1])}) < MaxParks

SchedulerStep ==
  \/ \E block \in BOOLEAN : RunOnce(block)
  \/ TryRecv
  \/ NextRunnable
  \/ NothingRunnable
  \/ Recv

PollReturns == PollReady \/ PollNotReady

Next ==
  \/ SchedulerStep
  \/ PollReturns
  \/ PollPanics
  \/ ParksSuffice /\ (ParkFiber \/ YieldOnce)
  \/ RegisterFails
  \/ \E t \in Tasks : \/ IdsSuffice /\ Spawn(t)
                      \/ DropUnpark(t)
                      \/ SendWakeUp(t)
  \/ Len(requests) < MaxRequests /\ \E id \in FiberId : ForceWakeUp(id)

\* The scheduler's thread runs run_once in a loop, a poll returns (scheduling
\* is cooperative), and a thread that has begun to drop an Unpark finishes.
Fairness ==
  /\ WF_schedVars(SchedulerStep)
  /\ WF_schedVars(PollReturns)
  /\ \A t \in Tasks : WF_schedVars(SendWakeUp(t))

Spec == Init /\ [][Next]_schedVars /\ Fairness

----------------------------------------------------------------------------
(* Properties *)

\* Every variable holds a value of the type the Rust declaration gives it.
TypeOK ==
  /\ unspawned \subseteq Tasks
  /\ requests \in Seq(Request)
  /\ fibers \in [FiberId -> Tasks \cup {NoTask}]
  /\ runQueue \in Seq(FiberId)
  /\ nextFiberId \in FiberId
  /\ fiberId \in [Tasks -> FiberId]
  /\ parks \in [Tasks -> Nat]
  /\ unparks \in [Tasks -> Nat]
  /\ inRunQueue \subseteq Tasks
  /\ held \in [Tasks -> Nat]
  /\ waking \in [Tasks -> Nat]
  /\ pc \in {"out", "request", "task", "poll", "recv", "panicked"}
  /\ current \in Tasks \cup {NoTask}
  /\ mayBlock \in BOOLEAN
  /\ pollerAlive \in BOOLEAN
  /\ pc = "poll" => current \in Tasks

\* Every fiber in the table is found under its own id.
FoundUnderOwnId ==
  \A id \in FiberId : fibers[id] # NoTask =>
    fiberId[fibers[id]] = id /\ fibers[id] \notin unspawned

\* A Spawn request is the only one of its task, which is not in the table yet.
SpawnedOnce ==
  /\ \A n \in DOMAIN requests : requests[n].op = "Spawn" =>
       ~ Live(requests[n].task) /\ requests[n].task \notin unspawned
  /\ \A m, n \in DOMAIN requests :
       requests[m].op = "Spawn" /\ requests[m] = requests[n] => m = n

\* The fiber table is a partial bijection although ids wrap around and are
\* reused: a fiber is found under its own id, no task is spawned twice, only
\* fibers in the table are flagged as queued, the fiber being polled stays in
\* the table and out of the run queue, and no fiber is current when run_fiber
\* asserts that none is.
FiberTableConsistent ==
  /\ FoundUnderOwnId
  /\ SpawnedOnce
  /\ \A t \in inRunQueue : Live(t)
  /\ pc = "poll" => Live(current) /\ current \notin inRunQueue
  /\ pc \in {"out", "request", "task", "recv"} => current = NoTask

\* A park is either still held by an Unpark object or was already given back
\* to the unparks counter: the two counters never drift apart, so run_once
\* never takes back a park whose Unpark is still alive.
ParkBalance == \A t \in Tasks : parks[t] = unparks[t] + held[t]

\* Every entry of the run queue is the id of a fiber that is flagged as queued.
QueuedIsFlagged ==
  \A n \in DOMAIN runQueue :
    LET t == fibers[runQueue[n]] IN
    t # NoTask /\ fiberId[t] = runQueue[n] /\ t \in inRunQueue

\* A fiber that is flagged as queued is in the run queue.
FlaggedIsQueued ==
  \A t \in inRunQueue : \E n \in DOMAIN runQueue : runQueue[n] = fiberId[t]

\* The run queue and the in_run_queue flags agree: the queue holds exactly the
\* ids of the live fibers whose flag is set, each once, although ids are
\* reused and a fiber may be woken again while it is queued.
RunQueueConsistent ==
  /\ QueuedIsFlagged
  /\ FlaggedIsQueued
  /\ \A m, n \in DOMAIN runQueue : runQueue[m] = runQueue[n] => m = n

\* Somebody will still hand fiber t to the scheduler: it is queued, a WakeUp
\* request for it is in the channel, or a thread is about to send one.
WillBeScheduled(t) == t \in inRunQueue \/ WakeUpPending(t) \/ waking[t] > 0

\* No wakeup is lost: a runnable fiber is being polled or will be, although
\* Unpark::drop sends a request only when it takes the counter from zero and
\* races with the decrement in run_once and with the is_runnable check.
NoLostWakeup ==
  pc # "panicked" =>
    \A t \in Tasks : Live(t) /\ IsRunnable(t) => current = t \/ WillBeScheduled(t)

\* No live fiber is forgotten: one that is neither polled nor on its way to
\* the run queue has an Unpark object alive whose drop will wake it.
NoFiberStranded ==
  pc # "panicked" =>
    \A t \in Tasks : Live(t) => current = t \/ WillBeScheduled(t) \/ held[t] > 0

\* A fiber that was unparked is polled again, however many other fibers are
\* busy and whatever requests keep arriving, unless the scheduler panics.
UnparkedIsPolled ==
  \A t \in Tasks :
    (Live(t) /\ unparks[t] > 0 /\ current # t) ~> (current = t \/ pc = "panicked")

\* A spawned fiber is polled at least once, unless the scheduler panics.
SpawnedIsPolled ==
  \A t \in Tasks : SpawnPending(t) ~> (current = t \/ pc = "panicked")
=============================================================================
