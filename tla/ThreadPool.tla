----------------------------- MODULE ThreadPool -----------------------------
(***************************************************************************)
(* ThreadPoolExecutor (src/src/executor/thread_pool.rs): a thread for each *)
(* scheduler and for each poller, a queue of spawned tasks that run_once   *)
(* distributes, and a link to each thread that tells the executor when the *)
(* thread has ended and the thread when the executor was dropped.          *)
(*                                                                         *)
(* What a scheduler does is FiberScheduler's business.  Here it runs the   *)
(* tasks it was given one after the other, and any of them may panic: by   *)
(* itself, or because it needs a poller that is gone.                      *)
(***************************************************************************)
EXTENDS Integers, Sequences

CONSTANTS
  Size,      \* number of schedulers and of pollers
  Wrap,      \* usize arithmetic wraps at this value
  MaxSpawns  \* bound of the environment: how many tasks are spawned

ASSUME PoolAssumption == Size \in Nat \ {0} /\ Wrap \in Nat \ {0} /\ MaxSpawns \in Nat

VARIABLES
  spawned,    \* how many tasks were passed to spawn_boxed
  spawnQueue, \* the channel spawn_tx / spawn_rx
  round,      \* ThreadPoolExecutor.round
  steps,      \* ThreadPoolExecutor.steps
  executor,   \* "spawn", "check" (the two halves of run_once), "dropped"
  reported,   \* the threads that some run_once has reported as aborted
  inbox,      \* the Spawn requests in the channel of each scheduler
  assigned,   \* how many tasks each scheduler was given
  started,    \* tasks that were polled
  scheduler,  \* each scheduler thread: "link" (polls its link), "run" (in
              \* run_once(true)), "aborted", "exited"
  poller      \* each poller thread: "run", "aborted", "exited"

taskVars     == <<spawned, started>>
executorVars == <<round, steps, executor, reported, assigned>>
poolVars     == <<taskVars, spawnQueue, executorVars, inbox, scheduler, poller>>

Thread == 0 .. Size - 1

\* Tasks are named in the order of their spawns.
Task == 1 .. MaxSpawns

\* The scheduler still holds the receiver of its request channel.
Receives(i) == scheduler[i] \in {"link", "run"}

----------------------------------------------------------------------------
(* The executor *)

\* ThreadPoolExecutorHandle::spawn_boxed, on any thread; a task that nobody
\* can receive any more is dropped.
SpawnBoxed ==
  /\ spawned < MaxSpawns
  /\ spawned' = spawned + 1
  /\ spawnQueue' = IF executor = "dropped" THEN spawnQueue ELSE Append(spawnQueue, spawned')
  /\ UNCHANGED <<started, executorVars, inbox, scheduler, poller>>

\* Mutant of RunOnceSpawn: round does not advance.
RunOnceSpawnSame ==
  /\ executor = "spawn"
  /\ executor' = "check"
  /\ IF spawnQueue = <<>>
       THEN UNCHANGED <<spawnQueue, round, assigned, inbox>>
       ELSE LET i == round % Size IN
            /\ spawnQueue' = Tail(spawnQueue)
            /\ assigned' = [assigned EXCEPT ![i] = @ + 1]
            /\ inbox' = IF Receives(i)
                          THEN [inbox EXCEPT ![i] = Append(@, Head(spawnQueue))]
                          ELSE inbox
            /\ UNCHANGED round
  /\ UNCHANGED <<taskVars, steps, reported, scheduler, poller>>

\* First half of run_once: the next task goes to the next scheduler; its send
\* is in vain if the scheduler is gone.
RunOnceSpawn ==
  /\ executor = "spawn"
  /\ executor' = "check"
  /\ IF spawnQueue = <<>>
       THEN UNCHANGED <<spawnQueue, round, assigned, inbox>>
       ELSE LET i == round % Size IN
            /\ spawnQueue' = Tail(spawnQueue)
            /\ assigned' = [assigned EXCEPT ![i] = @ + 1]
            /\ inbox' = IF Receives(i)
                          THEN [inbox EXCEPT ![i] = Append(@, Head(spawnQueue))]
                          ELSE inbox
            /\ round' = (round + 1) % Wrap
  /\ UNCHANGED <<taskVars, steps, reported, scheduler, poller>>

\* Mutant of RunOnceCheck: only when a task was taken is a link polled.
RunOnceCheckBusy ==
  /\ executor = "check"
  /\ executor' = "spawn"
  /\ steps' = round
  /\ LET i == steps' % Size IN
     reported' = IF scheduler[i] = "aborted" THEN reported \cup {i} ELSE reported
  /\ UNCHANGED <<taskVars, spawnQueue, round, assigned, inbox, scheduler, poller>>

\* Mutant of RunOnceCheck: steps does not wrap around.
RunOnceCheckUnwrapped ==
  /\ executor = "check"
  /\ executor' = "spawn"
  /\ steps' = steps + 1
  /\ LET i == steps' % Size IN
     reported' = IF scheduler[i] = "aborted" THEN reported \cup {i} ELSE reported
  /\ UNCHANGED <<taskVars, spawnQueue, round, assigned, inbox, scheduler, poller>>

\* Second half of run_once: the link of the next scheduler is polled.
RunOnceCheck ==
  /\ executor = "check"
  /\ executor' = "spawn"
  /\ steps' = (steps + 1) % Wrap
  /\ LET i == steps' % Size IN
     reported' = IF scheduler[i] = "aborted" THEN reported \cup {i} ELSE reported
  /\ UNCHANGED <<taskVars, spawnQueue, round, assigned, inbox, scheduler, poller>>

\* The executor is dropped: the links with it, and the queue of tasks.
DropExecutor ==
  /\ executor = "spawn"
  /\ executor' = "dropped"
  /\ spawnQueue' = <<>>
  /\ UNCHANGED <<taskVars, round, steps, reported, assigned, inbox, scheduler, poller>>

----------------------------------------------------------------------------
(* The threads *)

\* A scheduler thread ends when its link tells that the executor was dropped.
PollSchedulerLink(i) ==
  /\ scheduler[i] = "link"
  /\ IF executor = "dropped"
       THEN /\ scheduler' = [scheduler EXCEPT ![i] = "exited"]
            /\ inbox' = [inbox EXCEPT ![i] = <<>>]
       ELSE /\ scheduler' = [scheduler EXCEPT ![i] = "run"]
            /\ UNCHANGED inbox
  /\ UNCHANGED <<taskVars, spawnQueue, executorVars, poller>>

\* Mutant of RunTask: the thread's loop ends after a task.
RunTaskOnce(i) ==
  /\ scheduler[i] = "run"
  /\ inbox[i] # <<>>
  /\ started' = started \cup {Head(inbox[i])}
  /\ inbox' = [inbox EXCEPT ![i] = <<>>]
  /\ \E end \in {"exited", "aborted"} : scheduler' = [scheduler EXCEPT ![i] = end]
  /\ UNCHANGED <<spawned, spawnQueue, executorVars, poller>>

\* run_once(true) blocks until there is a task, and polls it.
RunTask(i) ==
  /\ scheduler[i] = "run"
  /\ inbox[i] # <<>>
  /\ started' = started \cup {Head(inbox[i])}
  /\ \/ /\ inbox' = [inbox EXCEPT ![i] = Tail(@)]
        /\ scheduler' = [scheduler EXCEPT ![i] = "link"]
     \/ /\ inbox' = [inbox EXCEPT ![i] = <<>>]
        /\ scheduler' = [scheduler EXCEPT ![i] = "aborted"]
  /\ UNCHANGED <<spawned, spawnQueue, executorVars, poller>>

\* run_once(true) also returns when a fiber of an earlier task was woken and
\* polled again.
RunAgain(i) ==
  /\ scheduler[i] = "run"
  /\ assigned[i] > Len(inbox[i])
  /\ \/ /\ scheduler' = [scheduler EXCEPT ![i] = "link"]
        /\ UNCHANGED inbox
     \/ /\ scheduler' = [scheduler EXCEPT ![i] = "aborted"]
        /\ inbox' = [inbox EXCEPT ![i] = <<>>]
  /\ UNCHANGED <<taskVars, spawnQueue, executorVars, poller>>

\* Mutant of PollPollerLink: the other end of the link is the scheduler's.
PollPollerLinkOther(i) ==
  /\ poller[i] = "run"
  /\ scheduler[i] \in {"aborted", "exited"}
  /\ poller' = [poller EXCEPT ![i] = "exited"]
  /\ UNCHANGED <<taskVars, spawnQueue, executorVars, inbox, scheduler>>

\* One round of a poller thread: it ends when its link tells that the executor
\* was dropped ...
PollPollerLink(i) ==
  /\ poller[i] = "run"
  /\ executor = "dropped"
  /\ poller' = [poller EXCEPT ![i] = "exited"]
  /\ UNCHANGED <<taskVars, spawnQueue, executorVars, inbox, scheduler>>

\* ... or exits with the error that Poller::poll returns.
PollerFails(i) ==
  /\ poller[i] = "run"
  /\ poller' = [poller EXCEPT ![i] = "aborted"]
  /\ UNCHANGED <<taskVars, spawnQueue, executorVars, inbox, scheduler>>

----------------------------------------------------------------------------
PoolInit ==
  /\ spawned = 0
  /\ spawnQueue = <<>>
  /\ round = 0 /\ steps = 0
  /\ executor = "spawn"
  /\ reported = {}
  /\ inbox = [i \in Thread |-> <<>>]
  /\ assigned = [i \in Thread |-> 0]
  /\ started = {}
  /\ scheduler = [i \in Thread |-> "link"]
  /\ poller = [i \in Thread |-> "run"]

RunOnce == RunOnceSpawn \/ RunOnceCheck
SchedulerThread(i) == PollSchedulerLink(i) \/ RunTask(i) \/ RunAgain(i)

PoolNext ==
  \/ SpawnBoxed
  \/ RunOnce
  \/ DropExecutor
  \/ \E i \in Thread : SchedulerThread(i) \/ PollPollerLink(i) \/ PollerFails(i)

\* The owner of the executor keeps calling run_once, after an error too;
\* threads run, and a scheduler, which takes requests in their order and polls
\* fibers in turn, gets to a task that it was sent.
PoolFairness ==
  /\ WF_poolVars(RunOnce)
  /\ \A i \in Thread :
       WF_poolVars(PollSchedulerLink(i)) /\ SF_poolVars(RunTask(i))
                                         /\ WF_poolVars(PollPollerLink(i))

PoolSpec == PoolInit /\ [][PoolNext]_poolVars /\ PoolFairness

----------------------------------------------------------------------------
(* Properties *)

PoolTypeOK ==
  /\ spawned \in 0 .. MaxSpawns /\ started \subseteq 1 .. spawned
  /\ spawnQueue \in Seq(Task)
  /\ round \in 0 .. Wrap - 1 /\ steps \in 0 .. Wrap - 1
  /\ executor \in {"spawn", "check", "dropped"}
  /\ reported \subseteq Thread
  /\ inbox \in [Thread -> Seq(Task)]
  /\ assigned \in [Thread -> Nat]
  /\ scheduler \in [Thread -> {"link", "run", "aborted", "exited"}]
  /\ poller \in [Thread -> {"run", "aborted", "exited"}]

\* How often round has wrapped around.
Wraps == (spawned - Len(spawnQueue)) \div Wrap

\* Tasks are spread evenly; each time round wraps around, which restarts the
\* round robin at the first scheduler, costs one task at most.
TasksAreSpread ==
  executor # "dropped" => \A i, j \in Thread : assigned[i] - assigned[j] <= 1 + Wraps

\* A scheduler thread that is aborted is reported by some later run_once, even
\* if steps wraps around at a value that is no multiple of the pool's size.
AbortIsReported ==
  \A i \in Thread : scheduler[i] = "aborted" ~> (i \in reported \/ executor = "dropped")

\* A spawned task is started, unless the executor is dropped or a scheduler is
\* aborted, whose tasks are lost.
SpawnedIsStarted ==
  \A t \in Task :
    t <= spawned ~>
      \/ t \in started
      \/ executor = "dropped"
      \/ \E i \in Thread : scheduler[i] = "aborted"

\* The pollers stop when the executor is dropped.
PollersStop == executor = "dropped" ~> \A i \in Thread : poller[i] # "run"

\* A poller thread that is aborted is reported by some later run_once.
PollerAbortIsReported ==
  \A i \in Thread : poller[i] = "aborted" ~> (reported # {} \/ executor = "dropped")
=============================================================================
