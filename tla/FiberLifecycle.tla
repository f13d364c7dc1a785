--------------------------- MODULE FiberLifecycle ---------------------------
(***************************************************************************)
(* What the scheduler promises to fibers, without queues, requests or      *)
(* thread interleavings: an unpark of a waiting fiber makes it ready at    *)
(* once, a fiber with an unpark to its credit is not suspended, and a      *)
(* ready fiber is run.                                                     *)
(***************************************************************************)
EXTENDS Integers

CONSTANTS Tasks

VARIABLES
  status,  \* of each task, see Status
  credit   \* unparks not yet consumed by a poll

lifecycleVars == <<status, credit>>

Status == {"new", "ready", "running", "waiting", "done", "lost"}

NobodyRuns == \A t \in Tasks : status[t] # "running"

Move(t, from, to) ==
  /\ status[t] = from
  /\ status' = [status EXCEPT ![t] = to]

Init ==
  /\ status = [t \in Tasks |-> "new"]
  /\ credit = [t \in Tasks |-> 0]

\* The task is handed to the executor.
Spawn(t) == Move(t, "new", "ready") /\ UNCHANGED credit

\* A poll of the fiber starts and consumes one unpark.
Run(t) ==
  /\ NobodyRuns
  /\ Move(t, "ready", "running")
  /\ credit' = IF credit[t] > 0 THEN [credit EXCEPT ![t] = @ - 1] ELSE credit

\* The poll ends: the fiber is done, goes on, or waits without credit.
Finish(t) == Move(t, "running", "done") /\ UNCHANGED credit
GoOn(t) == Move(t, "running", "ready") /\ UNCHANGED credit
Suspend(t) == credit[t] = 0 /\ Move(t, "running", "waiting") /\ UNCHANGED credit

\* The fiber is unparked, by itself or by another thread.
Unpark(t) ==
  /\ credit' = [credit EXCEPT ![t] = @ + 1]
  /\ status' = IF status[t] = "waiting" THEN [status EXCEPT ![t] = "ready"] ELSE status

\* The fiber is woken although nothing was unparked.
Nudge(t) == Move(t, "waiting", "ready") /\ UNCHANGED credit

\* The scheduler panics and takes all its fibers with it.
Halt == status' = [t \in Tasks |-> "lost"] /\ UNCHANGED credit

PollEnds(t) == Finish(t) \/ GoOn(t) \/ Suspend(t)

Next ==
  \/ \E t \in Tasks :
       Spawn(t) \/ Run(t) \/ PollEnds(t) \/ Unpark(t) \/ Nudge(t)
  \/ Halt

Fairness ==
  \A t \in Tasks : SF_lifecycleVars(Run(t)) /\ WF_lifecycleVars(PollEnds(t))

Spec == Init /\ [][Next]_lifecycleVars /\ Fairness
=============================================================================
