---------------------- MODULE FiberSchedulerRefinement ----------------------
(***************************************************************************)
(* FiberScheduler implements FiberLifecycle.  A fiber counts as ready from *)
(* the moment anything that leads to the run queue exists: a Spawn or      *)
(* WakeUp request, a thread about to send one, or the queue entry itself.  *)
(***************************************************************************)
EXTENDS FiberScheduler

Status(t) ==
  CASE pc = "panicked"         -> "lost"
    [] pc # "panicked" /\ t \in unspawned    -> "new"
    [] OTHER -> IF SpawnPending(t) THEN "ready"
                ELSE IF ~Live(t) THEN "done"
                ELSE IF current = t THEN "running"
                ELSE IF WillBeScheduled(t) THEN "ready"
                ELSE "waiting"

Lifecycle == INSTANCE FiberLifecycle WITH
  status <- [t \in Tasks |-> Status(t)],
  credit <- unparks

\* The scheduler implements the life cycle of fibers: an unpark of a suspended
\* fiber takes effect atomically although it is a fetch_add followed by a
\* request, no fiber with a pending unpark is suspended, and a ready fiber is
\* run again and again under the fairness of the scheduler thread.
ImplementsLifecycle == Lifecycle!Spec
=============================================================================
