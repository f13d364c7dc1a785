-------------------------- MODULE MCFiberScheduler --------------------------
(* Small instances of FiberScheduler for TLC. *)
EXTENDS FiberSchedulerRefinement, TLC

CONSTANTS t1, t2, t3

\* Invariants do not need the fairness of Spec.
SafetySpec == Init /\ [][Next]_schedVars

\* Tasks are interchangeable: no definition tells them apart.
TaskSymmetry == Permutations(Tasks)
=============================================================================
