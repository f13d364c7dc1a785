-------------------------- MODULE MCOneshotChannel --------------------------
(* Small instances of OneshotChannel for TLC. *)
EXTENDS OneshotChannel, TLC

CONSTANTS t1, t2, s1

\* Invariants do not need the fairness of OneshotSpec.
OneshotSafetySpec == OneshotInit /\ [][OneshotNext]_oneshotVars

TaskSymmetry == Permutations(Tasks)
=============================================================================
