--------------------------- MODULE MCMpscChannel ---------------------------
(* Small instances of MpscChannel for TLC. *)
EXTENDS MpscChannel, TLC

CONSTANTS t1, t2, s1, s2
=============================================================================
