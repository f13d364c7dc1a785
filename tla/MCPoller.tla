------------------------------ MODULE MCPoller ------------------------------
(* Small instances of Poller for TLC. *)
EXTENDS Poller, TLC

\* Invariants do not need the fairness of PollerSpec.
PollerSafetySpec == PollerInit /\ [][PollerNext]_pollerVars

Symmetry == Permutations(Evented) \cup Permutations(Monitors) \cup Permutations(Timers)

\* What nobody reads any more: all about closed objects, the target of an
\* answered monitor, and the locals of a poll that has returned.
View ==
  <<requests, registrants, waitings, nextToken, timeoutQueue, pc, events, erred,
    registered, armed, monitor, clock, awake, longest, timerVars,
    IF pc \in {"out", "failed", "gone"} THEN <<>> ELSE <<wait, didSomething, instant>>,
    [m \in Monitors |-> IF monitor[m] = "waiting" THEN target[m] ELSE None],
    [o \in Open |-> <<ready[o], token[o], o \in isFirst, handle[o]>>]>>
=============================================================================
