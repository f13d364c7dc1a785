------------------------------ MODULE Notifier ------------------------------
(***************************************************************************)
(* The Notifier that a channel's two sides share (src/src/sync/mod.rs), on *)
(* top of the scheduler whose fibers it parks.  It is one Option<Unpark>   *)
(* in an AtomicCell: borrowing swaps a null pointer in, so a null pointer  *)
(* is a lock that the other side spins on.                                 *)
(*                                                                         *)
(* An end is whoever runs code of the receiver or of one sender.  Its step *)
(* says where it is in await_notification or notify:                       *)
(*   idle -> borrow -> park -> replace -> wake -> release -> idle          *)
(* where notify has no park and only a drop that saw 0 has to wake.        *)
(***************************************************************************)
EXTENDS FiberScheduler

CONSTANTS
  Senders,  \* the sending halves of the channel
  Rx        \* the receiving half

Ends == Senders \cup {Rx}

ASSUME NotifierAssumption ==
  /\ Rx \notin Senders
  /\ Ends \cap (Tasks \cup {NoTask}) = {}

VARIABLES
  borrower,  \* the end that has swapped the pointer out, NoTask if none has
  unpark,    \* Notifier.unpark: whose fiber it unparks, NoTask for None
  step,      \* see above
  awaiting,  \* the ends that run await_notification; the others run notify
  dropped    \* the fiber of the Unpark that an end is dropping

notifierVars == <<borrower, unpark, step, awaiting, dropped>>

Steps == {"idle", "borrow", "park", "replace", "wake", "release"}

\* An end enters await_notification / notify.
CallAwait(e) ==
  /\ step[e] = "idle"
  /\ step' = [step EXCEPT ![e] = "borrow"]
  /\ awaiting' = awaiting \cup {e}
  /\ UNCHANGED <<borrower, unpark, dropped>>

CallNotify(e) ==
  /\ step[e] = "idle"
  /\ step' = [step EXCEPT ![e] = "borrow"]
  /\ awaiting' = awaiting \ {e}
  /\ UNCHANGED <<borrower, unpark, dropped>>

\* Mutant of Borrow: try_borrow_mut does not notice that the cell is borrowed.
BorrowAnyway(e) ==
  /\ step[e] = "borrow"
  /\ borrower' = e
  /\ step' = [step EXCEPT ![e] = IF e \in awaiting THEN "park" ELSE "replace"]
  /\ UNCHANGED <<schedVars, unpark, awaiting, dropped>>

\* AtomicCell::try_borrow_mut succeeds; until then the end spins.
Borrow(e) ==
  /\ step[e] = "borrow"
  /\ borrower = NoTask
  /\ borrower' = e
  /\ step' = [step EXCEPT ![e] = IF e \in awaiting THEN "park" ELSE "replace"]
  /\ UNCHANGED <<schedVars, unpark, awaiting, dropped>>

\* await_notification with the cell borrowed, in the fiber named by context
\* (NoTask outside of fibers): nothing to do if the cell holds an Unpark of the
\* same context, else the right-hand side of the assignment parks the fiber.
Park(e, context) ==
  /\ step[e] = "park"
  /\ IF unpark = context
       THEN /\ step' = [step EXCEPT ![e] = "release"]
            /\ UNCHANGED schedVars
       ELSE /\ step' = [step EXCEPT ![e] = "replace"]
            /\ IF context # NoTask THEN ParkFiber ELSE UNCHANGED schedVars
  /\ UNCHANGED <<borrower, unpark, awaiting, dropped>>

\* Mutant of Replace: the old Unpark is forgotten instead of dropped.
ReplaceForget(e, context) ==
  /\ step[e] = "replace"
  /\ unpark' = IF e \in awaiting THEN context ELSE NoTask
  /\ dropped' = [dropped EXCEPT ![e] = unpark]
  /\ step' = [step EXCEPT ![e] = "release"]
  /\ UNCHANGED <<schedVars, borrower, awaiting>>

\* The assignment to *unpark drops the old value, first the fetch_add ...
Replace(e, context) ==
  /\ step[e] = "replace"
  /\ unpark' = IF e \in awaiting THEN context ELSE NoTask
  /\ dropped' = [dropped EXCEPT ![e] = unpark]
  /\ IF unpark = NoTask THEN UNCHANGED schedVars ELSE DropUnpark(unpark)
  /\ step' = [step EXCEPT ![e] =
                IF unpark # NoTask /\ waking' # waking THEN "wake" ELSE "release"]
  /\ UNCHANGED <<borrower, awaiting>>

\* ... and then the WakeUp request, if the counter was zero.
Wake(e) ==
  /\ step[e] = "wake"
  /\ SendWakeUp(dropped[e])
  /\ step' = [step EXCEPT ![e] = "release"]
  /\ UNCHANGED <<borrower, unpark, awaiting, dropped>>

\* AtomicBorrowMut::drop swaps the pointer back.
Release(e) ==
  /\ step[e] = "release"
  /\ borrower' = NoTask
  /\ step' = [step EXCEPT ![e] = "idle"]
  /\ dropped' = [dropped EXCEPT ![e] = NoTask]
  /\ UNCHANGED <<schedVars, unpark, awaiting>>

\* One step of an end that is in await_notification or in notify.
NotifierStep(e, context) ==
  Borrow(e) \/ Park(e, context) \/ Replace(e, context) \/ Wake(e) \/ Release(e)

NotifierInit ==
  /\ borrower = NoTask
  /\ unpark = NoTask
  /\ step = [e \in Ends |-> "idle"]
  /\ awaiting = {}
  /\ dropped = [e \in Ends |-> NoTask]

NotifierTypeOK ==
  /\ borrower \in Ends \cup {NoTask}
  /\ unpark \in Tasks \cup {NoTask}
  /\ step \in [Ends -> Steps]
  /\ awaiting \subseteq Ends
  /\ dropped \in [Ends -> Tasks \cup {NoTask}]

\* The Unpark objects of fiber t that this notifier accounts for: the one in
\* the cell and the one await_notification has created but not stored yet.
UnparksStored(t, context) ==
  (IF unpark = t THEN 1 ELSE 0) +
  (IF step[Rx] = "replace" /\ Rx \in awaiting /\ context = t THEN 1 ELSE 0)
=============================================================================
