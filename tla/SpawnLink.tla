------------------------------ MODULE SpawnLink ------------------------------
(***************************************************************************)
(* How fibers end, and who learns of it: Spawn::spawn_monitor and          *)
(* spawn_link (src/src/fiber/mod.rs), the Link (src/src/sync/oneshot.rs)   *)
(* of two oneshot channels, and Executor::run_future.                      *)
(*                                                                         *)
(* A fiber of style "monitor" or "link" has the sending half of the        *)
(* channel fromFiber, whose receiver (the future Exit) is either another   *)
(* fiber's or polled by run_future.  A linked fiber has the receiver Link  *)
(* of the channel toFiber as well, which its holder may send on or drop.   *)
(***************************************************************************)
EXTENDS FiberFutures

Exit(t) == <<t, "exit">>

ASSUME LinkAssumption ==
  \A t \in Tasks :
    /\ {Link(t), Exit(t)} \subseteq Futures
    /\ \A p \in Programs : p.user[Exit(t)] # t /\
         p.user[Link(t)] = IF p.style[t] = "link" THEN t ELSE NoTask

VARIABLES
  toFiber,    \* channel to a linked fiber: "empty", "value", "closing", "closed"
  fromFiber,  \* channel from a fiber: "empty", "value", "closed"
  holder      \* whoever spawned the fiber: "waits", has its "result", saw that
              \* it was "aborted", "left" (dropped its half, or never had one)

linkVars == <<toFiber, fromFiber, holder>>

Watched(t) == program.style[t] \in {"monitor", "link"}

\* Whether some fiber polls for the exit of t, or run_future does.
OutsideFibers(t) == user[Exit(t)] = NoTask

----------------------------------------------------------------------------
(* The fiber                                                                *)

\* The fiber ends: who waits for it is told, and what it has is dropped.
\* dropped are the channels of its other futures.
Exits(t, result, dropped) ==
  /\ EndFiber(t, dropped \cup {Exit(t)})
  /\ fromFiber' = [fromFiber EXCEPT ![t] = result]
  /\ holder' = [u \in Tasks |-> IF user[Exit(u)] = t THEN "left" ELSE holder[u]]
  /\ UNCHANGED toFiber

\* The fiber's own future is ready; a watched fiber sends what it returned.
FutureReady(t, dropped) ==
  /\ ~ LinkPolled(t)
  /\ Exits(t, IF Watched(t) THEN "value" ELSE fromFiber[t], dropped)

LinkDisconnects(t) == toFiber[t] \in {"value", "closed"}

\* SelectEither polls the link when the fiber's own future was not ready ...
PollLink(t) ==
  /\ Linked(t) /\ Polls(Link(t), t) /\ due \subseteq {Link(t)}
  /\ ~ LinkDisconnects(t)
  /\ Await(Link(t), t) /\ ReturnNotReady(Link(t))
  /\ UNCHANGED <<program, user, moves, linkVars>>

\* ... and whatever the link has got, both are dropped, and nothing is sent.
GiveUp(t, dropped) ==
  /\ Linked(t) /\ Polls(Link(t), t) /\ due \subseteq {Link(t)}
  /\ LinkDisconnects(t)
  /\ Exits(t, "closed", dropped)

\* The senders of fibers that are lost are dropped unused.
LoseLinks ==
  /\ fromFiber' = [t \in Tasks |-> IF fromFiber[t] = "empty" THEN "closed" ELSE fromFiber[t]]
  /\ holder' = [t \in Tasks |-> IF user[Exit(t)] = NoTask THEN holder[t] ELSE "left"]
  /\ UNCHANGED toFiber

\* Another fiber polls for the exit of t.
PollExit(t, u) ==
  /\ Polls(Exit(t), u)
  /\ IF fromFiber[t] = "empty"
       THEN /\ Await(Exit(t), u) /\ ReturnNotReady(Exit(t))
            /\ UNCHANGED <<user, holder>>
       ELSE /\ ReturnReady(Exit(t))
            /\ user' = [user EXCEPT ![Exit(t)] = NoTask]
            /\ holder' = [holder EXCEPT ![t] =
                            IF fromFiber[t] = "value" THEN "result" ELSE "aborted"]
            /\ Notify(Exit(t))
  /\ UNCHANGED <<program, moves, toFiber, fromFiber>>

----------------------------------------------------------------------------
(* The holder, outside of fibers                                            *)

\* Mutant of PollMonitor: a disconnected channel is not distinguished.
PollMonitorValue(t) ==
  /\ holder[t] = "waits" /\ OutsideFibers(t)
  /\ fromFiber[t] = "value"
  /\ holder' = [holder EXCEPT ![t] = "result"]
  /\ UNCHANGED <<lifecycleVars, futuresVars, toFiber, fromFiber>>

\* run_future polls the Monitor or the Link until it has something to tell.
PollMonitor(t) ==
  /\ holder[t] = "waits" /\ OutsideFibers(t)
  /\ \/ fromFiber[t] = "value" /\ holder' = [holder EXCEPT ![t] = "result"]
     \/ fromFiber[t] = "closed" /\ holder' = [holder EXCEPT ![t] = "aborted"]
  /\ UNCHANGED <<lifecycleVars, futuresVars, toFiber, fromFiber>>

\* Mutant of ExitLink: the peer is not notified.
ExitLinkSilently(t) ==
  /\ status[t] # "new" /\ holder[t] = "waits" /\ OutsideFibers(t) /\ Linked(t)
  /\ holder' = [holder EXCEPT ![t] = "left"]
  /\ toFiber' = [toFiber EXCEPT ![t] = "value"]
  /\ UNCHANGED <<lifecycleVars, futuresVars, fromFiber>>

\* Link::exit sends, and drops both halves.
ExitLink(t) ==
  /\ status[t] # "new" /\ holder[t] = "waits" /\ OutsideFibers(t) /\ Linked(t)
  /\ holder' = [holder EXCEPT ![t] = "left"]
  /\ toFiber' = [toFiber EXCEPT ![t] = "value"]
  /\ Notify(Link(t))
  /\ UNCHANGED <<program, user, pollVars, moves, fromFiber>>

\* The Monitor or the Link is dropped; a Link's sender notifies ...
LeaveFiber(t) ==
  /\ status[t] # "new" /\ holder[t] = "waits" /\ OutsideFibers(t)
  /\ holder' = [holder EXCEPT ![t] = "left"]
  /\ IF Linked(t)
       THEN toFiber' = [toFiber EXCEPT ![t] = "closing"] /\ Notify(Link(t))
       ELSE UNCHANGED <<toFiber, lifecycleVars, waiter>>
  /\ UNCHANGED <<program, user, pollVars, moves, fromFiber>>

\* ... and then disconnects.
CloseLink(t) ==
  /\ toFiber[t] = "closing"
  /\ toFiber' = [toFiber EXCEPT ![t] = "closed"]
  /\ UNCHANGED <<lifecycleVars, futuresVars, fromFiber, holder>>

HolderActs(t) == ExitLink(t) \/ LeaveFiber(t)

LinkInit ==
  /\ toFiber = [t \in Tasks |-> "empty"]
  /\ fromFiber = [t \in Tasks |-> "empty"]
  /\ holder = [t \in Tasks |-> IF Watched(t) THEN "waits" ELSE "left"]

LinkTypeOK ==
  /\ toFiber \in [Tasks -> {"empty", "value", "closing", "closed"}]
  /\ fromFiber \in [Tasks -> {"empty", "value", "closed"}]
  /\ holder \in [Tasks -> {"waits", "result", "aborted", "left"}]
=============================================================================
