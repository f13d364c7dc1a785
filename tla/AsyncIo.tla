------------------------------- MODULE AsyncIo -------------------------------
(***************************************************************************)
(* Fibers that wait for sockets, for standard input, for other fibers and  *)
(* for the one who spawned them, in an executor: a thread of a pool with   *)
(* its poller beside it, or the thread of an InPlaceExecutor, which lets   *)
(* the scheduler and the poller work in turn                               *)
(* (src/src/executor/in_place.rs).                                         *)
(***************************************************************************)
EXTENDS Sockets, Stdin, SpawnLink

ASSUME AsyncAssumption ==
  LET links == {Link(t) : t \in Tasks} \cup {Exit(t) : t \in Tasks} IN
  /\ Futures = SocketFutures \cup {Input} \cup links
  /\ Input \notin SocketFutures \cup links

VARIABLE
  turn  \* "both", or, in place, whether the "fibers" or the "poller" works

asyncVars == <<lifecycleVars, futuresVars, socketVars, stdinVars, linkVars, turn>>

----------------------------------------------------------------------------
(* The scheduler's thread                                                   *)

SpawnFiber(t) ==
  /\ program.style[t] # "unused"
  /\ Spawn(t)
  /\ UNCHANGED <<futuresVars, socketVars, stdinVars, linkVars, turn>>

\* run_fiber panics when a request could not be sent to the poller earlier.
RunFiber(t) ==
  /\ turn # "poller"
  /\ IF noticed
       THEN status[t] = "ready" /\ LoseFibers /\ LoseLinks
       ELSE StartPoll(t) /\ UNCHANGED linkVars
  /\ UNCHANGED <<socketVars, stdinVars, turn>>

\* What the future of the running fiber does.
PollStep(t) ==
  /\ UNCHANGED turn
  /\ \/ (\E s \in Sockets : PollSocket(s, t)) /\ UNCHANGED <<stdinVars, linkVars>>
     \/ PollStdin(t) /\ UNCHANGED <<socketVars, linkVars>>
     \/ /\ PollLink(t) \/ \E u \in Tasks : PollExit(u, t)
        /\ UNCHANGED <<socketVars, stdinVars>>

\* run_once(false) is over, and the poller's turn comes.
EndPoll(t) ==
  LET dropped == {Behind(f) : f \in {g \in Futures : user[g] = t}} IN
  /\ turn' = IF turn = "both" THEN "both" ELSE "poller"
  /\ \/ FiberNotReady(t) /\ UNCHANGED <<socketVars, linkVars>>
     \/ (FutureReady(t, dropped) \/ GiveUp(t, dropped)) /\ DropSockets(t)
  /\ UNCHANGED stdinVars

FiberStep(t) == PollStep(t) \/ EndPoll(t)

\* The fiber that reads standard input takes no socket (a bound; see Stdin).
MoveFuture(f, t) ==
  /\ MayMove(f) /\ user[Input] # t /\ TakeFuture(f, t)
  /\ UNCHANGED <<socketVars, stdinVars, linkVars, turn>>

\* InPlaceExecutor::run_once: without a fiber to run it is the poller's turn,
\* and after at most a millisecond, the scheduler's again.
Alternate ==
  /\ \/ turn = "fibers" /\ turn' = "poller"
        /\ \A t \in Tasks : status[t] \notin {"ready", "running"}
     \/ turn = "poller" /\ turn' = "fibers"
  /\ UNCHANGED <<lifecycleVars, futuresVars, socketVars, stdinVars, linkVars>>

----------------------------------------------------------------------------
(* The other threads                                                        *)

PollerAnswers ==
  /\ turn # "fibers"
  /\ \E c \in SocketFutures : Answer(c)
  /\ UNCHANGED <<stdinVars, linkVars, turn>>

PollerDrops ==
  /\ \E c \in SocketFutures : DropSender(c)
  /\ UNCHANGED <<stdinVars, linkVars, turn>>

WorldActs == World /\ UNCHANGED <<stdinVars, linkVars, turn>>

StdinThread == ReaderThread /\ UNCHANGED <<socketVars, linkVars, turn>>
InputChanges == Typing /\ UNCHANGED <<socketVars, linkVars, turn>>

HolderPolls(t) == PollMonitor(t) /\ UNCHANGED <<socketVars, stdinVars, turn>>
HolderLeaves(t) == HolderActs(t) /\ UNCHANGED <<socketVars, stdinVars, turn>>
LinkCloses(t) == CloseLink(t) /\ UNCHANGED <<socketVars, stdinVars, turn>>

----------------------------------------------------------------------------
AsyncInit ==
  /\ FuturesInit /\ SocketsInit /\ StdinInit /\ LinkInit
  /\ turn = IF program.executor = "pool" THEN "both" ELSE "fibers"

AsyncNext ==
  \/ \E t \in Tasks :
       \/ SpawnFiber(t) \/ RunFiber(t) \/ FiberStep(t)
       \/ HolderPolls(t) \/ HolderLeaves(t) \/ LinkCloses(t)
       \/ \E f \in Futures : MoveFuture(f, t)
  \/ Alternate
  \/ PollerAnswers \/ PollerDrops \/ WorldActs \/ StdinThread \/ InputChanges

\* What other threads have to do, and do a bounded number of times.
Background ==
  \/ PollerDrops
  \/ \E t \in Tasks : HolderPolls(t) \/ LinkCloses(t)

\* The scheduler polls ready fibers in their order (FiberLifecycle's fairness),
\* the poller handles requests and events in theirs, every thread runs, and
\* who calls run_future goes on polling.  Nobody has to connect, type or exit.
AsyncFairness ==
  /\ \A t \in Tasks : SF_asyncVars(RunFiber(t))
  /\ WF_asyncVars(\E t \in Tasks : FiberStep(t))
  /\ SF_asyncVars(PollerAnswers)
  /\ WF_asyncVars(StdinThread)
  /\ WF_asyncVars(Alternate)
  /\ WF_asyncVars(Background)

AsyncSpec == AsyncInit /\ [][AsyncNext]_asyncVars /\ AsyncFairness

----------------------------------------------------------------------------
(* Properties *)

\* Types, and that a future belongs to the fiber that runs while it is polled.
AsyncTypeOK ==
  /\ FuturesTypeOK /\ SocketsTypeOK /\ StdinTypeOK /\ LinkTypeOK
  /\ turn \in {"both", "fibers", "poller"}
  /\ at # NoFuture => ~ NobodyRuns
  /\ at \in SocketFutures \cup {Input} => user[at] \in Tasks /\ status[user[at]] = "running"

\* There is a value for whoever polls f.
Answered(f) ==
  \/ f \in SocketFutures /\ slot[Behind(f)] = "ready"
  \/ f = Input /\ responses # <<>>
  \/ \E t \in Tasks : \/ f = Link(t) /\ toFiber[t] = "value"
                      \/ f = Exit(t) /\ fromFiber[t] = "value"

\* "If the fiber has multiple sockets (or other objects which may block), it
\* will be suspended only the case that all of them are unavailable."  A fiber
\* never sleeps on a future that has got its answer, whichever of its futures
\* it is, whoever polled it before, and however the answer raced with the poll.
SuspendedOnlyIfUnavailable ==
  \A f \in blocked : status[user[f]] = "waiting" => ~ Answered(f)

\* The counterpart: a fiber all of whose futures are unavailable is descheduled.
\* It is not polled again before one of them has unparked it.  Two polls park
\* nothing, so that a fiber goes on: the first read of standard input, and that
\* of a connection whose monitor was dropped by the poller, and is not looked at.
NotPolledInVain ==
  \A t \in Tasks :
    LET waits == {f \in blocked : user[f] = t}
        parksNothing(f) ==
          \/ f = Input
          \/ poller = "gone" /\ \E s \in Sockets : f = Opening(s) /\ stage[s] = "connecting"
    IN  status[t] = "ready" /\ waits # {} /\ (\A f \in waits : ~ parksNothing(f))
          => credit[t] > 0

\* What a future that was not ready waits for is there.
CanGoOn(f) ==
  \/ /\ f \in SocketFutures /\ poller = "alive"
     /\ \/ stage[f[1]] = "registering"
        \/ stage[f[1]] = "connecting" /\ peer[f[1]] # "pending"
        \/ stage[f[1]] = "open" /\ f \in ready
  \/ f = Input /\ (input > 0 \/ eof) /\ ReaderReceives
  \/ Answered(f)

\* No future is left not ready for ever although what it waits for is there: the
\* poller, the reader thread or the peer answers, the fiber is polled, and it
\* polls the future.  (What is disconnected is the business of DropIsDetected.)
BlockedAreResumed == []<> \A f \in blocked : ~ CanGoOn(f)

\* The loop in which Stdin::read occupies the thread of all fibers ends: the
\* input that the reader has seen cannot be taken away by another thread.
BusyWaitEnds == []<> ~ spinning

\* Linked fibers whose Link exits end, whatever they wait for.
ExitPending == \E t \in Tasks : toFiber[t] = "value" /\ status[t] \notin {"done", "lost"}
ExitEndsFiber == []<> ~ ExitPending

\* Whoever runs run_future on a fiber's Monitor learns of the fiber's end, be it
\* ready, given up by its link, or lost in a panic.
EndUnreported ==
  \E t \in Tasks :
    status[t] \in {"done", "lost"} /\ OutsideFibers(t) /\ holder[t] = "waits"
FibersAreReported == []<> ~ EndUnreported
=============================================================================
