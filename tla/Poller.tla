------------------------------- MODULE Poller -------------------------------
(***************************************************************************)
(* The I/O poller (src/src/io/poll/poller.rs) with its timers (also        *)
(* src/src/time.rs and src/src/collections.rs): one thread that calls      *)
(* Poller::poll, and users that hold handles, monitors and timeouts.       *)
(*                                                                         *)
(* Everything users ask for goes through one FIFO channel of requests, of  *)
(* which a poll handles at most one.  Answers come back on oneshot         *)
(* channels, which OneshotChannel models; here their effect is immediate.  *)
(* mio itself is external: an evented object is armed for a set of         *)
(* interests, and an event of it disarms it (edge triggered, oneshot).     *)
(***************************************************************************)
EXTENDS Integers, Sequences, FiniteSets

CONSTANTS
  Evented,     \* objects that may be registered, each once at a time
  Monitors,    \* calls of EventedHandle::monitor
  Timers,      \* calls of timer::timeout
  None,        \* no object
  TokenSpace,  \* number of tokens; usize arithmetic wraps at this value
  Timeouts,    \* the timeouts that callers give to Poller::poll
  Durations,   \* the durations of timers
  MaxTime,     \* bound of the environment: how far the clock advances
  MioMayFail   \* whether mio's (de)registrations may report errors

ASSUME PollerAssumption ==
  /\ None \notin Evented
  /\ TokenSpace \in Nat \ {0}
  /\ Timeouts # {} /\ Timeouts \subseteq Nat
  /\ Durations \subseteq Nat
  /\ MaxTime \in Nat
  /\ MioMayFail \in BOOLEAN

VARIABLES
  requests,      \* the request channel
  registrants,   \* Poller.registrants: token -> object, None when absent
  isFirst,       \* objects whose Registrant.is_first is set
  waitings,      \* read_waitings and write_waitings of each object
  nextToken,     \* Poller.next_token
  timeoutQueue,  \* the timers in Poller.timeout_queue
  pc,            \* where the thread is: "out", "request", "clock", "timeouts",
                 \* "io", "events" of Poller::poll, "failed", "gone"
  wait,          \* the timeout of this poll
  didSomething,  \* a local of poll
  instant,       \* the local now of poll
  events,        \* the events mio has returned that are not handled yet
  awake,         \* when the timeout of mio's last poll ends, or, if it returned
                 \* before that, when it returned
  longest,       \* history: the longest time between the end of a sleep in mio
                 \* and the beginning of the next (or now); restricts no step
  erred,         \* some poll has returned an error
  registered,    \* mio: the registered objects
  armed,         \* mio: the interests each object is armed for
  ready,         \* the interests each object is ready for
  handle,        \* "none", "registering", "cancelled", "held", "dropped"
  token,         \* EventedHandle.token
  monitor,       \* "unused", "waiting", "notified", "aborted"
  target,        \* what a monitor waits for
  clock,         \* time::Instant::now()
  timer,         \* "unborn", "created", "measured", "set", "done", "dropped"
  due,           \* start + duration of a timer
  expiry,        \* its expiry_time; when measured, the rest of its duration
  outcome        \* its oneshot channel: "none", "expired", "error"

tableVars   == <<registrants, isFirst, waitings, nextToken, timeoutQueue>>
localVars   == <<wait, didSomething, instant, events, awake, longest>>
threadVars  == <<pc, localVars, erred>>
mioVars     == <<registered, armed>>
handleVars  == <<handle, token>>
timerVars   == <<timer, due, expiry, outcome>>
sharedVars  == <<requests, ready, handleVars, monitor, target, clock, timerVars>>
pollerVars  == <<tableVars, threadVars, mioVars, sharedVars>>

Interest == {"read", "write"}
Token == 0 .. TokenSpace - 1
NoWaitings == [i \in Interest |-> {}]

Register(o) == [op |-> "Register", evented |-> o]
Deregister(k) == [op |-> "Deregister", token |-> k]
Monitor(k, i, m) == [op |-> "Monitor", token |-> k, interest |-> i, monitor |-> m]
SetTimeout(t) == [op |-> "SetTimeout", timer |-> t]
CancelTimeout(t) == [op |-> "CancelTimeout", timer |-> t]

Request ==
  {Register(o) : o \in Evented} \cup {Deregister(k) : k \in Token} \cup
  {Monitor(k, i, m) : k \in Token, i \in Interest, m \in Monitors} \cup
  {SetTimeout(t) : t \in Timers} \cup {CancelTimeout(t) : t \in Timers}

\* Sending on the request channel does nothing once the poller is gone.
Send(r) == requests' = IF pc = "gone" THEN requests ELSE Append(requests, r)

----------------------------------------------------------------------------
(* Poller::handle_request *)

\* Mutant of NextToken: tokens in use are not skipped.
NextTokenUnchecked(k) ==
  k = nextToken /\ nextToken' = (k + 1) % TokenSpace

\* Mutant of NextToken: next_token does not wrap around.
NextTokenUnwrapped(k) ==
  /\ registrants[k] = None
  /\ \A free \in Token : registrants[free] = None =>
       (k - nextToken) % TokenSpace <= (free - nextToken) % TokenSpace
  /\ nextToken' = k + 1

\* Poller::next_token returns k: the first one at or after next_token that no
\* registrant has; wrapping_add(1).
NextToken(k) ==
  /\ registrants[k] = None
  /\ \A free \in Token : registrants[free] = None =>
       (k - nextToken) % TokenSpace <= (free - nextToken) % TokenSpace
  /\ nextToken' = (k + 1) % TokenSpace

\* poll returns an error.
Fail == pc' = "failed" /\ erred' = TRUE
GoOn(next) == pc' = next /\ UNCHANGED erred

\* Mutant of MioRegister: only the first registration is made.
MioRegisterOnce(o, w, next) ==
  /\ isFirst' = isFirst \ {o}
  /\ IF o \in isFirst /\ w # NoWaitings
       THEN /\ registered' = registered \cup {o}
            /\ armed' = [armed EXCEPT ![o] = {i \in Interest : w[i] # {}}]
       ELSE UNCHANGED mioVars
  /\ GoOn(next)

\* Poller::mio_register for an object with waitings w: arm it for what it is
\* waited for, with register or, if is_first was cleared before, reregister,
\* which fails for an object that is not registered.
MioRegister(o, w, next) ==
  IF w = NoWaitings
    THEN GoOn(next) /\ UNCHANGED <<isFirst, mioVars>>
    ELSE /\ isFirst' = isFirst \ {o}
         /\ \/ /\ o \in isFirst \/ o \in registered
               /\ registered' = registered \cup {o}
               /\ armed' = [armed EXCEPT ![o] = {i \in Interest : w[i] # {}}]
               /\ GoOn(next)
            \/ /\ MioMayFail \/ ~ (o \in isFirst \/ o \in registered)
               /\ Fail
               /\ UNCHANGED mioVars

\* Mutant of HandleRegister: the drop of the unwanted handle is not reported.
HandleRegisterLeaks(o) ==
  \E k \in Token :
    /\ NextToken(k)
    /\ registrants' = [registrants EXCEPT ![k] = o]
    /\ isFirst' = isFirst \cup {o}
    /\ token' = [token EXCEPT ![o] = k]
    /\ handle' = [handle EXCEPT ![o] = IF @ = "registering" THEN "held" ELSE "dropped"]
    /\ requests' = Tail(requests)
    /\ GoOn("clock")
    /\ UNCHANGED <<waitings, timeoutQueue, mioVars, monitor>>

\* The reply finds the Register future waiting, or drops the new handle.
HandleRegister(o) ==
  \E k \in Token :
    /\ NextToken(k)
    /\ registrants' = [registrants EXCEPT ![k] = o]
    /\ isFirst' = isFirst \cup {o}
    /\ token' = [token EXCEPT ![o] = k]
    /\ IF handle[o] = "registering"
         THEN /\ handle' = [handle EXCEPT ![o] = "held"]
              /\ requests' = Tail(requests)
         ELSE /\ handle' = [handle EXCEPT ![o] = "dropped"]
              /\ requests' = Append(Tail(requests), Deregister(k))
    /\ GoOn("clock")
    /\ UNCHANGED <<waitings, timeoutQueue, mioVars, monitor>>

\* Mutant of HandleDeregister: mio is not told.
HandleDeregisterOnly(k) ==
  LET o == registrants[k] IN
  /\ requests' = Tail(requests)
  /\ registrants' = [registrants EXCEPT ![k] = None]
  /\ waitings' = [waitings EXCEPT ![o] = NoWaitings]
  /\ monitor' = [m \in Monitors |->
       IF \E i \in Interest : m \in waitings[o][i] THEN "aborted" ELSE monitor[m]]
  /\ GoOn("clock")
  /\ UNCHANGED <<isFirst, nextToken, timeoutQueue, mioVars, handleVars>>

\* The registrant is dropped with its waiters; mio forgets the object.
HandleDeregister(k) ==
  LET o == registrants[k] IN
  /\ o # None
  /\ requests' = Tail(requests)
  /\ registrants' = [registrants EXCEPT ![k] = None]
  /\ waitings' = [waitings EXCEPT ![o] = NoWaitings]
  /\ monitor' = [m \in Monitors |->
       IF \E i \in Interest : m \in waitings[o][i] THEN "aborted" ELSE monitor[m]]
  /\ registered' = registered \ {o}
  /\ armed' = [armed EXCEPT ![o] = {}]
  /\ \/ (o \in isFirst \/ o \in registered) /\ GoOn("clock")
     \/ o \notin isFirst /\ (MioMayFail \/ o \notin registered) /\ Fail
  /\ UNCHANGED <<isFirst, nextToken, timeoutQueue, handleVars>>

\* Mutant of HandleMonitor: the object is armed by its first waiter only.
HandleMonitorFirst(k, i, m) ==
  LET o == registrants[k]
      w == [waitings[o] EXCEPT ![i] = @ \cup {m}] IN
  /\ o # None
  /\ requests' = Tail(requests)
  /\ waitings' = [waitings EXCEPT ![o] = w]
  /\ IF waitings[o] = NoWaitings
       THEN MioRegister(o, w, "clock")
       ELSE GoOn("clock") /\ UNCHANGED <<isFirst, mioVars>>
  /\ UNCHANGED <<registrants, nextToken, timeoutQueue, handleVars, monitor>>

\* One more waiter; the object is armed if a list has exactly one waiter now.
HandleMonitor(k, i, m) ==
  LET o == registrants[k]
      w == [waitings[o] EXCEPT ![i] = @ \cup {m}] IN
  /\ o # None
  /\ requests' = Tail(requests)
  /\ waitings' = [waitings EXCEPT ![o] = w]
  /\ IF \E j \in Interest : Cardinality(w[j]) = 1
       THEN MioRegister(o, w, "clock")
       ELSE GoOn("clock") /\ UNCHANGED <<isFirst, mioVars>>
  /\ UNCHANGED <<registrants, nextToken, timeoutQueue, handleVars, monitor>>

\* Mutant of HandleTimer: a cancellation removes the next timer.
HandleTimerNext(r) ==
  /\ requests' = Tail(requests)
  /\ timeoutQueue' = IF r.op = "SetTimeout" THEN timeoutQueue \cup {r.timer}
       ELSE {t \in timeoutQueue : \E u \in timeoutQueue : expiry[u] < expiry[t]}
  /\ GoOn("clock")
  /\ UNCHANGED <<registrants, isFirst, waitings, nextToken, mioVars, handleVars, monitor>>

\* push_if_absent and remove on the HeapMap
HandleTimer(r) ==
  /\ requests' = Tail(requests)
  /\ timeoutQueue' = IF r.op = "SetTimeout" THEN timeoutQueue \cup {r.timer}
                                            ELSE timeoutQueue \ {r.timer}
  /\ GoOn("clock")
  /\ UNCHANGED <<registrants, isFirst, waitings, nextToken, mioVars, handleVars, monitor>>

----------------------------------------------------------------------------
(* Poller::poll *)

\* The caller calls poll(Some(d)).
CallPoll(d) ==
  /\ pc = "out"
  /\ pc' = "request"
  /\ wait' = d
  /\ UNCHANGED <<tableVars, didSomething, instant, events, awake, longest, erred,
                 mioVars, sharedVars>>

\* request_rx.try_recv() finds nothing, or a request, which is handled.
TryRecv ==
  /\ pc = "request"
  /\ IF requests = <<>>
       THEN /\ didSomething' = FALSE
            /\ GoOn("clock")
            /\ UNCHANGED <<requests, tableVars, mioVars, handleVars, monitor>>
       ELSE LET r == Head(requests) IN
            /\ didSomething' = TRUE
            /\ \/ r.op = "Register" /\ HandleRegister(r.evented)
               \/ r.op = "Deregister" /\ HandleDeregister(r.token)
               \/ r.op = "Monitor" /\ HandleMonitor(r.token, r.interest, r.monitor)
               \/ r.op \in {"SetTimeout", "CancelTimeout"} /\ HandleTimer(r)
  /\ UNCHANGED <<wait, instant, events, awake, longest, ready, target, clock, timerVars>>

ReadClock ==
  /\ pc = "clock"
  /\ pc' = "timeouts"
  /\ instant' = clock
  /\ UNCHANGED <<tableVars, wait, didSomething, events, awake, longest, erred, mioVars,
                 sharedVars>>

\* Timers with the smallest key in the heap; the ids that order timers with
\* the same expiry_time are left out.
Smallest == {t \in timeoutQueue : \A u \in timeoutQueue : expiry[t] <= expiry[u]}

\* Mutant of PopExpired: the key is compared with the end of the caller's
\* timeout.
PopExpiredSoon ==
  /\ pc = "timeouts"
  /\ \E t \in Smallest :
       /\ expiry[t] <= instant + wait
       /\ timeoutQueue' = timeoutQueue \ {t}
       /\ outcome' = [outcome EXCEPT ![t] = "expired"]
  /\ UNCHANGED <<registrants, isFirst, waitings, nextToken, threadVars, mioVars,
                 requests, ready, handleVars, monitor, target, clock, timer, due, expiry>>

\* The body of the loop over pop_if(|k, _| k.0 <= now)
PopExpired ==
  /\ pc = "timeouts"
  /\ \E t \in Smallest :
       /\ expiry[t] <= instant
       /\ timeoutQueue' = timeoutQueue \ {t}
       /\ outcome' = [outcome EXCEPT ![t] = "expired"]
  /\ UNCHANGED <<registrants, isFirst, waitings, nextToken, threadVars, mioVars,
                 requests, ready, handleVars, monitor, target, clock, timer, due, expiry>>

\* Mutant of EnterMioPoll: the pending timers are not looked at.
EnterMioPollLong ==
  /\ pc = "timeouts"
  /\ \A t \in Smallest : expiry[t] > instant
  /\ pc' = "io"
  /\ wait' = IF didSomething THEN 0 ELSE wait
  /\ awake' = clock + wait'
  /\ UNCHANGED <<tableVars, didSomething, instant, events, longest, erred, mioVars,
                 sharedVars>>

\* After the loop: the timeout for mio is zero, or the caller's timeout unless
\* the next timer expires earlier, which is told from the clock as it was read
\* before the loop.  mio is called with it, and sleeps that long from now on.
EnterMioPoll ==
  /\ pc = "timeouts"
  /\ \A t \in Smallest : expiry[t] > instant
  /\ pc' = "io"
  /\ LET limits == {wait} \cup {expiry[t] - instant : t \in timeoutQueue} IN
     wait' = IF didSomething THEN 0
             ELSE CHOOSE d \in limits : \A e \in limits : d <= e
  /\ awake' = clock + wait'
  /\ UNCHANGED <<tableVars, didSomething, instant, events, longest, erred, mioVars,
                 sharedVars>>

\* An event reports the armed interests that are ready; readiness that is none
\* of the two interests (hang-up, error) makes an event for nothing.
Event(k, r) == [token |-> k, readiness |-> r]
Reported(o) == armed[o] \cap ready[o]

\* mio's poll returns, before its timeout or after it.
WakeUp == awake' = IF clock < awake THEN clock ELSE awake

\* mio's poll returns: with events, which disarm their objects, or because the
\* timeout has passed (or the modelled time has come to its end).
MioPoll(spurious) ==
  LET hit == {k \in Token : registrants[k] # None /\ armed[registrants[k]] # {} /\
                (Reported(registrants[k]) # {} \/ registrants[k] \in spurious)}
      disarmed == {registrants[k] : k \in hit} IN
  /\ pc = "io"
  /\ hit # {} \/ clock >= awake \/ clock = MaxTime
  /\ events' = {Event(k, Reported(registrants[k])) : k \in hit}
  /\ armed' = [o \in Evented |-> IF o \in disarmed THEN {} ELSE armed[o]]
  /\ WakeUp
  /\ pc' = "events"
  /\ UNCHANGED <<tableVars, wait, didSomething, instant, longest, erred, registered,
                 sharedVars>>

MioPollFails ==
  /\ pc = "io"
  /\ MioMayFail
  /\ Fail
  /\ WakeUp
  /\ UNCHANGED <<tableVars, wait, didSomething, instant, events, longest, mioVars,
                 sharedVars>>

\* One iteration of the loop over the events: the waiters for what is ready
\* are notified and the object is armed for the others.  An error leaves the
\* loop and the events behind it.
HandleEvent ==
  /\ pc = "events"
  /\ \E e \in events :
       LET o == registrants[e.token]
           w == [i \in Interest |-> IF i \in e.readiness THEN {} ELSE waitings[o][i]]
           notified == UNION {waitings[o][i] : i \in e.readiness} IN
       /\ waitings' = [waitings EXCEPT ![o] = w]
       /\ monitor' = [m \in Monitors |-> IF m \in notified THEN "notified" ELSE monitor[m]]
       /\ MioRegister(o, w, "events")
       /\ events' = IF pc' = "failed" THEN {} ELSE events \ {e}
  /\ UNCHANGED <<registrants, nextToken, timeoutQueue, wait, didSomething, instant,
                 awake, longest, requests, ready, handleVars, target, clock, timerVars>>

\* The locals of this call are over.
ReturnOk ==
  /\ pc = "events" /\ events = {}
  /\ pc' = "out"
  /\ wait' = 0 /\ didSomething' = FALSE /\ instant' = 0
  /\ UNCHANGED <<tableVars, events, awake, longest, erred, mioVars, sharedVars>>

\* The caller drops the poller: after an error, as the thread of a PollerPool
\* does, or because the executor was dropped.  The other halves of all oneshot
\* channels that the poller or its requests hold are dropped with it.
DropPoller ==
  /\ pc \in {"failed", "out"}
  /\ pc' = "gone"
  /\ requests' = <<>>
  /\ registrants' = [k \in Token |-> None]
  /\ waitings' = [o \in Evented |-> NoWaitings]
  /\ timeoutQueue' = {}
  /\ registered' = {} /\ armed' = [o \in Evented |-> {}]
  /\ handle' = [o \in Evented |->
       IF handle[o] \in {"registering", "cancelled"} THEN "dropped" ELSE handle[o]]
  /\ monitor' = [m \in Monitors |->
       IF monitor[m] = "waiting" THEN "aborted" ELSE monitor[m]]
  /\ outcome' = [t \in Timers |->
       IF timer[t] = "set" /\ outcome[t] = "none" THEN "error" ELSE outcome[t]]
  /\ UNCHANGED <<isFirst, nextToken, localVars, erred, ready, token, target, clock, timer,
                 due, expiry>>

\* After an error it may also call poll again, as the user of an InPlaceExecutor may.
PollAgain ==
  /\ pc = "failed"
  /\ pc' = "out"
  /\ UNCHANGED <<tableVars, localVars, erred, mioVars, sharedVars>>

----------------------------------------------------------------------------
(* PollerHandle and EventedHandle, on any thread *)

\* Objects that are open: held by a handle, by a registrant or by a request.
Open == {o \in Evented : handle[o] \in {"registering", "cancelled", "held"}}
        \cup ({registrants[k] : k \in Token} \ {None})

\* The environment never has as many objects open as there are tokens.
TokensSuffice == Cardinality(Open) < TokenSpace

\* PollerHandle::register; without a poller the Register future fails.  An object
\* that was closed may stand for a new one.
RegisterEvented(o) ==
  /\ o \notin Open
  /\ TokensSuffice
  /\ handle' = [handle EXCEPT ![o] = IF pc = "gone" THEN "dropped" ELSE "registering"]
  /\ Send(Register(o))
  /\ UNCHANGED <<tableVars, threadVars, mioVars, ready, token, monitor, target, clock,
                 timerVars>>

\* The Register future is dropped before the poller has replied.
CancelRegister(o) ==
  /\ handle[o] = "registering"
  /\ handle' = [handle EXCEPT ![o] = "cancelled"]
  /\ UNCHANGED <<tableVars, threadVars, mioVars, requests, ready, token, monitor, target,
                 clock, timerVars>>

\* Mutant of DropHandle: the Deregister request overtakes the others.
DropHandleFirst(o) ==
  /\ handle[o] = "held"
  /\ handle' = [handle EXCEPT ![o] = "dropped"]
  /\ requests' = IF pc = "gone" THEN requests ELSE <<Deregister(token[o])>> \o requests
  /\ UNCHANGED <<tableVars, threadVars, mioVars, ready, token, monitor, target, clock,
                 timerVars>>

\* The last reference of the EventedHandle is dropped.
DropHandle(o) ==
  /\ handle[o] = "held"
  /\ handle' = [handle EXCEPT ![o] = "dropped"]
  /\ Send(Deregister(token[o]))
  /\ UNCHANGED <<tableVars, threadVars, mioVars, ready, token, monitor, target, clock,
                 timerVars>>

\* EventedHandle::monitor; without a poller the monitor is aborted at once.
CallMonitor(m, o, i) ==
  /\ monitor[m] = "unused" /\ handle[o] = "held"
  /\ monitor' = [monitor EXCEPT ![m] = IF pc = "gone" THEN "aborted" ELSE "waiting"]
  /\ target' = [target EXCEPT ![m] = [evented |-> o, interest |-> i]]
  /\ Send(Monitor(token[o], i, m))
  /\ UNCHANGED <<tableVars, threadVars, mioVars, ready, handleVars, clock, timerVars>>

\* The object becomes ready, or what it had is used up.
ChangeReadiness(o, i) ==
  /\ o \in Open
  /\ ready' = [ready EXCEPT ![o] = IF i \in @ THEN @ \ {i} ELSE @ \cup {i}]
  /\ UNCHANGED <<tableVars, threadVars, mioVars, requests, handleVars, monitor, target,
                 clock, timerVars>>

----------------------------------------------------------------------------
(* Timeouts, on any thread *)

\* Time passes, for a thread that sleeps until awake as for one that is busy.
Tick ==
  /\ clock < MaxTime
  /\ clock' = clock + 1
  /\ longest' = IF clock' > awake + longest THEN clock' - awake ELSE longest
  /\ UNCHANGED <<tableVars, pc, wait, didSomething, instant, events, awake, erred, mioVars,
                 requests, ready, handleVars, monitor, target, timerVars>>

\* timer::timeout notes the start and the duration.
MakeTimeout(t, d) ==
  /\ timer[t] = "unborn"
  /\ timer' = [timer EXCEPT ![t] = "created"]
  /\ due' = [due EXCEPT ![t] = clock + d]
  /\ UNCHANGED <<tableVars, threadVars, mioVars, requests, ready, handleVars, monitor,
                 target, clock, expiry, outcome>>

\* The first poll of a timer::Timeout is ready if the duration has elapsed;
\* else it goes on to ask for the rest, if it runs in a fiber.
FirstPoll(t) ==
  /\ timer[t] = "created"
  /\ IF clock >= due[t]
       THEN /\ timer' = [timer EXCEPT ![t] = "done"]
            /\ outcome' = [outcome EXCEPT ![t] = "expired"]
            /\ UNCHANGED expiry
       ELSE /\ timer' = [timer EXCEPT ![t] = "measured"]
            /\ expiry' = [expiry EXCEPT ![t] = due[t] - clock]
            /\ UNCHANGED outcome
  /\ UNCHANGED <<tableVars, threadVars, mioVars, requests, ready, handleVars, monitor,
                 target, clock, due>>

\* PollerHandle::set_timeout, which reads the clock once more
CallSetTimeout(t) ==
  /\ timer[t] = "measured"
  /\ timer' = [timer EXCEPT ![t] = "set"]
  /\ expiry' = [expiry EXCEPT ![t] = clock + expiry[t]]
  /\ Send(SetTimeout(t))
  /\ outcome' = [outcome EXCEPT ![t] = IF pc = "gone" THEN "error" ELSE "none"]
  /\ UNCHANGED <<tableVars, threadVars, mioVars, ready, handleVars, monitor, target, clock,
                 due>>

\* poller::Timeout::poll finds the oneshot channel answered or disconnected and
\* forgets how to cancel the timer.
PollTimeout(t) ==
  /\ timer[t] = "set" /\ outcome[t] # "none"
  /\ timer' = [timer EXCEPT ![t] = "done"]
  /\ UNCHANGED <<tableVars, threadVars, mioVars, requests, ready, handleVars, monitor,
                 target, clock, due, expiry, outcome>>

\* Mutant of DropTimeout: a timer that has been set is not cancelled.
DropTimeoutOnly(t) ==
  /\ timer[t] \in {"created", "set"}
  /\ timer' = [timer EXCEPT ![t] = "dropped"]
  /\ due' = [due EXCEPT ![t] = 0]
  /\ UNCHANGED <<tableVars, threadVars, mioVars, requests, ready, handleVars, monitor,
                 target, clock, expiry, outcome>>

\* A timer::Timeout is dropped, and its start and duration with it; the drop of
\* the poller::Timeout in it sends the cancellation, although the timer may have
\* expired in the meantime.
DropTimeout(t) ==
  /\ timer[t] \in {"created", "set"}
  /\ timer' = [timer EXCEPT ![t] = "dropped"]
  /\ due' = [due EXCEPT ![t] = 0]
  /\ IF timer[t] = "set" THEN Send(CancelTimeout(t)) ELSE UNCHANGED requests
  /\ UNCHANGED <<tableVars, threadVars, mioVars, ready, handleVars, monitor, target, clock,
                 expiry, outcome>>

----------------------------------------------------------------------------
PollerInit ==
  /\ requests = <<>>
  /\ registrants = [k \in Token |-> None]
  /\ isFirst = {}
  /\ waitings = [o \in Evented |-> NoWaitings]
  /\ nextToken = 0
  /\ timeoutQueue = {}
  /\ pc = "out"
  /\ wait = 0 /\ didSomething = FALSE /\ instant = 0 /\ events = {} /\ erred = FALSE
  /\ awake = 0 /\ longest = 0
  /\ registered = {}
  /\ armed = [o \in Evented |-> {}]
  /\ ready = [o \in Evented |-> {}]
  /\ handle = [o \in Evented |-> "none"]
  /\ token = [o \in Evented |-> 0]
  /\ monitor = [m \in Monitors |-> "unused"]
  /\ target = [m \in Monitors |-> None]
  /\ clock = 0
  /\ timer = [t \in Timers |-> "unborn"]
  /\ due = [t \in Timers |-> 0]
  /\ expiry = [t \in Timers |-> 0]
  /\ outcome = [t \in Timers |-> "none"]

PollerThread ==
  \/ \E d \in Timeouts : CallPoll(d)
  \/ TryRecv \/ ReadClock \/ PopExpired \/ EnterMioPoll
  \/ \E spurious \in SUBSET Evented : MioPoll(spurious)
  \/ MioPollFails
  \/ HandleEvent \/ ReturnOk
  \/ DropPoller \/ PollAgain

PollerNext ==
  \/ PollerThread
  \/ \E o \in Evented :
       \/ RegisterEvented(o) \/ CancelRegister(o) \/ DropHandle(o)
       \/ \E i \in Interest :
            ChangeReadiness(o, i) \/ \E m \in Monitors : CallMonitor(m, o, i)
  \/ Tick
  \/ \E t \in Timers :
       \/ \E d \in Durations : MakeTimeout(t, d)
       \/ FirstPoll(t) \/ CallSetTimeout(t) \/ PollTimeout(t) \/ DropTimeout(t)

\* Both executors call poll in a loop, with a finite timeout; time passes.
PollerFairness == WF_pollerVars(PollerThread) /\ WF_pollerVars(Tick)

PollerSpec == PollerInit /\ [][PollerNext]_pollerVars /\ PollerFairness
----------------------------------------------------------------------------
(* Properties *)

PollerTypeOK ==
  /\ requests \in Seq(Request)
  /\ registrants \in [Token -> Evented \cup {None}]
  /\ isFirst \subseteq Evented
  /\ waitings \in [Evented -> [Interest -> SUBSET Monitors]]
  /\ nextToken \in Token
  /\ timeoutQueue \subseteq Timers
  /\ pc \in {"out", "request", "clock", "timeouts", "io", "events", "failed", "gone"}
  /\ wait \in Nat /\ instant \in Nat /\ awake \in Nat /\ longest \in Nat /\ clock \in Nat
  /\ didSomething \in BOOLEAN /\ erred \in BOOLEAN
  /\ events \subseteq [token : Token, readiness : SUBSET Interest]
  /\ registered \subseteq Evented
  /\ armed \in [Evented -> SUBSET Interest]
  /\ ready \in [Evented -> SUBSET Interest]
  /\ handle \in [Evented -> {"none", "registering", "cancelled", "held", "dropped"}]
  /\ token \in [Evented -> Token]
  /\ monitor \in [Monitors -> {"unused", "waiting", "notified", "aborted"}]
  /\ target \in [Monitors -> [evented : Evented, interest : Interest] \cup {None}]
  /\ timer \in [Timers -> {"unborn", "created", "measured", "set", "done", "dropped"}]
  /\ due \in [Timers -> Nat]
  /\ expiry \in [Timers -> Nat]
  /\ outcome \in [Timers -> {"none", "expired", "error"}]

\* Request r is in the channel before position n / somewhere.
QueuedBefore(r, n) == \E m \in 1 .. n - 1 : requests[m] = r
Queued(r) == QueuedBefore(r, Len(requests) + 1)

\* The assertions in handle_request and poll: a request or an event names a
\* token that still belongs to the object it was made for, although tokens are
\* reused, handles are dropped by other threads and their Deregister requests
\* are on their way; and no timer is set twice.
AssertionsHold ==
  /\ \A n \in DOMAIN requests :
       LET r == requests[n] IN
       /\ r.op = "Monitor" => registrants[r.token] = target[r.monitor].evented
       /\ r.op = "Deregister" =>
            registrants[r.token] # None /\ handle[registrants[r.token]] = "dropped"
       /\ r.op \in {"Monitor", "Deregister"} => ~ QueuedBefore(Deregister(r.token), n)
       /\ r.op = "SetTimeout" => r.timer \notin timeoutQueue
  /\ \A e \in events : registrants[e.token] # None

\* No waiter is forgotten: whatever somebody waits for is armed in mio, or an
\* event of the object is about to be handled.  mio is asked only when a list
\* gets its first waiter and after each event, and every event disarms.
WaitersCovered ==
  ~ erred =>
    \A o \in Evented, i \in Interest :
      waitings[o][i] # {} =>
        i \in armed[o] \/ \E e \in events : registrants[e.token] = o

\* mio is never asked to register an object twice, nor to change one that is
\* not registered, and it is not left with objects whose registrant is gone,
\* whose events would hit the assertion.
MioAgrees ==
  ~ erred =>
    /\ registered = {registrants[k] : k \in Token} \ ({None} \cup isFirst)
    /\ \A o \in Evented : armed[o] # {} => o \in registered

\* A registrant does not outlive its handle, even if the handle was never
\* received because the Register future was dropped first.
RegistrantsAreFreed ==
  \A k \in Token :
    registrants[k] # None => handle[registrants[k]] = "held" \/ Queued(Deregister(k))

\* Somebody who waits for what is ready is notified, and one who waits for an
\* object that is dropped is told so, unless it ceases to be ready; and nobody
\* waits for a poller that is gone.  (A poll that fails may forget waiters: the
\* caller who polls again takes that on himself.)
MonitorsAreAnswered ==
  \A m \in Monitors, o \in Evented, i \in Interest :
    LET waits == monitor[m] = "waiting" /\ target[m] = [evented |-> o, interest |-> i]
        answer == i \in ready[o] \/ handle[o] = "dropped" \/ pc = "gone" IN
    waits /\ answer ~> ~ waits \/ ~ answer \/ (erred /\ pc # "gone")

\* A timer never expires before its duration has passed since it was made,
\* although the rest of it is computed from one reading of the clock and added
\* to another.
NeverEarly == \A t \in Timers : outcome[t] = "expired" => clock >= due[t]

\* This poll has handled a request and not yet popped the expired timers.
RequestJustHandled == pc \in {"clock", "timeouts"} /\ didSomething

\* A pending timer is overdue by at most twice the longest time the thread has
\* been busy between two sleeps: once because the timeout of mio's poll is
\* told from a reading of the clock that is stale when the sleep begins, once
\* until the thread gets round to popping the timer.  It does not matter how
\* long the sleeps are, nor which timers were set and cancelled before.  (Only
\* a timer whose request was handled in this very poll may be later, if it was
\* on its way for that long.)
LatenessIsBounded ==
  \/ RequestJustHandled
  \/ \A t \in timeoutQueue : clock <= expiry[t] + 2 * longest

\* A timer that nobody waits for any more leaves nothing behind in the poller,
\* whether it is dropped before or after its request was handled, or expires
\* while it is being cancelled.
CancelledTimersAreFreed ==
  \A t \in Timers :
    timer[t] \in {"done", "dropped"} /\ (t \in timeoutQueue \/ Queued(SetTimeout(t)))
      => Queued(CancelTimeout(t)) /\ timer[t] = "dropped"

\* A timer expires unless it is dropped, whatever else is set, expires and is
\* cancelled (if it expires within the modelled time).
TimersExpire ==
  \A t \in Timers :
    timer[t] = "set" /\ expiry[t] <= MaxTime
      ~> (outcome[t] # "none" \/ timer[t] = "dropped")
=============================================================================
