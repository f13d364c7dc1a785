# A TLA+ model of fibers-rs

`fibers-rs` runs *fibers* (futures that are polled by cooperative schedulers) and
gives them channels, timers and non-blocking I/O.  This directory models the
parts of the crate in which threads, fibers and messages interleave, checks them
with TLC on small instances, and proves with TLAPS, for every size, all
invariants that TLC checks, and that the scheduler implements an abstract life
cycle of fibers.

All paths below are relative to the repository root; the crate is in `src/src`.

## The system

| Component | Code | State | Operations |
|---|---|---|---|
| Scheduler | `fiber/schedule.rs` | request channel, fiber table, run queue, next id; thread-local current fiber | `run_once`, `spawn_boxed`, `wakeup` |
| Fiber | `fiber/mod.rs` | `parks` (scheduler thread only), `unparks` (shared atomic), `in_run_queue` | `run_once`, `is_runnable`, `park`, `yield_once`; `Unpark::drop` from any thread |
| Notifier | `sync/mod.rs`, `sync_atomic.rs` | one `Option<Unpark>` in a cell whose null pointer is a spin lock | `await_notification`, `notify` |
| Oneshot channel, monitor, link | `sync/oneshot.rs`, `fiber/mod.rs` | an `nbchan` slot and a notifier; a link is two of them crosswise | `send`, `poll`, drop of either half, `spawn_monitor`, `spawn_link` |
| MPSC channel | `sync/mpsc.rs` | an `nbchan` queue and a notifier | `send`, `start_send`, `poll`, drops |
| Poller | `io/poll/poller.rs` | request queue, registrants with their read and write waiters, mio registrations | `poll`, `register`, `monitor`, `Deregister` |
| Timers | `time.rs`, `collections.rs`, poller | ordered map of pending timers | set, expire, cancel |
| Executors | `executor/*.rs` | one scheduler and poller in turn, or pools of threads with links and a spawn queue | `run_once`, `spawn_boxed` |
| Sockets | `net/*.rs` | shared evented handle, one monitor per direction, connect state | `operate`, `ConnectInner::poll`, ... |
| Stdin | `io/stdio.rs` | request and answer channels to a reader thread | `read` |

How they interact.  A fiber that cannot proceed calls `Context::park`, which
increments its `parks` counter and creates an `Unpark` object; the object is
stored where some other thread will find it (a notifier).  That thread drops it:
`Unpark::drop` increments the shared `unparks` counter and, if the counter was
zero, sends a `WakeUp` request to the scheduler.  The scheduler consumes one
park and one unpark before each poll and suspends a fiber after a poll only if
it has parks and no unparks.  Everything else is built from channels: I/O
readiness and timers reach a fiber as messages on oneshot channels that the
poller thread sends, executors watch their threads through links.

What is hard in this code:

* the hand-over between `Unpark::drop` (any thread) and the scheduler thread's
  accesses to the same counters, where a wakeup could be lost;
* wake-ups that arrive late, twice, for finished fibers or for a reused id;
* the two `try_recv` calls of a receiver around the registration of its Unpark,
  racing with a sender, and receivers that move between fibers and threads;
* the order "notify, then disconnect" in the drops of senders;
* fairness: a scheduler handles one request and one fiber per `run_once`;
* the poller's oneshot arming of mio, its one request per `poll`, timers that
  fire while they are cancelled, threads that abort;
* futures that wait in more than one place, one after the other, and have to park
  the fiber that polls them now for what they wait for now: sockets that are
  opened, then connect, then read and write; the three phases of a read from
  standard input; a fiber and its link;
* objects with a channel behind them that are moved to another fiber.

`PROJECT.json` lists the hazards with their lines and the properties that
address them.

What makes each component correct.  Scheduler: no wakeup is lost, no fiber is
queued twice or forgotten, every runnable fiber runs.  Notifier: at most one
Unpark is stored, none is leaked, the cell is borrowed exclusively.  Channels:
what was sent is received, in order, and the end of the stream is noticed.
Poller: a waiter is always covered by an armed interest or a pending event.
Timers: never early, eventually, nothing left behind by a cancelled timer.
Executors: an aborted thread is reported, work is spread evenly, a spawned task
is started.  Sockets and standard input: a fiber sleeps only if all that it waits
for is unavailable, and goes on when it is not.  Links: who waits for a fiber
learns of its end, and a linked fiber ends when it is told to.

## Modules

| Module | Contents |
|---|---|
| `FiberScheduler` | the scheduler, the counters of its fibers, and any thread that spawns, unparks or forces a wakeup |
| `FiberLifecycle` | abstract specification: what the scheduler promises to fibers |
| `FiberSchedulerRefinement` | the mapping from the first to the second |
| `FiberFutures` | on top of `FiberLifecycle`: the futures of the fibers, the Unpark in the notifier behind each, the polls of fibers and futures |
| `Sockets` | the futures of `net`: opening, connecting, accepting, reading and writing, and the poller's answers |
| `Stdin` | `Stdin::read` and its reader thread |
| `SpawnLink` | `spawn_monitor`, `spawn_link`, `run_future` |
| `AsyncIo` | composes the three on top of `FiberFutures` with the threads of an executor |
| `Notifier` | `await_notification` and `notify` as steps on top of `FiberScheduler` |
| `ChannelReceiver` | `Receiver::poll`, which both kinds of channels have, its owner and the fibers around it, on top of `Notifier` |
| `OneshotChannel` | the oneshot channel, on top of `ChannelReceiver` |
| `MpscChannel` | the mpsc channel, on top of `ChannelReceiver` |
| `Poller` | the I/O poller with its timers, its handles on any thread, and mio |
| `ThreadPool` | the thread pool executor, its threads and their links |
| `MCFiberScheduler`, `MCOneshotChannel`, `MCMpscChannel`, `MCPoller`, `MCThreadPool`, `MCAsyncIo` | instances for TLC |
| `FiberSchedulerProofs` | TLAPS: the invariants of `FiberScheduler`, and that it implements the safety part of `FiberLifecycle` |
| `ChannelReceiverProofs` | TLAPS: what both kinds of channels have in common |
| `OneshotChannelProofs`, `MpscChannelProofs` | TLAPS: the two kinds |
| `PollerProofs` | TLAPS: the invariants of `Poller` |
| `ThreadPoolProofs` | TLAPS: the invariants of `ThreadPool` |
| `AsyncIoProofs` | TLAPS: the invariants of `AsyncIo`, `Sockets`, `Stdin` and `SpawnLink` together |
| `DataLemmas` | TLAPS: lemmas about sequences and numbers |

There are two towers.  `FiberScheduler` - `Notifier` - `ChannelReceiver` -
channels has every access to shared memory as a step.  `FiberLifecycle` -
`FiberFutures` - sockets, input, links - `AsyncIo` starts from what the first
tower shows: `FiberScheduler` implements `FiberLifecycle`, and a channel with a
message never leaves its receiver asleep, so that in the second an unpark, an
answer and the poll of a channel are one step each.

### FiberScheduler

The scheduler thread's position in `run_once` is `pc`: `out` (not in `run_once`),
`request` (before `try_recv`), `task` (before `next_runnable`), `poll` (inside
the future's `poll`), `recv` (in the blocking `recv`), `panicked`.  A step is one
access to state that other threads share, with the private work around it.  What
happens inside a poll is up to the future: it may park, yield, fail to register
with a dead poller, panic, or return.  `Unpark::drop` is two steps
(`DropUnpark`, `SendWakeUp`) because the `fetch_add` and the `send` are two
accesses.  `held` counts the Unpark objects alive and `waking` the threads
between the two steps; neither exists in the code, they name what is on other
threads' stacks and heaps.  In `FiberState::run_once` the load and the
`fetch_sub` of `unparks` are one step: only this thread decrements the counter,
so an increment in between changes neither the test nor the result.

Tasks are spawned at most once each; fiber ids are `0 .. IdSpace - 1` and wrap.
`IdsSuffice` keeps the number of fibers below the number of ids, as memory does
for `usize`; without it `next_fiber_id` would loop for ever.  `ParksSuffice` and
`MaxRequests` bound the environment only: how many unparks are under way, and how long the queue may be when a user forces a wakeup.

### FiberLifecycle

Each task is new, ready, running, waiting, done or lost, and has a credit of
unparks.  An unpark makes a waiting fiber ready in one step.  The refinement maps
a fiber to *ready* as soon as a Spawn or WakeUp request, a thread about to send
one, or a queue entry exists, so TLC checks that the fetch_add that takes the
counter from zero is the linearization point of an unpark, that no fiber with
credit is suspended, and that a ready fiber runs (strong fairness of `Run`).

### Notifier, ChannelReceiver, OneshotChannel and MpscChannel

`Notifier` gives each end of a channel a `step`: borrow, park, replace, wake,
release.  `Park` tells whether the Unpark in the cell is the fiber's own by the
task, where the code compares scheduler and fiber ids (`src/src/sync/mod.rs:26`):
the same, as long as no id is used again while the channel lives, and the
instances have as many ids as fibers.  It uses `ParkFiber`, `DropUnpark` and
`SendWakeUp` of the scheduler as they are.  `ChannelReceiver` adds the receiver's
code (try, await, try again) and a cooperating fiber program: the fiber that owns
the receiver polls it until it is not ready and returns, other fibers do what they
like, any fiber may be parked on other objects (`ParkElsewhere`), and the receiver
may be moved to the running fiber or be used from a thread outside of fibers.
`OneshotChannel` and `MpscChannel` add their senders, which run on threads of
their own (that covers senders inside fibers).  `nbchan`'s slot and queue are
external and atomic.  A message of `MpscChannel` is its sender and a number, so
that `MessagesAreReceived` can count.  Panics and pollers that go down belong to
`FiberScheduler` and do not occur here.

### Poller

One thread calls `Poller::poll`; its position is `pc`: `out`, `request` (before
`try_recv`), `clock` (before the clock is read), `timeouts` (in the loop over
expired timers), `io` (in mio's poll), `events` (in the loop over the events),
`failed` (returned an error), `gone` (dropped).  Users register objects, drop
handles, ask for monitors, and make, poll and drop timeouts at any time; the
clock advances at any time.  The requests are the FIFO channel of the code, one
of which is handled by a poll.  `waitings` are the two lists of notifiers of a
registrant as sets, since each call of `monitor` makes a new notifier.

mio is external.  `armed` is what it watches an object for: `MioRegister` sets
it, an event resets it (edge triggered, oneshot).  Its poll returns events for
all armed objects that are ready, possibly with events for objects that are
armed but report no readiness we know (hang-up, error), or when the timeout has
passed.  A batch that mio cuts off at the capacity of its buffer is not
modelled.  Oneshot channels are `OneshotChannel`'s business: here an answer
arrives at once, and the channels a dropped poller held report an error.

A timer has two times: `due`, its creation plus its duration, and `expiry`, the
key it has in the heap, computed from two later readings of the clock.  Timer
ids, which order timers with equal keys and make them distinct, are left out.
The wait of a poll is finite in both executors.

`instant` is the reading of the clock before the expired timers are popped
(`src/src/io/poll/poller.rs:125`).  mio's timeout is told from it, but mio counts
from the moment it is called (line 144), so `awake`, the end of the sleep, is
`clock + wait`, and `instant` may be behind by then.  `awake` stays, as the time
since when the thread is busy again, or becomes the present if an event ends the
sleep earlier.  `longest` is a history variable: the longest time that the thread
has been busy between two sleeps, whether in `poll`, in its caller or because the
machine let it wait.  It restricts no step; the lateness of timers is measured
in it.

### FiberFutures

A future is a pair of an object and what is done with it; each has a channel
behind it, and `waiter` is the fiber whose Unpark is in that channel's notifier.
`Await` and `Notify` are `await_notification` and `notify` as a whole.
`FiberLifecycle` counts unparks only; that a fiber's parks are its unparks and
its Unpark objects alive is `ParkBalance` of the scheduler, hence `IsRunnable`.

A fiber's poll is a sequence of polls of futures: each future that was not ready
is polled once, another one whenever the fiber likes, and the poll of the fiber
ends not ready if something was not ready.  `at` is the future whose poll is
under way, `due` those still to be polled, `blocked` those that were not ready
when they were polled last.  A fiber of `joins` polls several futures in a poll,
as `select` and `join` do, another one does one thing after the other.  Futures
may be moved between fibers, which the crate allows.  What the fibers have, how
they are spawned and what the world does is a `program`, a parameter that TLC
takes from a set.

### Sockets

`stage` is how far a socket has come: registered by the poller, connecting with a
write monitor, open with one monitor per direction.  `slot` is the reply or
monitor channel behind a future, and the only thing the poller changes: it
answers, or it goes down and drops its senders, each in the order notify,
disconnect (`Poller` shows that a live poller does answer).  `Try` and
`PollEnd` are the two arms of the loop that `TcpStream::operate`, `Incoming`,
`SendTo` and `RecvFrom` share; `Connecting` and `StartMonitor` are
`ConnectInner::poll` and `start_monitor_if_needed`.  The operating system is
external: an end of a socket is in `ready` if an operation on it would not block.

### Stdin

The reader thread's position is `reader`; the phases are those of the loop in
`io/stdio.rs`: receive a lock request, lock, read nothing, answer, receive a
size, read it, answer, unlock.  On the other side `lockRequested` and `spinning`
are the phases of `Stdin::read`, the last of which polls the responses in a loop
without leaving the fiber.

### SpawnLink

`toFiber` and `fromFiber` are the two channels of a link, the second also that of
a monitor.  A linked fiber polls its own future and, if that was not ready, its
link (`SelectEither`), and gives up if the link was used in any way.  The exit of
a fiber is awaited by another fiber (`PollExit`) or outside of fibers
(`PollMonitor`, the loop of `run_future`).

### AsyncIo

The thread that runs fibers, the poller, the reader thread and whoever holds
monitors and links.  In a pool (`turn = "both"`) the first two are concurrent, in
an `InPlaceExecutor` they work in turn.  `RunFiber` panics when a request to a
poller that is gone was noticed, as `run_fiber` does, and all fibers are lost.

### ThreadPool

`run_once` is two steps: it takes a spawned task and sends it to the next
scheduler, and it polls the link of the next scheduler.  A scheduler thread is
`link` (about to poll its link) or `run` (in `run_once(true)`, where it blocks
until there is a task or an older fiber was woken); any poll may panic, which
ends the thread.  A poller thread may end with an error at any time.  The
counters `round` and `steps` wrap at `Wrap`.  Tasks are numbered in the order of
their spawns.  What becomes of a task inside its scheduler is `FiberScheduler`'s
business; its `SpawnedIsPolled` is the strong fairness of `RunTask` here.

## What the runs check

| Run | Instance | Question |
|---|---|---|
| `scheduler_safety` | 3 fibers on 2 ids, 2 unparks under way, forced wakeups | is a wakeup ever lost, a counter ever wrong, a fiber ever stranded, do the table, the queue and the flags agree? |
| `scheduler_liveness` | 2 fibers, 2 unparks under way, forced wakeups | is every unparked or spawned fiber polled, and is the life cycle implemented? |
| `oneshot_wakeups` | 2 fibers that also wait for another object, 1 thread, 1 sender, 2 moves | does a sent value ever meet a sleeping receiver, is the cell ever borrowed twice? |
| `oneshot_drop` | 1 fiber, 1 sender | violation: is the drop of an unused sender noticed? |
| `mpsc` | 1 fiber, 1 thread, 2 senders | are Unparks leaked when several senders race for the cell, is every message received? |
| `poller_safety` | 2 objects on 2 tokens, 2 waiters | is a waiter ever left uncovered, does the poller agree with mio, do the assertions hold when tokens are reused, are registrants freed? |
| `poller_liveness` | 1 object, 2 waiters, mio may fail | is every waiter answered, does an error leave the poller in good order? |
| `timers` | 2 timers of 1 or 2 ticks, polls of 2 ticks, 3 ticks | is a timer early, how late may it be, is it left behind, does it expire? |
| `thread_pool` | 4 tasks, 2 threads of each kind, counters modulo 3 | is work spread evenly, are aborts reported, tasks started, pollers stopped? |
| `pool_poller_aborts` | 1 task, the same threads | violation: is a poller that aborts reported? |
| `async_io` | 2 fibers, 2 sockets, standard input, links: the seven programs below | does a fiber ever sleep on something that is available, or spin on what is not; does everybody who waits go on; are ends and exits noticed? |
| `connect_moved` | a fiber takes a connection that another one has begun, and has a socket itself | violation: is it suspended only if both are unavailable? |

The bounds.  Three fibers on two ids force an id to be skipped, to wrap and to
be reused.  Two unparks under way let one be consumed while the next is dropped,
the smallest case in which the counter is taken from zero twice with requests
outstanding; the proofs below remove these bounds.  In `oneshot_wakeups` two
moves take the receiver from a thread to a fiber and on to another one, and a
fiber may be parked for another object at the same time.  In `mpsc` nothing but
the channel can wake the fiber, so an Unpark that is not accounted for shows at
once, and two senders may both be between their push and their notification.

Two waiters and two objects make lists of length 0, 1 and 2, the three cases of
the test `len() == 1`, in both directions, and an event for an object while
another one is handled.  A closed object may be opened again, standing for a new
one, so tokens are skipped, wrap and are reused while requests that name them are
queued; never more objects are open than there are tokens (`TokensSuffice`), else
`next_token` would loop for ever.  `View` in `MCPoller` hides what nobody reads
any more (all about a closed object, the target of an answered monitor, the locals
of a poll that has returned).  Two timers are what it takes for one to hide or to
outlive the other; `MaxTime` lets both be set, expire and be observed one after
the other, and at the end of the modelled time mio's poll returns as if its
timeout had passed.  Three ticks are enough for a timer to be two busy ticks late,
one spent between the reading of the clock and the sleep, so the bound of
`LatenessIsBounded` is reached: with one `longest` in the place of two it is
violated, by exactly that sleep past the next timer.  Two different durations let
timers expire in another order than they were set.  Counters that wrap at 3 over 2
threads wrap at a value that is no multiple of the pool's size, as 2^64 is none of
most sizes; four tasks are one more than a wrap.

In `async_io` TLC starts from each of seven programs, chosen so that each kind of
future meets each other kind that it can disturb, and every hazard occurs in a
small one: `Reader` (a read from standard input, a fiber that waits for nothing
but its link), `Client` (a linked fiber that connects, and may be told to exit at
any moment; another fiber may take the socket), `Server` (in place; accepting,
the accepted connection, and a fiber that waits for the other's exit),
`Datagrams` (sends and receives in two fibers, both ends may move), `Sequential`
(two sockets one after the other, never together), `Abandoned` and `Stranded`
(the poller goes down while a socket is opened, connects, or is waited for, with
a linked or a monitored fiber to be reported).  An end becomes available at most
three times and a future moves at most twice, so an answer can be consumed, asked
for again and come to another fiber.  `MaxInput` is 1: `StdinInStep` is about one
read after the other, and the end of the input, which is never used up, allows
any number of them.

Bounds that leave behaviour out, all in the guards: a fiber that reads standard
input takes no socket and has none (its inner loop blocks the thread anyway);
a fiber gives an end up if the poller is gone (it could retry for ever); nothing
is typed once the reader thread is gone; a pending connection is moved only if
`ConnectMoves` (else the finding below would show in every run); there is one
scheduler.

Deadlock is not checked: a scheduler that has panicked is not run again, and a
channel whose two halves are gone has nothing left to do; the same goes for a
poller and an executor that were dropped.  In `AsyncIo` every fiber may have
ended.

Fairness.  `FiberScheduler` assumes that its thread keeps calling `run_once`
(both executors do so in a loop), that a poll returns (scheduling is
cooperative) and that a thread which has started to drop an Unpark finishes.
Nothing is assumed about when somebody drops an Unpark or forces a wakeup, nor
about `block_if_idle`.  `OneshotChannel` adds that an end finishes the call it
has begun and that whoever has the receiver polls it, which is what a fiber or
`Executor::run_future` does; `MpscChannel` does the same.  `Poller` assumes that
its thread keeps calling `poll` (or drops the poller) and that time passes;
nothing about its users.  `ThreadPool` assumes that the owner keeps calling
`run_once` and that threads run; a task may panic, a poller may fail and the
executor may be dropped, but none of it has to happen.

`AsyncIo` assumes of the scheduler what `FiberLifecycle` promises (`RunFiber` is
strongly fair), that the poll of a fiber goes on (`FiberStep`), that the poller
answers what can be answered for long enough (strong fairness, because another
fiber may use the availability up first; `Poller`'s `MonitorsAreAnswered` is the
reason), and that the reader thread, the in-place alternation and those who poll
monitors go on.  Nobody has to connect, type, close or exit.  Its liveness
properties have the form `[]<> ~ P` for something bad `P` that concerns several
fibers at once; as each fiber's part of it, once true, stays true until it is
resolved, this says that it is resolved.

## Findings

*The drop of a sender can go unnoticed* (`oneshot_drop`).  `Sender::drop`
(`src/src/sync/oneshot.rs:98`) notifies while the inner `nbchan` sender is still
alive; the disconnection becomes visible only when the fields are dropped
afterwards.  A receiver that is polled between the two finds the channel empty,
parks and is suspended, and nobody will drop its Unpark.  The documentation of
`monitor` (`src/src/sync/oneshot.rs:145`) and of `spawn_link`
(`src/src/fiber/mod.rs:69`) promises that the drop is detected.  `Sender::send`
is not affected: it consumes the inner sender before the drop notifies.

The `Drop` of the mpsc channel's senders (`src/src/sync/mpsc.rs:213`) has the same
order, and the same receiver.  Outside of fibers, where `run_future` polls again
and again, neither does harm.

*A poller that aborts is not reported* (`pool_poller_aborts`).  `run_once` polls
the links of the schedulers only (`src/src/executor/thread_pool.rs:113`), while
the documentation of `with_thread_count` promises an error for any thread.

*A connection that is moved does not wake its new fiber* (`connect_moved`).
While there is no peer, `ConnectInner::poll` (`src/src/net/tcp.rs:450`) makes a
write monitor and polls it in that call only; later polls return `NotReady`
without a look at it.  A fiber that takes the future over parks nothing for it.
If it waits for another socket as well, it is suspended, and sleeps although the
connection is there: the monitor wakes the fiber that began to connect.  The
documentation of `Connect` (`src/src/net/tcp.rs:399`) permits the move, and that of
`TcpStream` (`src/src/net/tcp.rs:206`) says that a fiber is suspended only if all
its sockets are unavailable.  A fiber with nothing else to wait for parks nothing
at all and is polled again and again, which hides the fault.

Two observations sit badly with what the documents say, and no run shows them as
violations: the properties or instances leave them out, where said.  A first read
of standard input returns `WouldBlock` without parking (`src/src/io/stdio.rs:67`):
a fiber with nothing else to wait for is polled again at once; one with another
blocking object sleeps until that wakes it, although the input may be there, while
`src/src/net/tcp.rs:206` speaks of all the sockets "or other objects which may
block" being unavailable.  In the instances a reading fiber has nothing else,
which is why `SuspendedOnlyIfUnavailable` and `BlockedAreResumed` hold there.
(The crate's example `tcp_echo_cli` waits for standard input and its socket in
turn, never at once.)  A connecting fiber whose poller goes down after the monitor
was made has nobody to wake it for the peer's answer and spins
(`src/src/net/tcp.rs:450`), while `src/src/net/mod.rs:13` has a fiber descheduled
until its socket is available; `NotPolledInVain` excepts this case, and a first
read of standard input, by name.

More observations, which contradict no document.  `start_monitor_if_needed`
discards an answer that is there at once (`src/src/net/tcp.rs:333`) and keeps the
monitor; the first write polls a channel whose value is gone and may fail although
the connection is fine.  `SyncSender::start_send` on a full channel returns
`NotReady` without parking (`src/src/sync/mpsc.rs:235`).  A pending `Timeout`
reports an error when the poller is dropped, and `TimeoutAfter` maps every result
of it to `Err(None)` (`src/src/time.rs:40`), so its future is given up early.
After an error in the loop over the events (`src/src/io/poll/poller.rs:153`)
waiters of that and of later events are disarmed for good if the caller polls
again; `WaitersCovered` and `MonitorsAreAnswered` except this case.  A scheduler
thread that is blocked in `run_once(true)` (`src/src/executor/thread_pool.rs:183`)
never ends after the executor was dropped.

## What is proved

Every invariant that a passing run checks is proved for every value of the
constants; the assumptions are those on the constants, which TLC evaluates in each
run, and for two theorems about `AsyncIo` the hypotheses named below.  The bounds
of the environment are constants as well, so they are arbitrary.  Each proof is an
induction over the actions, one lemma per action where the action does something,
and PTL makes the theorem of the lemmas.

*Scheduler* (`FiberSchedulerProofs`).  For any set of tasks and any number of ids:

* `TypeCorrect`: `Spec => []TypeOK`;
* `ParkBalanceCorrect`: `parks = unparks + held`, inductive by itself given the
  types;
* `FiberTableCorrect`: `FiberTableConsistent`, which contains what makes it
  inductive: a fiber is found under its own id, a pending Spawn request is the
  only one of its task, flagged fibers are in the table, and the scheduler
  thread has a current fiber only while it polls;
* `RunQueueCorrect`: given the table, the queue holds exactly the flagged
  fibers, so `next_runnable` always takes the first entry;
* `NoLostWakeupCorrect`: given the three above.  The case that matters is
  `DropUnpark`: if it finds a counter that is not zero, the fiber was runnable
  before, hence current or on its way to the queue already;
* `NoFiberStrandedCorrect`: from `ParkBalance` and `NoLostWakeup`.

All of them are shown for `UnboundedNext`, which is `Next` without the
environment's bounds; `SchedulerInv` is their conjunction.

*Life cycle* (`FiberSchedulerProofs`).  `LifecycleImplemented`: the refinement
mapping takes initial states to initial states, and each step to a step of one
fiber's life or to a stutter.  It uses `SchedulerInv` in every case: that a fiber
counts as ready from the moment its wakeup is under way is `NoLostWakeup`, and
that a suspended fiber has no credit is the test `is_runnable` together with it.
The fairness of the abstract specification is checked by TLC only.

*Channels* (`ChannelReceiverProofs`, `OneshotChannelProofs`,
`MpscChannelProofs`).  Each step of a channel is a step of `UnboundedNext`, so
`SchedulerInv` carries over to channels as it is.  On top of it:

* `BorrowIsExclusive` is inductive with the types;
* `EndsInStep` says where the two ends are in their calls; its last part,
  `Registered`, is that after `await_notification` the owner's Unpark is in the
  cell, or was dropped and left the fiber a credit;
* `UnparksAccountedCorrect`: at most one end is between the two halves of the drop
  of an Unpark, because it has the cell (`WakingHere`), so what the channel
  accounts for is the cell and one end (`Accounted`);
* `SentWakesOwnerCorrect`, `MessageWakesOwnerCorrect`: while the owner is away,
  having found nothing after it registered, it stays `Registered`, and once a
  message is there, either it has a credit or its Unpark is in the cell and some
  sender is about to take it (`Attended`).  With a credit `NoLostWakeup` gives
  that it is polled or will be.  With several senders the second one may find
  the cell empty; then the first has given the credit already;
* `MessagesInOrder`: what is queued of one sender is increasing and lies between
  what was received and what was sent (`QueueInOrder`), and no number in between
  is missing (`NothingLost`), so that the receiver takes each message once, the
  sender's oldest one first (`TakesOldest`).

*Poller and timers* (`PollerProofs`).  Invariants on top of one another.
`TimerInv` is about the requests and the heap together: a timer that pends does so
once, was set and not observed, and if it was dropped its cancellation is in the
channel behind it; `NeverEarly` and `CancelledTimersAreFreed` follow.
`LatenessInv` on top of it says that the clock is at most one busy period
(`longest`) past the end of the last sleep, and the end of the sleep at most one
past each pending timer: the sleep is no longer than the timer was away when the
clock was read, and that was after the thread woke up.  The two make
`LatenessIsBounded`.  `TokenInv` follows a token from the registration to the
Deregister request, which is the last about it and comes once; `AssertionsHold`
and `RegistrantsAreFreed` follow.  It is stated for any channel, table and
handles, so that a step splits into taking a request and what is done with it.
`MioInv` adds `MioAgrees` and `WaitersCovered`, inductive together given that a
token belongs to one object: a waiter is added to an object that is armed for it,
or arms it; an event disarms both directions and the loop over the events arms
those that still have waiters.

*Thread pool* (`ThreadPoolProofs`).  `TasksAreSpreadCorrect`: `round` is the number
of tasks taken modulo `Wrap`, and of two schedulers one is ahead of the other by
the number of wraps, and by one if it had its turn in this round and the other
had not (`SpreadInv`).  At a wrap the round begins anew at the first scheduler,
whatever remained of it, which costs the one task.

*Sockets, standard input, links* (`AsyncIoProofs`).  For any finite set of futures,
any fibers, sockets and programs, in a pool or in place.  The constants have
assumptions that the proofs need: futures of different kinds have different names
(`AsyncAssumption`), no socket is open at first (`SocketsAssumption`).

The inductive invariant is `AsyncInv`.  Most of it is about what every future has
in common, so each step is first put into a class (`Class`): another thread
notifies, a fiber's poll begins or ends, a future is polled, moved, or dropped with
its fiber.  Of a class one knows what it does to fibers and their Unparks (`Wakes`:
whoever loses an Unpark object gains a credit, and nobody who still waits has lost
one).  Shown once for each class:

* `PollInv`: one fiber runs, what is due is its own, what is blocked has a fiber;
* `WaitingInv`: a fiber that waits has no credit, and an Unpark of it is alive;
* `ParkedInv`: of each future that was not ready and is not due, the fiber has a
  credit, or is in the notifier behind it, or the future is a connection whose
  monitor the poller has dropped (`MonitorLost`).  This is what "parked" means, and
  needs `ParkStep` of each step, that the channel behind a future is not exchanged
  while its fiber is parked on the old one;
* `ReadyInv`: who is ready without a credit has lost monitors only;
* `ReaderInv`: a fiber with nothing but standard input keeps nothing but that.

Shown for each action (`StepOK`): `OwnersInv`, which stage a socket is in when a
fiber has one of its futures; `NotifierInv`, that nothing has been sent on a channel
with an Unpark in its notifier; `ConnectInv`, that the monitor of a connection
without a peer is unanswered, and parks the fiber that connects; `PollerInv`, that
only a poller that is down closes channels; `StdinInv`, the phases of `Stdin::read`
and of its thread with the one message under way.  The theorems:

* `AsyncTypeCorrect` and `StdinInStepCorrect`, without hypotheses;
* `NotPolledInVainCorrect`, from `ReadyInv`, if a connection that is pending is not
  moved (`~ ConnectMoves`): with such moves `ParkedInv` fails, as `connect_moved`
  shows;
* `OthersSuspendedCorrect`, from `ParkedInv`, `WaitingInv` and `NotifierInv` under the
  same hypothesis: a fiber never sleeps on a socket, a link or an exit that has its
  answer, however often sockets are moved and whatever it waits for besides;
* `SuspendedCorrect`, which is `SuspendedOnlyIfUnavailable`: the same with standard
  input, if the fiber that reads it has nothing else (`ReadersHaveNothingElse`).  The
  first read parks nothing, so a fiber that something else can put to sleep would
  miss the input; see the observation on `src/src/io/stdio.rs:67`.  All programs of
  `MCAsyncIo` satisfy both hypotheses.

Model-checked only: liveness under fairness (which is out of the prover's reach),
that is what `scheduler_liveness`, `poller_liveness` and the temporal properties of
the other runs say, the fairness of the refinement among it.  What the violation
runs show has no theorem: `DropIsDetected` and `PollerAbortIsReported` do not hold.

## Plan

Done: the scheduler and its life cycle, channels, poller and timers, executors,
sockets, standard input, links; proofs of all their invariants.  Left: abstract
specifications of what the channels promise (a FIFO per sender, a slot) and of a
timer, implemented by `MpscChannel`, `OneshotChannel`, `Poller`; they would make the
step from the first tower to the second a refinement too.

## Not modelled

* Metrics, documentation, the examples; addresses and socket options, which
  change no state of the crate.
* `mio`, `nbchan` and `splay_tree` themselves: external, by how the crate uses
  them.  Spurious events of mio are in `Poller`, not in `Sockets`.
* The lock around an evented object (`EventedLock`), held only inside of one call;
  a poll of the poller without a timeout, which no executor uses.
* `TimeoutAfter`, which polls a future and then a `Timeout` and gives up on any
  result of the latter but `NotReady`.
* The monitors of a cloned `TcpStream`: each clone has its own, over the same
  descriptor, and would be one more `Sockets` end.
* A link that is held by a fiber (a monitor that is held by one is modelled), and
  several schedulers on one thread, whose contexts are switched.
* Memory safety of the raw pointer in the thread-local context.
