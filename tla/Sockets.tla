------------------------------- MODULE Sockets -------------------------------
(***************************************************************************)
(* The sockets of src/src/net: opening them (Bind, Connect, Connected),    *)
(* then the loop that is common to TcpStream::operate, Incoming, SendTo    *)
(* and RecvFrom: try, and wait for the poller if that would block.         *)
(*                                                                         *)
(* The poller (Poller.tla) is reduced to its answers: to each request it   *)
(* sends one, or drops it when it goes down.  slot is the reply or monitor *)
(* channel behind a future:                                                *)
(*   none -> waiting -> ready -> none    (or spent: received, yet kept)    *)
(*              |-> closing -> closed    (notified, then disconnected)     *)
(***************************************************************************)
EXTENDS FiberFutures

CONSTANTS
  Sockets,
  ConnectMoves  \* bound: whether a future that connects is moved between fibers

Opening(s) == <<s, "open">>
Reading(s) == <<s, "read">>
Writing(s) == <<s, "write">>
SocketEnds == {Reading(s) : s \in Sockets} \cup {Writing(s) : s \in Sockets}
SocketFutures == {Opening(s) : s \in Sockets} \cup SocketEnds

\* No socket is open at first.
ASSUME SocketsAssumption ==
  /\ SocketFutures \subseteq Futures
  /\ \A p \in Programs : \A e \in SocketEnds : p.user[e] = NoTask
  /\ ConnectMoves \in BOOLEAN

VARIABLES
  stage,     \* "none" (not accepted yet), "new", "registering", "connecting",
             \* "starting" (the connection's monitor), "open", "gone"
  slot,      \* see above
  ready,     \* the ends on which an operation would not block
  peer,      \* what became of the connection: "pending", "connected", "refused"
  arrivals,
  poller,    \* "alive", "gone"
  noticed    \* PollerHandle.is_alive is false

socketVars == <<stage, slot, ready, peer, arrivals, poller, noticed>>

Kind(s) == program.kind[s]

\* A request with a new channel; a poller that is gone drops it at once.
Requested(c, slots) == [slots EXCEPT ![c] = IF poller = "alive" THEN "waiting" ELSE "closed"]

\* The socket of a future is open, and the running fiber has its ends; a UDP
\* socket or a connection can be written to at first.
Opened(s, t) ==
  /\ stage' = [stage EXCEPT ![s] = "open"]
  /\ user' = [user EXCEPT ![Opening(s)] = NoTask, ![Reading(s)] = t,
                          ![Writing(s)] = IF Kind(s) = "listener" THEN NoTask ELSE t]
  /\ ready' = IF Kind(s) = "listener" THEN ready ELSE ready \cup {Writing(s)}
  /\ ReturnReady(Opening(s))

Failed(s) ==
  /\ stage' = [stage EXCEPT ![s] = "gone"]
  /\ user' = [user EXCEPT ![Opening(s)] = NoTask]
  /\ ReturnReady(Opening(s))
  /\ UNCHANGED ready

\* bind or connect of mio, and the Register request.
OpenSocket(s, t) ==
  /\ stage[s] = "new" /\ Polls(Opening(s), t)
  /\ \/ Failed(s) /\ UNCHANGED <<slot, noticed>>
     \/ /\ stage' = [stage EXCEPT ![s] = "registering"]
        /\ slot' = Requested(Opening(s), slot)
        /\ noticed' = (noticed \/ poller = "gone")
        /\ StayIn(Opening(s))
        /\ UNCHANGED <<user, ready>>
  /\ UNCHANGED <<lifecycleVars, program, waiter, moves, peer, arrivals, poller>>

\* There is a handle: the socket is open, or goes on to connect.
Registered(s, t) ==
  IF Kind(s) = "client"
    THEN /\ stage' = [stage EXCEPT ![s] = "connecting"]
         /\ StayIn(Opening(s))
         /\ UNCHANGED <<user, ready>>
    ELSE Opened(s, t)

\* The poll of the Register future: it waits, has the handle, or fails; when it
\* is dropped after that, its receiver notifies.
PollRegister(s, t) ==
  LET f == Opening(s) IN
  /\ stage[s] = "registering" /\ Polls(f, t)
  /\ \/ /\ slot[f] \in {"waiting", "closing"}
        /\ Await(f, t) /\ ReturnNotReady(f)
        /\ UNCHANGED <<user, stage, slot, ready>>
     \/ /\ slot[f] = "ready"
        /\ slot' = [slot EXCEPT ![f] = "none"]
        /\ Registered(s, t)
        /\ Notify(f)
     \/ /\ slot[f] = "closed"
        /\ Failed(s)
        /\ Notify(f)
        /\ UNCHANGED slot
  /\ UNCHANGED <<program, moves, peer, arrivals, poller, noticed>>

\* ConnectInner::Connecting.  While there is no peer the write monitor is
\* created, or, if there is one, NotReady returned without a look at it.
Connecting(s, t) ==
  LET f == Opening(s)  m == Writing(s) IN
  /\ stage[s] = "connecting" /\ Polls(f, t)
  /\ \/ /\ peer[s] = "connected"
        /\ Opened(s, t)
        /\ UNCHANGED <<lifecycleVars, waiter, slot>>
     \/ /\ peer[s] = "refused"
        /\ Failed(s)
        /\ slot' = [slot EXCEPT ![m] = "none"]
        /\ Notify(m)
     \/ /\ peer[s] = "pending" /\ slot[m] = "none"
        /\ stage' = [stage EXCEPT ![s] = "starting"]
        /\ slot' = Requested(m, slot)
        /\ StayIn(f)
        /\ UNCHANGED <<lifecycleVars, waiter, user, ready>>
     \/ /\ peer[s] = "pending" /\ slot[m] # "none"
        /\ ReturnNotReady(f)
        /\ UNCHANGED <<lifecycleVars, waiter, user, stage, slot, ready>>
  /\ UNCHANGED <<program, moves, peer, arrivals, poller, noticed>>

\* Mutant of StartMonitor: the new monitor is not polled.
StartMonitorOnly(s, t) ==
  /\ stage[s] = "starting" /\ Polls(Opening(s), t)
  /\ stage' = [stage EXCEPT ![s] = "connecting"]
  /\ StayIn(Opening(s))
  /\ UNCHANGED <<lifecycleVars, program, waiter, user, moves, slot, ready, peer,
                 arrivals, poller, noticed>>

\* start_monitor_if_needed polls the new monitor, and looks for errors only: an
\* answer is received and discarded.
StartMonitor(s, t) ==
  LET f == Opening(s)  m == Writing(s) IN
  /\ stage[s] = "starting" /\ Polls(f, t)
  /\ IF slot[m] = "closed"
       THEN Failed(s) /\ Notify(m) /\ UNCHANGED slot
       ELSE /\ stage' = [stage EXCEPT ![s] = "connecting"]
            /\ StayIn(f)
            /\ IF slot[m] = "ready"
                 THEN /\ slot' = [slot EXCEPT ![m] = "spent"]
                      /\ UNCHANGED <<lifecycleVars, waiter>>
                 ELSE Await(m, t) /\ UNCHANGED slot
            /\ UNCHANGED <<user, ready>>
  /\ UNCHANGED <<program, moves, peer, arrivals, poller, noticed>>

\* An operation that does not block has a result, and whatever made it possible
\* is used up.  The one of a listener is a connection, which is registered.
Operation(e, t) ==
  /\ e \in ready
  /\ ready' = ready \ {e}
  /\ ReturnReady(e)
  /\ IF Kind(e[1]) = "listener"
       THEN \E a \in Sockets :
              /\ Kind(a) = "accepted" /\ stage[a] = "none"
              /\ stage' = [stage EXCEPT ![a] = "registering"]
              /\ user' = [user EXCEPT ![Opening(a)] = t]
              /\ slot' = Requested(Opening(a), slot)
              /\ noticed' = (noticed \/ poller = "gone")
       ELSE UNCHANGED <<stage, user, slot, noticed>>

\* Mutant of Try: the monitor is created, but not polled in the same call.
TryOnce(e, t) ==
  /\ stage[e[1]] = "open" /\ slot[e] = "none" /\ Polls(e, t)
  /\ \/ Operation(e, t)
     \/ /\ e \notin ready
        /\ slot' = Requested(e, slot)
        /\ ReturnNotReady(e)
        /\ UNCHANGED <<user, stage, ready, noticed>>
  /\ UNCHANGED <<lifecycleVars, program, waiter, moves, peer, arrivals, poller>>

\* The loop: without a monitor the operation is tried, and a monitor created if
\* it would block ...
Try(e, t) ==
  /\ stage[e[1]] = "open" /\ slot[e] = "none" /\ Polls(e, t)
  /\ \/ Operation(e, t)
     \/ /\ e \notin ready
        /\ slot' = Requested(e, slot)
        /\ StayIn(e)
        /\ UNCHANGED <<user, stage, ready, noticed>>
  /\ UNCHANGED <<lifecycleVars, program, waiter, moves, peer, arrivals, poller>>

\* ... and with one, the monitor is polled, and dropped when it has a result.
\* Polling a spent channel (nbchan is external) is taken to report an error.  A
\* fiber gives the end up if the poller is gone (a bound: it could try for ever).
PollEnd(e, t) ==
  /\ stage[e[1]] = "open" /\ slot[e] # "none" /\ Polls(e, t)
  /\ IF slot[e] \in {"waiting", "closing"}
       THEN /\ Await(e, t) /\ ReturnNotReady(e)
            /\ UNCHANGED <<user, slot>>
       ELSE /\ slot' = [slot EXCEPT ![e] = "none"]
            /\ user' = IF slot[e] = "closed" THEN [user EXCEPT ![e] = NoTask] ELSE user
            /\ IF slot[e] = "ready" THEN StayIn(e) ELSE ReturnReady(e)
            /\ Notify(e)
  /\ UNCHANGED <<program, moves, stage, ready, peer, arrivals, poller, noticed>>

\* The futures of src/src/net, one by one.
Bind(s, t) == OpenSocket(s, t) \/ PollRegister(s, t)
TcpListenerBind(s, t) == Kind(s) = "listener" /\ Bind(s, t)
UdpSocketBind(s, t) == Kind(s) = "udp" /\ Bind(s, t)

Connect(s, t) ==
  /\ Kind(s) = "client"
  /\ OpenSocket(s, t) \/ PollRegister(s, t) \/ Connecting(s, t) \/ StartMonitor(s, t)

Connected(s, t) == Kind(s) = "accepted" /\ PollRegister(s, t)

TryOrWait(e, t) == Try(e, t) \/ PollEnd(e, t)

Incoming(s, t) == Kind(s) = "listener" /\ TryOrWait(Reading(s), t)
RecvFrom(s, t) == Kind(s) = "udp" /\ TryOrWait(Reading(s), t)
SendTo(s, t)   == Kind(s) = "udp" /\ TryOrWait(Writing(s), t)
Operate(s, t)  ==
  Kind(s) \in {"client", "accepted"} /\ \E e \in {Reading(s), Writing(s)} : TryOrWait(e, t)

\* A step of the poll of a socket's future by fiber t.
PollSocket(s, t) ==
  \/ TcpListenerBind(s, t) \/ UdpSocketBind(s, t) \/ Connect(s, t) \/ Connected(s, t)
  \/ Incoming(s, t) \/ RecvFrom(s, t) \/ SendTo(s, t) \/ Operate(s, t)

\* The channel that a future waits for, and who may take the future away.
Behind(f) ==
  IF \E s \in Sockets : f = Opening(s) /\ stage[s] = "connecting"
    THEN Writing(f[1]) ELSE f

MayMove(f) == f \in SocketFutures /\ (ConnectMoves \/ stage[f[1]] # "connecting")

\* The sockets of a fiber that ends are dropped with it, and what they wait for.
DropSockets(t) ==
  /\ slot' = [c \in SocketFutures |->
       IF \E f \in SocketFutures : user[f] = t /\ c = Behind(f) THEN "none" ELSE slot[c]]
  /\ stage' = [s \in Sockets |-> IF user[Opening(s)] = t THEN "gone" ELSE stage[s]]
  /\ UNCHANGED <<ready, peer, arrivals, poller, noticed>>

----------------------------------------------------------------------------
(* The poller, and the world                                                *)

\* What is asked for can be answered: a registration always, a monitor by an
\* event, which for a connection is its success or its failure.
Answerable(c) ==
  /\ poller = "alive" /\ slot[c] = "waiting"
  /\ c \in SocketEnds =>
       c \in ready \/ (c = Writing(c[1]) /\ peer[c[1]] = "refused")

Answer(c) ==
  /\ Answerable(c)
  /\ slot' = [slot EXCEPT ![c] = "ready"]
  /\ Notify(c)
  /\ UNCHANGED <<program, user, pollVars, moves, stage, ready, peer, arrivals, poller, noticed>>

\* The poller goes down with the senders it has, each of which notifies first.
GoDown ==
  /\ program.fails /\ poller = "alive"
  /\ poller' = "gone"
  /\ UNCHANGED <<lifecycleVars, futuresVars, stage, slot, ready, peer, arrivals, noticed>>

DropSender(c) ==
  /\ poller = "gone"
  /\ \/ /\ slot[c] = "waiting"
        /\ slot' = [slot EXCEPT ![c] = "closing"]
        /\ Notify(c)
     \/ /\ slot[c] = "closing"
        /\ slot' = [slot EXCEPT ![c] = "closed"]
        /\ UNCHANGED <<lifecycleVars, waiter>>
  /\ UNCHANGED <<program, user, pollVars, moves, stage, ready, peer, arrivals, poller, noticed>>

\* The remote host takes the connection, or does not.
Connects(s) ==
  /\ Kind(s) = "client" /\ peer[s] = "pending"
  /\ stage[s] \in {"registering", "connecting", "starting"}
  /\ \/ /\ peer' = [peer EXCEPT ![s] = "connected"]
        /\ ready' = ready \cup {Writing(s)}
     \/ /\ peer' = [peer EXCEPT ![s] = "refused"]
        /\ UNCHANGED ready
  /\ UNCHANGED <<lifecycleVars, futuresVars, stage, slot, arrivals, poller, noticed>>

\* Data, room for data or a connection arrives.
Arrives(e) ==
  /\ arrivals < program.arrivals
  /\ stage[e[1]] = "open" /\ user[e] # NoTask /\ e \notin ready
  /\ Kind(e[1]) = "listener" =>
       \E a \in Sockets : Kind(a) = "accepted" /\ stage[a] = "none"
  /\ arrivals' = arrivals + 1
  /\ ready' = ready \cup {e}
  /\ UNCHANGED <<lifecycleVars, futuresVars, stage, slot, peer, poller, noticed>>

World ==
  \/ GoDown
  \/ \E s \in Sockets : Connects(s)
  \/ \E e \in SocketEnds : Arrives(e)

SocketsInit ==
  /\ stage = [s \in Sockets |-> IF user[Opening(s)] = NoTask THEN "none" ELSE "new"]
  /\ slot = [c \in SocketFutures |-> "none"]
  /\ ready = {}
  /\ peer = [s \in Sockets |-> "pending"]
  /\ arrivals = 0
  /\ poller = "alive"
  /\ noticed = FALSE

SocketsTypeOK ==
  /\ stage \in [Sockets ->
       {"none", "new", "registering", "connecting", "starting", "open", "gone"}]
  /\ slot \in [SocketFutures -> {"none", "waiting", "ready", "spent", "closing", "closed"}]
  /\ ready \subseteq SocketEnds
  /\ peer \in [Sockets -> {"pending", "connected", "refused"}]
  /\ arrivals \in 0 .. program.arrivals
  /\ poller \in {"alive", "gone"}
  /\ noticed \in BOOLEAN
=============================================================================
