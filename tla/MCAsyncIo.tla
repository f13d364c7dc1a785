------------------------------ MODULE MCAsyncIo ------------------------------
(* Small instances of AsyncIo for TLC. *)
EXTENDS AsyncIo

CONSTANTS t1, t2, s1, s2, stdin

MCInput == <<stdin, "read">>

MCFutures ==
  SocketFutures \cup {MCInput} \cup (Tasks \X {"link", "exit"})

\* The futures in uses are t1's or t2's, nobody's otherwise; a Link is its own.
Users(uses1, uses2, style) ==
  [f \in MCFutures |->
     IF f[2] = "link" /\ style[f[1]] = "link" THEN f[1]
     ELSE IF f \in uses1 THEN t1 ELSE IF f \in uses2 THEN t2 ELSE NoTask]

Program(uses1, uses2, style1, style2, joins, kind1, kind2, executor,
        fails, maxMoves, maxArrivals) ==
  LET style == [t \in Tasks |-> IF t = t1 THEN style1 ELSE style2] IN
  [user |-> Users(uses1, uses2, style), style |-> style, joins |-> joins,
   kind |-> [s \in Sockets |-> IF s = s1 THEN kind1 ELSE kind2],
   executor |-> executor, fails |-> fails, moves |-> maxMoves, arrivals |-> maxArrivals]

\* A fiber reads standard input, as in examples/tcp_echo_cli.rs; the other one
\* waits for its link.
Reader ==
  Program({MCInput}, {}, "monitor", "link", {}, "none", "none", "pool", FALSE, 0, 0)

\* A fiber that can be given up while it connects, and one that takes its socket.
Client ==
  Program({Opening(s1)}, {}, "link", "plain", Tasks, "client", "none", "pool", FALSE, 1, 1)

\* A server on one thread; one fiber waits for the other's exit.
Server ==
  Program({Opening(s1)}, {<<t1, "exit">>}, "monitor", "plain", Tasks,
          "listener", "accepted", "in_place", FALSE, 1, 3)

\* One of two fibers waits for datagrams, which one may change.
Datagrams ==
  Program({Opening(s1)}, {}, "plain", "plain", Tasks, "udp", "none", "pool", FALSE, 2, 2)

\* A fiber uses two sockets, one after the other.
Sequential ==
  Program({Opening(s1), Opening(s2)}, {}, "plain", "plain", {}, "udp", "udp", "pool",
          FALSE, 1, 1)

\* A linked fiber with a socket whose poller may go down.
Abandoned ==
  Program({Opening(s1)}, {}, "link", "unused", Tasks, "udp", "none", "pool", TRUE, 0, 0)

\* A client whose poller may go down, and a fiber that is lost if it does.
Stranded ==
  Program({Opening(s1)}, {}, "plain", "monitor", Tasks, "client", "none", "pool", TRUE, 0, 0)

MCPrograms == {Reader, Client, Server, Datagrams, Sequential, Abandoned, Stranded}

\* A fiber takes the connection that another one began, and has a socket itself.
MCMovingPrograms ==
  {Program({Opening(s1)}, {Opening(s2)}, "plain", "plain", Tasks, "client", "udp", "pool",
           FALSE, 1, 0)}
=============================================================================
