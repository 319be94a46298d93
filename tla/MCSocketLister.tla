--------------------------- MODULE MCSocketLister ---------------------------
(* Two processes, a TCP and a UDP connection. *)
EXTENDS SocketLister

CONSTANTS tcpSock, udpSock

MCProto == [r \in Sockets |-> IF r = tcpSock THEN "tcp" ELSE "udp6"]

\* One process holds both connections; both processes hold one; a file is opened between
\* them; nobody holds anything.
Fds(a, b, c, d) == [p \in Pids |-> IF p = 1 THEN [s \in Slots |-> IF s = 1 THEN a ELSE b]
                                           ELSE [s \in Slots |-> IF s = 1 THEN c ELSE d]]
MCStarts == {Fds(tcpSock, udpSock, Closed, File), Fds(tcpSock, Closed, File, tcpSock),
             Fds(udpSock, Closed, Closed, tcpSock), Fds(Closed, Closed, Closed, Closed)}
=============================================================================
