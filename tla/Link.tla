-------------------------------- MODULE Link --------------------------------
(***************************************************************************)
(* One TCP connection as send_message and recv_message see it: two FIFO    *)
(* streams of whole frames and a status.  The operators are functions of   *)
(* the connection record, so that one handler step can consume a frame,    *)
(* answer it and close.  External: the operating system's sockets.         *)
(*                                                                         *)
(*   none          not connected yet                                       *)
(*   open          both ends open                                          *)
(*   clientClosed  the client closed: the daemon reads what is buffered,   *)
(*                 then gets an error                                      *)
(*   daemonClosed  the mirror image                                        *)
(*   dead          both closed, or reset by the network                    *)
(***************************************************************************)
EXTENDS Integers, Sequences

VARIABLES
    net,      \* connection -> its record
    backlog   \* connections waiting in the daemon's accept queue

NoLink == [st |-> "none", toDaemon |-> <<>>, toClient |-> <<>>]
OpenLink(m) == [st |-> "open", toDaemon |-> <<m>>, toClient |-> <<>>]
DeadLink == [st |-> "dead", toDaemon |-> <<>>, toClient |-> <<>>]

LinkStates == {"none", "open", "clientClosed", "daemonClosed", "dead"}

DaemonReads(n) == [n EXCEPT !.toDaemon = Tail(@)]
ClientReads(n) == [n EXCEPT !.toClient = Tail(@)]

(* Writing towards an end that is gone is lost; it may also fail, which the *)
(* components model as actions of their own.                                *)
DaemonWrites(n, m) ==
    IF n.st = "open" THEN [n EXCEPT !.toClient = Append(@, m)] ELSE n
ClientWrites(n, m) ==
    IF n.st = "open" THEN [n EXCEPT !.toDaemon = Append(@, m)] ELSE n

(* Closing discards what the closing end has not read. *)
DaemonCloses(n) ==
    IF n.st = "open"
    THEN [n EXCEPT !.st = "daemonClosed", !.toDaemon = <<>>]
    ELSE DeadLink
ClientCloses(n) ==
    IF n.st = "open"
    THEN [n EXCEPT !.st = "clientClosed", !.toClient = <<>>]
    ELSE DeadLink

DaemonGetsEof(n) == n.toDaemon = <<>> /\ n.st \in {"clientClosed", "dead"}
ClientGetsEof(n) == n.toClient = <<>> /\ n.st \in {"daemonClosed", "dead"}
=============================================================================
