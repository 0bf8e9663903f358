--------------------------- MODULE TransportProxy ---------------------------
(***************************************************************************)
(* adapters/production_transport_proxy.py: the daemon's connection carried *)
(* over a WebSocket between two processes.  Each of them runs two threads  *)
(* per connection, one in each direction, and has its accept loop in the   *)
(* main thread: an exception there ends the process and, as all threads    *)
(* are daemon threads, every connection it carries.                        *)
(*                                                                         *)
(* A pipe moves what it reads as it is; frames keep their order however    *)
(* they are cut, so a frame here is moved whole.                           *)
(***************************************************************************)
EXTENDS TunnelEnds

CONSTANT AcceptFaults  \* connections that fail in an accept loop

ASSUME AcceptAssumption == AcceptFaults \in Nat

VARIABLES
    ws,           \* the WebSocket: a socket, near the client process's end
    pipe,         \* whether each of the four threads runs
    proxies,      \* the state of the accept loop of each process
    acceptFaults

proxyVars == <<ws, pipe, proxies, acceptFaults>>

Pipes == {"clientUp", "serverUp", "serverDown", "clientDown"}
Sides == {"client", "server"}
ProxyStates == {"accept", "accepted", "upgrade", "answered", "connect", "pair", "dead"}

(***************************************************************************)
(* The accept loops: run_client and run_server.                            *)
(***************************************************************************)
\* The client process: connect, TLS, the upgrade.
AcceptClient ==
    /\ proxies["client"] = "accept" /\ proxies["server"] # "dead"
    /\ proxies' = [proxies EXCEPT !["client"] = "upgrade", !["server"] = "accepted"]
    /\ UNCHANGED <<endVars, ws, pipe, acceptFaults>>

\* The server answers the upgrade.
AcceptServer ==
    /\ proxies["server"] = "accepted"
    /\ IF proxies["client"] = "dead"
       THEN ws' = Unconnected /\ proxies' = [proxies EXCEPT !["server"] = "connect"]
       ELSE ws' = Connected
            /\ proxies' = [proxies EXCEPT !["server"] = "connect", !["client"] = "answered"]
    /\ UNCHANGED <<endVars, pipe, acceptFaults>>

\* It then connects to the daemon; the client process does not wait for that.
StartServerPair ==
    /\ proxies["server"] = "connect"
    /\ proxies' = [proxies EXCEPT !["server"] = "pair"]
    /\ far' = Connected
    /\ pipe' = [pipe EXCEPT !["serverUp"] = TRUE, !["serverDown"] = TRUE]
    /\ UNCHANGED <<tunnel, sdk, client, daemon, near, ws, acceptFaults>>

StartClientPair ==
    /\ proxies["client"] = "answered"
    /\ proxies' = [proxies EXCEPT !["client"] = "pair"]
    /\ pipe' = [pipe EXCEPT !["clientUp"] = TRUE, !["clientDown"] = TRUE]
    /\ UNCHANGED <<endVars, ws, acceptFaults>>

\* Mutant of Dies: the threads go on.
DiesNoThread(side) ==
    /\ proxies' = [proxies EXCEPT ![side] = "dead"]
    /\ ws' = Shut(ws)
    /\ near' = IF side = "client" THEN Shut(near) ELSE near
    /\ far' = IF side = "server" THEN Shut(far) ELSE far
    /\ UNCHANGED <<tunnel, sdk, client, daemon, pipe>>

\* The exception of a failed accept is raised again: the process ends and its
\* sockets are closed.
Dies(side) ==
    /\ proxies' = [proxies EXCEPT ![side] = "dead"]
    /\ pipe' = [p \in Pipes |->
                  pipe[p] /\ p \notin (IF side = "client" THEN {"clientUp", "clientDown"}
                                                          ELSE {"serverUp", "serverDown"})]
    /\ ws' = Shut(ws)
    /\ near' = IF side = "client" THEN Shut(near) ELSE near
    /\ far' = IF side = "server" THEN Shut(far) ELSE far
    /\ UNCHANGED <<tunnel, sdk, client, daemon>>

AcceptFails(side) ==
    /\ acceptFaults > 0 /\ acceptFaults' = acceptFaults - 1
    /\ proxies[side] # "dead"
    /\ Dies(side)

\* The other process is gone: connecting or upgrading fails.
UpgradeFails ==
    /\ proxies["client"] \in {"accept", "upgrade"} /\ proxies["server"] = "dead"
    /\ Dies("client")
    /\ UNCHANGED acceptFaults

(***************************************************************************)
(* The pipes.  At the end of its source, a pipe shuts the other socket     *)
(* down, in both directions; the pipe that reads from that one then sees   *)
(* its end.                                                                *)
(***************************************************************************)
PipeEnds(p) == pipe' = [pipe EXCEPT ![p] = FALSE]

\* The write to a socket that is shut may raise, which ends the pipe.
Wrote(p, socket) == UNCHANGED pipe \/ (socket.upFin /\ PipeEnds(p))

\* _pipe_tcp_to_ws of the client process.
ClientUp ==
    /\ pipe["clientUp"]
    /\ \/ near.up # <<>> /\ near' = [near EXCEPT !.up = Tail(@)]
          /\ ws' = SendUp(ws, Head(near.up)) /\ Wrote("clientUp", ws)
       \/ UpEnds(near) /\ PipeEnds("clientUp") /\ ws' = Shut(ws) /\ UNCHANGED near
    /\ UNCHANGED <<tunnel, sdk, client, daemon, far, proxies, acceptFaults>>

\* Mutant of ServerUp: the daemon's socket is left open.
ServerUpOpen ==
    /\ pipe["serverUp"]
    /\ \/ ws.up # <<>> /\ ws' = [ws EXCEPT !.up = Tail(@)]
          /\ far' = SendUp(far, Head(ws.up)) /\ Wrote("serverUp", far)
       \/ UpEnds(ws) /\ PipeEnds("serverUp") /\ UNCHANGED <<ws, far>>
    /\ UNCHANGED <<tunnel, sdk, client, daemon, near, proxies, acceptFaults>>

\* _pipe_ws_to_tcp of the server process.
ServerUp ==
    /\ pipe["serverUp"]
    /\ \/ ws.up # <<>> /\ ws' = [ws EXCEPT !.up = Tail(@)]
          /\ far' = SendUp(far, Head(ws.up)) /\ Wrote("serverUp", far)
       \/ UpEnds(ws) /\ PipeEnds("serverUp") /\ far' = Shut(far) /\ UNCHANGED ws
    /\ UNCHANGED <<tunnel, sdk, client, daemon, near, proxies, acceptFaults>>

\* Mutant of ServerDown: the end of the daemon's stream is looked for first.
ServerDownEager ==
    /\ pipe["serverDown"]
    /\ \/ ~far.downFin /\ far.down # <<>> /\ far' = [far EXCEPT !.down = Tail(@)]
          /\ ws' = SendDown(ws, Head(far.down)) /\ Wrote("serverDown", ws)
       \/ far.downFin /\ PipeEnds("serverDown") /\ ws' = Shut(ws) /\ UNCHANGED far
    /\ UNCHANGED <<tunnel, sdk, client, daemon, near, proxies, acceptFaults>>

\* _pipe_tcp_to_ws of the server process.
ServerDown ==
    /\ pipe["serverDown"]
    /\ \/ far.down # <<>> /\ far' = [far EXCEPT !.down = Tail(@)]
          /\ ws' = SendDown(ws, Head(far.down)) /\ Wrote("serverDown", ws)
       \/ DownEnds(far) /\ PipeEnds("serverDown") /\ ws' = Shut(ws) /\ UNCHANGED far
    /\ UNCHANGED <<tunnel, sdk, client, daemon, near, proxies, acceptFaults>>

\* Mutant of ClientDown: the pipe ends without shutting the client's socket.
ClientDownOpen ==
    /\ pipe["clientDown"]
    /\ \/ ws.down # <<>> /\ ws' = [ws EXCEPT !.down = Tail(@)]
          /\ near' = SendDown(near, Head(ws.down)) /\ Wrote("clientDown", near)
       \/ DownEnds(ws) /\ PipeEnds("clientDown") /\ UNCHANGED <<near, ws>>
    /\ UNCHANGED <<tunnel, sdk, client, daemon, far, proxies, acceptFaults>>

\* _pipe_ws_to_tcp of the client process.
ClientDown ==
    /\ pipe["clientDown"]
    /\ \/ ws.down # <<>> /\ ws' = [ws EXCEPT !.down = Tail(@)]
          /\ near' = SendDown(near, Head(ws.down)) /\ Wrote("clientDown", near)
       \/ DownEnds(ws) /\ PipeEnds("clientDown") /\ near' = Shut(near) /\ UNCHANGED ws
    /\ UNCHANGED <<tunnel, sdk, client, daemon, far, proxies, acceptFaults>>

ProxyInit ==
    /\ tunnel = "wss"
    /\ EndsInit
    /\ far = Unconnected /\ ws = Unconnected
    /\ pipe = [p \in Pipes |-> FALSE]
    /\ proxies = [s \in Sides |-> "accept"]
    /\ acceptFaults = AcceptFaults

AcceptStep ==
    AcceptClient \/ AcceptServer \/ StartServerPair \/ StartClientPair \/ UpgradeFails

ProxyNext ==
    \/ EndsNext /\ UNCHANGED proxyVars
    \/ AcceptStep
    \/ ClientUp \/ ServerUp \/ ServerDown \/ ClientDown
    \/ \E s \in Sides : AcceptFails(s)

\* Every thread runs; no connection has to fail.
ProxyFairness ==
    LET vars == <<endVars, proxyVars>>
    IN /\ EndsFairness
       /\ WF_vars(AcceptStep) /\ WF_vars(ClientUp) /\ WF_vars(ServerUp)
       /\ WF_vars(ServerDown) /\ WF_vars(ClientDown)

ProxySpec == ProxyInit /\ [][ProxyNext]_<<endVars, proxyVars>> /\ ProxyFairness

(***************************************************************************)
(* Properties.                                                             *)
(***************************************************************************)
\* The types of the proxies' state; a pipe runs only in a live process.
ProxyTypeOK ==
    /\ SocketTypeOK(near, FrameNumbers, Answers) /\ SocketTypeOK(far, FrameNumbers, Answers)
    /\ SocketTypeOK(ws, FrameNumbers, Answers)
    /\ pipe \in [Pipes -> BOOLEAN]
    /\ proxies \in [Sides -> ProxyStates]
    /\ \A p \in Pipes : pipe[p] =>
          proxies[IF p \in {"clientUp", "clientDown"} THEN "client" ELSE "server"] = "pair"

\* While no process ends, the daemon's commit reaches the client: shutting
\* sockets down both ways loses no answer.
ProxyReportsCommit ==
    tunnel = "wss" /\ daemon.committed /\ ~sdk /\ acceptFaults = AcceptFaults => client.result # "failed"

\* The client ends, whichever process dies.
ProxyClientEnds == tunnel = "wss" => <>(client.result # "none")

\* When the client is gone, all four threads end and so does the daemon's
\* connection.
ProxyConnectionEnds ==
    tunnel = "wss" => ((client.result # "none") ~> (far.downFin /\ \A p \in Pipes : ~pipe[p]))
=============================================================================
