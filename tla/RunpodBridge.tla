--------------------------- MODULE RunpodBridge ---------------------------
(***************************************************************************)
(* adapters/runpod_http_daemon_bridge.py: the daemon's connection carried  *)
(* over HTTP requests.  The client process serves one local connection at  *)
(* a time: it opens a remote session, posts every frame and writes the     *)
(* answer back, and closes the session at the end.  The server has a       *)
(* thread per request and a socket to the daemon per session.              *)
(***************************************************************************)
EXTENDS TunnelEnds

CONSTANT HttpFaults  \* requests and answers that are lost, or time out

ASSUME HttpAssumption == HttpFaults \in Nat

VARIABLES
    once,     \* --once (does not change)
    bridge,   \* handle_local_client: where it is, and the frame it carries
    session,  \* the session's entry in the registry
    threads,  \* the server's threads in SessionRegistry.exchange
    leaked,   \* the server has a session that nobody will close
    httpFaults

runpodVars == <<once, bridge, session, threads, leaked, httpFaults>>

BridgeAt(pc) == bridge.pc = pc
BridgeGoto(pc) == bridge' = [bridge EXCEPT !.pc = pc]
HttpFault == httpFaults > 0 /\ httpFaults' = httpFaults - 1
NoFault == UNCHANGED httpFaults

\* SessionRegistry.open
OpenSession == session' = "open" /\ far' = Connected

\* open_remote_session is called outside the try: nothing closes the client's
\* socket if it fails.  It lives on in a variable of run_client, unless --once.
OpenRemoteSession ==
    /\ BridgeAt("open")
    /\ \/ OpenSession /\ BridgeGoto("read") /\ NoFault /\ UNCHANGED <<near, leaked>>
       \/ /\ HttpFault
          /\ BridgeGoto("raised")
          /\ near' = IF once THEN Shut(near) ELSE near
          /\ \/ UNCHANGED <<session, far, leaked>>            \* the request is lost
             \/ OpenSession /\ leaked' = TRUE                 \* the answer is lost
    /\ UNCHANGED <<tunnel, sdk, client, daemon, once, threads>>

\* read_frame on the local socket.  A timeout is an error, not the end.
ReadLocalFrame ==
    /\ BridgeAt("read")
    /\ \/ /\ near.up # <<>>
          /\ bridge' = [pc |-> "post", frame |-> Head(near.up)]
          /\ near' = [near EXCEPT !.up = Tail(@)]
       \/ UpEnds(near) /\ BridgeGoto("close") /\ UNCHANGED near
    /\ UNCHANGED <<tunnel, sdk, client, daemon, far, once, session, threads, leaked, httpFaults>>

LocalTimeout ==
    /\ BridgeAt("read") /\ HttpFault /\ near.up = <<>> /\ ~near.upFin
    /\ BridgeGoto("close")
    /\ UNCHANGED <<endVars, once, session, threads, leaked>>

\* exchange_remote_frame
PostExchange ==
    /\ BridgeAt("post")
    /\ \/ /\ threads' = Append(threads, [pc |-> "look", frame |-> bridge.frame, answer |-> 0])
          /\ BridgeGoto("wait") /\ NoFault
       \/ HttpFault /\ BridgeGoto("close") /\ UNCHANGED threads
    /\ UNCHANGED <<endVars, once, session, leaked>>

Replied == threads # <<>> /\ threads[Len(threads)].pc \in {"replied", "error"}

\* Mutant of ExchangeReply: a failed exchange is tried again.
ExchangeReplyRetry ==
    /\ BridgeAt("wait")
    /\ \/ /\ Replied /\ threads[Len(threads)].pc = "replied"
          /\ near' = SendDown(near, threads[Len(threads)].answer)
          /\ BridgeGoto("read") /\ NoFault
       \/ /\ Replied /\ threads[Len(threads)].pc = "error"
          /\ BridgeGoto("post") /\ NoFault /\ UNCHANGED near
       \/ HttpFault /\ BridgeGoto("post") /\ UNCHANGED near
    /\ UNCHANGED <<tunnel, sdk, client, daemon, far, once, session, threads, leaked>>

\* Any error ends the loop: no frame is posted twice, and no answer is
\* awaited after one that was missed.
ExchangeReply ==
    /\ BridgeAt("wait")
    /\ \/ /\ Replied /\ threads[Len(threads)].pc = "replied"
          /\ near' = SendDown(near, threads[Len(threads)].answer)
          /\ BridgeGoto("read") \/ (near.downFin /\ BridgeGoto("close"))  \* sendall raises
          /\ NoFault
       \/ /\ Replied /\ threads[Len(threads)].pc = "error"
          /\ BridgeGoto("close") /\ NoFault /\ UNCHANGED near
       \/ HttpFault /\ BridgeGoto("close") /\ UNCHANGED near
    /\ UNCHANGED <<tunnel, sdk, client, daemon, far, once, session, threads, leaked>>

\* Mutant of CloseRemoteSession: the entry goes, the socket stays.
CloseRemoteSessionEntry ==
    /\ BridgeAt("close")
    /\ session' = "closed" /\ NoFault
    /\ BridgeGoto("closed") /\ near' = Shut(near)
    /\ UNCHANGED <<tunnel, sdk, client, daemon, far, once, threads, leaked>>

\* Mutant of CloseRemoteSession: an error closing the session skips the rest.
CloseRemoteSessionOnly ==
    /\ BridgeAt("close")
    /\ \/ /\ session' = "closed" /\ far' = Shut(far) /\ near' = Shut(near)
          /\ NoFault /\ UNCHANGED leaked
       \/ HttpFault /\ leaked' = TRUE /\ UNCHANGED <<session, near, far>>
    /\ BridgeGoto("closed")
    /\ UNCHANGED <<tunnel, sdk, client, daemon, once, threads>>

\* The finally block: close_remote_session, whose errors are ignored, and the
\* local socket.
CloseRemoteSession ==
    /\ BridgeAt("close")
    /\ \/ /\ session' = "closed" /\ far' = Shut(far)  \* SessionRegistry.close
          /\ NoFault /\ UNCHANGED leaked
       \/ HttpFault /\ leaked' = TRUE /\ UNCHANGED <<session, far>>
    /\ BridgeGoto("closed")
    /\ near' = Shut(near)
    /\ UNCHANGED <<tunnel, sdk, client, daemon, once, threads>>

(***************************************************************************)
(* SessionRegistry.exchange in a thread of the server; the lock is held    *)
(* for the lookup only.                                                    *)
(***************************************************************************)
ThreadTo(i, pc, answer) ==
    threads' = [threads EXCEPT ![i] = [@ EXCEPT !.pc = pc, !.answer = answer]]

\* Mutant of Exchange: a connection the daemon has closed is not read.
ExchangeEager(i) ==
    /\ \/ /\ threads[i].pc = "look"
          /\ ThreadTo(i, IF session = "open" THEN "send" ELSE "error", 0)
          /\ UNCHANGED far
       \/ /\ threads[i].pc = "send"
          /\ ThreadTo(i, IF far.upFin THEN "error" ELSE "recv", 0)
          /\ far' = SendUp(far, threads[i].frame)
       \/ /\ threads[i].pc = "recv" /\ ~far.downFin /\ far.down # <<>>
          /\ ThreadTo(i, "replied", Head(far.down))
          /\ far' = [far EXCEPT !.down = Tail(@)]
       \/ threads[i].pc = "recv" /\ far.downFin /\ ThreadTo(i, "error", 0) /\ UNCHANGED far
    /\ UNCHANGED <<tunnel, sdk, client, daemon, near, once, bridge, session, leaked, httpFaults>>

Exchange(i) ==
    /\ \/ /\ threads[i].pc = "look"
          /\ ThreadTo(i, IF session = "open" THEN "send" ELSE "error", 0)
          /\ UNCHANGED far
       \/ /\ threads[i].pc = "send"  \* the socket may have been closed meanwhile
          /\ ThreadTo(i, IF far.upFin THEN "error" ELSE "recv", 0)
          /\ far' = SendUp(far, threads[i].frame)
       \/ /\ threads[i].pc = "recv" /\ far.down # <<>>
          /\ ThreadTo(i, "replied", Head(far.down))
          /\ far' = [far EXCEPT !.down = Tail(@)]
       \/ /\ threads[i].pc = "recv" /\ DownEnds(far)
          /\ ThreadTo(i, "error", 0)
          /\ UNCHANGED far
    /\ UNCHANGED <<tunnel, sdk, client, daemon, near, once, bridge, session, leaked, httpFaults>>

\* The daemon takes longer than the socket's timeout; the session stays.
ExchangeTimeout(i) ==
    /\ threads[i].pc = "recv" /\ HttpFault
    /\ ThreadTo(i, "error", 0)
    /\ UNCHANGED <<endVars, once, bridge, session, leaked>>

RunpodInit ==
    /\ tunnel = "runpod"
    /\ EndsInit
    /\ far = Unconnected
    /\ once \in BOOLEAN
    /\ bridge = [pc |-> "open", frame |-> 0]
    /\ session = "none" /\ threads = <<>> /\ leaked = FALSE
    /\ httpFaults = HttpFaults

BridgeStep == \/ OpenRemoteSession \/ ReadLocalFrame \/ PostExchange \/ ExchangeReply
              \/ CloseRemoteSession

ServerStep == \E i \in 1 .. Len(threads) : Exchange(i)

RunpodNext ==
    \/ EndsNext /\ UNCHANGED runpodVars
    \/ BridgeStep
    \/ ServerStep
    \/ LocalTimeout
    \/ \E i \in 1 .. Len(threads) : ExchangeTimeout(i)

\* Threads and processes run; nothing has to be lost or late.
RunpodFairness ==
    /\ EndsFairness
    /\ WF_<<endVars, runpodVars>>(BridgeStep) /\ WF_<<endVars, runpodVars>>(ServerStep)

RunpodSpec == RunpodInit /\ [][RunpodNext]_<<endVars, runpodVars>> /\ RunpodFairness

(***************************************************************************)
(* Properties.                                                             *)
(***************************************************************************)
\* The types of the bridge's state.  One exchange is under way at a time.
RunpodTypeOK ==
    /\ SocketTypeOK(near, FrameNumbers, Answers) /\ SocketTypeOK(far, FrameNumbers, Answers)
    /\ bridge.pc \in {"open", "read", "post", "wait", "close", "closed", "raised"}
    /\ session \in {"none", "open", "closed"}
    /\ \A i \in 1 .. Len(threads) : threads[i].pc \in {"look", "send", "recv", "replied", "error"}
    /\ \A i \in 1 .. Len(threads) - 1 : threads[i].pc = "replied"

\* Without lost or late requests, the commit of the daemon reaches the client:
\* neither end is closed before the last answer is through.
RunpodReportsCommit ==
    tunnel = "runpod" /\ daemon.committed /\ ~sdk /\ httpFaults = HttpFaults => client.result # "failed"

\* The client is told when the tunnel is gone: it does not wait for ever, but
\* for the socket that a failed open leaves behind.
RunpodClientEnds ==
    tunnel = "runpod" => <>(client.result # "none" \/ (BridgeAt("raised") /\ ~once))

\* When the client is gone, the daemon's connection ends, unless the request
\* to close it, or the session's id, is lost.
RunpodConnectionEnds ==
    tunnel = "runpod" => ((client.result # "none") ~> (far.downFin \/ leaked))
===========================================================================
