---------------------------- MODULE TunnelEnds ----------------------------
(***************************************************************************)
(* The two ends of a tunnel: a migration client that sends one frame and   *)
(* waits for its answer (sdk/python/permeantos/client.py and the migrate   *)
(* command), and the daemon's side of a connection, which answers a frame  *)
(* at a time.  What a tunnel connects is two TCP sockets: near, to the     *)
(* client, and far, to the daemon.                                         *)
(*                                                                         *)
(* Frame 1 asks for the capabilities, frame 2 is the header, frame Last    *)
(* the commit; the others are payload chunks.                              *)
(***************************************************************************)
EXTENDS Integers, Sequences

CONSTANT Last

ASSUME LastAssumption == Last \in Nat /\ Last > 2

VARIABLES
    tunnel,  \* what connects the ends: "runpod", "wss" or "none" (does not change)
    sdk,     \* whether the client is the SDK's (does not change)
    client,  \* sent, and the answers it got; result is "none" while it runs
    daemon,  \* the frames it has processed, and whether it committed
    near, far

endVars == <<tunnel, sdk, client, daemon, near, far>>

FrameNumbers == 1 .. Last
Chunks == 3 .. Last - 1
Answers == [to : FrameNumbers, ok : BOOLEAN]

(***************************************************************************)
(* A socket: the bytes under way in both directions, and whether anything  *)
(* more can be sent.  Reading goes on until what was sent is used up.      *)
(***************************************************************************)
Connected == [up |-> <<>>, down |-> <<>>, upFin |-> FALSE, downFin |-> FALSE]
Shut(s) == [s EXCEPT !.upFin = TRUE, !.downFin = TRUE]
\* The daemon's end is closed: what it has not read is dropped.
Close(s) == [s EXCEPT !.up = <<>>, !.upFin = TRUE, !.downFin = TRUE]
Unconnected == Shut(Connected)
SendUp(s, m) == IF s.upFin THEN s ELSE [s EXCEPT !.up = Append(@, m)]
SendDown(s, m) == IF s.downFin THEN s ELSE [s EXCEPT !.down = Append(@, m)]
UpEnds(s) == s.up = <<>> /\ s.upFin
DownEnds(s) == s.down = <<>> /\ s.downFin

(***************************************************************************)
(* The client: send_frame, recv_frame and migrate_agent.                   *)
(***************************************************************************)
ClientRuns == client.result = "none"

ClientSend ==
    /\ ClientRuns /\ client.sent = Len(client.got)
    /\ client' = [client EXCEPT !.sent = @ + 1]
    /\ near' = SendUp(near, client.sent + 1)
    /\ UNCHANGED <<tunnel, sdk, daemon, far>>

\* The answer to a chunk is not looked at.
ResultAfter(answer) ==
    IF answer.to \in Chunks THEN "none"
    ELSE IF ~answer.ok THEN "failed"
    ELSE IF answer.to = Last THEN "success" ELSE "none"

\* Mutant of ClientReceive: the commit counts when it is sent.
ClientReceiveLate ==
    LET got == Append(client.got, Head(near.down))
        result == IF client.sent = Last THEN "success" ELSE ResultAfter(Head(near.down))
    IN /\ ClientRuns /\ near.down # <<>>
       /\ client' = [client EXCEPT !.got = got, !.result = result]
       /\ near' = IF result = "none" THEN [near EXCEPT !.down = Tail(@)]
                  ELSE Shut([near EXCEPT !.down = Tail(@)])
       /\ UNCHANGED <<tunnel, sdk, daemon, far>>

ClientReceive ==
    LET result == ResultAfter(Head(near.down))
        read == [near EXCEPT !.down = Tail(@)]
    IN /\ ClientRuns /\ near.down # <<>>
       /\ client' = [client EXCEPT !.got = Append(@, Head(near.down)), !.result = result]
       /\ near' = IF result = "none" THEN read ELSE Shut(read)
       /\ UNCHANGED <<tunnel, sdk, daemon, far>>

ClientFails ==
    /\ client' = [client EXCEPT !.result = "failed"]
    /\ near' = Shut(near)
    /\ UNCHANGED <<tunnel, sdk, daemon, far>>

ClientEOF == ClientRuns /\ client.sent > Len(client.got) /\ DownEnds(near) /\ ClientFails

\* recv_frame asks for 4 bytes of length once: fewer are taken for the end.
ClientShortRead == sdk /\ ClientRuns /\ near.down # <<>> /\ ClientFails

\* The client's process is killed; what it sent is still under way.
ClientKilled ==
    /\ ClientRuns
    /\ client' = [client EXCEPT !.result = "killed"]
    /\ near' = Shut(near)
    /\ UNCHANGED <<tunnel, sdk, daemon, far>>

(***************************************************************************)
(* The daemon's side of the connection.                                    *)
(***************************************************************************)
DaemonAnswers(ok, commits) ==
    LET answered == SendDown([far EXCEPT !.up = Tail(@)], [to |-> Head(far.up), ok |-> ok])
    IN /\ daemon' = [daemon EXCEPT !.seen = Append(@, Head(far.up)), !.committed = @ \/ commits]
       /\ far' = IF ok /\ ~commits THEN answered ELSE Close(answered)

\* A frame that was delivered before the tunnel shut the socket is still
\* handled; its answer goes nowhere.
DaemonStep ==
    /\ far.up # <<>>
    /\ \/ DaemonAnswers(TRUE, Head(far.up) = Last)
       \/ Head(far.up) \notin Chunks /\ DaemonAnswers(FALSE, FALSE)
    /\ UNCHANGED <<tunnel, sdk, client, near>>

\* A frame ends the handler with an error.
DaemonHangsUp ==
    /\ far.up # <<>>
    /\ far' = Close(far)
    /\ UNCHANGED <<tunnel, sdk, client, daemon, near>>

\* The daemon's process is killed.
DaemonKilled ==
    /\ ~far.downFin \/ far.up # <<>>
    /\ far' = Close(far)
    /\ UNCHANGED <<tunnel, sdk, client, daemon, near>>

EndsInit ==
    /\ sdk \in BOOLEAN
    /\ client = [sent |-> 0, got |-> <<>>, result |-> "none"]
    /\ daemon = [seen |-> <<>>, committed |-> FALSE]
    /\ near = Connected

EndsNext == \/ ClientSend \/ ClientReceive \/ ClientEOF \/ ClientShortRead \/ ClientKilled
            \/ DaemonStep \/ DaemonHangsUp \/ DaemonKilled

EndsFairness == /\ WF_endVars(ClientSend) /\ WF_endVars(ClientReceive) /\ WF_endVars(ClientEOF)
                /\ WF_endVars(DaemonStep \/ DaemonHangsUp)

(***************************************************************************)
(* What a tunnel must provide.                                             *)
(***************************************************************************)
SocketTypeOK(s, U, D) ==
    /\ DOMAIN s = DOMAIN Connected
    /\ s.up \in Seq(U) /\ s.down \in Seq(D)
    /\ s.upFin \in BOOLEAN /\ s.downFin \in BOOLEAN

\* Every answer the client gets is the answer to the frame it sent last.
AnswersMatch ==
    \A i \in 1 .. Len(client.got) : client.got[i].to = i

\* The daemon sees the client's frames in order, none of them twice.
FramesInOrder ==
    /\ Len(daemon.seen) <= client.sent
    /\ \A i \in 1 .. Len(daemon.seen) : daemon.seen[i] = i

\* migrate_agent returns True only after the daemon has committed.
SuccessIsCommitted == client.result = "success" => daemon.committed

\* A tunnel is as good as a connection: whatever it loses, repeats or closes,
\* it neither shifts answers, nor doubles frames, nor invents a success.
TunnelIsFaithful == AnswersMatch /\ FramesInOrder /\ SuccessIsCommitted
===========================================================================
