---------------------------- MODULE DaemonPeer ----------------------------
(***************************************************************************)
(* The daemon with peers of which nothing is assumed but that they write   *)
(* frames: another client, the Python SDK, an older or a faulty version.   *)
(* External: the peers.                                                    *)
(***************************************************************************)
EXTENDS Daemon

CONSTANT
    Window   \* bound on the frames in flight on a connection

PeerConnects(c) ==
    /\ net[c].st = "none"
    /\ net' = [net EXCEPT ![c].st = "open"]
    /\ backlog' = Append(backlog, c)

PeerWrites(c) ==
    /\ Len(net[c].toDaemon) + Len(net[c].toClient) < Window
    /\ \E m \in Frames : net' = [net EXCEPT ![c] = ClientWrites(@, m)]
    /\ UNCHANGED backlog

PeerReads(c) ==
    /\ net[c].toClient # <<>>
    /\ net' = [net EXCEPT ![c] = ClientReads(@)]
    /\ UNCHANGED backlog

PeerCloses(c) ==
    /\ net[c].st \in {"open", "daemonClosed"}
    /\ net' = [net EXCEPT ![c] = ClientCloses(@)]
    /\ UNCHANGED backlog

PeerStep(c) ==
    /\ PeerConnects(c) \/ PeerWrites(c) \/ PeerReads(c) \/ PeerCloses(c)
    /\ UNCHANGED <<cur, handlerVars, cache, orchestrator, ended>>

PeerNext == DaemonNext \/ \E c \in Conns : PeerStep(c)

PeerSpec == DaemonInit /\ [][PeerNext]_daemonVars
=============================================================================
