------------------------------ MODULE Tunnels -------------------------------
(***************************************************************************)
(* What the two tunnels between a client and the daemon have to provide,   *)
(* whichever of them is in use.                                            *)
(***************************************************************************)
EXTENDS RunpodBridge, TransportProxy

\* The types of the bridge and of the proxies.
TunnelTypeOK == RunpodTypeOK /\ ProxyTypeOK

\* Through either tunnel the client learns of the daemon's commit, unless a
\* request is lost or a process ends.
CommitIsReported == RunpodReportsCommit /\ ProxyReportsCommit

\* Through either tunnel the client comes to an end whatever fails, and when it
\* is gone so are the daemon's connection and the threads in between.
TunnelsEnd ==
    /\ RunpodClientEnds /\ RunpodConnectionEnds
    /\ ProxyClientEnds /\ ProxyConnectionEnds
=============================================================================
