------------------------------ MODULE MCParts ------------------------------
(***************************************************************************)
(* Parts of the system, each alone against whatever may surround it: the   *)
(* daemon with arbitrary peers, the orchestrator with its callers, and     *)
(* each tunnel between a client and a daemon.  part says which of them     *)
(* runs; the others stay as they are.                                      *)
(***************************************************************************)
EXTENDS DaemonPeer, OrchestratorService, Tunnels

VARIABLE part

vars == <<daemonVars, serviceVars, endVars, runpodVars, proxyVars, part>>

(***************************************************************************)
(* Peers that write any of a few good and bad frames in any order.         *)
(* Headers: two blocks, equal or not, a block of no layers, and one that   *)
(* does not validate.  Chunks: of the two blocks, out of range, misnamed,  *)
(* corrupt, of a bad length.                                               *)
(***************************************************************************)
Hdr(seq, bs, layers, hashes, ok) ==
    [seq_len |-> seq, block_size |-> bs, n_layers |-> layers,
     block_hashes |-> hashes, meta_ok |-> ok]
Chunk(blk, kind) == PayloadChunk(blk, 0, <<0, kind>>, TRUE, TRUE)
Evidence(hash) ==
    [evidence |-> TRUE,
     spans |-> {[token_start |-> 0, token_end |-> 1, tokenizer_ok |-> TRUE,
                 block_hashes |-> <<hash>>]}]

MCFrames ==
    {CapabilityRequest(2), CapabilityRequest(5),
     HeaderEnvelope(Hdr(4, 2, 1, <<1, 2>>, TRUE)),
     HeaderEnvelope(Hdr(4, 2, 1, <<1, 1>>, TRUE)),
     HeaderEnvelope(Hdr(2, 2, 0, <<1>>, TRUE)),
     HeaderEnvelope(Hdr(4, 2, 1, <<1>>, TRUE)),
     Chunk(0, "key"), Chunk(0, "value"), Chunk(1, "key"), Chunk(1, "value"),
     Chunk(2, "key"),
     PayloadChunk(0, 1, <<1, "key">>, TRUE, TRUE),
     PayloadChunk(0, 0, <<1, "key">>, TRUE, TRUE),
     PayloadChunk(0, 0, <<0, "key">>, FALSE, TRUE),
     PayloadChunk(0, 0, <<0, "key">>, TRUE, FALSE),
     AgentGraphBinding(Evidence(1)), AgentGraphBinding(Evidence(3)),
     CommitRequest, Undecodable}

\* Three migrations of 3 units each under a quota of 5, two at a time.
MCPolicy == [max_concurrent |-> 2, quota |-> 5, breaker |-> 2]
MCSize == [m \in Migrations |-> 3]

(***************************************************************************)
(* A tunnel that is not there: its client is done and nothing runs.        *)
(***************************************************************************)
NoRunpod == /\ once = FALSE /\ bridge = [pc |-> "closed", frame |-> 0]
            /\ session = "none" /\ threads = <<>> /\ leaked = FALSE /\ httpFaults = 0
NoProxy == /\ ws = Unconnected /\ pipe = [p \in Pipes |-> FALSE]
           /\ proxies = [s \in Sides |-> "dead"] /\ acceptFaults = 0
NoTunnel ==
    /\ tunnel = "none" /\ sdk = FALSE
    /\ client = [sent |-> 0, got |-> <<>>, result |-> "failed"]
    /\ daemon = [seen |-> <<>>, committed |-> FALSE]
    /\ near = Unconnected /\ far = Unconnected
    /\ NoRunpod /\ NoProxy

Init ==
    /\ DaemonInit /\ ServiceInit
    /\ \/ part \in {"daemon", "orchestrator"} /\ NoTunnel
       \/ part = "tunnel" /\ ((RunpodInit /\ NoProxy) \/ (ProxyInit /\ NoRunpod))

Next ==
    /\ \/ /\ part = "daemon" /\ PeerNext
          /\ UNCHANGED <<serviceVars, endVars, runpodVars, proxyVars>>
       \/ /\ part = "orchestrator" /\ ServiceNext
          /\ UNCHANGED <<daemonVars, endVars, runpodVars, proxyVars>>
       \/ /\ tunnel = "runpod" /\ RunpodNext
          /\ UNCHANGED <<daemonVars, serviceVars, proxyVars>>
       \/ /\ tunnel = "wss" /\ ProxyNext
          /\ UNCHANGED <<daemonVars, serviceVars, runpodVars>>
    /\ UNCHANGED part

Spec == Init /\ [][Next]_vars /\ RunpodFairness /\ ProxyFairness
=============================================================================
