--------------------------- MODULE MigrateClient ---------------------------
(***************************************************************************)
(* run_sim_migrate (crates/cli/src/main.rs): the source side of one        *)
(* migration.  The client sends a frame and waits for the answer, so an    *)
(* action is: take the answer, act on it, send the next frame.             *)
(*                                                                         *)
(* The command hashes a prompt whose tokens are all 42, so the hash of a   *)
(* block depends on its length alone; that length stands for the hash.     *)
(***************************************************************************)
EXTENDS Usxf, Link

CONSTANTS
    Job,      \* connection -> the command's parameters
    NoGraph,  \* no --agent-graph-manifest was given
    Faults    \* which failures of the environment happen

ASSUME FaultsAssumption == 
    Faults \subseteq {"extract", "encode", "manifest", "crash", "reset"}

VARIABLES
    cpc,      \* the answer the client waits for
    sent,     \* chunks_sent
    outcome   \* phase_status of the manifest, or how the command ended

clientVars == <<net, backlog, cpc, sent, outcome>>

Outcomes == {"running", "committed", "commit_failed", "graph_binding_failed",
             "failed", "crashed"}
Awaited == {"start", "capability", "headerAck", "chunkAck", "bindingAck",
            "commitResponse", "done"}

(* compute_token_block_hashes of seq_len equal tokens. *)
ComputeTokenBlockHashes(seq_len, block_size) ==
    [i \in 1 .. DivCeil(seq_len, block_size) |->
        LET left == seq_len - (i - 1) * block_size
        IN IF left < block_size THEN left ELSE block_size]

HeaderOf(c) ==
    [seq_len |-> Job[c].seq_len, block_size |-> Job[c].block_size,
     n_layers |-> Job[c].n_layers,
     block_hashes |-> ComputeTokenBlockHashes(Job[c].seq_len, Job[c].block_size),
     meta_ok |-> TRUE]

(* to_binding: the span's hashes are computed from the header. *)
BindingOf(c) ==
    [evidence |-> Job[c].graph.evidence,
     spans |-> {[token_start |-> s.token_start, token_end |-> s.token_end,
                 tokenizer_ok |-> s.tokenizer_ok,
                 block_hashes |-> BlockHashesForSpan(HeaderOf(c), s.token_start,
                                                     s.token_end)]
                : s \in Job[c].graph.spans}]

(* load_agent_graph_manifest refuses a span that is empty or reversed. *)
ManifestLoads(c) ==
    Job[c].graph # NoGraph =>
        \A s \in Job[c].graph.spans : s.token_end > s.token_start

(* The k-th chunk: layer by layer, block by block, key before value. *)
NthChunk(c, k) ==
    LET perLayer == 2 * Len(HeaderOf(c).block_hashes)
        layer == k \div perLayer
    IN PayloadChunk((k % perLayer) \div 2, layer,
                    <<layer, IF k % 2 = 0 THEN "key" ELSE "value">>, TRUE, TRUE)

(* What the command writes in the course of a migration. *)
ClientFrames(c) ==
    {CapabilityRequest(Job[c].seq_len), HeaderEnvelope(HeaderOf(c)), CommitRequest}
    \cup {NthChunk(c, k) : k \in 0 .. ChunkCount(HeaderOf(c)) - 1}
    \cup (IF Job[c].graph = NoGraph THEN {} ELSE {AgentGraphBinding(BindingOf(c))})

ASSUME JobAssumption == \A c \in Conns : ClientFrames(c) \subseteq Frames

ClientInit ==
    /\ cpc = [c \in Conns |-> "start"]
    /\ sent = [c \in Conns |-> 0]
    /\ outcome = [c \in Conns |-> "running"]

-----------------------------------------------------------------------------
(* The command ends; n is the connection as it leaves it. *)
Exit(c, n, how) ==
    /\ net' = [net EXCEPT ![c] = IF cpc[c] = "start" THEN n ELSE ClientCloses(n)]
    /\ cpc' = [cpc EXCEPT ![c] = "done"]
    /\ outcome' = [outcome EXCEPT ![c] = how]
    /\ UNCHANGED <<backlog, sent>>

(* send_message(m) and wait for the answer w. *)
SendAndWait(c, n, m, w) ==
    /\ net' = [net EXCEPT ![c] = ClientWrites(n, m)]
    /\ cpc' = [cpc EXCEPT ![c] = w]
    /\ UNCHANGED <<backlog, outcome>>

(* Manifest, extraction, TcpStream::connect, CapabilityRequest. *)
Connect(c) ==
    /\ cpc[c] = "start"
    /\ ManifestLoads(c)
    /\ net' = [net EXCEPT ![c] = OpenLink(CapabilityRequest(Job[c].seq_len))]
    /\ backlog' = Append(backlog, c)
    /\ cpc' = [cpc EXCEPT ![c] = "capability"]
    /\ UNCHANGED <<sent, outcome>>

StartFails(c) ==
    /\ cpc[c] = "start"
    /\ ~ManifestLoads(c) \/ "extract" \in Faults
    /\ Exit(c, net[c], "failed")

Answered(c, w) == cpc[c] = w /\ net[c].toClient # <<>>
Answer(c) == Head(net[c].toClient)
After(c) == ClientReads(net[c])

(* The answer, by type and value, that lets the client go on; a ChunkAck's *)
(* contents are not looked at.                                             *)
GoesOn(c) ==
    \/ Answered(c, "capability") /\ Answer(c) = CapabilityResponse(TRUE)
    \/ Answered(c, "headerAck") /\ Answer(c) = HeaderAck(TRUE)
    \/ Answered(c, "chunkAck")
    \/ Answered(c, "bindingAck") /\ Answer(c) = AgentGraphBindingAck(TRUE)

SendHeader(c) ==
    /\ GoesOn(c)
    /\ cpc[c] = "capability"
    /\ SendAndWait(c, After(c), HeaderEnvelope(HeaderOf(c)), "headerAck")
    /\ UNCHANGED sent

SendChunk(c) ==
    /\ GoesOn(c)
    /\ cpc[c] \in {"headerAck", "chunkAck"}
    /\ sent[c] < ChunkCount(HeaderOf(c))
    /\ SendAndWait(c, After(c), NthChunk(c, sent[c]), "chunkAck")
    /\ sent' = [sent EXCEPT ![c] = @ + 1]

StreamDone(c) ==
    /\ GoesOn(c)
    /\ cpc[c] \in {"headerAck", "chunkAck"}
    /\ sent[c] = ChunkCount(HeaderOf(c))

SendBinding(c) ==
    /\ StreamDone(c)
    /\ Job[c].graph # NoGraph
    /\ SendAndWait(c, After(c), AgentGraphBinding(BindingOf(c)), "bindingAck")
    /\ UNCHANGED sent

SendCommitRequest(c) ==
    /\ \/ StreamDone(c) /\ Job[c].graph = NoGraph
       \/ GoesOn(c) /\ cpc[c] = "bindingAck"
    /\ SendAndWait(c, After(c), CommitRequest, "commitResponse")
    /\ UNCHANGED sent

(* Normalising or encoding the next tensor fails. *)
EncodeFails(c) ==
    /\ "encode" \in Faults
    /\ GoesOn(c)
    /\ cpc[c] \in {"headerAck", "chunkAck"}
    /\ sent[c] < ChunkCount(HeaderOf(c))
    /\ Exit(c, After(c), "failed")

(* write_migration_manifest records the phase status how, or fails. *)
Reported(how) == {how} \cup (IF "manifest" \in Faults THEN {"failed"} ELSE {})

(* The commit response decides the phase_status of the manifest; writing   *)
(* the manifest may fail after the target has committed.                   *)
Finish(c) ==
    /\ Answered(c, "commitResponse")
    /\ \E how \in Reported(IF Answer(c).type # "CommitResponse" THEN "failed"
                           ELSE IF Answer(c).success THEN "committed"
                           ELSE "commit_failed") :
          Exit(c, After(c), how)

(* A refusal, or an answer of another type, ends the command. *)
Refused(c) ==
    /\ \E w \in {"capability", "headerAck", "bindingAck"} : Answered(c, w)
    /\ ~GoesOn(c)
    /\ \E how \in Reported(IF Answer(c) = AgentGraphBindingAck(FALSE)
                           THEN "graph_binding_failed" ELSE "failed") :
          Exit(c, After(c), how)

(* recv_message fails, or the send that would follow a good answer does. *)
ConnectionFails(c) ==
    /\ cpc[c] \notin {"start", "done"}
    /\ ClientGetsEof(net[c]) \/ (GoesOn(c) /\ net[c].st # "open")
    /\ Exit(c, net[c], "failed")

(* The process is killed: its socket closes. *)
Crash(c) ==
    /\ "crash" \in Faults
    /\ cpc[c] \notin {"start", "done"}
    /\ Exit(c, net[c], "crashed")

ClientStep(c) ==
    \/ Connect(c) \/ StartFails(c) \/ SendHeader(c) \/ SendChunk(c)
    \/ EncodeFails(c) \/ SendBinding(c) \/ SendCommitRequest(c)
    \/ Finish(c) \/ Refused(c) \/ ConnectionFails(c)
=============================================================================
