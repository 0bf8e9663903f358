------------------------------- MODULE Daemon -------------------------------
(***************************************************************************)
(* The migration daemon: run_daemon's accept loop and                      *)
(* handle_migration_connection (crates/cli/src/main.rs) with the injector  *)
(* it drives (crates/injector).  The loop serves one connection at a time; *)
(* the orchestrator and the injector's cache outlive the connection, the   *)
(* rest is local to the handler.  An action is one await of the handler:   *)
(* receive a frame, act on it, answer.                                     *)
(*                                                                         *)
(* A tensor is identified by where it comes from: connection, block of     *)
(* that connection's header, and name.                                     *)
(***************************************************************************)
EXTENDS Usxf, Link, Orchestrator

CONSTANTS
    NoConn,   \* the daemon serves nobody
    Backend   \* InjectorBackend: "Mock" or "JsonCommand"

ASSUME DaemonAssumption ==
    /\ NoConn \notin Conns
    /\ Backend \in {"Mock", "JsonCommand"}

VARIABLES
    cur,          \* the connection handle_migration_connection serves
    phase,        \* where the handler waits
    header,       \* the validated header
    received,     \* received_chunks
    remaining,    \* iterations left of the chunk loop
    accumulated,  \* accumulated_blocks: hash -> tensors
    staged,       \* hashes the injection loop has still to visit
    isCommit,     \* the last message was CommitRequest
    cache,        \* the injector's blocks (physical_cache, or the target's)
    orchestrator, \* MigrationOrchestrator
    ended         \* what run_daemon logged when the handler returned

handlerVars == <<phase, header, received, remaining, accumulated, staged, isCommit>>
daemonVars == <<net, backlog, cur, handlerVars, cache, orchestrator, ended>>

Phases == {"accept", "capability", "header", "chunks", "streamed", "bound", "inject"}
Endings == {"none", "committed", "rejected", "failed"}
Tensor == [from : Conns, blk : Nat, name : Names]
Blocks == [Hashes -> SUBSET Tensor]
NoBlocks == [h \in Hashes |-> {}]

DaemonInit ==
    /\ net = [c \in Conns |-> NoLink]
    /\ backlog = <<>>
    /\ cur = NoConn
    /\ phase = "accept"
    /\ header = NoHeader
    /\ received = {}
    /\ remaining = 0
    /\ accumulated = NoBlocks
    /\ staged = {}
    /\ isCommit = FALSE
    /\ cache = NoBlocks
    /\ orchestrator = NewOrchestrator
    /\ ended = [c \in Conns |-> "none"]

-----------------------------------------------------------------------------
(* listener.accept() *)
Accept ==
    /\ cur = NoConn
    /\ backlog # <<>>
    /\ cur' = Head(backlog)
    /\ backlog' = Tail(backlog)
    /\ phase' = "capability"
    /\ UNCHANGED <<net, header, received, remaining, accumulated, staged,
                   isCommit, cache, orchestrator, ended>>

(* The handler returns: its locals and its socket are dropped, the loop    *)
(* logs how the connection ended and accepts the next one.  n is the       *)
(* connection as the handler leaves it.                                    *)
Return(n, how) ==
    /\ net' = [net EXCEPT ![cur] = DaemonCloses(n)]
    /\ ended' = [ended EXCEPT ![cur] = how]
    /\ cur' = NoConn
    /\ phase' = "accept"
    /\ header' = NoHeader
    /\ received' = {}
    /\ remaining' = 0
    /\ accumulated' = NoBlocks
    /\ staged' = {}
    /\ isCommit' = FALSE
    /\ UNCHANGED backlog

Fail(n) == Return(n, "failed") /\ UNCHANGED <<cache, orchestrator>>

(* The frame recv_message hands to the handler, and the connection once it *)
(* has been read.                                                          *)
Msg == Head(net[cur].toDaemon)
Rest == DaemonReads(net[cur])

Receives(p) ==
    /\ phase = p
    /\ net[cur].toDaemon # <<>>

(* Mutant of ReceiveFails: the end of the stream goes unnoticed. *)
ReceiveFailsNoEof ==
    /\ cur # NoConn
    /\ phase # "inject"
    /\ Receives(phase) /\ Msg.type = "Undecodable" /\ Fail(Rest)

(* recv_message fails: the peer is gone, or the frame does not decode. *)
ReceiveFails ==
    /\ cur # NoConn
    /\ phase # "inject"
    /\ \/ DaemonGetsEof(net[cur]) /\ Fail(net[cur])
       \/ Receives(phase) /\ Msg.type = "Undecodable" /\ Fail(Rest)

(* The frame is one the handler accepts in its phase and answers. *)
GoodCapability == Receives("capability") /\ Msg.type = "CapabilityRequest"

GoodHeader ==
    /\ Receives("header")
    /\ Msg.type = "HeaderEnvelope"
    /\ ValidateHeader(Msg.header)

GoodChunk ==
    /\ Receives("chunks")
    /\ Msg.type = "PayloadChunk"
    /\ Msg.crc_ok
    /\ ValidatePayloadChunkMetadata(header, Msg, received)
    /\ Msg.decodes

Binding == Receives("streamed") /\ Msg.type = "AgentGraphBinding"

(* bail!: another message than the expected one, or one that does not      *)
(* validate, ends the handler without an answer.                           *)
ProtocolViolation ==
    /\ \E p \in {"capability", "header", "chunks"} : Receives(p)
    /\ Msg.type # "Undecodable"
    /\ ~(GoodCapability \/ GoodHeader \/ GoodChunk)
    /\ Fail(Rest)

(* send_message(...)? of an answer fails because the peer is gone.  The    *)
(* failure is not recorded, not even that of a rejected binding.           *)
AnswerFails ==
    /\ cur # NoConn
    /\ net[cur].st # "open"
    /\ GoodCapability \/ GoodHeader \/ GoodChunk \/ Binding
    /\ Fail(Rest)

(* send_message(reply) and wait for the next frame in phase p. *)
AnswerAndWait(reply, p) ==
    /\ net' = [net EXCEPT ![cur] = DaemonWrites(Rest, reply)]
    /\ phase' = p
    /\ UNCHANGED <<backlog, cur, staged, isCommit, cache, orchestrator, ended>>

RejectCapability ==
    /\ GoodCapability
    /\ Msg.seq_len > MaxContext
    /\ Return(DaemonWrites(Rest, CapabilityResponse(FALSE)), "rejected")
    /\ UNCHANGED <<cache, orchestrator>>

AcceptCapability ==
    /\ GoodCapability
    /\ Msg.seq_len <= MaxContext
    /\ AnswerAndWait(CapabilityResponse(TRUE), "header")
    /\ UNCHANGED <<header, received, remaining, accumulated>>

(* A loop of no iterations falls through to the wait for the commit. *)
AcceptHeader ==
    /\ GoodHeader
    /\ header' = Msg.header
    /\ remaining' = ChunkCount(Msg.header)
    /\ AnswerAndWait(HeaderAck(TRUE), IF remaining' = 0 THEN "streamed" ELSE "chunks")
    /\ UNCHANGED <<received, accumulated>>

(* The tensor replaces one of the same name under the same block hash. *)
StageTensor(blocks, h, t) ==
    [blocks EXCEPT ![h] = {u \in @ : u.name # t.name} \cup {t}]

(* Mutant of AcceptChunk: the chunk is not acknowledged. *)
AcceptChunkSilent ==
    /\ GoodChunk
    /\ received' = received \cup {ChunkKey(Msg)}
    /\ accumulated' = StageTensor(accumulated,
                                  header.block_hashes[Msg.chunk_index + 1],
                                  [from |-> cur, blk |-> Msg.chunk_index,
                                   name |-> Msg.tensor_name])
    /\ remaining' = remaining - 1
    /\ net' = [net EXCEPT ![cur] = Rest]
    /\ phase' = IF remaining' = 0 THEN "streamed" ELSE "chunks"
    /\ UNCHANGED <<backlog, cur, header, staged, isCommit, cache, orchestrator, ended>>

AcceptChunk ==
    /\ GoodChunk
    /\ received' = received \cup {ChunkKey(Msg)}
    /\ accumulated' = StageTensor(accumulated,
                                  header.block_hashes[Msg.chunk_index + 1],
                                  [from |-> cur, blk |-> Msg.chunk_index,
                                   name |-> Msg.tensor_name])
    /\ remaining' = remaining - 1
    /\ AnswerAndWait(ChunkAck(Msg.chunk_index),
                     IF remaining' = 0 THEN "streamed" ELSE "chunks")
    /\ UNCHANGED header

RejectBinding ==
    /\ Binding
    /\ ~ValidateAgentGraphBinding(Msg.binding, header)
    /\ Return(DaemonWrites(Rest, AgentGraphBindingAck(FALSE)), "failed")
    /\ orchestrator' = RecordFailure(orchestrator)
    /\ UNCHANGED cache

(* Mutant of AcceptBinding: the binding is accepted as it comes. *)
AcceptBindingUnchecked ==
    /\ Binding
    /\ AnswerAndWait(AgentGraphBindingAck(TRUE), "bound")
    /\ UNCHANGED <<header, received, remaining, accumulated>>

AcceptBinding ==
    /\ Binding
    /\ ValidateAgentGraphBinding(Msg.binding, header)
    /\ AnswerAndWait(AgentGraphBindingAck(TRUE), "bound")
    /\ UNCHANGED <<header, received, remaining, accumulated>>

(* Mutant of StartInjection: the accumulated blocks are not visited. *)
StartInjectionOfNothing ==
    /\ \/ Receives("streamed") /\ Msg.type # "AgentGraphBinding"
       \/ Receives("bound")
    /\ Msg.type # "Undecodable"
    /\ net' = [net EXCEPT ![cur] = Rest]
    /\ phase' = "inject"
    /\ isCommit' = (Msg.type = "CommitRequest")
    /\ UNCHANGED <<backlog, cur, header, received, remaining, accumulated,
                   staged, cache, orchestrator, ended>>

(* Any other frame, whatever it is, starts the injection. *)
StartInjection ==
    /\ \/ Receives("streamed") /\ Msg.type # "AgentGraphBinding"
       \/ Receives("bound")
    /\ Msg.type # "Undecodable"
    /\ net' = [net EXCEPT ![cur] = Rest]
    /\ phase' = "inject"
    /\ staged' = {h \in Hashes : accumulated[h] # {}}
    /\ isCommit' = (Msg.type = "CommitRequest")
    /\ UNCHANGED <<backlog, cur, header, received, remaining, accumulated,
                   cache, orchestrator, ended>>

(* Mutants of InjectBlock: the tensors are added to those under the hash,  *)
(* and the loop ends after one block.                                      *)
InjectBlockMerges ==
    /\ phase = "inject"
    /\ \E h \in staged :
          /\ cache' = [cache EXCEPT ![h] = @ \cup accumulated[h]]
          /\ staged' = staged \ {h}
    /\ UNCHANGED <<net, backlog, cur, phase, header, received, remaining,
                   accumulated, isCommit, orchestrator, ended>>
InjectBlockOnce ==
    /\ phase = "inject"
    /\ \E h \in staged : cache' = [cache EXCEPT ![h] = accumulated[h]]
    /\ staged' = {}
    /\ UNCHANGED <<net, backlog, cur, phase, header, received, remaining,
                   accumulated, isCommit, orchestrator, ended>>

(* inject_block_tensors: the block's tensors replace what is stored under  *)
(* its hash.  The staged map is visited in any order.                      *)
InjectBlock ==
    /\ phase = "inject"
    /\ \E h \in staged :
          /\ cache' = [cache EXCEPT ![h] = accumulated[h]]
          /\ staged' = staged \ {h}
    /\ UNCHANGED <<net, backlog, cur, phase, header, received, remaining,
                   accumulated, isCommit, orchestrator, ended>>

(* The injector command fails, before or after it stored the block. *)
InjectFails ==
    /\ phase = "inject"
    /\ Backend = "JsonCommand"
    /\ \E h \in staged :
          cache' \in {cache, [cache EXCEPT ![h] = accumulated[h]]}
    /\ Return(net[cur], "failed")
    /\ UNCHANGED orchestrator

(* bail! after the injection: the frame was no CommitRequest. *)
NotACommit ==
    /\ phase = "inject"
    /\ staged = {}
    /\ ~isCommit
    /\ Fail(net[cur])

(* verify_continuation: the mock looks every advertised hash up, the       *)
(* command answers as it will.                                             *)
MissingHashes == {i \in DOMAIN header.block_hashes : cache[header.block_hashes[i]] = {}}

(* Mutant of VerifyFails: the commit is answered all the same. *)
VerifyFailsUnseen ==
    /\ phase = "inject"
    /\ staged = {}
    /\ isCommit
    /\ Backend = "Mock" => MissingHashes # {}
    /\ Return(DaemonWrites(net[cur], CommitResponse(TRUE)), "failed")
    /\ UNCHANGED <<cache, orchestrator>>

VerifyFails ==
    /\ phase = "inject"
    /\ staged = {}
    /\ isCommit
    /\ Backend = "Mock" => MissingHashes # {}
    /\ Fail(net[cur])

(* Mutant of Verified: the injection loop need not be over. *)
VerifiedEarly ==
    /\ phase = "inject"
    /\ isCommit
    /\ Backend = "Mock" => MissingHashes = {}

Verified ==
    /\ phase = "inject"
    /\ staged = {}
    /\ isCommit
    /\ Backend = "Mock" => MissingHashes = {}

(* Mutant of Commit: the handler returns without its answer. *)
CommitUnanswered ==
    /\ Verified
    /\ Return(net[cur], "committed")
    /\ orchestrator' = RecordSuccess(orchestrator)
    /\ UNCHANGED cache

(* CommitResponse is sent first, then the success is recorded. *)
Commit ==
    /\ Verified
    /\ Return(DaemonWrites(net[cur], CommitResponse(TRUE)), "committed")
    /\ orchestrator' = RecordSuccess(orchestrator)
    /\ UNCHANGED cache

CommitAnswerFails ==
    /\ Verified
    /\ net[cur].st # "open"
    /\ Fail(net[cur])

DaemonNext ==
    \/ Accept \/ ReceiveFails \/ ProtocolViolation \/ AnswerFails
    \/ RejectCapability \/ AcceptCapability \/ AcceptHeader \/ AcceptChunk
    \/ RejectBinding \/ AcceptBinding \/ StartInjection
    \/ InjectBlock \/ InjectFails \/ NotACommit \/ VerifyFails
    \/ Commit \/ CommitAnswerFails

-----------------------------------------------------------------------------
(* Types of the daemon's variables. *)
DaemonTypeOK ==
    /\ cur \in Conns \cup {NoConn}
    /\ phase \in Phases
    /\ header \in Header
    /\ received \in SUBSET ((Nat \X Nat) \X Kinds)
    /\ remaining \in Nat
    /\ accumulated \in Blocks
    /\ staged \in SUBSET Hashes
    /\ isCommit \in BOOLEAN
    /\ cache \in Blocks
    /\ orchestrator \in [active : Nat, failures : Nat]
    /\ ended \in [Conns -> Endings]

LayerNames(n) == (0 .. n - 1) \X Kinds

(* The block holds exactly one tensor for each name of n layers, all sent  *)
(* on connection c.                                                        *)
Whole(block, c, n) ==
    /\ \A t \in block : t.from = c /\ t.name \in LayerNames(n)
    /\ \A name \in LayerNames(n) : \E t \in block : t.name = name
    /\ \A t, u \in block : t.name = u.name => t = u

(* Whatever the peers send, and wherever a migration stops, a block in the *)
(* target cache is whole and unmixed: its tensors come from one            *)
(* connection, no two have the same name, and with a tensor of some layer  *)
(* it has the keys and values of all the layers below.                     *)
CachedBlocksAreWhole ==
    \A h \in Hashes : \A t \in cache[h] :
        /\ \A u \in cache[h] : u.from = t.from /\ (u.name = t.name => u = t)
        /\ \A name \in LayerNames(t.name[1] + 1) : \E u \in cache[h] : u.name = name

(* A commit is answered only when every block hash of the header that this *)
(* connection sent holds a whole block of this connection with the         *)
(* header's layers, whatever order the chunks came in.  (validate_header   *)
(* lets a header of no layers through; its commit installs nothing.)       *)
CommitIsComplete ==
    [][\A c \in Conns : ended[c] # "committed" /\ ended'[c] = "committed" =>
          /\ c = cur
          /\ header.n_layers > 0 =>
                \A i \in DOMAIN header.block_hashes :
                    Whole(cache[header.block_hashes[i]], c, header.n_layers)]_daemonVars

(* Once the staged blocks are injected, no hash that a header with layers  *)
(* advertises is missing from the cache: the mock's verify_continuation    *)
(* cannot fail after a complete stream.                                    *)
NothingIsMissing ==
    phase = "inject" /\ staged = {} /\ header.n_layers > 0 => MissingHashes = {}
=============================================================================
