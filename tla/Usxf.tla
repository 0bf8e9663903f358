-------------------------------- MODULE Usxf --------------------------------
(***************************************************************************)
(* The USXF header, the migration messages, and the daemon's validation of *)
(* both: crates/usxf-core, crates/transport (message enum) and the pure    *)
(* functions of crates/cli/src/main.rs.  No state.                         *)
(*                                                                         *)
(* Abstractions.  A block hash is an element of Hashes.  A tensor name     *)
(* "layer.<l>.key" is the pair <<l, "key">>.  The header fields that are   *)
(* only compared with a fixed form (version, batch size, hash prefixes,    *)
(* signature, decryption) are one flag, meta_ok.  A chunk's payload is not *)
(* carried: crc_ok says that its checksum matches and decodes that its     *)
(* codec accepts it and yields the expected number of floats.              *)
(***************************************************************************)
EXTENDS Integers, FiniteSets, Sequences

CONSTANTS
    Conns,       \* connections to the daemon: one per run of a client
    Hashes,      \* block hashes
    MaxContext,  \* the daemon's context limit (131072 tokens in the code)
    Frames       \* the frames that peers may write to the daemon

ASSUME ContextAssumption == MaxContext \in Nat

Kinds == {"key", "value"}
Names == Nat \X Kinds

DivCeil(a, b) == (a + b - 1) \div b

Header == [seq_len : Nat, block_size : Nat, n_layers : Nat,
           block_hashes : Seq(Hashes), meta_ok : BOOLEAN]

NoHeader == [seq_len |-> 0, block_size |-> 0, n_layers |-> 0,
             block_hashes |-> <<>>, meta_ok |-> FALSE]

(* validate_header, after open_packet and deserialisation. *)
ValidateHeader(h) ==
    /\ h.meta_ok
    /\ h.seq_len > 0
    /\ h.block_size > 0
    /\ Len(h.block_hashes) = DivCeil(h.seq_len, h.block_size)

(* Every (chunk_index, layer_index, tensor_name) the header announces. *)
AllChunks(h) ==
    ((0 .. Len(h.block_hashes) - 1) \X (0 .. h.n_layers - 1)) \X Kinds

(* The bound of the loops that send and receive the chunks. *)
ChunkCount(h) == h.n_layers * 2 * DivCeil(h.seq_len, h.block_size)

(* validate_payload_chunk_metadata, with the duplicate check against the   *)
(* set of chunks already received on this connection.                      *)
ChunkKey(m) == <<<<m.chunk_index, m.layer_index>>, m.tensor_name[2]>>

ValidatePayloadChunkMetadata(h, m, received) ==
    /\ m.chunk_index < Len(h.block_hashes)
    /\ m.layer_index < h.n_layers
    /\ m.tensor_name[1] = m.layer_index
    /\ ChunkKey(m) \notin received

(* block_hashes_for_span: the hashes of the blocks that tokens start..end-1 *)
(* touch, clipped to the sequence.                                          *)
BlockHashesForSpan(h, start, end) ==
    IF end <= start \/ start >= h.seq_len \/ h.block_size = 0
    THEN <<>>
    ELSE LET last == (IF end < h.seq_len THEN end ELSE h.seq_len) - 1
         IN SubSeq(h.block_hashes, start \div h.block_size + 1,
                   last \div h.block_size + 1)

(* validate_agent_graph_binding.  evidence: the paths are non-empty and the *)
(* graph, prompt-token, tokenizer, KV and artifact hashes are present and   *)
(* well formed.  tokenizer_ok: the span's tokenizer hash, when present,     *)
(* equals the binding's.                                                    *)
ValidateAgentGraphBinding(b, h) ==
    /\ b.evidence
    /\ b.spans # {}
    /\ \A s \in b.spans :
          /\ s.token_end > s.token_start
          /\ s.token_end <= h.seq_len
          /\ s.tokenizer_ok
          /\ s.block_hashes # <<>>
          /\ \A i \in DOMAIN s.block_hashes :
                \E j \in DOMAIN h.block_hashes :
                    h.block_hashes[j] = s.block_hashes[i]

-----------------------------------------------------------------------------
(* MigrationMessage. *)
CapabilityRequest(n)  == [type |-> "CapabilityRequest", seq_len |-> n]
CapabilityResponse(a) == [type |-> "CapabilityResponse", accepted |-> a]
HeaderEnvelope(h)     == [type |-> "HeaderEnvelope", header |-> h]
HeaderAck(a)          == [type |-> "HeaderAck", accepted |-> a]
PayloadChunk(b, l, name, crc, dec) ==
    [type |-> "PayloadChunk", chunk_index |-> b, layer_index |-> l,
     tensor_name |-> name, crc_ok |-> crc, decodes |-> dec]
ChunkAck(b)           == [type |-> "ChunkAck", chunk_index |-> b]
AgentGraphBinding(b)  == [type |-> "AgentGraphBinding", binding |-> b]
AgentGraphBindingAck(a) == [type |-> "AgentGraphBindingAck", accepted |-> a]
CommitRequest         == [type |-> "CommitRequest"]
CommitResponse(s)     == [type |-> "CommitResponse", success |-> s]
(* A frame that recv_message refuses: too long, unknown kind, bad JSON. *)
Undecodable           == [type |-> "Undecodable"]

(* The fields that a decoded frame of each type has. *)
FrameTypes ==
    [type : {"CapabilityRequest"}, seq_len : Nat]
    \cup [type : {"HeaderEnvelope"}, header : Header]
    \cup [type : {"PayloadChunk"}, chunk_index : Nat, layer_index : Nat,
          tensor_name : Names, crc_ok : BOOLEAN, decodes : BOOLEAN]
    \cup {f \in Frames : f.type = "AgentGraphBinding"}
    \cup [type : {"CommitRequest", "Undecodable"}]

ASSUME FramesAssumption == Frames \subseteq FrameTypes
=============================================================================
