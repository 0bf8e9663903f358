---------------------------- MODULE DaemonProofs ----------------------------
(***************************************************************************)
(* Proofs about the daemon with arbitrary peers (DaemonPeer), for every    *)
(* set of connections, hashes and frames, every layer and block count and  *)
(* both injector backends; and, at the end, about the orchestrator shared  *)
(* by any number of migrations (OrchestratorService), for every policy and *)
(* every decision.                                                         *)
(***************************************************************************)
EXTENDS DaemonPeer, OrchestratorService, FiniteSetTheorems, TLAPS

(* Most leaves are first-order: Zenon is tried before SMT. *)
USE ZenonT(2), SMTT(30), ZenonT(60)

Answers ==
    [type : {"CapabilityResponse", "HeaderAck", "AgentGraphBindingAck"}, accepted : BOOLEAN]
    \cup [type : {"ChunkAck"}, chunk_index : Nat]
    \cup [type : {"CommitResponse"}, success : BOOLEAN]

LinkRecord == [st : LinkStates, toDaemon : Seq(Frames), toClient : Seq(Answers)]

(* The types of everything the daemon touches, that it serves a connection *)
(* exactly when it is not accepting, and that it waits for a chunk only in *)
(* an iteration of the loop.                                               *)
TypeInv ==
    /\ net \in [Conns -> LinkRecord]
    /\ backlog \in Seq(Conns)
    /\ DaemonTypeOK
    /\ cur = NoConn <=> phase = "accept"
    /\ phase = "chunks" => remaining > 0

-----------------------------------------------------------------------------
(* Sequences. *)
LEMMA SeqEmpty ==
    ASSUME NEW S
    PROVE  <<>> \in Seq(S) /\ \A q \in Seq(S) : q = <<>> <=> Len(q) = 0
OBVIOUS

LEMMA SeqLen ==
    ASSUME NEW S, NEW q \in Seq(S)
    PROVE  Len(q) \in Nat /\ DOMAIN q = 1 .. Len(q) /\ q \in [1 .. Len(q) -> S]
OBVIOUS

LEMMA SeqElement ==
    ASSUME NEW S, NEW q \in Seq(S), NEW i \in 1 .. Len(q)
    PROVE  q[i] \in S
OBVIOUS

LEMMA SeqAppend ==
    ASSUME NEW S, NEW q \in Seq(S), NEW x \in S
    PROVE  /\ Append(q, x) \in Seq(S) /\ Len(Append(q, x)) = Len(q) + 1
           /\ \A i \in 1 .. Len(q) : Append(q, x)[i] = q[i]
           /\ Append(q, x)[Len(q) + 1] = x
OBVIOUS

LEMMA SeqTail ==
    ASSUME NEW S, NEW q \in Seq(S), q # <<>>
    PROVE  /\ Head(q) \in S /\ Tail(q) \in Seq(S) /\ Len(Tail(q)) = Len(q) - 1
           /\ \A i \in 1 .. Len(q) - 1 : Tail(q)[i] = q[i + 1]
OBVIOUS

-----------------------------------------------------------------------------
(* What the operations on a connection record return. *)
LEMMA LinkTypes ==
    ASSUME NEW n \in LinkRecord
    PROVE  /\ DaemonCloses(n) \in LinkRecord
           /\ ClientCloses(n) \in LinkRecord
           /\ \A m \in Answers : DaemonWrites(n, m) \in LinkRecord
           /\ \A m \in Frames : ClientWrites(n, m) \in LinkRecord
           /\ n.toDaemon # <<>> =>
                 DaemonReads(n) \in LinkRecord /\ Head(n.toDaemon) \in Frames
           /\ n.toClient # <<>> => ClientReads(n) \in LinkRecord
<1>1. DaemonCloses(n) \in LinkRecord /\ ClientCloses(n) \in LinkRecord
  BY SeqEmpty DEF DaemonCloses, ClientCloses, DeadLink, LinkRecord, LinkStates
<1>2. ASSUME NEW m \in Answers PROVE DaemonWrites(n, m) \in LinkRecord
  <2>1. Append(n.toClient, m) \in Seq(Answers)
    BY SeqAppend DEF LinkRecord
  <2>2. [n EXCEPT !.toClient = Append(@, m)] \in LinkRecord
    BY <2>1 DEF LinkRecord
  <2> QED BY <2>2 DEF DaemonWrites
<1>3. ASSUME NEW m \in Frames PROVE ClientWrites(n, m) \in LinkRecord
  <2>1. Append(n.toDaemon, m) \in Seq(Frames)
    BY SeqAppend DEF LinkRecord
  <2>2. [n EXCEPT !.toDaemon = Append(@, m)] \in LinkRecord
    BY <2>1 DEF LinkRecord
  <2> QED BY <2>2 DEF ClientWrites
<1>4. ASSUME n.toDaemon # <<>>
      PROVE DaemonReads(n) \in LinkRecord /\ Head(n.toDaemon) \in Frames
  <2>1. Tail(n.toDaemon) \in Seq(Frames) /\ Head(n.toDaemon) \in Frames
    BY <1>4, SeqTail DEF LinkRecord
  <2> QED BY <2>1 DEF DaemonReads, LinkRecord
<1>5. ASSUME n.toClient # <<>> PROVE ClientReads(n) \in LinkRecord
  <2>1. Tail(n.toClient) \in Seq(Answers)
    BY <1>5, SeqTail DEF LinkRecord
  <2> QED BY <2>1 DEF ClientReads, LinkRecord
<1> QED BY <1>1, <1>2, <1>3, <1>4, <1>5

(* The fields of the frames that carry data into the daemon's state. *)
LEMMA FrameFields ==
    ASSUME NEW m \in Frames
    PROVE  /\ m.type = "HeaderEnvelope" => m.header \in Header
           /\ m.type = "PayloadChunk" =>
                 /\ m.chunk_index \in Nat
                 /\ m.layer_index \in Nat
                 /\ m.tensor_name \in Names
<1>1. m \in FrameTypes
  BY FramesAssumption
<1>2. ASSUME m.type = "HeaderEnvelope" PROVE m.header \in Header
  BY <1>1, <1>2 DEF FrameTypes
<1>3. ASSUME m.type = "PayloadChunk"
      PROVE  m.chunk_index \in Nat /\ m.layer_index \in Nat /\ m.tensor_name \in Names
  BY <1>1, <1>3 DEF FrameTypes
<1> QED BY <1>2, <1>3

LEMMA NoBlocksType == NoBlocks \in Blocks /\ NoHeader \in Header
<1>1. <<>> \in Seq(Hashes)
  BY SeqEmpty
<1> QED BY <1>1 DEF NoBlocks, Blocks, NoHeader, Header

LEMMA InitType == DaemonInit => TypeInv
<1> SUFFICES ASSUME DaemonInit PROVE TypeInv
  OBVIOUS
<1>1. NoLink \in LinkRecord
  BY SeqEmpty DEF NoLink, LinkRecord, LinkStates
<1>2. net \in [Conns -> LinkRecord] /\ backlog \in Seq(Conns)
  BY <1>1, SeqEmpty DEF DaemonInit
<1>3. DaemonTypeOK
  BY NoBlocksType DEF DaemonInit, DaemonTypeOK, Phases, NewOrchestrator, Endings
<1> QED BY <1>2, <1>3 DEF TypeInv, DaemonInit

-----------------------------------------------------------------------------
(* The connection served, the frame read and the connection after it. *)
LEMMA Serving ==
    ASSUME TypeInv, phase # "accept"
    PROVE  /\ cur \in Conns
           /\ net[cur] \in LinkRecord
           /\ net[cur].toDaemon # <<>> => Msg \in Frames /\ Rest \in LinkRecord
<1>1. cur \in Conns /\ net[cur] \in LinkRecord
  BY DEF TypeInv, DaemonTypeOK
<1> QED BY <1>1, LinkTypes DEF Msg, Rest

OrchestratorRecord == [active : Nat, failures : Nat]

LEMMA RecordTypes ==
    ASSUME NEW o \in OrchestratorRecord
    PROVE  RecordFailure(o) \in OrchestratorRecord /\ RecordSuccess(o) \in OrchestratorRecord
BY DEF OrchestratorRecord, RecordFailure, RecordSuccess

LEMMA ReturnType ==
    ASSUME TypeInv, phase # "accept",
           NEW n \in LinkRecord, NEW how \in Endings, Return(n, how),
           cache' \in Blocks, orchestrator' \in OrchestratorRecord
    PROVE  TypeInv'
<1>1. net' \in [Conns -> LinkRecord]
  BY Serving, LinkTypes DEF Return, TypeInv
<1>2. backlog' \in Seq(Conns) /\ (cur = NoConn <=> phase = "accept")'
      /\ (phase = "chunks" => remaining > 0)'
  BY DEF Return, TypeInv
<1>3. DaemonTypeOK'
  BY NoBlocksType DEF Return, TypeInv, DaemonTypeOK, Phases, OrchestratorRecord
<1> QED BY <1>1, <1>2, <1>3 DEF TypeInv

LEMMA FailType ==
    ASSUME TypeInv, phase # "accept", NEW n \in LinkRecord, Fail(n)
    PROVE  TypeInv'
<1>1. cache' \in Blocks /\ orchestrator' \in OrchestratorRecord
  BY DEF Fail, TypeInv, DaemonTypeOK, OrchestratorRecord
<1>2. Return(n, "failed") /\ "failed" \in Endings
  BY DEF Fail, Endings
<1> QED BY <1>1, <1>2, ReturnType

LEMMA AnswerType ==
    ASSUME TypeInv, phase # "accept", net[cur].toDaemon # <<>>,
           NEW reply \in Answers, NEW p \in Phases \ {"accept"}, AnswerAndWait(reply, p),
           header' \in Header, received' \in SUBSET ((Nat \X Nat) \X Kinds),
           remaining' \in Nat, accumulated' \in Blocks, p = "chunks" => remaining' > 0
    PROVE  TypeInv'
<1>1. net' \in [Conns -> LinkRecord]
  BY Serving, LinkTypes DEF AnswerAndWait, TypeInv
<1>2. backlog' \in Seq(Conns) /\ (cur = NoConn <=> phase = "accept")'
      /\ (phase = "chunks" => remaining > 0)'
  BY DEF AnswerAndWait, TypeInv
<1>3. DaemonTypeOK'
  BY DEF AnswerAndWait, TypeInv, DaemonTypeOK
<1> QED BY <1>1, <1>2, <1>3 DEF TypeInv

(* A chunk that validates has its key among the chunks of the header, and  *)
(* its hash among the header's.                                            *)
LEMMA GoodChunkFacts ==
    ASSUME TypeInv, GoodChunk
    PROVE  /\ Msg.chunk_index \in 0 .. Len(header.block_hashes) - 1
           /\ Msg.layer_index \in 0 .. header.n_layers - 1
           /\ Msg.tensor_name \in Names
           /\ Msg.tensor_name[1] = Msg.layer_index
           /\ Msg.tensor_name[2] \in Kinds
           /\ ChunkKey(Msg) \in AllChunks(header) \ received
           /\ header.block_hashes[Msg.chunk_index + 1] \in Hashes
<1>1. Msg \in Frames /\ header \in Header
  BY Serving DEF GoodChunk, Receives, TypeInv, DaemonTypeOK
<1>2. Msg.chunk_index \in Nat /\ Msg.layer_index \in Nat /\ Msg.tensor_name \in Names
  BY <1>1, FrameFields DEF GoodChunk
<1>3. header.block_hashes \in Seq(Hashes) /\ header.n_layers \in Nat
  BY <1>1 DEF Header
<1>4. Len(header.block_hashes) \in Nat
  BY <1>3, SeqLen
<1>5. Msg.chunk_index \in 0 .. Len(header.block_hashes) - 1
      /\ Msg.layer_index \in 0 .. header.n_layers - 1
  BY <1>2, <1>3, <1>4 DEF GoodChunk, ValidatePayloadChunkMetadata
<1>6. header.block_hashes[Msg.chunk_index + 1] \in Hashes
  BY <1>3, <1>4, <1>5, SeqElement
<1>7. Msg.tensor_name[2] \in Kinds
  BY <1>2 DEF Names
<1>8. ChunkKey(Msg) \in AllChunks(header) \ received
  BY <1>5, <1>7 DEF ChunkKey, AllChunks, GoodChunk, ValidatePayloadChunkMetadata
<1> QED BY <1>2, <1>5, <1>6, <1>7, <1>8 DEF GoodChunk, ValidatePayloadChunkMetadata

(* The loop bound of a valid header counts its layers' keys and values. *)
LEMMA ChunkCountType ==
    ASSUME NEW h \in Header, ValidateHeader(h)
    PROVE  /\ ChunkCount(h) = h.n_layers * 2 * Len(h.block_hashes)
           /\ ChunkCount(h) \in Nat
<1>1. h.n_layers \in Nat /\ h.block_hashes \in Seq(Hashes)
  BY DEF Header
<1>2. Len(h.block_hashes) \in Nat
  BY <1>1, SeqLen
<1>3. ChunkCount(h) = h.n_layers * 2 * Len(h.block_hashes)
  BY DEF ChunkCount, ValidateHeader
<1>4. \A x, y \in Nat : x * 2 * y \in Nat
  OBVIOUS
<1> QED BY <1>1, <1>2, <1>3, <1>4

LEMMA StageType ==
    ASSUME NEW B \in Blocks, NEW h \in Hashes, NEW t \in Tensor
    PROVE  /\ StageTensor(B, h, t) \in Blocks
           /\ \A g \in Hashes :
                 StageTensor(B, h, t)[g] =
                    IF g = h THEN {u \in B[h] : u.name # t.name} \cup {t} ELSE B[g]
BY DEF StageTensor, Blocks

LEMMA AcceptChunkType ==
    ASSUME TypeInv, AcceptChunk
    PROVE  TypeInv'
<1> DEFINE h == header.block_hashes[Msg.chunk_index + 1]
           t == [from |-> cur, blk |-> Msg.chunk_index, name |-> Msg.tensor_name]
           p == IF remaining' = 0 THEN "streamed" ELSE "chunks"
<1>1. phase # "accept" /\ net[cur].toDaemon # <<>> /\ cur \in Conns
  BY Serving DEF AcceptChunk, GoodChunk, Receives
<1>2. h \in Hashes /\ t \in Tensor
  BY <1>1, GoodChunkFacts DEF AcceptChunk, Tensor
<1>3. accumulated' \in Blocks
  BY <1>2, StageType DEF AcceptChunk, TypeInv, DaemonTypeOK
<1>4. remaining' \in Nat
  BY DEF AcceptChunk, GoodChunk, Receives, TypeInv, DaemonTypeOK
<1>5. received' \in SUBSET ((Nat \X Nat) \X Kinds)
  <2>1. ChunkKey(Msg) \in (Nat \X Nat) \X Kinds
    BY GoodChunkFacts DEF AcceptChunk, ChunkKey
  <2> QED BY <2>1 DEF AcceptChunk, TypeInv, DaemonTypeOK
<1>6. header' \in Header
  BY DEF AcceptChunk, TypeInv, DaemonTypeOK
<1>7. ChunkAck(Msg.chunk_index) \in Answers
  BY GoodChunkFacts DEF AcceptChunk, ChunkAck, Answers
<1>8. p \in Phases \ {"accept"} /\ (p = "chunks" => remaining' > 0)
  BY <1>4 DEF Phases
<1>9. AnswerAndWait(ChunkAck(Msg.chunk_index), p)
  BY DEF AcceptChunk
<1> QED BY <1>1, <1>3, <1>4, <1>5, <1>6, <1>7, <1>8, <1>9, AnswerType

LEMMA AcceptHeaderType ==
    ASSUME TypeInv, AcceptHeader
    PROVE  TypeInv' /\ header' = Msg.header /\ header' \in Header
<1> DEFINE p == IF remaining' = 0 THEN "streamed" ELSE "chunks"
<1>1. phase # "accept" /\ net[cur].toDaemon # <<>>
  BY DEF AcceptHeader, GoodHeader, Receives
<1>2. Msg.header \in Header
  BY <1>1, Serving, FrameFields DEF AcceptHeader, GoodHeader
<1>3. remaining' \in Nat
  BY <1>2, ChunkCountType DEF AcceptHeader, GoodHeader
<1>4. p \in Phases \ {"accept"} /\ (p = "chunks" => remaining' > 0)
  BY <1>3 DEF Phases
<1>5. HeaderAck(TRUE) \in Answers
  BY DEF HeaderAck, Answers
<1>6. received' \in SUBSET ((Nat \X Nat) \X Kinds) /\ accumulated' \in Blocks
  BY DEF AcceptHeader, TypeInv, DaemonTypeOK
<1>7. AnswerAndWait(HeaderAck(TRUE), p) /\ header' = Msg.header
  BY DEF AcceptHeader
<1> QED BY <1>1, <1>2, <1>3, <1>4, <1>5, <1>6, <1>7, AnswerType

(* Every way the handler returns, with the facts ReturnType needs. *)
LEMMA ReturningType ==
    ASSUME TypeInv,
           \/ ReceiveFails \/ ProtocolViolation \/ AnswerFails \/ RejectCapability
           \/ RejectBinding \/ InjectFails \/ NotACommit \/ VerifyFails
           \/ Commit \/ CommitAnswerFails
    PROVE  TypeInv'
<1> USE DEF OrchestratorRecord
<1>1. CASE ReceiveFails
  <2>1. phase # "accept"
    BY <1>1 DEF ReceiveFails, TypeInv
  <2>2. Fail(net[cur]) \/ (net[cur].toDaemon # <<>> /\ Fail(Rest))
    BY <1>1 DEF ReceiveFails, Receives
  <2> QED BY <2>1, <2>2, Serving, FailType
<1>2. CASE ProtocolViolation
  <2>1. phase # "accept" /\ net[cur].toDaemon # <<>> /\ Fail(Rest)
    BY <1>2 DEF ProtocolViolation, Receives
  <2> QED BY <2>1, Serving, FailType
<1>3. CASE AnswerFails
  <2>1. phase # "accept" /\ net[cur].toDaemon # <<>> /\ Fail(Rest)
    BY <1>3 DEF AnswerFails, GoodCapability, GoodHeader, GoodChunk, Binding, Receives
  <2> QED BY <2>1, Serving, FailType
<1>4. CASE RejectCapability
  <2> DEFINE n == DaemonWrites(Rest, CapabilityResponse(FALSE))
  <2>1. phase # "accept" /\ net[cur].toDaemon # <<>> /\ Return(n, "rejected")
    BY <1>4 DEF RejectCapability, GoodCapability, Receives
  <2>2. CapabilityResponse(FALSE) \in Answers /\ "rejected" \in Endings
    BY DEF CapabilityResponse, Answers, Endings
  <2>3. cache' \in Blocks /\ orchestrator' \in OrchestratorRecord
    BY <1>4 DEF RejectCapability, TypeInv, DaemonTypeOK
  <2>4. n \in LinkRecord
    BY <2>1, <2>2, Serving, LinkTypes
  <2> HIDE DEF n
  <2> QED BY <2>1, <2>2, <2>3, <2>4, ReturnType
<1>5. CASE RejectBinding
  <2> DEFINE n == DaemonWrites(Rest, AgentGraphBindingAck(FALSE))
  <2>1. phase # "accept" /\ net[cur].toDaemon # <<>> /\ Return(n, "failed")
    BY <1>5 DEF RejectBinding, Binding, Receives
  <2>2. AgentGraphBindingAck(FALSE) \in Answers /\ "failed" \in Endings
    BY DEF AgentGraphBindingAck, Answers, Endings
  <2>3. cache' \in Blocks /\ orchestrator' \in OrchestratorRecord
    BY <1>5, RecordTypes DEF RejectBinding, TypeInv, DaemonTypeOK
  <2>4. n \in LinkRecord
    BY <2>1, <2>2, Serving, LinkTypes
  <2> HIDE DEF n
  <2> QED BY <2>1, <2>2, <2>3, <2>4, ReturnType
<1>6. CASE InjectFails
  <2>1. phase # "accept" /\ Return(net[cur], "failed") /\ "failed" \in Endings
    BY <1>6 DEF InjectFails, Endings
  <2>2. cache' \in Blocks /\ orchestrator' \in OrchestratorRecord
    BY <1>6 DEF InjectFails, TypeInv, DaemonTypeOK, Blocks
  <2> QED BY <2>1, <2>2, Serving, ReturnType
<1>7. CASE NotACommit \/ VerifyFails \/ CommitAnswerFails
  <2>1. phase # "accept" /\ Fail(net[cur])
    BY <1>7 DEF NotACommit, VerifyFails, CommitAnswerFails, Verified
  <2> QED BY <2>1, Serving, FailType
<1>8. CASE Commit
  <2> DEFINE n == DaemonWrites(net[cur], CommitResponse(TRUE))
  <2>1. phase # "accept" /\ Return(n, "committed")
    BY <1>8 DEF Commit, Verified
  <2>2. CommitResponse(TRUE) \in Answers /\ "committed" \in Endings
    BY DEF CommitResponse, Answers, Endings
  <2>3. cache' \in Blocks /\ orchestrator' \in OrchestratorRecord
    BY <1>8, RecordTypes DEF Commit, TypeInv, DaemonTypeOK
  <2>4. n \in LinkRecord
    BY <2>1, <2>2, Serving, LinkTypes
  <2> HIDE DEF n
  <2> QED BY <2>1, <2>2, <2>3, <2>4, ReturnType
<1> QED BY <1>1, <1>2, <1>3, <1>4, <1>5, <1>6, <1>7, <1>8

LEMMA PeerType ==
    ASSUME TypeInv, NEW c \in Conns, PeerStep(c)
    PROVE  TypeInv' /\ UNCHANGED <<cur, handlerVars, cache, orchestrator, ended>>
<1>1. net[c] \in LinkRecord
  BY DEF TypeInv
<1>2. net' \in [Conns -> LinkRecord] /\ backlog' \in Seq(Conns)
  <2>1. CASE PeerConnects(c)
    <3>1. [net[c] EXCEPT !.st = "open"] \in LinkRecord
      BY <1>1 DEF LinkRecord, LinkStates
    <3> QED BY <2>1, <3>1, SeqAppend DEF PeerConnects, TypeInv
  <2>2. CASE PeerWrites(c)
    BY <2>2, <1>1, LinkTypes DEF PeerWrites, TypeInv
  <2>3. CASE PeerReads(c)
    BY <2>3, <1>1, LinkTypes DEF PeerReads, TypeInv
  <2>4. CASE PeerCloses(c)
    BY <2>4, <1>1, LinkTypes DEF PeerCloses, TypeInv
  <2> QED BY <2>1, <2>2, <2>3, <2>4 DEF PeerStep
<1>3. UNCHANGED <<cur, handlerVars, cache, orchestrator, ended>>
  BY DEF PeerStep
<1> QED BY <1>2, <1>3 DEF TypeInv, DaemonTypeOK, handlerVars

LEMMA TypeStep == TypeInv /\ [PeerNext]_daemonVars => TypeInv'
<1> SUFFICES ASSUME TypeInv, [PeerNext]_daemonVars PROVE TypeInv'
  OBVIOUS
<1>1. CASE Accept
  <2>1. Head(backlog) \in Conns /\ Tail(backlog) \in Seq(Conns)
    BY <1>1, SeqTail DEF Accept, TypeInv
  <2>2. NoConn \notin Conns
    BY DaemonAssumption
  <2> QED BY <1>1, <2>1, <2>2 DEF Accept, TypeInv, DaemonTypeOK, Phases
<1>2. CASE \/ ReceiveFails \/ ProtocolViolation \/ AnswerFails \/ RejectCapability
           \/ RejectBinding \/ InjectFails \/ NotACommit \/ VerifyFails
           \/ Commit \/ CommitAnswerFails
  BY <1>2, ReturningType
<1>3. CASE AcceptCapability
  <2>1. phase # "accept" /\ net[cur].toDaemon # <<>>
        /\ AnswerAndWait(CapabilityResponse(TRUE), "header")
    BY <1>3 DEF AcceptCapability, GoodCapability, Receives
  <2>2. CapabilityResponse(TRUE) \in Answers /\ "header" \in Phases \ {"accept"}
    BY DEF CapabilityResponse, Answers, Phases
  <2> QED BY <1>3, <2>1, <2>2, AnswerType DEF AcceptCapability, TypeInv, DaemonTypeOK
<1>4. CASE AcceptHeader
  BY <1>4, AcceptHeaderType
<1>5. CASE AcceptChunk
  BY <1>5, AcceptChunkType
<1>6. CASE AcceptBinding
  <2>1. phase # "accept" /\ net[cur].toDaemon # <<>>
        /\ AnswerAndWait(AgentGraphBindingAck(TRUE), "bound")
    BY <1>6 DEF AcceptBinding, Binding, Receives
  <2>2. AgentGraphBindingAck(TRUE) \in Answers /\ "bound" \in Phases \ {"accept"}
    BY DEF AgentGraphBindingAck, Answers, Phases
  <2> QED BY <1>6, <2>1, <2>2, AnswerType DEF AcceptBinding, TypeInv, DaemonTypeOK
<1>7. CASE StartInjection
  <2>1. phase # "accept" /\ net[cur].toDaemon # <<>>
    BY <1>7 DEF StartInjection, Receives
  <2>2. net' \in [Conns -> LinkRecord]
    BY <1>7, <2>1, Serving DEF StartInjection, TypeInv
  <2> QED BY <1>7, <2>1, <2>2 DEF StartInjection, TypeInv, DaemonTypeOK, Phases
<1>8. CASE InjectBlock
  BY <1>8 DEF InjectBlock, TypeInv, DaemonTypeOK, Blocks
<1>9. CASE \E c \in Conns : PeerStep(c)
  BY <1>9, PeerType
<1>10. CASE UNCHANGED daemonVars
  BY <1>10 DEF daemonVars, handlerVars, TypeInv, DaemonTypeOK
<1> QED BY <1>1, <1>2, <1>3, <1>4, <1>5, <1>6, <1>7, <1>8, <1>9, <1>10
        DEF PeerNext, DaemonNext

(* Type correctness of the daemon, whatever its peers send. *)
THEOREM TypeCorrect == PeerSpec => []DaemonTypeOK
<1>1. TypeInv => DaemonTypeOK
  BY DEF TypeInv
<1> QED BY <1>1, InitType, TypeStep, PTL DEF PeerSpec

-----------------------------------------------------------------------------
(***************************************************************************)
(* The safety of the daemon with arbitrary peers (DaemonPeer).  The        *)
(* argument: the chunk loop counts the distinct chunks of the header, so   *)
(* that a loop that ends has received all of them (counting); what is      *)
(* staged under a hash is then a whole block (staging); the injection loop *)
(* copies staged blocks only (injection).                                  *)
(***************************************************************************)

Early == {"accept", "capability", "header"}
Streamed == {"streamed", "bound", "inject"}

(* Received and awaited chunks add up to what the header announces. *)
Counting ==
    /\ phase \in Early => received = {} /\ accumulated = NoBlocks
    /\ phase \notin Early =>
          /\ ValidateHeader(header)
          /\ received \subseteq AllChunks(header)
          /\ IsFiniteSet(received)
          /\ Cardinality(received) + remaining = ChunkCount(header)
    /\ phase \in Streamed => remaining = 0

TensorKey(t) == <<<<t.blk, t.name[1]>>, t.name[2]>>

(* A staged tensor is a received chunk of this connection, alone under its *)
(* name; a received chunk has a tensor of its name under its block's hash. *)
StagedFrom(h, t) ==
    /\ t.from = cur
    /\ TensorKey(t) \in received
    /\ header.block_hashes[t.blk + 1] = h
    /\ \A u \in accumulated[h] : u.name = t.name => u = t

Staging ==
    /\ \A h \in Hashes : \A t \in accumulated[h] : StagedFrom(h, t)
    /\ \A k \in received :
          \E t \in accumulated[header.block_hashes[k[1][1] + 1]] :
              t.name = <<k[1][2], k[2]>>

(* What the injection loop has visited is in the cache. *)
Injecting ==
    phase = "inject" =>
        /\ \A h \in staged : accumulated[h] # {}
        /\ \A h \in Hashes \ staged : accumulated[h] # {} => cache[h] = accumulated[h]

SafeInv == TypeInv /\ Counting /\ Staging /\ Injecting /\ CachedBlocksAreWhole

-----------------------------------------------------------------------------
(* The loop bound is the number of chunks the header announces. *)
LEMMA CountAllChunks ==
    ASSUME NEW h \in Header, ValidateHeader(h)
    PROVE  IsFiniteSet(AllChunks(h)) /\ Cardinality(AllChunks(h)) = ChunkCount(h)
<1> DEFINE nb == Len(h.block_hashes)
           nl == h.n_layers
<1>1. nb \in Nat /\ nl \in Nat
  BY SeqLen DEF Header
<1>2. IsFiniteSet(Kinds) /\ Cardinality(Kinds) = 2
  <2>1. IsFiniteSet({"key"}) /\ Cardinality({"key"}) = 1
    BY FS_Singleton
  <2>2. IsFiniteSet({"key"} \cup {"value"}) /\ Cardinality({"key"} \cup {"value"}) = 2
    BY <2>1, FS_AddElement
  <2>3. Kinds = {"key"} \cup {"value"}
    BY DEF Kinds
  <2> QED BY <2>2, <2>3
<1>3. \A n \in Nat : IsFiniteSet(0 .. n - 1) /\ Cardinality(0 .. n - 1) = n
  <2> SUFFICES ASSUME NEW n \in Nat
               PROVE  IsFiniteSet(0 .. n - 1) /\ Cardinality(0 .. n - 1) = n
    OBVIOUS
  <2>1. 0 \in Int /\ n - 1 \in Int
    OBVIOUS
  <2>2. IsFiniteSet(0 .. n - 1)
        /\ Cardinality(0 .. n - 1) = IF 0 > n - 1 THEN 0 ELSE (n - 1) - 0 + 1
    BY <2>1, FS_Interval
  <2> QED BY <2>2
<1> DEFINE I == 0 .. nb - 1
           L == 0 .. nl - 1
           P == I \X L
<1>4. IsFiniteSet(P) /\ Cardinality(P) = nb * nl
  <2>1. IsFiniteSet(I) /\ Cardinality(I) = nb /\ IsFiniteSet(L) /\ Cardinality(L) = nl
    BY <1>1, <1>3
  <2> HIDE DEF I, L, nb, nl
  <2>2. IsFiniteSet(I \X L) /\ Cardinality(I \X L) = Cardinality(I) * Cardinality(L)
    BY <2>1, FS_Product
  <2> QED BY <2>1, <2>2
<1>5. IsFiniteSet(P \X Kinds) /\ Cardinality(P \X Kinds) = Cardinality(P) * Cardinality(Kinds)
  BY <1>2, <1>4, FS_Product
<1>6. AllChunks(h) = P \X Kinds
  BY DEF AllChunks
<1>7. ChunkCount(h) = nl * 2 * nb
  BY ChunkCountType
<1>8. (nb * nl) * 2 = nl * 2 * nb
  BY <1>1
<1> QED BY <1>2, <1>4, <1>5, <1>6, <1>7, <1>8

(* A chunk loop that has run to its end has received every chunk. *)
LEMMA AllReceived ==
    ASSUME TypeInv, Counting, phase \in Streamed
    PROVE  received = AllChunks(header)
<1>1. phase \notin Early /\ header \in Header
  BY DEF Streamed, Early, TypeInv, DaemonTypeOK
<1>2. /\ ValidateHeader(header)
      /\ received \subseteq AllChunks(header)
      /\ IsFiniteSet(received)
      /\ Cardinality(received) + remaining = ChunkCount(header)
      /\ remaining = 0
  BY <1>1 DEF Counting
<1>3. Cardinality(received) = ChunkCount(header)
  BY <1>2, FS_CardinalityType
<1>4. IsFiniteSet(AllChunks(header)) /\ Cardinality(AllChunks(header)) = ChunkCount(header)
  BY <1>1, <1>2, CountAllChunks
<1> QED BY <1>2, <1>3, <1>4, FS_Subset

(* Then every staged block is whole, and one is staged under every hash of *)
(* the header unless the header has no layers.                             *)
LEMMA StagedIsWhole ==
    ASSUME TypeInv, Counting, Staging, phase \in Streamed
    PROVE  /\ \A h \in Hashes : accumulated[h] # {} =>
                 Whole(accumulated[h], cur, header.n_layers)
           /\ header.n_layers > 0 =>
                 \A i \in DOMAIN header.block_hashes :
                    /\ header.block_hashes[i] \in Hashes
                    /\ accumulated[header.block_hashes[i]] # {}
<1>1. received = AllChunks(header)
  BY AllReceived
<1>2. header.block_hashes \in Seq(Hashes) /\ header.n_layers \in Nat
  BY DEF TypeInv, DaemonTypeOK, Header
<1>3. Len(header.block_hashes) \in Nat
      /\ DOMAIN header.block_hashes = 1 .. Len(header.block_hashes)
  BY <1>2, SeqLen
<1>4. ASSUME NEW h \in Hashes, accumulated[h] # {}
      PROVE  Whole(accumulated[h], cur, header.n_layers)
  <2>1. accumulated[h] \subseteq Tensor
    BY DEF TypeInv, DaemonTypeOK, Blocks
  <2>2. ASSUME NEW t \in accumulated[h]
        PROVE  t.from = cur /\ t.name \in LayerNames(header.n_layers)
    <3>1. TensorKey(t) \in AllChunks(header) /\ t.from = cur
      BY <1>1 DEF Staging, StagedFrom
    <3>2. t.name[1] \in 0 .. header.n_layers - 1 /\ t.name[2] \in Kinds
      BY <3>1 DEF TensorKey, AllChunks
    <3>3. t.name = <<t.name[1], t.name[2]>>
      BY <2>1 DEF Tensor, Names
    <3> QED BY <3>1, <3>2, <3>3 DEF LayerNames
  <2>3. ASSUME NEW name \in LayerNames(header.n_layers)
        PROVE  \E t \in accumulated[h] : t.name = name
    <3>1. PICK t \in accumulated[h] : TRUE
      BY <1>4
    <3>2. TensorKey(t) \in AllChunks(header) /\ header.block_hashes[t.blk + 1] = h
      BY <1>1 DEF Staging, StagedFrom
    <3> DEFINE k == <<<<t.blk, name[1]>>, name[2]>>
    <3>3. k \in received
      BY <1>1, <3>2 DEF TensorKey, AllChunks, LayerNames
    <3>4. \E u \in accumulated[header.block_hashes[k[1][1] + 1]] : u.name = <<k[1][2], k[2]>>
      BY <3>3 DEF Staging
    <3>5. <<name[1], name[2]>> = name
      BY DEF LayerNames
    <3> QED BY <3>2, <3>4, <3>5
  <2>4. \A t, u \in accumulated[h] : t.name = u.name => t = u
    BY DEF Staging, StagedFrom
  <2> QED BY <2>2, <2>3, <2>4 DEF Whole
<1>5. ASSUME header.n_layers > 0, NEW i \in DOMAIN header.block_hashes
      PROVE  header.block_hashes[i] \in Hashes /\ accumulated[header.block_hashes[i]] # {}
  <2>1. header.block_hashes[i] \in Hashes
    BY <1>2, <1>3, SeqElement
  <2> DEFINE k == <<<<i - 1, 0>>, "key">>
  <2>2. k \in received
    BY <1>1, <1>2, <1>3, <1>5 DEF AllChunks, Kinds
  <2>3. \E t \in accumulated[header.block_hashes[k[1][1] + 1]] : TRUE
    BY <2>2 DEF Staging
  <2>4. k[1][1] + 1 = i
    BY <1>3
  <2> QED BY <2>1, <2>3, <2>4
<1> QED BY <1>4, <1>5

(* A whole block is one that CachedBlocksAreWhole asks for. *)
LEMMA WholeIsLayered ==
    ASSUME NEW block \in SUBSET Tensor, NEW c, NEW n \in Nat, Whole(block, c, n)
    PROVE  \A t \in block :
              /\ \A u \in block : u.from = t.from /\ (u.name = t.name => u = t)
              /\ \A name \in LayerNames(t.name[1] + 1) : \E u \in block : u.name = name
<1> SUFFICES ASSUME NEW t \in block
             PROVE  \A name \in LayerNames(t.name[1] + 1) : \E u \in block : u.name = name
  BY DEF Whole
<1>1. t.name[1] \in 0 .. n - 1
  BY DEF Whole, LayerNames
<1>2. LayerNames(t.name[1] + 1) \subseteq LayerNames(n)
  BY <1>1 DEF LayerNames
<1> QED BY <1>2 DEF Whole

-----------------------------------------------------------------------------
(* The handler returns: what it has staged is dropped. *)
LEMMA ReturnSafe ==
    ASSUME SafeInv, TypeInv', NEW n, NEW how, Return(n, how), CachedBlocksAreWhole'
    PROVE  SafeInv'
<1>1. Counting'
  BY DEF Return, Counting, Early, Streamed
<1>2. Staging' /\ Injecting'
  BY DEF Return, Staging, Injecting, NoBlocks
<1> QED BY <1>1, <1>2 DEF SafeInv

LEMMA SameCache ==
    ASSUME CachedBlocksAreWhole, UNCHANGED cache
    PROVE  CachedBlocksAreWhole'
BY DEF CachedBlocksAreWhole

(* A staged block moves into the cache. *)
LEMMA InjectedIsWhole ==
    ASSUME SafeInv, phase = "inject", NEW h \in staged,
           cache' = [cache EXCEPT ![h] = accumulated[h]]
    PROVE  CachedBlocksAreWhole'
<1>1. h \in Hashes /\ cache \in Blocks /\ accumulated[h] \in SUBSET Tensor
      /\ header.n_layers \in Nat
  BY DEF SafeInv, TypeInv, DaemonTypeOK, Blocks, Header
<1>2. Whole(accumulated[h], cur, header.n_layers)
  BY <1>1, StagedIsWhole DEF SafeInv, Injecting, Streamed
<1>3. \A t \in accumulated[h] :
         /\ \A u \in accumulated[h] : u.from = t.from /\ (u.name = t.name => u = t)
         /\ \A name \in LayerNames(t.name[1] + 1) :
               \E u \in accumulated[h] : u.name = name
  BY <1>1, <1>2, WholeIsLayered
<1>4. \A g \in Hashes : cache'[g] = IF g = h THEN accumulated[h] ELSE cache[g]
  BY <1>1 DEF Blocks
<1> QED BY <1>3, <1>4 DEF SafeInv, CachedBlocksAreWhole

(* Every way the handler returns leaves whole blocks. *)
LEMMA ReturningSafe ==
    ASSUME SafeInv, TypeInv',
           \/ ReceiveFails \/ ProtocolViolation \/ AnswerFails \/ RejectCapability
           \/ RejectBinding \/ InjectFails \/ NotACommit \/ VerifyFails
           \/ Commit \/ CommitAnswerFails
    PROVE  SafeInv'
<1>1. CASE ReceiveFails \/ ProtocolViolation \/ AnswerFails \/ NotACommit
           \/ VerifyFails \/ CommitAnswerFails
  <2>1. \E n : Fail(n)
    BY <1>1 DEF ReceiveFails, ProtocolViolation, AnswerFails, NotACommit,
                VerifyFails, CommitAnswerFails
  <2> QED BY <2>1, SameCache, ReturnSafe DEF Fail, SafeInv
<1>2. CASE RejectCapability \/ RejectBinding \/ Commit
  <2>1. \E n, how : Return(n, how) /\ UNCHANGED cache
    BY <1>2 DEF RejectCapability, RejectBinding, Commit
  <2> QED BY <2>1, SameCache, ReturnSafe DEF SafeInv
<1>3. CASE InjectFails
  <2>1. CachedBlocksAreWhole'
    BY <1>3, SameCache, InjectedIsWhole DEF InjectFails, SafeInv
  <2> QED BY <1>3, <2>1, ReturnSafe DEF InjectFails
<1> QED BY <1>1, <1>2, <1>3

(* A step that leaves the handler's data and the cache alone, within the   *)
(* same part of the protocol.                                              *)
LEMMA SameData ==
    ASSUME SafeInv, TypeInv', UNCHANGED <<received, accumulated, cache>>,
           \/ UNCHANGED <<cur, phase, header, remaining, staged>>
           \/ phase \in Early /\ phase' \in Early
           \/ /\ phase \in Streamed /\ phase' \in Streamed \ {"inject"}
              /\ UNCHANGED <<cur, header, remaining>>
    PROVE  SafeInv'
<1>1. CASE UNCHANGED <<cur, phase, header, remaining, staged>>
  <2>1. Counting' /\ Injecting'
    BY <1>1 DEF SafeInv, Counting, Injecting
  <2>2. Staging'
    BY <1>1 DEF SafeInv, Staging, StagedFrom
  <2> QED BY <2>1, <2>2, SameCache DEF SafeInv
<1>2. CASE phase \in Early /\ phase' \in Early
  <2>1. received = {} /\ accumulated = NoBlocks
    BY <1>2 DEF SafeInv, Counting
  <2>2. Counting'
    BY <1>2, <2>1 DEF Counting, Early, Streamed
  <2>3. Staging' /\ Injecting'
    BY <1>2, <2>1 DEF Staging, Injecting, NoBlocks, Early
  <2> QED BY <2>2, <2>3, SameCache DEF SafeInv
<1>3. CASE /\ phase \in Streamed /\ phase' \in Streamed \ {"inject"}
           /\ UNCHANGED <<cur, header, remaining>>
  <2>1. Counting'
    BY <1>3 DEF SafeInv, Counting, Early, Streamed
  <2>2. Staging'
    BY <1>3 DEF SafeInv, Staging, StagedFrom
  <2>3. Injecting'
    BY <1>3 DEF Injecting
  <2> QED BY <2>1, <2>2, <2>3, SameCache DEF SafeInv
<1> QED BY <1>1, <1>2, <1>3

LEMMA AcceptHeaderSafe ==
    ASSUME SafeInv, TypeInv', AcceptHeader
    PROVE  SafeInv'
<1>1. phase \in Early /\ received = {} /\ accumulated = NoBlocks
  BY DEF SafeInv, Counting, AcceptHeader, GoodHeader, Receives, Early
<1>2. received' = {} /\ accumulated' = NoBlocks /\ UNCHANGED cache
      /\ phase' = (IF remaining' = 0 THEN "streamed" ELSE "chunks")
  BY <1>1 DEF AcceptHeader, AnswerAndWait
<1>3. header' = Msg.header /\ header' \in Header /\ ValidateHeader(header')
  BY AcceptHeaderType DEF SafeInv, AcceptHeader, GoodHeader
<1>4. remaining' = ChunkCount(header') /\ remaining' \in Nat
  BY <1>3 DEF AcceptHeader, TypeInv, DaemonTypeOK
<1>5. IsFiniteSet({}) /\ Cardinality({}) = 0
  BY FS_EmptySet
<1>6. Counting'
  BY <1>2, <1>3, <1>4, <1>5 DEF Counting, Early, Streamed
<1>7. Staging' /\ Injecting'
  BY <1>2 DEF Staging, Injecting, NoBlocks
<1> QED BY <1>2, <1>6, <1>7, SameCache DEF SafeInv

LEMMA AcceptChunkSafe ==
    ASSUME SafeInv, TypeInv', AcceptChunk
    PROVE  SafeInv'
<1> DEFINE h == header.block_hashes[Msg.chunk_index + 1]
           t == [from |-> cur, blk |-> Msg.chunk_index, name |-> Msg.tensor_name]
           key == ChunkKey(Msg)
<1>1. TypeInv /\ GoodChunk /\ phase = "chunks" /\ phase \notin Early
  BY DEF SafeInv, AcceptChunk, GoodChunk, Receives, Early
<1>2. /\ received' = received \cup {key}
      /\ accumulated' = StageTensor(accumulated, h, t)
      /\ remaining' = remaining - 1
      /\ phase' = (IF remaining' = 0 THEN "streamed" ELSE "chunks")
      /\ UNCHANGED <<cur, header, cache>>
  BY DEF AcceptChunk, AnswerAndWait
<1>3. /\ key \in AllChunks(header) \ received
      /\ h \in Hashes
      /\ Msg.chunk_index \in Nat
      /\ Msg.tensor_name \in Names
      /\ Msg.tensor_name[1] = Msg.layer_index
  BY <1>1, GoodChunkFacts
<1>4. cur \in Conns /\ t \in Tensor
  BY <1>1, <1>3, Serving DEF Tensor
<1>5. accumulated \in Blocks
      /\ \A g \in Hashes : accumulated'[g] =
            IF g = h THEN {u \in accumulated[h] : u.name # t.name} \cup {t}
            ELSE accumulated[g]
  <2>1. accumulated \in Blocks
    BY <1>1 DEF TypeInv, DaemonTypeOK
  <2> HIDE DEF h, t
  <2>2. \A g \in Hashes : StageTensor(accumulated, h, t)[g] =
            IF g = h THEN {u \in accumulated[h] : u.name # t.name} \cup {t}
            ELSE accumulated[g]
    BY <1>3, <2>1 DEF StageTensor, Blocks
  <2> QED BY <1>2, <2>1, <2>2
<1>6. Counting'
  <2>1. /\ ValidateHeader(header)
        /\ received \subseteq AllChunks(header)
        /\ IsFiniteSet(received)
        /\ Cardinality(received) + remaining = ChunkCount(header)
    BY <1>1 DEF SafeInv, Counting
  <2>2. IsFiniteSet(received') /\ Cardinality(received') = Cardinality(received) + 1
    BY <1>2, <1>3, <2>1, FS_AddElement
  <2>3. Cardinality(received) \in Nat /\ remaining \in Nat /\ remaining' \in Nat
    BY <1>1, <2>1, FS_CardinalityType DEF TypeInv, DaemonTypeOK
  <2>4. Cardinality(received') + remaining' = ChunkCount(header')
    BY <1>2, <2>1, <2>2, <2>3
  <2>5. ValidateHeader(header') /\ received' \subseteq AllChunks(header')
    BY <1>2, <1>3, <2>1
  <2> QED BY <1>2, <2>2, <2>4, <2>5 DEF Counting, Early, Streamed
<1>7. key = TensorKey(t) /\ key = <<<<Msg.chunk_index, t.name[1]>>, t.name[2]>>
  BY <1>3 DEF ChunkKey, TensorKey
<1>8. Staging'
  <2>1. ASSUME NEW g \in Hashes, NEW u \in accumulated'[g] PROVE StagedFrom(g, u)'
    <3>1. CASE u \in accumulated[g] /\ (g = h => u.name # t.name)
      <4>1. StagedFrom(g, u)
        BY <3>1 DEF SafeInv, Staging
      <4>2. \A v \in accumulated'[g] : v.name = u.name => v = u
        BY <1>5, <3>1, <4>1 DEF StagedFrom
      <4> QED BY <1>2, <4>1, <4>2 DEF StagedFrom
    <3>2. CASE g = h /\ u = t
      <4>1. \A v \in accumulated'[g] : v.name = u.name => v = u
        BY <1>5, <3>2
      <4> QED BY <1>2, <1>7, <3>2, <4>1 DEF StagedFrom
    <3> QED BY <1>5, <3>1, <3>2
  <2>2. ASSUME NEW k \in received'
        PROVE  \E u \in accumulated'[header'.block_hashes[k[1][1] + 1]] :
                   u.name = <<k[1][2], k[2]>>
    <3>1. CASE k = key
      <4>1. k[1][1] = Msg.chunk_index /\ <<k[1][2], k[2]>> = t.name
        BY <1>3, <1>7, <3>1 DEF Names
      <4> QED BY <1>2, <1>3, <1>5, <4>1
    <3>2. CASE k \in received
      <4> DEFINE g == header.block_hashes[k[1][1] + 1]
      <4>1. PICK u \in accumulated[g] : u.name = <<k[1][2], k[2]>>
        BY <3>2 DEF SafeInv, Staging
      <4>2. g \in Hashes
        <5>1. k \in AllChunks(header)
          BY <1>1, <3>2 DEF SafeInv, Counting
        <5>2. header.block_hashes \in Seq(Hashes)
          BY <1>1 DEF TypeInv, DaemonTypeOK, Header
        <5>3. Len(header.block_hashes) \in Nat
          BY <5>2, SeqLen
        <5>4. k[1][1] + 1 \in 1 .. Len(header.block_hashes)
          BY <5>1, <5>3 DEF AllChunks
        <5> QED BY <5>2, <5>4, SeqElement
      <4>3. CASE g = h /\ u.name = t.name
        BY <1>2, <1>5, <4>1, <4>2, <4>3
      <4>4. CASE ~(g = h /\ u.name = t.name)
        BY <1>2, <1>5, <4>1, <4>2, <4>4
      <4> QED BY <4>3, <4>4
    <3> QED BY <1>2, <3>1, <3>2
  <2> QED BY <2>1, <2>2 DEF Staging
<1>9. Injecting'
  BY <1>2 DEF Injecting
<1> QED BY <1>2, <1>6, <1>8, <1>9, SameCache DEF SafeInv

LEMMA InitSafe == DaemonInit => SafeInv
<1> SUFFICES ASSUME DaemonInit PROVE SafeInv
  OBVIOUS
<1>1. Counting /\ Staging /\ Injecting /\ CachedBlocksAreWhole
  BY DEF DaemonInit, Counting, Early, Streamed, Staging, Injecting,
         CachedBlocksAreWhole, NoBlocks
<1> QED BY <1>1, InitType DEF SafeInv

LEMMA SafeStep == SafeInv /\ [PeerNext]_daemonVars => SafeInv'
<1> SUFFICES ASSUME SafeInv, [PeerNext]_daemonVars PROVE SafeInv'
  OBVIOUS
<1>1. TypeInv /\ TypeInv'
  BY TypeStep DEF SafeInv
<1>2. CASE Accept
  <2>1. phase \in Early /\ phase' \in Early /\ UNCHANGED <<received, accumulated, cache>>
    BY <1>1, <1>2 DEF Accept, TypeInv, Early
  <2> QED BY <1>1, <2>1, SameData
<1>3. CASE \/ ReceiveFails \/ ProtocolViolation \/ AnswerFails \/ RejectCapability
           \/ RejectBinding \/ InjectFails \/ NotACommit \/ VerifyFails
           \/ Commit \/ CommitAnswerFails
  BY <1>1, <1>3, ReturningSafe
<1>4. CASE AcceptCapability
  <2>1. phase \in Early /\ phase' \in Early /\ UNCHANGED <<received, accumulated, cache>>
    BY <1>4 DEF AcceptCapability, GoodCapability, Receives, AnswerAndWait, Early
  <2> QED BY <1>1, <2>1, SameData
<1>5. CASE AcceptHeader
  BY <1>1, <1>5, AcceptHeaderSafe
<1>6. CASE AcceptChunk
  BY <1>1, <1>6, AcceptChunkSafe
<1>7. CASE AcceptBinding
  <2>1. /\ phase \in Streamed /\ phase' \in Streamed \ {"inject"}
        /\ UNCHANGED <<cur, header, remaining>>
        /\ UNCHANGED <<received, accumulated, cache>>
    BY <1>7 DEF AcceptBinding, Binding, Receives, AnswerAndWait, Streamed
  <2> QED BY <1>1, <2>1, SameData
<1>8. CASE StartInjection
  <2>1. /\ phase \in {"streamed", "bound"} /\ phase' = "inject"
        /\ UNCHANGED <<cur, header, remaining, received, accumulated, cache>>
        /\ staged' = {h \in Hashes : accumulated[h] # {}}
    BY <1>8 DEF StartInjection, Receives
  <2>2. Counting'
    BY <2>1 DEF SafeInv, Counting, Early, Streamed
  <2>3. Staging'
    BY <2>1 DEF SafeInv, Staging, StagedFrom
  <2>4. Injecting'
    BY <2>1 DEF Injecting
  <2> QED BY <1>1, <2>1, <2>2, <2>3, <2>4, SameCache DEF SafeInv
<1>9. CASE InjectBlock
  <2>1. PICK h \in staged : /\ cache' = [cache EXCEPT ![h] = accumulated[h]]
                            /\ staged' = staged \ {h}
    BY <1>9 DEF InjectBlock
  <2>2. phase = "inject" /\ UNCHANGED <<cur, phase, header, remaining, received, accumulated>>
    BY <1>9 DEF InjectBlock
  <2>3. CachedBlocksAreWhole'
    BY <2>1, <2>2, InjectedIsWhole
  <2>4. Counting'
    BY <2>2 DEF SafeInv, Counting
  <2>5. Staging'
    BY <2>2 DEF SafeInv, Staging, StagedFrom
  <2>6. Injecting'
    <3>1. cache \in Blocks /\ h \in Hashes
      BY <1>1 DEF TypeInv, DaemonTypeOK
    <3>2. \A g \in Hashes : cache'[g] = IF g = h THEN accumulated[h] ELSE cache[g]
      BY <2>1, <3>1 DEF Blocks
    <3> QED BY <2>1, <2>2, <3>2 DEF SafeInv, Injecting
  <2> QED BY <1>1, <2>3, <2>4, <2>5, <2>6 DEF SafeInv
<1>10. CASE \E c \in Conns : PeerStep(c)
  <2>1. UNCHANGED <<cur, handlerVars, cache, orchestrator, ended>>
    BY <1>1, <1>10, PeerType
  <2> QED BY <1>1, <2>1, SameData DEF handlerVars
<1>11. CASE UNCHANGED daemonVars
  BY <1>1, <1>11, SameData DEF daemonVars, handlerVars
<1> QED BY <1>2, <1>3, <1>4, <1>5, <1>6, <1>7, <1>8, <1>9, <1>10, <1>11
        DEF PeerNext, DaemonNext

-----------------------------------------------------------------------------
(* The target cache holds whole, unmixed blocks at every moment, whatever  *)
(* the peers send and wherever a migration stops                           *)
(* (handle_migration_connection, inject_block_tensors).                    *)
THEOREM CacheSafe == PeerSpec => []CachedBlocksAreWhole
<1>1. SafeInv => CachedBlocksAreWhole
  BY DEF SafeInv
<1> QED BY <1>1, InitSafe, SafeStep, PTL DEF PeerSpec

(* In the injection phase, with every staged block visited, each hash of a *)
(* header with layers holds the staged block, which is whole.              *)
LEMMA InjectedAll ==
    ASSUME SafeInv, phase = "inject", staged = {}, header.n_layers > 0,
           NEW i \in DOMAIN header.block_hashes
    PROVE  /\ cache[header.block_hashes[i]] # {}
           /\ Whole(cache[header.block_hashes[i]], cur, header.n_layers)
<1> DEFINE h == header.block_hashes[i]
<1>1. h \in Hashes /\ accumulated[h] # {} /\ Whole(accumulated[h], cur, header.n_layers)
  BY StagedIsWhole DEF SafeInv, Streamed
<1>2. cache[h] = accumulated[h]
  BY <1>1 DEF SafeInv, Injecting
<1> QED BY <1>1, <1>2

(* After the injection of a complete stream no advertised hash is missing: *)
(* the mock's verify_continuation cannot fail.                             *)
THEOREM VerificationSafe == PeerSpec => []NothingIsMissing
<1>1. SafeInv => NothingIsMissing
  BY InjectedAll DEF NothingIsMissing, MissingHashes
<1> QED BY <1>1, InitSafe, SafeStep, PTL DEF PeerSpec

(* A connection ends as committed only in the step that answers its commit. *)
LEMMA OnlyCommitCommits ==
    ASSUME SafeInv, PeerNext, NEW c \in Conns,
           ended[c] # "committed", ended'[c] = "committed"
    PROVE  Commit /\ c = cur
<1>1. ended \in [Conns -> Endings] /\ TypeInv
  BY DEF SafeInv, TypeInv, DaemonTypeOK
<1>2. ASSUME NEW n, NEW how, Return(n, how)
      PROVE  how = "committed" /\ c = cur
  BY <1>1, <1>2 DEF Return
<1>3. \A n : ~Fail(n)
  BY <1>2 DEF Fail
<1>4. ended' # ended
  OBVIOUS
<1>5. ~Accept /\ ~AcceptCapability /\ ~AcceptHeader /\ ~AcceptChunk /\ ~AcceptBinding
      /\ ~StartInjection /\ ~InjectBlock
  BY <1>4 DEF Accept, AcceptCapability, AcceptHeader, AcceptChunk, AcceptBinding,
              AnswerAndWait, StartInjection, InjectBlock
<1>6. ~ReceiveFails /\ ~ProtocolViolation /\ ~AnswerFails /\ ~NotACommit /\ ~VerifyFails
      /\ ~CommitAnswerFails
  BY <1>3 DEF ReceiveFails, ProtocolViolation, AnswerFails, NotACommit, VerifyFails,
              CommitAnswerFails
<1>7. ~RejectCapability /\ ~RejectBinding /\ ~InjectFails
  <2>1. \A n : ~Return(n, "rejected") /\ ~Return(n, "failed")
    BY <1>2
  <2> QED BY <2>1 DEF RejectCapability, RejectBinding, InjectFails
<1>8. \A d \in Conns : ~PeerStep(d)
  BY <1>4 DEF PeerStep
<1>9. Commit
  BY <1>5, <1>6, <1>7, <1>8 DEF PeerNext, DaemonNext
<1>10. c = cur
  BY <1>2, <1>9 DEF Commit
<1> QED BY <1>9, <1>10

(* A commit is answered only when every hash of the connection's header    *)
(* holds a whole block of that connection, for any number of blocks and    *)
(* layers, any order of the chunks and any peers.                          *)
THEOREM CommitSafe == PeerSpec => CommitIsComplete
<1> DEFINE Complete ==
        \A c \in Conns : ended[c] # "committed" /\ ended'[c] = "committed" =>
          /\ c = cur
          /\ header.n_layers > 0 =>
                \A i \in DOMAIN header.block_hashes :
                    Whole(cache[header.block_hashes[i]], c, header.n_layers)
<1>1. SafeInv /\ [PeerNext]_daemonVars => [Complete]_daemonVars
  <2> SUFFICES ASSUME SafeInv, PeerNext PROVE Complete
    OBVIOUS
  <2>1. ASSUME NEW c \in Conns, ended[c] # "committed", ended'[c] = "committed"
        PROVE  /\ c = cur
               /\ header.n_layers > 0 =>
                     \A i \in DOMAIN header.block_hashes :
                         Whole(cache[header.block_hashes[i]], c, header.n_layers)
    <3>1. Commit /\ c = cur
      BY <2>1, OnlyCommitCommits
    <3>2. phase = "inject" /\ staged = {}
      BY <3>1 DEF Commit, Verified
    <3> QED BY <3>1, <3>2, InjectedAll
  <2> QED BY <2>1
<1> QED BY <1>1, InitSafe, SafeStep, PTL DEF PeerSpec, CommitIsComplete

-----------------------------------------------------------------------------
(* The orchestrator. *)
Holders == {"none", "open", "recorded"}

(* The counter is the number of live migrations.  That it never meets zero *)
(* in a decrement is what makes it inductive: the recording migration is   *)
(* itself live.                                                            *)
CounterInv ==
    /\ orch \in [active : Nat, failures : Nat]
    /\ holder \in [Migrations -> Holders]
    /\ IsFiniteSet(Live)
    /\ ActiveCountsLive

LEMMA CounterInit == ServiceInit => CounterInv
<1> SUFFICES ASSUME ServiceInit PROVE CounterInv
  OBVIOUS
<1>1. Live = {}
  BY DEF ServiceInit, Live
<1>2. IsFiniteSet(Live) /\ Cardinality(Live) = 0
  BY <1>1, FS_EmptySet
<1>3. Policy.max_concurrent \in Nat
  BY PolicyAssumption
<1> QED BY <1>2, <1>3 DEF ServiceInit, CounterInv, Holders, ActiveCountsLive, NewOrchestrator

LEMMA CounterStep == CounterInv /\ [ServiceNext]_serviceVars => CounterInv'
<1> SUFFICES ASSUME CounterInv, [ServiceNext]_serviceVars PROVE CounterInv'
  OBVIOUS
<1>1. /\ orch \in [active : Nat, failures : Nat]
      /\ holder \in [Migrations -> Holders]
      /\ IsFiniteSet(Live)
      /\ orch.active = Cardinality(Live)
      /\ orch.active <= Policy.max_concurrent
      /\ Policy.max_concurrent \in Nat
  BY PolicyAssumption DEF CounterInv, ActiveCountsLive
<1>2. CASE UNCHANGED <<orch, holder>>
  BY <1>2 DEF CounterInv, ActiveCountsLive, Live
<1>3. ASSUME NEW m \in Migrations, InitiateMigration(m) PROVE CounterInv'
  <2>1. Live' = Live \cup {m} /\ m \notin Live /\ holder' \in [Migrations -> Holders]
    BY <1>1, <1>3 DEF InitiateMigration, Live, Holders
  <2>2. IsFiniteSet(Live') /\ Cardinality(Live') = Cardinality(Live) + 1
    BY <1>1, <2>1, FS_AddElement
  <2>3. orch' \in [active : Nat, failures : Nat] /\ orch'.active = orch.active + 1
    BY <1>1, <1>3 DEF InitiateMigration, Initiated
  <2>4. orch.active < Policy.max_concurrent
    BY <1>3 DEF InitiateMigration, MayInitiate, CheckConcurrency
  <2> QED BY <1>1, <2>1, <2>2, <2>3, <2>4 DEF CounterInv, ActiveCountsLive
<1>4. ASSUME NEW m \in Migrations, Record(m) PROVE CounterInv'
  <2>1. Live' = Live \ {m} /\ m \in Live /\ holder' \in [Migrations -> Holders]
    BY <1>1, <1>4 DEF Record, Live, Holders
  <2>2. IsFiniteSet(Live') /\ Cardinality(Live') = Cardinality(Live) - 1
    BY <1>1, <2>1, FS_RemoveElement
  <2>3. Cardinality(Live') \in Nat
    BY <2>2, FS_CardinalityType
  <2>4. orch.active > 0
    BY <1>1, <2>2, <2>3
  <2>5. orch' \in [active : Nat, failures : Nat] /\ orch'.active = orch.active - 1
    BY <1>1, <1>4, <2>4 DEF Record, RecordSuccess, RecordFailure
  <2> QED BY <1>1, <2>1, <2>2, <2>5 DEF CounterInv, ActiveCountsLive
<1>5. ASSUME NEW m \in Migrations, Renew(m) PROVE CounterInv'
  <2>1. Live' = Live /\ holder' \in [Migrations -> Holders] /\ orch' = orch
    BY <1>1, <1>5 DEF Renew, Live, Holders
  <2> QED BY <1>1, <2>1 DEF CounterInv, ActiveCountsLive
<1>6. ASSUME NEW m \in Migrations, Transition(m) PROVE CounterInv'
  BY <1>2, <1>6 DEF Transition
<1>7. CASE UNCHANGED serviceVars
  BY <1>2, <1>7 DEF serviceVars
<1> QED BY <1>3, <1>4, <1>5, <1>6, <1>7 DEF ServiceNext

(* active_migrations counts the migrations initiated and not yet recorded, *)
(* and stays within max_concurrent_migrations, however their callers       *)
(* interleave.                                                             *)
THEOREM CounterCorrect == ServiceSpec => []ActiveCountsLive
<1>1. CounterInv => ActiveCountsLive
  BY DEF CounterInv
<1> QED BY <1>1, CounterInit, CounterStep, PTL DEF ServiceSpec

(* A tripped circuit breaker with no migration running stays tripped, and  *)
(* nothing is admitted: record_success is the only way to re-arm it, and   *)
(* only a running migration calls that.                                    *)
THEOREM BreakerIsFinal == ServiceSpec => TrippedIsFinal
<1>1. ASSUME CounterInv, [ServiceNext]_serviceVars, Tripped, Live = {}
      PROVE  Tripped' /\ Live' = {}
  <2>1. CASE UNCHANGED serviceVars
    BY <1>1, <2>1 DEF serviceVars, Tripped, CheckCircuitBreaker, Live
  <2>2. ASSUME NEW m \in Migrations PROVE ~InitiateMigration(m) /\ ~Transition(m) /\ ~Record(m)
    BY <1>1 DEF InitiateMigration, MayInitiate, Tripped, Transition, Record, Live
  <2>3. ASSUME NEW m \in Migrations, Renew(m) PROVE Tripped' /\ Live' = {}
    <3>1. \A x \in Migrations : holder'[x] = "open" => holder[x] = "open"
      BY <1>1, <2>3 DEF Renew, CounterInv
    <3> QED BY <1>1, <2>3, <3>1 DEF Renew, Tripped, CheckCircuitBreaker, Live
  <2> QED BY <1>1, <2>1, <2>2, <2>3 DEF ServiceNext
<1> QED BY <1>1, CounterInit, CounterStep, PTL DEF ServiceSpec, TrippedIsFinal
=============================================================================
