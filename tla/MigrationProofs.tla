-------------------------- MODULE MigrationProofs ---------------------------
(***************************************************************************)
(* The safety of clients and daemon together (Migration), for any number   *)
(* of migrations, any jobs, both backends and all faults.                  *)
(*                                                                         *)
(* The argument: the two ends of a connection are in lock step (Lock), so  *)
(* what arrives in a phase of the handler is the frame the phase is for;   *)
(* so the handler works with the header and the binding of its client      *)
(* (Handling), and what it injects is from an admissible client (Cached).  *)
(***************************************************************************)
EXTENDS Migration, DaemonProofs

(* Most leaves are first-order: Zenon is tried before SMT. *)
USE ZenonT(2), SMTT(30), ZenonT(60)

ClientTypes ==
    /\ cpc \in [Conns -> Awaited]
    /\ sent \in [Conns -> Nat]
    /\ outcome \in [Conns -> Outcomes]

Waits(c) == \E i \in 1 .. Len(backlog) : backlog[i] = c

Idle(c) == net[c].toDaemon = <<>> /\ net[c].toClient = <<>>
Asked(c, m) == net[c].toDaemon = <<m>> /\ net[c].toClient = <<>>
Told(c, a) == net[c].toDaemon = <<>> /\ net[c].toClient = <<a>>

Total(c) == ChunkCount(HeaderOf(c))

(* The frame m of client c is the one that the handler's phase is for. *)
Expected(c, m) ==
    \/ /\ phase = "capability"
       /\ m = CapabilityRequest(Job[c].seq_len)
       /\ cpc[c] \in {"capability", "done"}
       /\ sent[c] = 0
    \/ /\ phase = "header"
       /\ m = HeaderEnvelope(HeaderOf(c))
       /\ cpc[c] \in {"headerAck", "done"}
       /\ sent[c] = 0
    \/ /\ phase = "chunks"
       /\ m.type = "PayloadChunk"
       /\ cpc[c] \in {"chunkAck", "done"}
       /\ sent[c] + remaining = Total(c) + 1
    \/ /\ phase = "streamed"
       /\ Job[c].graph # NoGraph
       /\ m = AgentGraphBinding(BindingOf(c))
       /\ cpc[c] \in {"bindingAck", "done"}
    \/ /\ IF Job[c].graph = NoGraph THEN phase = "streamed" ELSE phase = "bound"
       /\ m = CommitRequest
       /\ cpc[c] \in {"commitResponse", "done"}

(* The answer a lets the client go on to the frame of the handler's phase. *)
Answering(c, a) ==
    \/ /\ phase = "header"
       /\ a = CapabilityResponse(TRUE)
       /\ cpc[c] = "capability"
       /\ sent[c] = 0
    \/ /\ phase \in {"chunks", "streamed"}
       /\ a = HeaderAck(TRUE)
       /\ cpc[c] = "headerAck"
       /\ sent[c] = 0
       /\ remaining = Total(c)
    \/ /\ phase \in {"chunks", "streamed"}
       /\ a.type = "ChunkAck"
       /\ cpc[c] = "chunkAck"
       /\ sent[c] + remaining = Total(c)
    \/ /\ phase = "bound"
       /\ Job[c].graph # NoGraph
       /\ a = AgentGraphBindingAck(TRUE)
       /\ cpc[c] = "bindingAck"

(* Where a connection is: not made, in the accept queue, served, over. *)
NotMade(c) ==
    /\ net[c] = NoLink /\ ended[c] = "none" /\ c # cur /\ ~Waits(c)
    /\ cpc[c] \in {"start", "done"} /\ sent[c] = 0

Queued(c) ==
    /\ Waits(c) /\ c # cur /\ ended[c] = "none"
    /\ net[c].st # "none" /\ cpc[c] \in {"capability", "done"} /\ sent[c] = 0
    /\ net[c].st = "open" => cpc[c] # "done"
    /\ \/ Idle(c) /\ net[c].st # "open"
       \/ Asked(c, CapabilityRequest(Job[c].seq_len))

Served(c) ==
    /\ c = cur /\ ~Waits(c) /\ ended[c] = "none"
    /\ net[c].st # "none" /\ cpc[c] # "start"
    /\ net[c].st = "open" => cpc[c] # "done"
    /\ \/ Idle(c) /\ net[c].st # "open"
       \/ Idle(c) /\ phase = "inject" /\ cpc[c] = "commitResponse"
       \/ \E m \in Frames : Asked(c, m) /\ Expected(c, m)
       \/ net[c].st = "open" /\ \E a \in Answers : Told(c, a) /\ Answering(c, a)

Over(c) ==
    /\ ended[c] # "none" /\ c # cur /\ ~Waits(c)
    /\ net[c].st \in {"daemonClosed", "dead"} /\ cpc[c] # "start"
    /\ \/ Idle(c)
       \/ /\ Told(c, CapabilityResponse(FALSE))
          /\ cpc[c] = "capability"
       \/ /\ Told(c, AgentGraphBindingAck(FALSE))
          /\ cpc[c] = "bindingAck" /\ ended[c] = "failed" /\ CachedFrom(c) = {}
       \/ /\ Told(c, CommitResponse(TRUE))
          /\ cpc[c] = "commitResponse" /\ ended[c] = "committed"

At(c) == NotMade(c) \/ Queued(c) \/ Served(c) \/ Over(c)

Lock == \A c \in Conns : At(c)

Distinct ==
    \A i, j \in 1 .. Len(backlog) : backlog[i] = backlog[j] => i = j

(* The handler has accepted what its client sent. *)
Bound(c) == Job[c].graph # NoGraph => ValidateAgentGraphBinding(BindingOf(c), HeaderOf(c))

Handling ==
    /\ phase \notin {"accept", "capability"} => Job[cur].seq_len <= MaxContext
    /\ phase \notin Early => header = HeaderOf(cur)
    /\ phase \in {"bound", "inject"} => Bound(cur)

(* What is in the cache is of an admissible client that is being injected  *)
(* or is over.                                                             *)
Cached ==
    \A h \in Hashes : \A t \in cache[h] :
        /\ Admissible(t.from)
        /\ ended[t.from] # "none" \/ (t.from = cur /\ phase = "inject")

MigrationInv ==
    /\ SafeInv /\ ClientTypes /\ Distinct /\ Lock /\ Handling /\ Cached
    /\ CachedBlocksHaveAllLayers /\ ManifestTellsTheTruth

-----------------------------------------------------------------------------
(* A stream of one frame. *)
LEMMA OneFrame ==
    ASSUME NEW m
    PROVE  /\ Head(<<m>>) = m /\ Tail(<<m>>) = <<>> /\ Append(<<>>, m) = <<m>>
           /\ <<m>> # <<>> /\ Len(<<m>>) = 1
OBVIOUS

(* What the operations do to the parts of a connection record. *)
LEMMA LinkParts ==
    ASSUME NEW n \in LinkRecord, NEW m
    PROVE  /\ DaemonReads(n).st = n.st
           /\ DaemonReads(n).toDaemon = Tail(n.toDaemon)
           /\ DaemonReads(n).toClient = n.toClient
           /\ ClientReads(n).st = n.st
           /\ ClientReads(n).toDaemon = n.toDaemon
           /\ ClientReads(n).toClient = Tail(n.toClient)
           /\ DaemonWrites(n, m).st = n.st
           /\ DaemonWrites(n, m).toDaemon = n.toDaemon
           /\ DaemonWrites(n, m).toClient =
                 IF n.st = "open" THEN Append(n.toClient, m) ELSE n.toClient
           /\ ClientWrites(n, m).st = n.st
           /\ ClientWrites(n, m).toDaemon =
                 IF n.st = "open" THEN Append(n.toDaemon, m) ELSE n.toDaemon
           /\ ClientWrites(n, m).toClient = n.toClient
<1>2. /\ DaemonReads(n).st = n.st
      /\ DaemonReads(n).toDaemon = Tail(n.toDaemon)
      /\ DaemonReads(n).toClient = n.toClient
  BY DEF LinkRecord, DaemonReads
<1>3. /\ ClientReads(n).st = n.st
      /\ ClientReads(n).toDaemon = n.toDaemon
      /\ ClientReads(n).toClient = Tail(n.toClient)
  BY DEF LinkRecord, ClientReads
<1>4. /\ DaemonWrites(n, m).st = n.st
      /\ DaemonWrites(n, m).toDaemon = n.toDaemon
      /\ DaemonWrites(n, m).toClient =
            IF n.st = "open" THEN Append(n.toClient, m) ELSE n.toClient
  BY DEF LinkRecord, DaemonWrites
<1>5. /\ ClientWrites(n, m).st = n.st
      /\ ClientWrites(n, m).toDaemon =
            IF n.st = "open" THEN Append(n.toDaemon, m) ELSE n.toDaemon
      /\ ClientWrites(n, m).toClient = n.toClient
  BY DEF LinkRecord, ClientWrites
<1> QED BY <1>2, <1>3, <1>4, <1>5

LEMMA CloseParts ==
    ASSUME NEW n \in LinkRecord
    PROVE  /\ DaemonCloses(n).st = IF n.st = "open" THEN "daemonClosed" ELSE "dead"
           /\ DaemonCloses(n).toDaemon = <<>>
           /\ DaemonCloses(n).toClient = IF n.st = "open" THEN n.toClient ELSE <<>>
           /\ ClientCloses(n).st = IF n.st = "open" THEN "clientClosed" ELSE "dead"
           /\ ClientCloses(n).toDaemon = IF n.st = "open" THEN n.toDaemon ELSE <<>>
           /\ ClientCloses(n).toClient = <<>>
BY DEF LinkRecord, DaemonCloses, ClientCloses, DeadLink

(* A connection that a step does not touch stays where it is. *)
LEMMA OtherStays ==
    ASSUME NEW d, At(d), net'[d] = net[d], cpc'[d] = cpc[d], sent'[d] = sent[d],
           ended'[d] = ended[d], Waits(d)' <=> Waits(d),
           ended[d] # "none" => CachedFrom(d)' \subseteq CachedFrom(d),
           (d # cur /\ d # cur') \/ UNCHANGED <<cur, phase, remaining>>
    PROVE  At(d)'
<1>1. CASE NotMade(d)
  BY <1>1 DEF NotMade, At
<1>2. CASE Queued(d)
  BY <1>2 DEF Queued, At, Idle, Asked
<1>3. CASE Served(d)
  <2>1. d = cur /\ cur' = cur /\ phase' = phase /\ remaining' = remaining
    BY <1>3 DEF Served
  <2>2. Idle(d)' <=> Idle(d)
    BY DEF Idle
  <2>3. \A m : Asked(d, m)' /\ Expected(d, m)' <=> Asked(d, m) /\ Expected(d, m)
    BY <2>1 DEF Asked, Expected
  <2>4. \A a : Told(d, a)' /\ Answering(d, a)' <=> Told(d, a) /\ Answering(d, a)
    BY <2>1 DEF Told, Answering
  <2>5. Served(d)'
    BY <1>3, <2>1, <2>2, <2>3, <2>4 DEF Served
  <2> QED BY <2>5 DEF At
<1>4. CASE Over(d)
  BY ZenonT(60), <1>4 DEF Over, At, Idle, Told
<1> QED BY <1>1, <1>2, <1>3, <1>4 DEF At

(* The connection of the handler is served. *)
LEMMA CurServed ==
    ASSUME MigrationInv, phase # "accept"
    PROVE  cur \in Conns /\ Served(cur) /\ net[cur] \in LinkRecord
<1>1. cur \in Conns /\ net[cur] \in LinkRecord
  BY Serving DEF MigrationInv, SafeInv
<1> QED BY ZenonT(60), <1>1 DEF MigrationInv, Lock, At, NotMade, Queued, Over

(* The frame that the handler reads is the one of its phase. *)
LEMMA ReadsExpected ==
    ASSUME MigrationInv, phase # "accept", net[cur].toDaemon # <<>>
    PROVE  /\ phase # "inject"
           /\ Msg \in Frames /\ Asked(cur, Msg) /\ Expected(cur, Msg)
           /\ Rest \in LinkRecord /\ Rest.st = net[cur].st
           /\ Rest.toDaemon = <<>> /\ Rest.toClient = <<>>
<1>1. cur \in Conns /\ Served(cur) /\ net[cur] \in LinkRecord
  BY CurServed
<1>2. PICK m \in Frames : Asked(cur, m) /\ Expected(cur, m)
  BY <1>1 DEF Served, Idle, Told
<1>3. Msg = m /\ Tail(net[cur].toDaemon) = <<>>
  BY <1>2, OneFrame DEF Msg, Asked
<1>4. /\ Rest.st = net[cur].st /\ Rest.toDaemon = <<>> /\ Rest.toClient = <<>>
  BY ZenonT(60), <1>1, <1>2, <1>3, LinkParts DEF Rest, Asked
<1>5. Rest \in LinkRecord
  BY Serving DEF MigrationInv, SafeInv
<1>6. phase # "inject"
  BY <1>2 DEF Expected
<1> QED BY <1>2, <1>3, <1>4, <1>5, <1>6

(* What is cached of a connection depends on the cache, and an injection   *)
(* adds tensors of the handler's connection only.                          *)
LEMMA CachedOfOthers ==
    ASSUME SafeInv, NEW d, d # cur, phase = "inject", NEW h \in staged,
           cache' = cache \/ cache' = [cache EXCEPT ![h] = accumulated[h]]
    PROVE  CachedFrom(d)' \subseteq CachedFrom(d)
<1>1. cache \in Blocks /\ h \in Hashes
  BY DEF SafeInv, TypeInv, DaemonTypeOK
<1>2. \A t \in accumulated[h] : t.from = cur
  BY <1>1 DEF SafeInv, Staging, StagedFrom
<1>3. \A g \in Hashes : cache'[g] = cache[g] \/ cache'[g] = accumulated[h]
  BY <1>1 DEF Blocks
<1> SUFFICES ASSUME NEW t \in CachedFrom(d)' PROVE t \in CachedFrom(d)
  OBVIOUS
<1>4. PICK g \in Hashes : t \in cache'[g] /\ t.from = d
  BY DEF CachedFrom
<1>5. t \in cache[g]
  BY <1>2, <1>3, <1>4
<1> QED BY <1>4, <1>5 DEF CachedFrom

(* The handler answers and waits: its client has the answer, unless it is  *)
(* gone, and nothing else is in flight.                                    *)
LEMMA AnswerLock ==
    ASSUME MigrationInv, phase # "accept", net[cur].toDaemon # <<>>,
           NEW reply \in Answers, NEW p, AnswerAndWait(reply, p), UNCHANGED <<cpc, sent>>,
           net[cur].st = "open" => Answering(cur, reply)'
    PROVE  Lock' /\ Distinct'
<1>1. cur \in Conns /\ Served(cur)
  BY CurServed
<1>2. /\ Rest \in LinkRecord /\ Rest.st = net[cur].st
      /\ Rest.toDaemon = <<>> /\ Rest.toClient = <<>>
  BY ReadsExpected
<1>3. net \in [Conns -> LinkRecord]
  BY DEF MigrationInv, SafeInv, TypeInv
<1>4. net' = [net EXCEPT ![cur] = DaemonWrites(Rest, reply)]
      /\ UNCHANGED <<backlog, cur, cache, ended>>
  BY DEF AnswerAndWait
<1>5. net'[cur] = DaemonWrites(Rest, reply) /\ \A d \in Conns : d # cur => net'[d] = net[d]
  BY <1>1, <1>3, <1>4
<1>6. /\ net'[cur].st = net[cur].st
      /\ net'[cur].toDaemon = <<>>
      /\ net'[cur].toClient = IF net[cur].st = "open" THEN <<reply>> ELSE <<>>
  <2>1. Append(<<>>, reply) = <<reply>>
    BY OneFrame
  <2>2. /\ DaemonWrites(Rest, reply).st = Rest.st
        /\ DaemonWrites(Rest, reply).toDaemon = Rest.toDaemon
        /\ DaemonWrites(Rest, reply).toClient =
              IF Rest.st = "open" THEN Append(Rest.toClient, reply) ELSE Rest.toClient
    BY ZenonT(60), <1>2, LinkParts
  <2> QED BY <1>2, <1>5, <2>1, <2>2
<1>7. \A d : Waits(d)' <=> Waits(d)
  BY <1>4 DEF Waits
<1>8. Served(cur)'
  <2>1. CASE net[cur].st = "open"
    <3>1. Told(cur, reply)'
      BY <1>4, <1>6, <2>1 DEF Told
    <3> QED BY <1>1, <1>4, <1>6, <1>7, <2>1, <3>1 DEF Served
  <2>2. CASE net[cur].st # "open"
    <3>1. Idle(cur)'
      BY <1>4, <1>6, <2>2 DEF Idle
    <3> QED BY <1>1, <1>4, <1>6, <1>7, <2>2, <3>1 DEF Served
  <2> QED BY <2>1, <2>2
<1>9. ASSUME NEW d \in Conns, d # cur PROVE At(d)'
  <2>1. CachedFrom(d)' = CachedFrom(d)
    BY <1>4 DEF CachedFrom
  <2> QED BY <1>4, <1>5, <1>7, <1>9, <2>1, OtherStays DEF MigrationInv, Lock
<1>10. Lock'
  BY <1>4, <1>8, <1>9 DEF Lock, At
<1> QED BY <1>4, <1>10 DEF MigrationInv, Distinct

(* The handler returns: its connection is over. *)
LEMMA ReturnLock ==
    ASSUME MigrationInv, phase # "accept", NEW n \in LinkRecord,
           NEW how \in Endings \ {"none"}, Return(n, how), UNCHANGED <<cpc, sent>>,
           n.st = net[cur].st,
           n.st = "open" =>
              \/ n.toClient = <<>>
              \/ n.toClient = <<CapabilityResponse(FALSE)>> /\ cpc[cur] = "capability"
              \/ /\ n.toClient = <<AgentGraphBindingAck(FALSE)>>
                 /\ cpc[cur] = "bindingAck" /\ how = "failed"
                 /\ \A d : d = cur => CachedFrom(d)' = {}
              \/ /\ n.toClient = <<CommitResponse(TRUE)>>
                 /\ cpc[cur] = "commitResponse" /\ how = "committed",
           \A d \in Conns : d # cur => CachedFrom(d)' \subseteq CachedFrom(d)
    PROVE  Lock' /\ Distinct'
<1>1. cur \in Conns /\ Served(cur)
  BY CurServed
<1>2. net \in [Conns -> LinkRecord] /\ ended \in [Conns -> Endings]
  BY DEF MigrationInv, SafeInv, TypeInv, DaemonTypeOK
<1>3. /\ net' = [net EXCEPT ![cur] = DaemonCloses(n)]
      /\ ended' = [ended EXCEPT ![cur] = how]
      /\ cur' = NoConn /\ UNCHANGED backlog
  BY DEF Return
<1>4. net'[cur] = DaemonCloses(n) /\ \A d \in Conns : d # cur => net'[d] = net[d]
  BY <1>1, <1>2, <1>3
<1>5. ended'[cur] = how /\ \A d \in Conns : d # cur => ended'[d] = ended[d]
  BY <1>1, <1>2, <1>3
<1>6. \A d : Waits(d)' <=> Waits(d)
  BY <1>3 DEF Waits
<1>7. \A d \in Conns : d # cur'
  BY <1>3, DaemonAssumption
<1>8. ASSUME NEW d \in Conns, d # cur PROVE At(d)'
  BY <1>4, <1>5, <1>6, <1>7, <1>8, OtherStays DEF MigrationInv, Lock
<1>9. ASSUME NEW d \in Conns, d = cur PROVE Over(d)'
  <2>1. /\ net'[d].st \in {"daemonClosed", "dead"}
        /\ net'[d].toDaemon = <<>>
        /\ net'[d].toClient = IF n.st = "open" THEN n.toClient ELSE <<>>
    BY <1>4, <1>9, CloseParts
  <2>2. ended'[d] = how /\ ended'[d] # "none" /\ d # cur' /\ ~Waits(d)' /\ cpc'[d] # "start"
    BY <1>1, <1>5, <1>6, <1>7, <1>9 DEF Served
  <2>3. CASE n.st # "open" \/ n.toClient = <<>>
    BY ZenonT(60), <2>1, <2>2, <2>3 DEF Over, Idle
  <2>4. CASE n.st = "open" /\ n.toClient # <<>>
    BY ZenonT(60), <1>9, <2>1, <2>2, <2>4 DEF Over, Told
  <2> QED BY <2>3, <2>4
<1>10. Lock'
  BY <1>8, <1>9 DEF Lock, At
<1> QED BY <1>3, <1>10 DEF MigrationInv, Distinct

(* bail!, or an error of recv_message or send_message. *)
LEMMA FailLock ==
    ASSUME MigrationInv, phase # "accept", NEW n \in LinkRecord, Fail(n),
           UNCHANGED <<cpc, sent>>, n.st = net[cur].st, n.st = "open" => n.toClient = <<>>
    PROVE  Lock' /\ Distinct'
<1>1. Return(n, "failed") /\ "failed" \in Endings \ {"none"} /\ UNCHANGED cache
  BY DEF Fail, Endings
<1>2. \A d \in Conns : d # cur => CachedFrom(d)' \subseteq CachedFrom(d)
  BY <1>1 DEF CachedFrom
<1> QED BY ZenonT(60), <1>1, <1>2, ReturnLock

(* In the injection nothing is in flight. *)
LEMMA InjectIdle ==
    ASSUME MigrationInv, phase = "inject"
    PROVE  /\ cur \in Conns /\ net[cur] \in LinkRecord /\ Idle(cur)
           /\ net[cur].st = "open" => cpc[cur] = "commitResponse"
BY CurServed DEF Served, Expected, Answering

(* The steps in which the handler ends without an answer. *)
LEMMA FailingLock ==
    ASSUME MigrationInv, UNCHANGED <<cpc, sent>>,
           \/ ReceiveFails \/ ProtocolViolation \/ AnswerFails \/ InjectFails
           \/ NotACommit \/ VerifyFails \/ CommitAnswerFails
    PROVE  Lock' /\ Distinct'
<1>1. CASE ReceiveFails
  <2>1. phase # "accept"
    BY <1>1 DEF ReceiveFails, MigrationInv, SafeInv, TypeInv
  <2>2. CASE DaemonGetsEof(net[cur]) /\ Fail(net[cur])
    BY <2>1, <2>2, CurServed, FailLock DEF DaemonGetsEof
  <2>3. CASE net[cur].toDaemon # <<>> /\ Fail(Rest)
    BY <2>1, <2>3, ReadsExpected, FailLock
  <2> QED BY <1>1, <2>2, <2>3 DEF ReceiveFails, Receives
<1>2. CASE ProtocolViolation \/ AnswerFails
  <2>1. phase # "accept" /\ net[cur].toDaemon # <<>> /\ Fail(Rest)
    BY <1>2 DEF ProtocolViolation, AnswerFails, GoodCapability, GoodHeader, GoodChunk,
                Binding, Receives
  <2> QED BY <2>1, ReadsExpected, FailLock
<1>3. CASE NotACommit \/ VerifyFails \/ CommitAnswerFails
  <2>1. phase = "inject" /\ Fail(net[cur])
    BY <1>3 DEF NotACommit, VerifyFails, CommitAnswerFails, Verified
  <2> QED BY <2>1, InjectIdle, FailLock DEF Idle
<1>4. CASE InjectFails
  <2>1. phase = "inject" /\ Return(net[cur], "failed") /\ "failed" \in Endings \ {"none"}
    BY <1>4 DEF InjectFails, Endings
  <2>2. \A d \in Conns : d # cur => CachedFrom(d)' \subseteq CachedFrom(d)
    BY <1>4, CachedOfOthers DEF InjectFails, MigrationInv
  <2> QED BY ZenonT(60), <2>1, <2>2, InjectIdle, ReturnLock DEF Idle
<1> QED BY <1>1, <1>2, <1>3, <1>4

(* The steps in which the handler ends with an answer. *)
LEMMA EndingLock ==
    ASSUME MigrationInv, UNCHANGED <<cpc, sent>>, RejectCapability \/ RejectBinding \/ Commit
    PROVE  Lock' /\ Distinct'
<1>1. \A d \in Conns : d # cur => CachedFrom(d)' \subseteq CachedFrom(d)
  BY ZenonT(60) DEF RejectCapability, RejectBinding, Commit, CachedFrom
<1>2. CASE RejectCapability
  <2> DEFINE a == CapabilityResponse(FALSE)
             n == DaemonWrites(Rest, a)
  <2>1. /\ phase = "capability" /\ net[cur].toDaemon # <<>> /\ Return(n, "rejected")
        /\ "rejected" \in Endings \ {"none"} /\ a \in Answers
    BY <1>2 DEF RejectCapability, GoodCapability, Receives, Endings, Answers,
                CapabilityResponse
  <2>2. /\ Rest \in LinkRecord /\ Rest.st = net[cur].st /\ Rest.toClient = <<>>
        /\ Served(cur) /\ Expected(cur, Msg)
    BY <2>1, ReadsExpected, CurServed
  <2>3. n \in LinkRecord
    BY ZenonT(60), <2>1, <2>2, LinkTypes
  <2>4. /\ n.st = Rest.st
        /\ n.toClient = IF Rest.st = "open" THEN Append(Rest.toClient, a) ELSE Rest.toClient
    <3> HIDE DEF a
    <3> QED BY ZenonT(60), <2>2, LinkParts
  <2>5. Append(<<>>, a) = <<a>>
    BY OneFrame
  <2>6. net[cur].st = "open" => cpc[cur] = "capability"
    BY ZenonT(60), <2>1, <2>2 DEF Served, Expected
  <2> HIDE DEF n
  <2> QED BY ZenonT(60), <1>1, <2>1, <2>2, <2>3, <2>4, <2>5, <2>6, ReturnLock
<1>3. CASE RejectBinding
  <2> DEFINE a == AgentGraphBindingAck(FALSE)
             n == DaemonWrites(Rest, a)
  <2>1. /\ phase = "streamed" /\ net[cur].toDaemon # <<>> /\ Return(n, "failed")
        /\ "failed" \in Endings \ {"none"} /\ a \in Answers /\ UNCHANGED cache
        /\ Msg.type = "AgentGraphBinding"
    BY <1>3 DEF RejectBinding, Binding, Receives, Endings, Answers, AgentGraphBindingAck
  <2>2. /\ Rest \in LinkRecord /\ Rest.st = net[cur].st /\ Rest.toClient = <<>>
        /\ Served(cur) /\ Expected(cur, Msg)
    BY <2>1, ReadsExpected, CurServed
  <2>3. n \in LinkRecord
    BY ZenonT(60), <2>1, <2>2, LinkTypes
  <2>4. /\ n.st = Rest.st
        /\ n.toClient = IF Rest.st = "open" THEN Append(Rest.toClient, a) ELSE Rest.toClient
    <3> HIDE DEF a
    <3> QED BY ZenonT(60), <2>2, LinkParts
  <2>5. Append(<<>>, a) = <<a>>
    BY OneFrame
  <2>6. net[cur].st = "open" => cpc[cur] = "bindingAck"
    <3>1. CommitRequest.type = "CommitRequest"
      BY DEF CommitRequest
    <3>2. Msg # CommitRequest
      BY ZenonT(60), <2>1, <3>1
    <3>3. cpc[cur] \in {"bindingAck", "done"}
      BY ZenonT(60), <2>1, <2>2, <3>2 DEF Expected
    <3> QED BY ZenonT(60), <2>2, <3>3 DEF Served
  <2>7. \A d : d = cur => CachedFrom(d)' = {}
    <3>1. ended[cur] = "none"
      BY <2>2 DEF Served
    <3> QED BY <2>1, <3>1 DEF CachedFrom, MigrationInv, Cached
  <2> HIDE DEF n
  <2> QED BY ZenonT(60), <1>1, <2>1, <2>2, <2>3, <2>4, <2>5, <2>6, <2>7, ReturnLock
<1>4. CASE Commit
  <2> DEFINE a == CommitResponse(TRUE)
             n == DaemonWrites(net[cur], a)
  <2>1. /\ phase = "inject" /\ Return(n, "committed")
        /\ "committed" \in Endings \ {"none"} /\ a \in Answers
    BY <1>4 DEF Commit, Verified, Endings, Answers, CommitResponse
  <2>2. /\ net[cur] \in LinkRecord /\ net[cur].toClient = <<>>
        /\ net[cur].st = "open" => cpc[cur] = "commitResponse"
    BY <2>1, InjectIdle DEF Idle
  <2>3. n \in LinkRecord
    BY ZenonT(60), <2>1, <2>2, LinkTypes
  <2>4. /\ n.st = net[cur].st
        /\ n.toClient = IF net[cur].st = "open" THEN Append(net[cur].toClient, a) ELSE net[cur].toClient
    <3> HIDE DEF a
    <3> QED BY ZenonT(60), <2>2, LinkParts
  <2>5. Append(<<>>, a) = <<a>>
    BY OneFrame
  <2> HIDE DEF n
  <2> QED BY ZenonT(60), <1>1, <2>1, <2>2, <2>3, <2>4, <2>5, ReturnLock
<1> QED BY <1>2, <1>3, <1>4

(* The number of chunks of a client's header. *)
LEMMA TotalType ==
    ASSUME NEW c \in Conns
    PROVE  /\ HeaderOf(c) \in Header /\ HeaderEnvelope(HeaderOf(c)) \in Frames
           /\ CapabilityRequest(Job[c].seq_len) \in Frames /\ CommitRequest \in Frames
<1>1. /\ HeaderEnvelope(HeaderOf(c)) \in Frames
      /\ CapabilityRequest(Job[c].seq_len) \in Frames
      /\ CommitRequest \in Frames
  BY JobAssumption DEF ClientFrames
<1>2. HeaderEnvelope(HeaderOf(c)).header = HeaderOf(c)
      /\ HeaderEnvelope(HeaderOf(c)).type = "HeaderEnvelope"
  BY DEF HeaderEnvelope
<1> QED BY <1>1, <1>2, FrameFields

(* The steps in which the handler answers and waits. *)
LEMMA AnsweringLock ==
    ASSUME MigrationInv, UNCHANGED <<cpc, sent>>,
           AcceptCapability \/ AcceptHeader \/ AcceptChunk \/ AcceptBinding
    PROVE  Lock' /\ Distinct'
<1>1. phase \in {"capability", "header", "chunks", "streamed"} /\ net[cur].toDaemon # <<>>
  BY ZenonT(60) DEF AcceptCapability, AcceptHeader, AcceptChunk, AcceptBinding, GoodCapability,
         GoodHeader, GoodChunk, Binding, Receives
<1>2. cur \in Conns /\ Served(cur) /\ Expected(cur, Msg) /\ Msg \in Frames
  BY <1>1, CurServed, ReadsExpected
<1>3. net[cur].st = "open" => cpc[cur] # "done"
  BY <1>2 DEF Served
<1>4. CASE AcceptCapability
  <2>1. phase = "capability" /\ AnswerAndWait(CapabilityResponse(TRUE), "header")
    BY ZenonT(60), <1>4 DEF AcceptCapability, GoodCapability, Receives
  <2>2. net[cur].st = "open" => Answering(cur, CapabilityResponse(TRUE))'
    BY <1>2, <1>3, <2>1 DEF Expected, Answering, AnswerAndWait, CapabilityResponse
  <2>3. CapabilityResponse(TRUE) \in Answers
    BY DEF CapabilityResponse, Answers
  <2> QED BY ZenonT(60), <1>1, <2>1, <2>2, <2>3, AnswerLock
<1>5. CASE AcceptHeader
  <2>1. /\ phase = "header" /\ remaining' = ChunkCount(Msg.header)
        /\ AnswerAndWait(HeaderAck(TRUE), IF remaining' = 0 THEN "streamed" ELSE "chunks")
    BY ZenonT(60), <1>5 DEF AcceptHeader, GoodHeader, Receives
  <2>2. Msg = HeaderEnvelope(HeaderOf(cur)) /\ cpc[cur] \in {"headerAck", "done"}
        /\ sent[cur] = 0
    BY <1>2, <2>1 DEF Expected
  <2>3. Msg.header = HeaderOf(cur)
    BY <2>2 DEF HeaderEnvelope
  <2>4. remaining' = Total(cur)' /\ UNCHANGED cur
    BY <2>1, <2>3 DEF Total, AnswerAndWait
  <2>5. phase' \in {"chunks", "streamed"}
    BY <2>1 DEF AnswerAndWait
  <2>6. net[cur].st = "open" => Answering(cur, HeaderAck(TRUE))'
    BY ZenonT(60), <1>3, <2>2, <2>4, <2>5 DEF Answering, HeaderAck
  <2>7. HeaderAck(TRUE) \in Answers
    BY DEF HeaderAck, Answers
  <2> QED BY ZenonT(60), <1>1, <2>1, <2>6, <2>7, AnswerLock
<1>6. CASE AcceptChunk
  <2>1. /\ phase = "chunks" /\ remaining' = remaining - 1 /\ Msg.type = "PayloadChunk"
        /\ AnswerAndWait(ChunkAck(Msg.chunk_index),
                         IF remaining' = 0 THEN "streamed" ELSE "chunks")
    BY <1>6 DEF AcceptChunk, GoodChunk, Receives
  <2>2. sent[cur] + remaining = Total(cur) + 1 /\ cpc[cur] \in {"chunkAck", "done"}
    BY <1>2, <2>1 DEF Expected
  <2>3. sent[cur] \in Nat /\ remaining \in Nat
    BY <1>2 DEF MigrationInv, ClientTypes, SafeInv, TypeInv, DaemonTypeOK
  <2>4. Total(cur) \in Nat
    <3>1. HeaderOf(cur) \in Header
      BY <1>2, TotalType
    <3>2. header = HeaderOf(cur) /\ ValidateHeader(header)
      BY <2>1 DEF MigrationInv, Handling, SafeInv, Counting, Early
    <3> QED BY <3>1, <3>2, ChunkCountType DEF Total
  <2>5. UNCHANGED cur /\ phase' \in {"chunks", "streamed"}
    BY <2>1 DEF AnswerAndWait
  <2>6. Total(cur)' = Total(cur)
    BY <2>5 DEF Total
  <2>7. sent[cur]' + remaining' = Total(cur)'
    BY <2>1, <2>2, <2>3, <2>4, <2>5, <2>6
  <2>8. ChunkAck(Msg.chunk_index).type = "ChunkAck" /\ ChunkAck(Msg.chunk_index) \in Answers
    BY <1>2, <2>1, FrameFields DEF ChunkAck, Answers
  <2>9. PICK a \in Answers : a = ChunkAck(Msg.chunk_index)
    BY <2>8
  <2>10. net[cur].st = "open" => Answering(cur, a)'
    BY ZenonT(60), <1>3, <2>2, <2>5, <2>7, <2>8, <2>9 DEF Answering
  <2>11. AnswerAndWait(a, IF remaining' = 0 THEN "streamed" ELSE "chunks")
    BY <2>1, <2>9
  <2> QED BY <1>1, <2>10, <2>11, AnswerLock
<1>7. CASE AcceptBinding
  <2>1. /\ phase = "streamed" /\ AnswerAndWait(AgentGraphBindingAck(TRUE), "bound")
        /\ Msg.type = "AgentGraphBinding"
    BY ZenonT(60), <1>7 DEF AcceptBinding, Binding, Receives
  <2>2. Job[cur].graph # NoGraph /\ cpc[cur] \in {"bindingAck", "done"}
    BY <1>2, <2>1 DEF Expected, CommitRequest
  <2>3. net[cur].st = "open" => Answering(cur, AgentGraphBindingAck(TRUE))'
    BY <1>3, <2>1, <2>2 DEF Answering, AnswerAndWait, AgentGraphBindingAck
  <2>4. AgentGraphBindingAck(TRUE) \in Answers
    BY DEF AgentGraphBindingAck, Answers
  <2> QED BY ZenonT(60), <1>1, <2>1, <2>3, <2>4, AnswerLock
<1> QED BY <1>4, <1>5, <1>6, <1>7

(* listener.accept() takes the first of the queue. *)
LEMMA AcceptLock ==
    ASSUME MigrationInv, UNCHANGED <<cpc, sent>>, Accept
    PROVE  Lock' /\ Distinct'
<1> DEFINE c == backlog[1]
<1>1. backlog \in Seq(Conns) /\ backlog # <<>>
  BY DEF MigrationInv, SafeInv, TypeInv, Accept
<1>2. Len(backlog) \in Nat /\ Len(backlog) > 0 /\ c \in Conns
  BY <1>1
<1>3. backlog' = Tail(backlog) /\ Len(backlog') = Len(backlog) - 1
      /\ \A i \in 1 .. Len(backlog') : backlog'[i] = backlog[i + 1]
  BY <1>1 DEF Accept
<1>4. /\ cur = NoConn /\ cur' = c /\ phase' = "capability"
      /\ UNCHANGED <<net, ended, cache>>
  BY <1>1 DEF Accept
<1> HIDE DEF c
<1>5. \A d \in Conns : d # c => (Waits(d)' <=> Waits(d))
  <2>1. ASSUME NEW d \in Conns, d # c, Waits(d) PROVE Waits(d)'
    <3>1. PICK i \in 1 .. Len(backlog) : backlog[i] = d
      BY <2>1 DEF Waits
    <3>2. i # 1
      BY <2>1, <3>1 DEF c
    <3>3. i - 1 \in 1 .. Len(backlog') /\ (i - 1) + 1 = i
      BY <1>2, <1>3, <3>2
    <3>4. backlog'[i - 1] = d
      BY <1>3, <3>1, <3>3
    <3> QED BY <3>3, <3>4 DEF Waits
  <2>2. ASSUME NEW d \in Conns, Waits(d)' PROVE Waits(d)
    <3>1. PICK i \in 1 .. Len(backlog') : backlog'[i] = d
      BY <2>2 DEF Waits
    <3>2. i + 1 \in 1 .. Len(backlog) /\ backlog[i + 1] = d
      BY <1>2, <1>3, <3>1
    <3> QED BY <3>2 DEF Waits
  <2> QED BY <2>1, <2>2
<1>6. Waits(c)
  BY <1>2 DEF Waits, c
<1>7. ASSUME NEW d, d = c PROVE ~Waits(d)'
  <2> SUFFICES ASSUME Waits(d)' PROVE FALSE
    OBVIOUS
  <2>1. PICK i \in 1 .. Len(backlog') : backlog'[i] = d
    BY DEF Waits
  <2>2. i + 1 \in 1 .. Len(backlog) /\ backlog[i + 1] = backlog[1] /\ 1 \in 1 .. Len(backlog)
    BY <1>2, <1>3, <1>7, <2>1 DEF c
  <2>3. i + 1 = 1
    BY <2>2 DEF MigrationInv, Distinct
  <2> QED BY <2>1, <2>3
<1>8. Queued(c)
  BY ZenonT(60), <1>2, <1>6 DEF MigrationInv, Lock, At, NotMade, Served, Over
<1>9. ASSUME NEW d \in Conns, d = c PROVE Served(d)'
  <2>1. ~Waits(d)' /\ d = cur' /\ ended'[d] = "none" /\ net'[d] = net[d]
        /\ UNCHANGED <<cpc, sent>> /\ Queued(d)
    BY ZenonT(60), <1>4, <1>7, <1>8, <1>9 DEF Queued
  <2>2. CASE Idle(d) /\ net[d].st # "open"
    BY <2>1, <2>2 DEF Queued, Served, Idle
  <2>3. CASE Asked(d, CapabilityRequest(Job[d].seq_len))
    <3>1. PICK m \in Frames : m = CapabilityRequest(Job[d].seq_len)
      BY TotalType
    <3>2. Asked(d, m)' /\ Expected(d, m)'
      BY ZenonT(60), <1>4, <2>1, <2>3, <3>1 DEF Asked, Expected, Queued
    <3> QED BY ZenonT(60), <2>1, <3>2 DEF Queued, Served
  <2> QED BY ZenonT(60), <2>1, <2>2, <2>3 DEF Queued
<1>10. ASSUME NEW d \in Conns, d # c PROVE At(d)'
  <2>1. d # cur /\ d # cur' /\ CachedFrom(d)' = CachedFrom(d)
    BY <1>4, <1>10, DaemonAssumption DEF CachedFrom
  <2> QED BY ZenonT(60), <1>4, <1>5, <1>10, <2>1, OtherStays DEF MigrationInv, Lock
<1>11. Lock'
  BY <1>9, <1>10 DEF Lock, At
<1>12. Distinct'
  <2> SUFFICES ASSUME NEW i \in 1 .. Len(backlog'), NEW j \in 1 .. Len(backlog'),
                      backlog'[i] = backlog'[j]
               PROVE  i = j
    BY DEF Distinct
  <2>1. i + 1 \in 1 .. Len(backlog) /\ j + 1 \in 1 .. Len(backlog)
        /\ backlog[i + 1] = backlog[j + 1]
    BY <1>2, <1>3
  <2>2. i + 1 = j + 1
    BY <2>1 DEF MigrationInv, Distinct
  <2> QED BY <2>2
<1> QED BY <1>11, <1>12

(* The commit request starts the injection. *)
LEMMA StartLock ==
    ASSUME MigrationInv, UNCHANGED <<cpc, sent>>, StartInjection
    PROVE  Lock' /\ Distinct' /\ Bound(cur)
<1>1. /\ net[cur].toDaemon # <<>> /\ phase \in {"streamed", "bound"}
      /\ phase = "streamed" => Msg.type # "AgentGraphBinding"
      /\ net' = [net EXCEPT ![cur] = Rest] /\ phase' = "inject"
      /\ UNCHANGED <<backlog, cur, cache, ended>>
  BY ZenonT(60) DEF StartInjection, Receives
<1>2. cur \in Conns /\ Served(cur)
  BY <1>1, CurServed
<1>3. /\ Expected(cur, Msg) /\ Rest.st = net[cur].st
      /\ Rest.toDaemon = <<>> /\ Rest.toClient = <<>>
  BY <1>1, ReadsExpected
<1>4. cpc[cur] \in {"commitResponse", "done"} /\ (phase = "streamed" => Job[cur].graph = NoGraph)
  BY <1>1, <1>3 DEF Expected, AgentGraphBinding
<1>5. net \in [Conns -> LinkRecord]
  BY DEF MigrationInv, SafeInv, TypeInv
<1>6. net'[cur] = Rest /\ \A d \in Conns : d # cur => net'[d] = net[d]
  BY <1>1, <1>2, <1>5
<1>7. \A d : Waits(d)' <=> Waits(d)
  BY <1>1 DEF Waits
<1>8. Served(cur)'
  <2>1. Idle(cur)'
    BY <1>1, <1>3, <1>6 DEF Idle
  <2>2. /\ cur' = cur /\ ~Waits(cur)' /\ ended'[cur] = "none"
        /\ cpc'[cur] = cpc[cur] /\ cpc[cur] # "start" /\ net'[cur].st = net[cur].st
        /\ net[cur].st # "none" /\ (net[cur].st = "open" => cpc[cur] # "done")
    BY <1>1, <1>2, <1>3, <1>6, <1>7 DEF Served
  <2> QED BY <1>1, <1>4, <2>1, <2>2 DEF Served
<1>9. ASSUME NEW d \in Conns, d # cur PROVE At(d)'
  <2>1. CachedFrom(d)' = CachedFrom(d)
    BY <1>1 DEF CachedFrom
  <2> QED BY <1>1, <1>6, <1>7, <1>9, <2>1, OtherStays DEF MigrationInv, Lock
<1>10. Lock'
  BY <1>1, <1>8, <1>9 DEF Lock, At
<1>11. Distinct'
  BY <1>1 DEF MigrationInv, Distinct
<1>12. Bound(cur)
  BY <1>1, <1>4 DEF MigrationInv, Handling, Bound
<1> QED BY <1>10, <1>11, <1>12

LEMMA InjectLock ==
    ASSUME MigrationInv, UNCHANGED <<cpc, sent>>, InjectBlock
    PROVE  Lock' /\ Distinct'
<1>1. phase = "inject" /\ UNCHANGED <<net, backlog, cur, phase, remaining, ended>>
  BY DEF InjectBlock
<1>2. ended[cur] = "none"
  BY <1>1, CurServed DEF Served
<1>3. ASSUME NEW d \in Conns PROVE At(d)'
  <2>1. ended[d] # "none" => CachedFrom(d)' \subseteq CachedFrom(d)
    BY ZenonT(60), <1>1, <1>2, CachedOfOthers DEF InjectBlock, MigrationInv
  <2>2. Waits(d)' <=> Waits(d)
    BY <1>1 DEF Waits
  <2> QED BY <1>1, <2>1, <2>2, OtherStays DEF MigrationInv, Lock
<1> QED BY <1>1, <1>3 DEF Lock, MigrationInv, Distinct

LEMMA DaemonLock ==
    ASSUME MigrationInv, UNCHANGED <<cpc, sent>>, DaemonNext
    PROVE  Lock' /\ Distinct'
BY AcceptLock, FailingLock, EndingLock, AnsweringLock, StartLock, InjectLock DEF DaemonNext

-----------------------------------------------------------------------------
(* A client step concerns one connection. *)
LEMMA OneClient ==
    ASSUME MigrationInv, NEW c \in Conns, NEW n, NEW w, NEW k,
           net' = [net EXCEPT ![c] = n], cpc' = [cpc EXCEPT ![c] = w],
           sent' = [sent EXCEPT ![c] = k], At(c)',
           UNCHANGED <<backlog, cur, phase, remaining, cache, ended>>
    PROVE  Lock' /\ Distinct'
<1>1. /\ net \in [Conns -> LinkRecord] /\ cpc \in [Conns -> Awaited]
      /\ sent \in [Conns -> Nat]
  BY DEF MigrationInv, SafeInv, TypeInv, ClientTypes
<1>2. \A d \in Conns : d # c => net'[d] = net[d] /\ cpc'[d] = cpc[d] /\ sent'[d] = sent[d]
  BY <1>1
<1>3. ASSUME NEW d \in Conns, d # c PROVE At(d)'
  <2>1. CachedFrom(d)' = CachedFrom(d) /\ (Waits(d)' <=> Waits(d))
    BY DEF CachedFrom, Waits
  <2> QED BY <1>2, <1>3, <2>1, OtherStays DEF MigrationInv, Lock
<1> QED BY <1>3 DEF Lock, MigrationInv, Distinct

(* A process that ends, or is killed, closes its socket. *)
LEMMA ExitLock ==
    ASSUME MigrationInv, NEW c \in Conns, cpc[c] \notin {"start", "done"},
           NEW n \in LinkRecord, n.st = net[c].st, n.toDaemon = net[c].toDaemon,
           NEW how, Exit(c, n, how),
           UNCHANGED <<cur, phase, remaining, cache, ended>>
    PROVE  Lock' /\ Distinct'
<1>1. /\ net \in [Conns -> LinkRecord] /\ cpc \in [Conns -> Awaited]
      /\ sent \in [Conns -> Nat]
  BY DEF MigrationInv, SafeInv, TypeInv, ClientTypes
<1>2. /\ net' = [net EXCEPT ![c] = ClientCloses(n)]
      /\ cpc' = [cpc EXCEPT ![c] = "done"]
      /\ sent' = [sent EXCEPT ![c] = sent[c]]
      /\ UNCHANGED backlog
  BY ZenonT(60), <1>1 DEF Exit
<1>3. net'[c] = ClientCloses(n) /\ cpc'[c] = "done" /\ sent'[c] = sent[c]
  BY <1>1, <1>2
<1>4. /\ net'[c].st = (IF net[c].st = "open" THEN "clientClosed" ELSE "dead")
      /\ net'[c].toDaemon = (IF net[c].st = "open" THEN net[c].toDaemon ELSE <<>>)
      /\ net'[c].toClient = <<>>
  BY <1>3, CloseParts
<1>5. (Waits(c)' <=> Waits(c)) /\ CachedFrom(c)' = CachedFrom(c)
  BY <1>2 DEF Waits, CachedFrom
<1>6. At(c)'
  <2>1. CASE Queued(c)
    BY <1>2, <1>3, <1>4, <1>5, <2>1 DEF Queued, At, Idle, Asked
  <2>2. CASE Served(c)
    <3>1. CASE net[c].st # "open" \/ net[c].toDaemon = <<>>
      <4>1. Idle(c)'
        BY ZenonT(60), <1>4, <3>1 DEF Idle
      <4> QED BY ZenonT(60), <1>3, <1>4, <1>5, <2>2, <4>1 DEF Served, At
    <3>2. CASE net[c].st = "open" /\ net[c].toDaemon # <<>>
      <4>1. PICK m \in Frames : Asked(c, m) /\ Expected(c, m)
        BY ZenonT(60), <2>2, <3>2 DEF Served, Idle, Told
      <4>2. Asked(c, m)' /\ Expected(c, m)'
        BY ZenonT(60), <1>3, <1>4, <3>2, <4>1 DEF Asked, Expected, Total
      <4> QED BY ZenonT(60), <1>3, <1>4, <1>5, <2>2, <4>2 DEF Served, At
    <3> QED BY <3>1, <3>2
  <2>3. CASE Over(c)
    <3>1. Idle(c)'
      BY ZenonT(60), <1>4, <2>3 DEF Idle, Over
    <3> QED BY ZenonT(60), <1>3, <1>4, <1>5, <2>3, <3>1 DEF Over, At
  <2> QED BY ZenonT(60), <2>1, <2>2, <2>3 DEF MigrationInv, Lock, At, NotMade
<1> QED BY ZenonT(60), <1>2, <1>6, OneClient

(* An answer that lets the client go on comes from its handler. *)
LEMMA GoesOnServed ==
    ASSUME MigrationInv, NEW c \in Conns, GoesOn(c)
    PROVE  /\ Served(c) /\ net[c].st = "open" /\ cur \in Conns
           /\ \E a \in Answers : Told(c, a) /\ Answering(c, a) /\ Answer(c) = a
<1>1. /\ net[c].toClient # <<>>
      /\ cpc[c] \in {"capability", "headerAck", "chunkAck", "bindingAck"}
      /\ cpc[c] = "capability" => Answer(c) = CapabilityResponse(TRUE)
      /\ cpc[c] = "bindingAck" => Answer(c) = AgentGraphBindingAck(TRUE)
  BY ZenonT(60) DEF GoesOn, Answered
<1>2. ~NotMade(c) /\ ~Queued(c)
  BY <1>1 DEF NotMade, Queued, Idle, Asked
<1>3. \A a : Told(c, a) => Answer(c) = a
  BY OneFrame DEF Told, Answer
<1>4. ~Over(c)
  <2>1. CapabilityResponse(TRUE) # CapabilityResponse(FALSE)
        /\ AgentGraphBindingAck(TRUE) # AgentGraphBindingAck(FALSE)
    <3>1. CapabilityResponse(TRUE).accepted = TRUE /\ CapabilityResponse(FALSE).accepted = FALSE
      BY DEF CapabilityResponse
    <3>2. AgentGraphBindingAck(TRUE).accepted = TRUE /\ AgentGraphBindingAck(FALSE).accepted = FALSE
      BY DEF AgentGraphBindingAck
    <3> QED BY ZenonT(60), <3>1, <3>2
  <2> QED BY ZenonT(60), <1>1, <1>3, <2>1 DEF Over, Idle
<1>5. Served(c)
  BY <1>2, <1>4 DEF MigrationInv, Lock, At
<1> QED BY ZenonT(60), <1>1, <1>3, <1>5 DEF Served, Idle, Asked

(* The client reads the answer and sends the frame the handler expects. *)
LEMMA SendLock ==
    ASSUME MigrationInv, NEW c \in Conns, GoesOn(c),
           NEW m \in Frames, NEW w \in Awaited \ {"start", "done"},
           SendAndWait(c, After(c), m, w), NEW k, sent' = [sent EXCEPT ![c] = k],
           UNCHANGED <<cur, phase, remaining, cache, ended>>,
           cpc'[c] = w => Expected(c, m)'
    PROVE  Lock' /\ Distinct'
<1>1. /\ net \in [Conns -> LinkRecord] /\ cpc \in [Conns -> Awaited]
  BY DEF MigrationInv, SafeInv, TypeInv, ClientTypes
<1>2. Served(c) /\ net[c].st = "open" /\ \E a \in Answers : Told(c, a)
  BY ZenonT(60), GoesOnServed
<1>3. net[c] \in LinkRecord /\ net[c].toDaemon = <<>> /\ Tail(net[c].toClient) = <<>>
      /\ net[c].toClient # <<>>
  BY ZenonT(60), <1>1, <1>2, OneFrame DEF Told
<1>4. After(c) \in LinkRecord
  BY ZenonT(60), <1>3, LinkTypes DEF After
<1>5. After(c).st = "open" /\ After(c).toDaemon = <<>> /\ After(c).toClient = <<>>
  BY ZenonT(60), <1>2, <1>3, LinkParts DEF After
<1>6. /\ net' = [net EXCEPT ![c] = ClientWrites(After(c), m)]
      /\ cpc' = [cpc EXCEPT ![c] = w] /\ UNCHANGED backlog
  BY DEF SendAndWait
<1>7. net'[c] = ClientWrites(After(c), m) /\ cpc'[c] = w
  BY <1>1, <1>6
<1>8. /\ ClientWrites(After(c), m).st = After(c).st
      /\ ClientWrites(After(c), m).toDaemon =
            IF After(c).st = "open" THEN Append(After(c).toDaemon, m) ELSE After(c).toDaemon
      /\ ClientWrites(After(c), m).toClient = After(c).toClient
  BY ZenonT(60), <1>4, LinkParts
<1>9. Append(<<>>, m) = <<m>>
  BY OneFrame
<1>10. net'[c].st = "open" /\ Asked(c, m)'
  BY ZenonT(60), <1>5, <1>7, <1>8, <1>9 DEF Asked
<1>11. Waits(c)' <=> Waits(c)
  BY <1>6 DEF Waits
<1>12. At(c)'
  BY ZenonT(60), <1>2, <1>7, <1>10, <1>11 DEF Served, At
<1> QED BY ZenonT(60), <1>6, <1>12, OneClient

(* The chunks that a client has sent and its handler awaits. *)
LEMMA StreamFacts ==
    ASSUME MigrationInv, NEW c \in Conns, GoesOn(c), cpc[c] \in {"headerAck", "chunkAck"}
    PROVE  /\ c = cur /\ phase \in {"chunks", "streamed"}
           /\ sent[c] \in Nat /\ remaining \in Nat /\ Total(c) \in Nat
           /\ sent[c] + remaining = Total(c)
           /\ phase = "chunks" => remaining > 0
           /\ phase = "streamed" => remaining = 0
<1>1. PICK a \in Answers : Told(c, a) /\ Answering(c, a) /\ Answer(c) = a
  BY ZenonT(60), GoesOnServed
<1>2. c = cur
  BY GoesOnServed DEF Served
<1>3. phase \in {"chunks", "streamed"}
  BY ZenonT(60), <1>1 DEF Answering
<1>4. sent[c] \in Nat /\ remaining \in Nat /\ (phase = "chunks" => remaining > 0)
  BY DEF MigrationInv, ClientTypes, SafeInv, TypeInv, DaemonTypeOK
<1>5. phase = "streamed" => remaining = 0
  BY DEF MigrationInv, SafeInv, Counting, Streamed
<1>6. Total(c) \in Nat
  <2>1. HeaderOf(c) \in Header
    BY TotalType
  <2>2. header = HeaderOf(c) /\ ValidateHeader(header)
    BY <1>2, <1>3 DEF MigrationInv, Handling, SafeInv, Counting, Early
  <2> QED BY <2>1, <2>2, ChunkCountType DEF Total
<1>7. sent[c] + remaining = Total(c)
  <2>1. (sent[c] = 0 /\ remaining = Total(c)) \/ sent[c] + remaining = Total(c)
    BY ZenonT(60), <1>1 DEF Answering
  <2> QED BY <1>4, <1>6, <2>1
<1> QED BY <1>2, <1>3, <1>4, <1>5, <1>6, <1>7

(* The steps that send a frame. *)
LEMMA SendingLock ==
    ASSUME MigrationInv, NEW c \in Conns,
           SendHeader(c) \/ SendChunk(c) \/ SendBinding(c) \/ SendCommitRequest(c),
           UNCHANGED <<cur, phase, remaining, cache, ended>>
    PROVE  Lock' /\ Distinct'
<1>1. GoesOn(c) /\ cpc \in [Conns -> Awaited] /\ sent \in [Conns -> Nat]
  BY DEF SendHeader, SendChunk, SendBinding, SendCommitRequest, StreamDone, MigrationInv,
         ClientTypes
<1>2. PICK a \in Answers : Told(c, a) /\ Answering(c, a) /\ Answer(c) = a
  BY ZenonT(60), <1>1, GoesOnServed
<1>3. CASE SendHeader(c)
  <2> DEFINE m == HeaderEnvelope(HeaderOf(c))
  <2>1. /\ SendAndWait(c, After(c), m, "headerAck") /\ cpc[c] = "capability"
        /\ sent' = [sent EXCEPT ![c] = sent[c]] /\ sent'[c] = sent[c]
    BY <1>1, <1>3 DEF SendHeader
  <2>2. phase = "header" /\ sent[c] = 0
    BY <1>2, <2>1 DEF Answering
  <2>3. cpc'[c] = "headerAck" => Expected(c, m)'
    BY <2>1, <2>2 DEF Expected
  <2>4. m \in Frames
    BY TotalType
  <2> HIDE DEF m
  <2> QED BY ZenonT(60), <1>1, <2>1, <2>3, <2>4, SendLock DEF Awaited
<1>4. CASE SendChunk(c)
  <2>1. /\ SendAndWait(c, After(c), NthChunk(c, sent[c]), "chunkAck")
        /\ cpc[c] \in {"headerAck", "chunkAck"} /\ sent[c] < Total(c)
        /\ sent' = [sent EXCEPT ![c] = sent[c] + 1] /\ sent'[c] = sent[c] + 1
    BY <1>1, <1>4 DEF SendChunk, Total
  <2>2. /\ c = cur /\ phase = "chunks" /\ sent[c] \in Nat /\ remaining \in Nat
        /\ Total(c) \in Nat /\ sent[c] + remaining = Total(c)
    BY <1>1, <2>1, StreamFacts
  <2>3. sent[c] \in 0 .. ChunkCount(HeaderOf(c)) - 1
    BY <2>1, <2>2 DEF Total
  <2>4. PICK m \in Frames : m = NthChunk(c, sent[c])
    BY <2>3, JobAssumption DEF ClientFrames
  <2>5. m.type = "PayloadChunk"
    BY <2>4 DEF NthChunk, PayloadChunk
  <2>6. Total(c)' = Total(c)
    BY DEF Total
  <2>7. sent'[c] + remaining' = Total(c)' + 1
    BY <2>1, <2>2, <2>6
  <2>8. cpc'[c] = "chunkAck" => Expected(c, m)'
    BY ZenonT(60), <2>2, <2>5, <2>7 DEF Expected
  <2>9. SendAndWait(c, After(c), m, "chunkAck")
    BY <2>1, <2>4
  <2> QED BY ZenonT(60), <1>1, <2>1, <2>8, <2>9, SendLock DEF Awaited
<1>5. ASSUME StreamDone(c) PROVE phase = "streamed"
  <2>1. cpc[c] \in {"headerAck", "chunkAck"} /\ sent[c] = Total(c)
    BY ZenonT(60), <1>5 DEF StreamDone, Total
  <2> QED BY <1>1, <2>1, StreamFacts
<1>6. CASE SendBinding(c)
  <2> DEFINE m == AgentGraphBinding(BindingOf(c))
  <2>1. /\ SendAndWait(c, After(c), m, "bindingAck") /\ StreamDone(c) /\ Job[c].graph # NoGraph
        /\ sent' = [sent EXCEPT ![c] = sent[c]]
    BY <1>1, <1>6 DEF SendBinding
  <2>2. m \in Frames
    BY <2>1, JobAssumption DEF ClientFrames
  <2>3. cpc'[c] = "bindingAck" => Expected(c, m)'
    BY <1>5, <2>1 DEF Expected
  <2> HIDE DEF m
  <2> QED BY ZenonT(60), <1>1, <2>1, <2>2, <2>3, SendLock DEF Awaited
<1>7. CASE SendCommitRequest(c)
  <2>1. /\ SendAndWait(c, After(c), CommitRequest, "commitResponse")
        /\ sent' = [sent EXCEPT ![c] = sent[c]]
        /\ \/ StreamDone(c) /\ Job[c].graph = NoGraph
           \/ cpc[c] = "bindingAck"
    BY <1>1, <1>7 DEF SendCommitRequest
  <2>2. IF Job[c].graph = NoGraph THEN phase = "streamed" ELSE phase = "bound"
    BY ZenonT(60), <1>2, <1>5, <2>1 DEF Answering
  <2>3. cpc'[c] = "commitResponse" => Expected(c, CommitRequest)'
    BY <2>2 DEF Expected, CommitRequest
  <2> QED BY ZenonT(60), <1>1, <2>1, <2>3, TotalType, SendLock DEF Awaited
<1> QED BY <1>3, <1>4, <1>6, <1>7

(* The command begins. *)
LEMMA StartingLock ==
    ASSUME MigrationInv, NEW c \in Conns, Connect(c) \/ StartFails(c),
           UNCHANGED <<cur, phase, remaining, cache, ended>>
    PROVE  Lock' /\ Distinct'
<1>1. /\ net \in [Conns -> LinkRecord] /\ cpc \in [Conns -> Awaited]
      /\ sent \in [Conns -> Nat] /\ backlog \in Seq(Conns)
  BY DEF MigrationInv, SafeInv, TypeInv, ClientTypes
<1>2. cpc[c] = "start" /\ NotMade(c) /\ sent' = [sent EXCEPT ![c] = sent[c]]
  BY ZenonT(60), <1>1 DEF Connect, StartFails, Exit, MigrationInv, Lock, At, Queued, Served, Over
<1>3. CASE StartFails(c)
  <2>1. /\ net' = [net EXCEPT ![c] = net[c]] /\ cpc' = [cpc EXCEPT ![c] = "done"]
        /\ UNCHANGED <<backlog, sent>>
    BY <1>2, <1>3 DEF StartFails, Exit
  <2>2. net'[c] = net[c] /\ cpc'[c] = "done"
    BY <1>1, <2>1
  <2>3. At(c)'
    BY <1>2, <2>1, <2>2 DEF NotMade, At, Waits
  <2> QED BY ZenonT(60), <1>2, <2>1, <2>3, OneClient
<1>4. CASE Connect(c)
  <2> DEFINE m == CapabilityRequest(Job[c].seq_len)
  <2>1. /\ net' = [net EXCEPT ![c] = OpenLink(m)] /\ backlog' = Append(backlog, c)
        /\ cpc' = [cpc EXCEPT ![c] = "capability"] /\ UNCHANGED sent
    BY <1>4 DEF Connect
  <2> HIDE DEF m
  <2>2. /\ net'[c] = OpenLink(m) /\ cpc'[c] = "capability"
        /\ \A d \in Conns : d # c => net'[d] = net[d] /\ cpc'[d] = cpc[d]
    BY <1>1, <2>1
  <2>3. /\ net'[c].st = "open" /\ net'[c].toDaemon = <<m>> /\ net'[c].toClient = <<>>
    BY <2>2 DEF OpenLink
  <2>4. /\ Len(backlog) \in Nat /\ Len(backlog') = Len(backlog) + 1
        /\ backlog'[Len(backlog) + 1] = c
        /\ \A i \in 1 .. Len(backlog) : backlog'[i] = backlog[i]
    BY <1>1, <2>1
  <2>5. \A d \in Conns : d # c => (Waits(d)' <=> Waits(d))
    <3> SUFFICES ASSUME NEW d \in Conns, d # c PROVE Waits(d)' <=> Waits(d)
      OBVIOUS
    <3>1. ASSUME Waits(d) PROVE Waits(d)'
      BY <2>4, <3>1 DEF Waits
    <3>2. ASSUME Waits(d)' PROVE Waits(d)
      <4>1. PICK i \in 1 .. Len(backlog') : backlog'[i] = d
        BY <3>2 DEF Waits
      <4>2. i \in 1 .. Len(backlog)
        BY <2>4, <4>1
      <4> QED BY <2>4, <4>1, <4>2 DEF Waits
    <3> QED BY <3>1, <3>2
  <2>6. Waits(c)'
    <3>1. Len(backlog) + 1 \in 1 .. Len(backlog')
      BY <2>4
    <3> QED BY <2>4, <3>1 DEF Waits
  <2>7. Queued(c)'
    <3>1. Asked(c, m)'
      BY <2>3 DEF Asked
    <3> QED BY <1>2, <2>1, <2>2, <2>3, <2>6, <3>1 DEF Queued, NotMade, m
  <2>8. ASSUME NEW d \in Conns, d # c PROVE At(d)'
    <3>1. CachedFrom(d)' = CachedFrom(d)
      BY DEF CachedFrom
    <3> QED BY ZenonT(60), <2>1, <2>2, <2>5, <2>8, <3>1, OtherStays DEF MigrationInv, Lock
  <2>9. Lock'
    BY <2>7, <2>8 DEF Lock, At
  <2>10. Distinct'
    <3>1. \A i \in 1 .. Len(backlog) : backlog[i] # c
      BY <1>2 DEF NotMade, Waits
    <3>2. \A i, j \in 1 .. Len(backlog) : backlog[i] = backlog[j] => i = j
      BY DEF MigrationInv, Distinct
    <3> SUFFICES ASSUME NEW i \in 1 .. Len(backlog'), NEW j \in 1 .. Len(backlog'),
                        backlog'[i] = backlog'[j]
                 PROVE  i = j
      BY DEF Distinct
    <3>3. /\ i \in 1 .. Len(backlog) \/ i = Len(backlog) + 1
          /\ j \in 1 .. Len(backlog) \/ j = Len(backlog) + 1
      BY <2>4
    <3> QED BY <2>4, <3>1, <3>2, <3>3
  <2> QED BY <2>9, <2>10
<1> QED BY <1>3, <1>4

(* The steps in which the process ends. *)
LEMMA ExitingLock ==
    ASSUME MigrationInv, NEW c \in Conns,
           EncodeFails(c) \/ Finish(c) \/ Refused(c) \/ ConnectionFails(c) \/ Crash(c),
           UNCHANGED <<cur, phase, remaining, cache, ended>>
    PROVE  Lock' /\ Distinct'
<1>1. net[c] \in LinkRecord
  BY DEF MigrationInv, SafeInv, TypeInv
<1>2. CASE EncodeFails(c) \/ Finish(c) \/ Refused(c)
  <2>1. /\ net[c].toClient # <<>> /\ cpc[c] \notin {"start", "done"}
        /\ \E how : Exit(c, After(c), how)
    BY ZenonT(60), <1>2 DEF EncodeFails, Finish, Refused, GoesOn, Answered
  <2>2. After(c) \in LinkRecord /\ After(c).st = net[c].st /\ After(c).toDaemon = net[c].toDaemon
    BY ZenonT(60), <1>1, <2>1, LinkTypes, LinkParts DEF After
  <2> QED BY <2>1, <2>2, ExitLock
<1>3. CASE ConnectionFails(c) \/ Crash(c)
  <2>1. cpc[c] \notin {"start", "done"} /\ \E how : Exit(c, net[c], how)
    BY ZenonT(60), <1>3 DEF ConnectionFails, Crash
  <2> QED BY ZenonT(60), <1>1, <2>1, ExitLock
<1> QED BY <1>2, <1>3

LEMMA ResetLock ==
    ASSUME MigrationInv, NEW c \in Conns, Reset(c)
    PROVE  Lock' /\ Distinct'
<1>1. /\ net \in [Conns -> LinkRecord] /\ cpc \in [Conns -> Awaited]
      /\ sent \in [Conns -> Nat]
  BY DEF MigrationInv, SafeInv, TypeInv, ClientTypes
<1>2. /\ net' = [net EXCEPT ![c] = DeadLink] /\ net[c].st # "none"
      /\ UNCHANGED <<backlog, cur, phase, remaining, cache, ended, cpc, sent>>
  BY DEF Reset, handlerVars
<1>3. cpc' = [cpc EXCEPT ![c] = cpc[c]] /\ sent' = [sent EXCEPT ![c] = sent[c]]
  BY <1>1, <1>2
<1>4. net'[c].st = "dead" /\ net'[c].toDaemon = <<>> /\ net'[c].toClient = <<>>
  BY <1>1, <1>2 DEF DeadLink
<1>5. Idle(c)' /\ (Waits(c)' <=> Waits(c))
  BY <1>2, <1>4 DEF Idle, Waits
<1>6. ~NotMade(c)
  <2>1. net[c].st # "none"
    BY ZenonT(60), <1>2
  <2>2. NoLink.st = "none"
    BY DEF NoLink
  <2> QED BY ZenonT(60), <2>1, <2>2 DEF NotMade
<1>7. At(c)'
  BY ZenonT(60), <1>2, <1>4, <1>5, <1>6 DEF MigrationInv, Lock, At, Queued, Served, Over
<1> QED BY ZenonT(60), <1>2, <1>3, <1>7, OneClient

-----------------------------------------------------------------------------
(* The types are kept by the clients. *)
LEMMA ClientKeepsTypes ==
    ASSUME MigrationInv, NEW c \in Conns, ClientStep(c) \/ Crash(c)
    PROVE  net' \in [Conns -> LinkRecord] /\ backlog' \in Seq(Conns) /\ ClientTypes'
<1>1. /\ net \in [Conns -> LinkRecord] /\ backlog \in Seq(Conns)
      /\ cpc \in [Conns -> Awaited] /\ sent \in [Conns -> Nat]
      /\ outcome \in [Conns -> Outcomes] /\ net[c] \in LinkRecord
  BY DEF MigrationInv, SafeInv, TypeInv, ClientTypes
<1>2. net[c].toClient # <<>> => After(c) \in LinkRecord
  BY <1>1, LinkTypes DEF After
<1>3. ASSUME NEW n \in LinkRecord, NEW how \in Outcomes, Exit(c, n, how)
      PROVE  net' \in [Conns -> LinkRecord] /\ backlog' \in Seq(Conns) /\ ClientTypes'
  <2>1. ClientCloses(n) \in LinkRecord
    BY LinkTypes
  <2> QED BY <1>1, <1>3, <2>1 DEF Exit, ClientTypes, Awaited
<1>4. ASSUME NEW m \in Frames, NEW w \in Awaited, SendAndWait(c, After(c), m, w),
             net[c].toClient # <<>>, sent' = sent \/ sent' = [sent EXCEPT ![c] = @ + 1]
      PROVE  net' \in [Conns -> LinkRecord] /\ backlog' \in Seq(Conns) /\ ClientTypes'
  <2>1. ClientWrites(After(c), m) \in LinkRecord
    BY ZenonT(60), <1>2, <1>4, LinkTypes
  <2>2. sent' \in [Conns -> Nat]
    <3>1. CASE sent' = sent
      BY ZenonT(60), <1>1, <3>1
    <3>2. CASE sent' = [sent EXCEPT ![c] = @ + 1]
      <4>1. sent \in [Conns -> Nat] /\ c \in Conns
        BY ZenonT(60), <1>1
      <4> QED BY ONLY <3>2, <4>1
    <3> QED BY ZenonT(60), <1>4, <3>1, <3>2
  <2> QED BY ZenonT(60), <1>1, <1>4, <2>1, <2>2 DEF SendAndWait, ClientTypes
<1>5. CASE Connect(c)
  <2>1. CapabilityRequest(Job[c].seq_len) \in Frames
    BY TotalType
  <2>2. OpenLink(CapabilityRequest(Job[c].seq_len)) \in LinkRecord
    BY <2>1, SeqEmpty DEF OpenLink, LinkRecord, LinkStates
  <2>3. Append(backlog, c) \in Seq(Conns)
    BY <1>1
  <2> QED BY <1>1, <1>5, <2>2, <2>3 DEF Connect, ClientTypes, Awaited
<1>6. CASE StartFails(c)
  BY <1>1, <1>3, <1>6 DEF StartFails, Outcomes
<1>7. CASE EncodeFails(c)
  BY ZenonT(60), <1>2, <1>3, <1>7 DEF EncodeFails, GoesOn, Answered, Outcomes
<1>8. CASE Finish(c)
  BY ZenonT(60), <1>2, <1>3, <1>8 DEF Finish, Answered, Reported, Outcomes
<1>9. CASE Refused(c)
  BY ZenonT(60), <1>2, <1>3, <1>9 DEF Refused, Answered, Reported, Outcomes
<1>10. CASE ConnectionFails(c)
  BY <1>1, <1>3, <1>10 DEF ConnectionFails, Outcomes
<1>11. CASE Crash(c)
  BY <1>1, <1>3, <1>11 DEF Crash, Outcomes
<1>12. CASE SendHeader(c)
  BY ZenonT(60), <1>4, <1>12, TotalType DEF SendHeader, GoesOn, Answered, Awaited
<1>13. CASE SendChunk(c)
  <2>1. /\ GoesOn(c) /\ cpc[c] \in {"headerAck", "chunkAck"} /\ sent[c] < Total(c)
        /\ net[c].toClient # <<>>
    BY ZenonT(60), <1>13 DEF SendChunk, Total, GoesOn, Answered
  <2>2. sent[c] \in 0 .. ChunkCount(HeaderOf(c)) - 1
    <3>1. sent[c] \in Nat /\ Total(c) \in Nat /\ sent[c] < Total(c)
      BY ZenonT(60), <2>1, StreamFacts
    <3>2. sent[c] \in 0 .. Total(c) - 1
      BY ONLY <3>1
    <3> QED BY ZenonT(60), <3>2 DEF Total
  <2>3. NthChunk(c, sent[c]) \in Frames
    BY <2>2, JobAssumption DEF ClientFrames
  <2>4. SendAndWait(c, After(c), NthChunk(c, sent[c]), "chunkAck")
        /\ sent' = [sent EXCEPT ![c] = @ + 1]
    BY <1>13 DEF SendChunk
  <2> QED BY ZenonT(60), <1>4, <2>1, <2>3, <2>4 DEF Awaited
<1>14. CASE SendBinding(c)
  <2>1. AgentGraphBinding(BindingOf(c)) \in Frames
    BY <1>14, JobAssumption DEF SendBinding, ClientFrames
  <2> QED BY ZenonT(60), <1>4, <1>14, <2>1 DEF SendBinding, StreamDone, GoesOn, Answered, Awaited
<1>15. CASE SendCommitRequest(c)
  BY ZenonT(60), <1>4, <1>15, TotalType DEF SendCommitRequest, StreamDone, GoesOn, Answered, Awaited
<1> QED BY <1>5, <1>6, <1>7, <1>8, <1>9, <1>10, <1>11, <1>12, <1>13, <1>14, <1>15
        DEF ClientStep

(* What the client reports when it ends. *)
LEMMA ClientKeepsTruth ==
    ASSUME MigrationInv, NEW c \in Conns, ClientStep(c) \/ Crash(c), UNCHANGED <<cache, ended>>
    PROVE  ManifestTellsTheTruth'
<1>1. outcome \in [Conns -> Outcomes] /\ At(c)
  BY DEF MigrationInv, ClientTypes, Lock
<1>2. \A d : CachedFrom(d)' = CachedFrom(d)
  BY DEF CachedFrom
<1>3. ASSUME NEW n, NEW how, Exit(c, n, how),
             how = "committed" => ended[c] = "committed",
             how = "graph_binding_failed" => ended[c] = "failed" /\ CachedFrom(c) = {}
      PROVE  ManifestTellsTheTruth'
  <2>1. \A d \in Conns : outcome'[d] = IF d = c THEN how ELSE outcome[d]
    BY <1>1, <1>3 DEF Exit
  <2> QED BY ZenonT(60), <1>2, <1>3, <2>1 DEF ManifestTellsTheTruth, MigrationInv
<1>4. ASSUME UNCHANGED outcome PROVE ManifestTellsTheTruth'
  BY <1>2, <1>4 DEF ManifestTellsTheTruth, MigrationInv
<1>5. \A a : Told(c, a) => Answer(c) = a
  BY OneFrame DEF Told, Answer
<1>6. CASE Finish(c)
  <2>1. PICK how : Exit(c, After(c), how) /\ how # "graph_binding_failed"
    BY <1>6 DEF Finish, Reported
  <2>2. cpc[c] = "commitResponse" /\ net[c].toClient # <<>>
    BY <1>6 DEF Finish, Answered
  <2>3. Over(c)
    BY ZenonT(60), <1>1, <2>2 DEF At, NotMade, Queued, Served, Idle, Asked, Told, Answering
  <2>4. ended[c] = "committed"
    BY ZenonT(60), <2>2, <2>3 DEF Over, Idle
  <2> QED BY <1>3, <2>1, <2>4
<1>7. CASE Refused(c)
  <2>1. PICK how : /\ Exit(c, After(c), how) /\ how # "committed"
                   /\ how = "graph_binding_failed" => Answer(c) = AgentGraphBindingAck(FALSE)
    BY ZenonT(60), <1>7 DEF Refused, Reported
  <2>2. net[c].toClient # <<>> /\ cpc[c] \in {"capability", "headerAck", "bindingAck"}
    BY <1>7 DEF Refused, Answered
  <2>3. ASSUME Answer(c) = AgentGraphBindingAck(FALSE)
        PROVE  ended[c] = "failed" /\ CachedFrom(c) = {}
    <3>1. Answer(c).type = "AgentGraphBindingAck" /\ Answer(c).accepted = FALSE
      BY <2>3 DEF AgentGraphBindingAck
    <3>2. ~Served(c)
      <4>1. ASSUME NEW a, Told(c, a), Answering(c, a) PROVE FALSE
        BY <1>5, <3>1, <4>1 DEF Answering, CapabilityResponse, HeaderAck, AgentGraphBindingAck
      <4> QED BY ZenonT(60), <2>2, <4>1 DEF Served, Idle, Asked
    <3>3. Over(c)
      BY ZenonT(60), <1>1, <2>2, <3>2 DEF At, NotMade, NoLink, Queued, Idle, Asked
    <3>4. ~Told(c, CapabilityResponse(FALSE))
      BY <1>5, <3>1 DEF CapabilityResponse
    <3> QED BY ZenonT(60), <2>2, <3>3, <3>4 DEF Over, Idle
  <2> QED BY ZenonT(60), <1>3, <2>1, <2>3
<1>8. CASE EncodeFails(c) \/ StartFails(c) \/ ConnectionFails(c) \/ Crash(c)
  <2>1. \E n : Exit(c, n, "failed") \/ Exit(c, n, "crashed")
    BY ZenonT(60), <1>8 DEF EncodeFails, StartFails, ConnectionFails, Crash
  <2> QED BY <1>3, <2>1
<1>9. CASE \/ Connect(c) \/ SendHeader(c) \/ SendChunk(c) \/ SendBinding(c)
           \/ SendCommitRequest(c)
  <2>1. UNCHANGED outcome
    BY <1>9 DEF Connect, SendHeader, SendChunk, SendBinding, SendCommitRequest, SendAndWait
  <2> QED BY <1>4, <2>1
<1> QED BY <1>6, <1>7, <1>8, <1>9 DEF ClientStep

-----------------------------------------------------------------------------
(* The actions after which the handler has returned, and the others. *)
Returning ==
    \/ ReceiveFails \/ ProtocolViolation \/ AnswerFails \/ RejectCapability
    \/ RejectBinding \/ InjectFails \/ NotACommit \/ VerifyFails
    \/ Commit \/ CommitAnswerFails

LEMMA Returned ==
    ASSUME Returning
    PROVE  \E n : \E how \in Endings \ {"none"} : Return(n, how)
<1> Endings \ {"none"} = {"committed", "rejected", "failed"}
  BY DEF Endings
<1> QED BY ZenonT(60) DEF Returning, ReceiveFails, ProtocolViolation, AnswerFails, RejectCapability,
       RejectBinding, InjectFails, NotACommit, VerifyFails, Commit, CommitAnswerFails, Fail

(* How a step of the daemon ends a connection. *)
LEMMA EndedStep ==
    ASSUME MigrationInv, DaemonNext
    PROVE  /\ \A d \in Conns : ended[d] # "none" => ended'[d] = ended[d]
           /\ \/ UNCHANGED ended
              \/ /\ phase # "accept" /\ phase' = "accept" /\ cur \in Conns
                 /\ ended'[cur] # "none"
<1>1. CASE Returning
  <2>1. phase # "accept"
    BY ZenonT(60), <1>1 DEF Returning, ReceiveFails, ProtocolViolation, AnswerFails, RejectCapability,
         RejectBinding, InjectFails, NotACommit, VerifyFails, Commit, CommitAnswerFails,
         Verified, GoodCapability, GoodHeader, GoodChunk, Binding, Receives,
         MigrationInv, SafeInv, TypeInv
  <2>2. cur \in Conns /\ ended[cur] = "none" /\ ended \in [Conns -> Endings]
    BY <2>1, CurServed DEF Served, MigrationInv, SafeInv, TypeInv, DaemonTypeOK
  <2>3. PICK how \in Endings \ {"none"} : ended' = [ended EXCEPT ![cur] = how] /\ phase' = "accept"
    BY ZenonT(60), <1>1, Returned DEF Return
  <2> QED BY <2>1, <2>2, <2>3
<1>2. CASE \/ Accept \/ AcceptCapability \/ AcceptHeader \/ AcceptChunk \/ AcceptBinding
           \/ StartInjection \/ InjectBlock
  BY ZenonT(60), <1>2 DEF Accept, AcceptCapability, AcceptHeader, AcceptChunk, AcceptBinding,
              StartInjection, InjectBlock, AnswerAndWait
<1> QED BY <1>1, <1>2 DEF DaemonNext, Returning

(* What a step of the daemon does to the cache. *)
LEMMA CacheStep ==
    ASSUME MigrationInv, DaemonNext
    PROVE  \/ UNCHANGED cache
           \/ /\ phase = "inject"
              /\ \A g \in Hashes : cache'[g] = cache[g] \/ cache'[g] = accumulated[g]
              /\ \A d : d # cur => CachedFrom(d)' \subseteq CachedFrom(d)
<1>1. CASE InjectBlock \/ InjectFails
  <2>1. PICK h \in staged : cache' = cache \/ cache' = [cache EXCEPT ![h] = accumulated[h]]
    BY <1>1 DEF InjectBlock, InjectFails
  <2>2. phase = "inject" /\ cache \in Blocks /\ SafeInv
    BY <1>1 DEF InjectBlock, InjectFails, MigrationInv, SafeInv, TypeInv, DaemonTypeOK
  <2>3. \A g \in Hashes : cache'[g] = cache[g] \/ cache'[g] = accumulated[g]
    BY <2>1, <2>2 DEF Blocks
  <2> QED BY <2>1, <2>2, <2>3, CachedOfOthers
<1>2. CASE ~(InjectBlock \/ InjectFails)
  BY ZenonT(60), <1>2 DEF DaemonNext, Accept, ReceiveFails, ProtocolViolation, AnswerFails, Fail,
     RejectCapability, AcceptCapability, AcceptHeader, AcceptChunk, RejectBinding,
     AcceptBinding, StartInjection, NotACommit, VerifyFails, Commit, CommitAnswerFails,
     AnswerAndWait
<1> QED BY ZenonT(60), <1>1, <1>2

(* A handler that injects has validated what its client sent. *)
LEMMA InjectingAdmissible ==
    ASSUME MigrationInv, phase = "inject"
    PROVE  /\ cur \in Conns /\ Admissible(cur)
           /\ \A h \in Hashes : accumulated[h] # {} =>
                 Whole(accumulated[h], cur, Job[cur].n_layers)
           /\ \A h \in Hashes : \A t \in accumulated[h] : t.from = cur
<1>1. cur \in Conns
  BY CurServed
<1>2. header = HeaderOf(cur) /\ Job[cur].seq_len <= MaxContext /\ Bound(cur)
      /\ ValidateHeader(header)
  BY ZenonT(60) DEF MigrationInv, Handling, SafeInv, Counting, Early
<1>3. Admissible(cur)
  BY <1>2 DEF Admissible, Bound
<1>4. header.n_layers = Job[cur].n_layers
  BY <1>2 DEF HeaderOf
<1>5. \A h \in Hashes : accumulated[h] # {} => Whole(accumulated[h], cur, header.n_layers)
  BY StagedIsWhole DEF MigrationInv, SafeInv, Streamed
<1>6. \A h \in Hashes : \A t \in accumulated[h] : t.from = cur
  BY DEF MigrationInv, SafeInv, Staging, StagedFrom
<1> QED BY <1>1, <1>3, <1>4, <1>5, <1>6

LEMMA DaemonKeepsCache ==
    ASSUME MigrationInv, DaemonNext, UNCHANGED outcome
    PROVE  Cached' /\ CachedBlocksHaveAllLayers' /\ ManifestTellsTheTruth'
<1>1. cache \in Blocks
  BY DEF MigrationInv, SafeInv, TypeInv, DaemonTypeOK
<1>2. ASSUME phase = "inject"
      PROVE  \/ UNCHANGED <<cur, phase>>
             \/ cur \in Conns /\ ended'[cur] # "none"
  <2>1. InjectBlock => UNCHANGED <<cur, phase>>
    BY DEF InjectBlock
  <2>2. ~(Accept \/ AcceptCapability \/ AcceptHeader \/ AcceptChunk \/ AcceptBinding
          \/ StartInjection)
    BY ZenonT(60), <1>2 DEF Accept, AcceptCapability, AcceptHeader, AcceptChunk, AcceptBinding,
        StartInjection, GoodCapability, GoodHeader, GoodChunk, Binding, Receives,
        MigrationInv, SafeInv, TypeInv
  <2>3. Returning => cur \in Conns /\ ended'[cur] # "none"
    <3>1. cur \in Conns /\ ended \in [Conns -> Endings]
      BY <1>2, CurServed DEF MigrationInv, SafeInv, TypeInv, DaemonTypeOK
    <3> QED BY ZenonT(60), <3>1, Returned DEF Return
  <2> QED BY <2>1, <2>2, <2>3 DEF DaemonNext, Returning
<1>3. Cached'
  <2> SUFFICES ASSUME NEW h \in Hashes, NEW t \in cache'[h]
               PROVE  /\ Admissible(t.from)
                      /\ ended'[t.from] # "none" \/ (t.from = cur' /\ phase' = "inject")
    BY ZenonT(60) DEF Cached, Admissible
  <2>1. CASE t \in cache[h]
    <3>1. t.from \in Conns
      BY <1>1, <2>1 DEF Blocks, Tensor
    <3>2. Admissible(t.from) /\ (ended[t.from] # "none" \/ (t.from = cur /\ phase = "inject"))
      BY <2>1 DEF MigrationInv, Cached
    <3> QED BY <1>2, <3>1, <3>2, EndedStep
  <2>2. CASE t \notin cache[h]
    <3>1. phase = "inject" /\ t \in accumulated[h]
      BY <2>2, CacheStep
    <3>2. t.from = cur /\ Admissible(cur)
      BY <3>1, InjectingAdmissible
    <3> QED BY <1>2, <3>1, <3>2
  <2> QED BY <2>1, <2>2
<1>4. CachedBlocksHaveAllLayers'
  <2> SUFFICES ASSUME NEW h \in Hashes, cache'[h] # {}
               PROVE  \E c \in Conns : Whole(cache'[h], c, Job[c].n_layers)
    BY DEF CachedBlocksHaveAllLayers, Whole
  <2>1. CASE cache'[h] = cache[h]
    BY <2>1 DEF MigrationInv, CachedBlocksHaveAllLayers
  <2>2. CASE cache'[h] # cache[h]
    <3>1. phase = "inject" /\ cache'[h] = accumulated[h]
      BY <2>2, CacheStep
    <3> QED BY <3>1, InjectingAdmissible
  <2> QED BY <2>1, <2>2
<1>5. ManifestTellsTheTruth'
  <2>1. \A d \in Conns : ended[d] # "none" => CachedFrom(d)' \subseteq CachedFrom(d)
    <3>1. UNCHANGED cache => \A d : CachedFrom(d)' = CachedFrom(d)
      BY DEF CachedFrom
    <3>2. phase = "inject" => ended[cur] = "none"
      BY CurServed DEF Served
    <3> QED BY <3>1, <3>2, CacheStep
  <2>2. \A d \in Conns : ended[d] # "none" => ended'[d] = ended[d]
    BY EndedStep
  <2> QED BY <2>1, <2>2 DEF MigrationInv, ManifestTellsTheTruth
<1> QED BY <1>3, <1>4, <1>5

LEMMA DaemonKeepsHandling ==
    ASSUME MigrationInv, DaemonNext, UNCHANGED <<cpc, sent>>
    PROVE  Handling'
<1>1. CASE Accept \/ Returning
  <2>1. phase' \in {"accept", "capability"}
    BY ZenonT(60), <1>1, Returned DEF Accept, Return
  <2> QED BY <2>1 DEF Handling, Early
<1>2. CASE AcceptCapability \/ AcceptHeader \/ AcceptChunk \/ AcceptBinding
  <2>1. phase \in {"capability", "header", "chunks", "streamed"} /\ net[cur].toDaemon # <<>>
    BY ZenonT(60), <1>2 DEF AcceptCapability, AcceptHeader, AcceptChunk, AcceptBinding, GoodCapability,
         GoodHeader, GoodChunk, Binding, Receives
  <2>2. Expected(cur, Msg)
    BY <2>1, ReadsExpected
  <2>3. UNCHANGED cur
    BY ZenonT(60), <1>2 DEF AcceptCapability, AcceptHeader, AcceptChunk, AcceptBinding, AnswerAndWait
  <2>4. CASE AcceptCapability
    <3>1. phase = "capability" /\ Msg.seq_len <= MaxContext /\ phase' = "header"
      BY ZenonT(60), <2>4 DEF AcceptCapability, GoodCapability, Receives, AnswerAndWait
    <3>2. Msg.seq_len = Job[cur].seq_len
      <4>1. Msg = CapabilityRequest(Job[cur].seq_len)
        BY ZenonT(60), <2>2, <3>1 DEF Expected
      <4> QED BY <4>1 DEF CapabilityRequest
    <3> QED BY <2>3, <3>1, <3>2 DEF Handling, Early
  <2>5. CASE AcceptHeader
    <3>1. phase = "header" /\ header' = Msg.header /\ phase' \in {"chunks", "streamed"}
      BY <2>5 DEF AcceptHeader, GoodHeader, Receives, AnswerAndWait
    <3>2. Msg.header = HeaderOf(cur)
      BY <2>2, <3>1 DEF Expected, HeaderEnvelope
    <3>3. HeaderOf(cur)' = HeaderOf(cur)
      BY <2>3
    <3> QED BY <2>3, <3>1, <3>2, <3>3 DEF MigrationInv, Handling
  <2>6. CASE AcceptChunk
    <3>1. phase = "chunks" /\ UNCHANGED header /\ phase' \in {"chunks", "streamed"}
      BY ZenonT(60), <2>6 DEF AcceptChunk, GoodChunk, Receives, AnswerAndWait
    <3>2. HeaderOf(cur)' = HeaderOf(cur)
      BY <2>3
    <3> QED BY <2>3, <3>1, <3>2 DEF MigrationInv, Handling, Early
  <2>7. CASE AcceptBinding
    <3>1. /\ phase = "streamed" /\ UNCHANGED header /\ phase' = "bound"
          /\ Msg.type = "AgentGraphBinding"
          /\ ValidateAgentGraphBinding(Msg.binding, header)
      BY <2>7 DEF AcceptBinding, Binding, Receives, AnswerAndWait
    <3>2. Msg.binding = BindingOf(cur)
      BY <2>2, <3>1 DEF Expected, AgentGraphBinding, CommitRequest
    <3>3. header = HeaderOf(cur) /\ Job[cur].seq_len <= MaxContext
      BY <3>1 DEF MigrationInv, Handling, Early
    <3>4. Bound(cur)
      BY <3>1, <3>2, <3>3 DEF Bound
    <3>5. HeaderOf(cur)' = HeaderOf(cur) /\ Bound(cur)' = Bound(cur)
      BY <2>3
    <3> QED BY <2>3, <3>1, <3>3, <3>4, <3>5 DEF Handling, Early
  <2> QED BY <1>2, <2>4, <2>5, <2>6, <2>7
<1>3. CASE StartInjection \/ InjectBlock
  <2>1. /\ phase \in {"streamed", "bound", "inject"} /\ phase' = "inject"
        /\ UNCHANGED <<cur, header>>
    BY <1>3 DEF StartInjection, InjectBlock, Receives
  <2>2. Bound(cur)
    BY <1>3, StartLock DEF InjectBlock, MigrationInv, Handling
  <2>3. HeaderOf(cur)' = HeaderOf(cur) /\ Bound(cur)' = Bound(cur)
    BY <2>1
  <2> QED BY <2>1, <2>2, <2>3 DEF MigrationInv, Handling, Early
<1> QED BY <1>1, <1>2, <1>3 DEF DaemonNext, Returning

(* A step that leaves the daemon's own variables alone. *)
LEMMA DaemonRests ==
    ASSUME MigrationInv, net' \in [Conns -> LinkRecord], backlog' \in Seq(Conns),
           UNCHANGED <<cur, handlerVars, cache, orchestrator, ended>>
    PROVE  SafeInv' /\ Handling' /\ Cached' /\ CachedBlocksHaveAllLayers'
<1>1. UNCHANGED <<cur, phase, header, received, remaining, accumulated, staged, isCommit>>
  BY DEF handlerVars
<1>2. TypeInv'
  BY <1>1 DEF MigrationInv, SafeInv, TypeInv, DaemonTypeOK
<1>3. SafeInv'
  BY <1>1, <1>2, SameData DEF MigrationInv
<1>4. HeaderOf(cur)' = HeaderOf(cur) /\ Bound(cur)' = Bound(cur)
  BY <1>1
<1>5. Handling'
  BY <1>1, <1>4 DEF MigrationInv, Handling
<1>6. Cached'
  BY ZenonT(60), <1>1 DEF MigrationInv, Cached, Admissible
<1>7. CachedBlocksHaveAllLayers'
  BY DEF MigrationInv, CachedBlocksHaveAllLayers
<1> QED BY <1>3, <1>5, <1>6, <1>7

LEMMA MigrationStep == MigrationInv /\ [Next]_vars => MigrationInv'
<1> SUFFICES ASSUME MigrationInv, [Next]_vars PROVE MigrationInv'
  OBVIOUS
<1>1. CASE DaemonActs
  <2>1. DaemonNext /\ UNCHANGED <<cpc, sent, outcome>>
    BY <1>1 DEF DaemonActs
  <2>2. SafeInv'
    BY <2>1, SafeStep DEF MigrationInv, PeerNext
  <2>3. ClientTypes'
    BY <2>1 DEF MigrationInv, ClientTypes
  <2> QED BY <2>1, <2>2, <2>3, DaemonLock, DaemonKeepsHandling, DaemonKeepsCache
          DEF MigrationInv
<1>2. ASSUME NEW c \in Conns, ClientActs(c) \/ ClientCrashes(c) PROVE MigrationInv'
  <2>1. /\ ClientStep(c) \/ Crash(c)
        /\ UNCHANGED <<cur, handlerVars, cache, orchestrator, ended>>
    BY <1>2 DEF ClientActs, ClientCrashes
  <2>2. UNCHANGED <<cur, phase, remaining, cache, ended>>
    BY <2>1 DEF handlerVars
  <2>3. Lock' /\ Distinct'
    <3>1. CASE Connect(c) \/ StartFails(c)
      BY <2>2, <3>1, StartingLock
    <3>2. CASE SendHeader(c) \/ SendChunk(c) \/ SendBinding(c) \/ SendCommitRequest(c)
      BY <2>2, <3>2, SendingLock
    <3>3. CASE EncodeFails(c) \/ Finish(c) \/ Refused(c) \/ ConnectionFails(c) \/ Crash(c)
      BY <2>2, <3>3, ExitingLock
    <3> QED BY <2>1, <3>1, <3>2, <3>3 DEF ClientStep
  <2> QED BY <2>1, <2>3, ClientKeepsTypes, ClientKeepsTruth, DaemonRests DEF MigrationInv
<1>3. ASSUME NEW c \in Conns, Reset(c) PROVE MigrationInv'
  <2>1. /\ UNCHANGED <<cur, handlerVars, cache, orchestrator, ended>>
        /\ UNCHANGED <<backlog, cpc, sent, outcome>>
        /\ net' = [net EXCEPT ![c] = DeadLink]
    BY <1>3 DEF Reset
  <2>2. DeadLink \in LinkRecord
    BY SeqEmpty DEF DeadLink, LinkRecord, LinkStates
  <2>3. net' \in [Conns -> LinkRecord] /\ backlog' \in Seq(Conns)
    BY <2>1, <2>2 DEF MigrationInv, SafeInv, TypeInv
  <2>4. ClientTypes'
    BY <2>1 DEF MigrationInv, ClientTypes
  <2>5. ManifestTellsTheTruth'
    BY <2>1 DEF MigrationInv, ManifestTellsTheTruth, CachedFrom
  <2> QED BY <1>3, <2>1, <2>3, <2>4, <2>5, ResetLock, DaemonRests DEF MigrationInv
<1>4. CASE UNCHANGED vars
  <2>1. /\ UNCHANGED <<cur, handlerVars, cache, orchestrator, ended>>
        /\ UNCHANGED <<net, backlog, cpc, sent, outcome>>
        /\ UNCHANGED <<phase, remaining>>
    BY <1>4 DEF vars, daemonVars, handlerVars
  <2>2. net' \in [Conns -> LinkRecord] /\ backlog' \in Seq(Conns) /\ ClientTypes'
    BY <2>1 DEF MigrationInv, SafeInv, TypeInv, ClientTypes
  <2>3. ManifestTellsTheTruth' /\ Distinct'
    BY <2>1 DEF MigrationInv, ManifestTellsTheTruth, CachedFrom, Distinct
  <2>4. ASSUME NEW d \in Conns PROVE At(d)'
    <3>1. CachedFrom(d)' = CachedFrom(d) /\ (Waits(d)' <=> Waits(d))
      BY <2>1 DEF CachedFrom, Waits
    <3> QED BY ZenonT(60), <2>1, <3>1, OtherStays DEF MigrationInv, Lock
  <2>5. Lock'
    BY <2>4 DEF Lock
  <2> QED BY <2>1, <2>2, <2>3, <2>5, DaemonRests DEF MigrationInv
<1> QED BY <1>1, <1>2, <1>3, <1>4 DEF Next, Terminated

LEMMA MigrationInit == Init => MigrationInv
<1> SUFFICES ASSUME Init PROVE MigrationInv
  OBVIOUS
<1>1. SafeInv
  BY InitSafe DEF Init
<1>2. ClientTypes
  BY DEF Init, ClientInit, ClientTypes, Awaited, Outcomes
<1>3. /\ backlog = <<>> /\ Len(backlog) = 0 /\ cur = NoConn /\ phase = "accept"
      /\ cache = NoBlocks
  BY DEF Init, DaemonInit
<1>4. Distinct
  BY <1>3 DEF Distinct
<1>5. Lock
  <2> SUFFICES ASSUME NEW c \in Conns PROVE NotMade(c)
    BY DEF Lock, At
  <2> QED BY <1>3, DaemonAssumption DEF Init, DaemonInit, ClientInit, NotMade, Waits
<1>6. Handling
  BY <1>3 DEF Handling, Early
<1>7. \A h \in Hashes : cache[h] = {}
  BY <1>3 DEF NoBlocks
<1>8. Cached /\ CachedBlocksHaveAllLayers
  BY <1>7 DEF Cached, CachedBlocksHaveAllLayers
<1>9. ManifestTellsTheTruth
  BY DEF Init, ClientInit, ManifestTellsTheTruth
<1> QED BY <1>1, <1>2, <1>4, <1>5, <1>6, <1>8, <1>9 DEF MigrationInv

-----------------------------------------------------------------------------
(* The invariant, and what follows from it at once. *)
THEOREM MigrationInvariant == Spec => []MigrationInv
BY MigrationInit, MigrationStep, PTL DEF Spec

(* Every variable of the composition keeps its type. *)
THEOREM MigrationTypes == Spec => []TypeOK
<1>1. MigrationInv => TypeOK
  <2> SUFFICES ASSUME MigrationInv PROVE TypeOK
    OBVIOUS
  <2>1. net \in [Conns -> LinkRecord] /\ backlog \in Seq(Conns) /\ DaemonTypeOK
    BY DEF MigrationInv, SafeInv, TypeInv
  <2>2. \A c \in Conns : net[c].st \in LinkStates
    BY <2>1 DEF LinkRecord
  <2> QED BY <2>1, <2>2 DEF MigrationInv, ClientTypes, TypeOK
<1> QED BY <1>1, MigrationInvariant, PTL

(* run_sim_migrate's manifest says "committed" only of a migration that    *)
(* the daemon committed, and "graph_binding_failed" only of one that left  *)
(* nothing behind, whatever fails and whoever shares the daemon.           *)
THEOREM TruthfulManifest == Spec => []ManifestTellsTheTruth
<1>1. MigrationInv => ManifestTellsTheTruth
  BY DEF MigrationInv
<1> QED BY <1>1, MigrationInvariant, PTL

(* No tensor of a migration that the daemon's validation refuses is ever   *)
(* in the target cache.                                                    *)
THEOREM RefusedStaysOut == Spec => []RefusedIsNeverActive
<1>1. MigrationInv => RefusedIsNeverActive
  <2> SUFFICES ASSUME MigrationInv, NEW c \in Conns, NEW t \in CachedFrom(c)
               PROVE  Admissible(c)
    BY DEF RefusedIsNeverActive
  <2>1. t.from = c /\ \E h \in Hashes : t \in cache[h]
    BY DEF CachedFrom
  <2> QED BY ZenonT(60), <2>1 DEF MigrationInv, Cached
<1> QED BY <1>1, MigrationInvariant, PTL

(* A cached block has all the layers of the client that sent it. *)
THEOREM BlocksHaveAllLayers == Spec => []CachedBlocksHaveAllLayers
<1>1. MigrationInv => CachedBlocksHaveAllLayers
  BY DEF MigrationInv
<1> QED BY <1>1, MigrationInvariant, PTL

(* On an open connection whose client waits there is exactly one frame in  *)
(* flight, or the daemon is injecting: the two never wait for each other.  *)
THEOREM InLockStep == Spec => []LockStep
<1>1. MigrationInv => LockStep
  <2> SUFFICES ASSUME MigrationInv, NEW c \in Conns, net[c].st = "open", cpc[c] # "done"
               PROVE  Len(net[c].toDaemon) + Len(net[c].toClient)
                         = (IF cur = c /\ phase = "inject" THEN 0 ELSE 1)
    BY ZenonT(60) DEF LockStep
  <2>1. /\ Len(<<>>) = 0
        /\ \A m : Asked(c, m) \/ Told(c, m)
                     => Len(net[c].toDaemon) + Len(net[c].toClient) = 1
    <3>1. Len(<<>>) = 0
      OBVIOUS
    <3>2. ASSUME NEW m, Asked(c, m) \/ Told(c, m)
          PROVE  Len(net[c].toDaemon) + Len(net[c].toClient) = 1
      <4>1. Len(<<m>>) = 1
        BY OneFrame
      <4>2. CASE Asked(c, m)
        BY <3>1, <4>1, <4>2 DEF Asked
      <4>3. CASE Told(c, m)
        BY <3>1, <4>1, <4>3 DEF Told
      <4> QED BY ZenonT(60), <3>2, <4>2, <4>3
    <3> QED BY ZenonT(60), <3>1, <3>2
  <2>2. Queued(c) \/ Served(c)
    <3>1. ~NotMade(c)
      BY DEF NotMade, NoLink
    <3>2. ~Over(c)
      BY DEF Over
    <3> QED BY <3>1, <3>2 DEF MigrationInv, Lock, At
  <2>3. CASE Queued(c)
    BY ZenonT(60), <2>1, <2>3 DEF Queued
  <2>4. CASE Served(c)
    <3>1. CASE Idle(c) /\ phase = "inject"
      <4>1. cur = c /\ net[c].toDaemon = <<>> /\ net[c].toClient = <<>>
        BY ZenonT(60), <2>4, <3>1 DEF Idle, Served
      <4> QED BY <2>1, <3>1, <4>1
    <3>2. CASE \E m : Asked(c, m) /\ Expected(c, m)
      <4>1. phase # "inject"
        BY <3>2 DEF Expected
      <4> QED BY ZenonT(60), <2>1, <3>2, <4>1
    <3>3. CASE \E a : Told(c, a) /\ Answering(c, a)
      <4>1. phase # "inject"
        BY ZenonT(60), <3>3 DEF Answering
      <4> QED BY ZenonT(60), <2>1, <3>3, <4>1
    <3> QED BY ZenonT(60), <2>4, <3>1, <3>2, <3>3 DEF Served
  <2> QED BY ZenonT(60), <2>2, <2>3, <2>4
<1> QED BY <1>1, MigrationInvariant, PTL

(* A commit installs every layer of every block of the client's header,    *)
(* for clients whose model has a layer.                                    *)
THEOREM CommitsInstallAll ==
    ASSUME \A c \in Conns : Job[c].n_layers > 0
    PROVE  Spec => CommitInstallsAll
<1> DEFINE Installs ==
        \A c \in Conns :
          ended[c] = "none" /\ ended'[c] = "committed" =>
              \A i \in DOMAIN HeaderOf(c).block_hashes :
                  Whole(cache'[HeaderOf(c).block_hashes[i]], c, Job[c].n_layers)
<1>1. MigrationInv /\ [Next]_vars => [Installs]_vars
  <2> SUFFICES ASSUME MigrationInv, Next, NEW c \in Conns,
                      ended[c] = "none", ended'[c] = "committed",
                      NEW i \in DOMAIN HeaderOf(c).block_hashes
               PROVE  Whole(cache'[HeaderOf(c).block_hashes[i]], c, Job[c].n_layers)
    OBVIOUS
  <2>1. DaemonNext
    BY DEF Next, DaemonActs, ClientActs, ClientCrashes, Reset, Terminated, vars, daemonVars
  <2>2. Commit /\ c = cur
    BY <2>1, OnlyCommitCommits DEF MigrationInv, PeerNext
  <2>3. phase = "inject" /\ staged = {} /\ UNCHANGED cache
    BY <2>2 DEF Commit, Verified
  <2>4. header = HeaderOf(c)
    BY <2>2, <2>3 DEF MigrationInv, Handling, Early
  <2>5. header.n_layers = Job[c].n_layers
    BY <2>4 DEF HeaderOf
  <2>6. Whole(cache[header.block_hashes[i]], cur, header.n_layers)
    BY ZenonT(60), <2>3, <2>4, <2>5, InjectedAll DEF MigrationInv
  <2> QED BY <2>2, <2>3, <2>4, <2>5, <2>6
<1> QED BY <1>1, MigrationInvariant, PTL DEF Spec, CommitInstallsAll

-----------------------------------------------------------------------------
(***************************************************************************)
(* Clients and daemon together follow the orchestrator's state machine     *)
(* (MigrationStateMachine), for clients whose model has a layer: every     *)
(* step is a transition of at most one migration that transition_to        *)
(* allows.  It rests on the invariant of MigrationProofs.                  *)
(***************************************************************************)

(* StateOf by cases. *)
StateIs(c) ==
    /\ ended[c] = "committed" => StateOf(c) = "Committed"
    /\ ended[c] \in {"failed", "rejected"} => StateOf(c) = "RolledBack"
    /\ ended[c] = "none" /\ cur = c =>
          /\ phase \in {"capability", "header"} => StateOf(c) = "Extracting"
          /\ phase \in {"chunks", "streamed", "bound"} => StateOf(c) = "Streaming"
          /\ phase = "inject" /\ staged # {} => StateOf(c) = "Injecting"
          /\ phase = "inject" /\ staged = {} => StateOf(c) = "Validating"
    /\ ended[c] = "none" /\ cur # c =>
          /\ cpc[c] = "start" => StateOf(c) = "Idle"
          /\ cpc[c] # "start" /\ net[c].st = "none" => StateOf(c) = "RolledBack"
          /\ cpc[c] # "start" /\ net[c].st # "none" => StateOf(c) = "Extracting"

LEMMA StateCases ==
    ASSUME NEW c
    PROVE  StateIs(c)
<1>1. ended[c] = "committed"
         => StateOf(c) = "Committed"
  BY ZenonT(60) DEF StateOf
<1>2. ended[c] \in {"failed", "rejected"}
         => StateOf(c) = "RolledBack"
  BY ZenonT(60) DEF StateOf
<1>3. ended[c] = "none" /\ cur = c /\ phase \in {"capability", "header"}
         => StateOf(c) = "Extracting"
  BY ZenonT(60) DEF StateOf
<1>4. ended[c] = "none" /\ cur = c /\ phase \in {"chunks", "streamed", "bound"}
         => StateOf(c) = "Streaming"
  BY ZenonT(60) DEF StateOf
<1>5. ended[c] = "none" /\ cur = c /\ phase = "inject" /\ staged # {}
         => StateOf(c) = "Injecting"
  BY ZenonT(60) DEF StateOf
<1>6. ended[c] = "none" /\ cur = c /\ phase = "inject" /\ staged = {}
         => StateOf(c) = "Validating"
  BY ZenonT(60) DEF StateOf
<1>7. ended[c] = "none" /\ cur # c /\ cpc[c] = "start"
         => StateOf(c) = "Idle"
  BY ZenonT(60) DEF StateOf
<1>8. ended[c] = "none" /\ cur # c /\ cpc[c] # "start" /\ net[c].st = "none"
         => StateOf(c) = "RolledBack"
  BY ZenonT(60) DEF StateOf
<1>9. ended[c] = "none" /\ cur # c /\ cpc[c] # "start" /\ net[c].st # "none"
         => StateOf(c) = "Extracting"
  BY ZenonT(60) DEF StateOf
<1> QED BY <1>1, <1>2, <1>3, <1>4, <1>5, <1>6, <1>7, <1>8, <1>9 DEF StateIs

LEMMA StateCasesNext ==
    ASSUME NEW c
    PROVE  StateIs(c)'
<1>1. ended'[c] = "committed"
         => StateOf(c)' = "Committed"
  BY ZenonT(60) DEF StateOf
<1>2. ended'[c] \in {"failed", "rejected"}
         => StateOf(c)' = "RolledBack"
  BY ZenonT(60) DEF StateOf
<1>3. ended'[c] = "none" /\ cur' = c /\ phase' \in {"capability", "header"}
         => StateOf(c)' = "Extracting"
  BY ZenonT(60) DEF StateOf
<1>4. ended'[c] = "none" /\ cur' = c /\ phase' \in {"chunks", "streamed", "bound"}
         => StateOf(c)' = "Streaming"
  BY ZenonT(60) DEF StateOf
<1>5. ended'[c] = "none" /\ cur' = c /\ phase' = "inject" /\ staged' # {}
         => StateOf(c)' = "Injecting"
  BY ZenonT(60) DEF StateOf
<1>6. ended'[c] = "none" /\ cur' = c /\ phase' = "inject" /\ staged' = {}
         => StateOf(c)' = "Validating"
  BY ZenonT(60) DEF StateOf
<1>7. ended'[c] = "none" /\ cur' # c /\ cpc'[c] = "start"
         => StateOf(c)' = "Idle"
  BY ZenonT(60) DEF StateOf
<1>8. ended'[c] = "none" /\ cur' # c /\ cpc'[c] # "start" /\ net'[c].st = "none"
         => StateOf(c)' = "RolledBack"
  BY ZenonT(60) DEF StateOf
<1>9. ended'[c] = "none" /\ cur' # c /\ cpc'[c] # "start" /\ net'[c].st # "none"
         => StateOf(c)' = "Extracting"
  BY ZenonT(60) DEF StateOf
<1> QED BY <1>1, <1>2, <1>3, <1>4, <1>5, <1>6, <1>7, <1>8, <1>9 DEF StateIs

-----------------------------------------------------------------------------
(* A step that leaves alone what the state of d depends on. *)
LEMMA SameState ==
    ASSUME NEW d, ended[d] \in Endings, phase \in Phases,
           d = cur => phase # "accept",
           ended'[d] = ended[d], cpc'[d] = "start" <=> cpc[d] = "start",
           net'[d].st = "none" <=> net[d].st = "none",
           (d # cur /\ d # cur') \/ UNCHANGED <<cur, phase, staged>>
    PROVE  StateOf(d)' = StateOf(d)
<1>1. StateIs(d) /\ StateIs(d)'
  BY StateCases, StateCasesNext
<1> QED BY <1>1 DEF StateIs, Endings, Phases

(* One migration takes a transition, the others stay. *)
Moves(c, from, to) ==
    /\ StateOf(c) = from /\ StateOf(c)' = to
    /\ \A d \in Conns : d # c => StateOf(d)' = StateOf(d)
Stays == \A d \in Conns : StateOf(d)' = StateOf(d)

LEMMA MachineMoves ==
    ASSUME NEW c \in Conns, NEW from, NEW to \in Machine!MigrationState, Moves(c, from, to),
           Machine!ValidTransition(from, to)
    PROVE  Machine!MachineNext
<1>1. States[c] = from
  BY DEF Moves, States
<1>2. States' = [States EXCEPT ![c] = to]
  BY DEF Moves, States
<1>3. Machine!TransitionTo(c, to)
  BY <1>1, <1>2 DEF Machine!TransitionTo
<1> QED BY <1>3 DEF Machine!MachineNext

LEMMA MachineStays ==
    ASSUME Stays
    PROVE  UNCHANGED States
BY DEF Stays, States

Types ==
    /\ net \in [Conns -> LinkRecord] /\ ended \in [Conns -> Endings] /\ phase \in Phases
    /\ cpc \in [Conns -> Awaited]
    /\ cur \in Conns => phase # "accept"

LEMMA TypesOfInv ==
    ASSUME MigrationInv
    PROVE  Types
BY DaemonAssumption
   DEF MigrationInv, SafeInv, TypeInv, DaemonTypeOK, ClientTypes, Types

(* The handler returns: the migration is rolled back, or committed after   *)
(* the validation.                                                         *)
LEMMA ReturnMoves ==
    ASSUME MigrationInv, phase # "accept", UNCHANGED cpc,
           NEW n, NEW how \in Endings \ {"none"}, Return(n, how),
           how = "committed" => phase = "inject" /\ staged = {}
    PROVE  Machine!MachineNext
<1>1. Types /\ cur \in Conns /\ ended[cur] = "none"
  BY TypesOfInv, CurServed DEF Served
<1>2. /\ net' = [net EXCEPT ![cur] = DaemonCloses(n)]
      /\ ended' = [ended EXCEPT ![cur] = how]
      /\ cur' = NoConn
  BY DEF Return
<1>3. ended'[cur] = how /\ \A d \in Conns : d # cur => ended'[d] = ended[d] /\ net'[d] = net[d]
  BY <1>1, <1>2 DEF Types
<1>4. PICK c \in Conns : c = cur
  BY <1>1
<1>5. StateIs(c) /\ StateIs(c)'
  BY StateCases, StateCasesNext
<1>6. ASSUME NEW d \in Conns, d # c PROVE StateOf(d)' = StateOf(d)
  <2>1. d # cur /\ d # cur' /\ ended[d] \in Endings /\ phase \in Phases
    BY <1>1, <1>2, <1>4, <1>6, DaemonAssumption DEF Types
  <2> QED BY <1>3, <2>1, SameState
<1>7. PICK from : from = StateOf(c)
  OBVIOUS
<1>8. from \in {"Extracting", "Streaming", "Injecting", "Validating"}
      /\ (phase = "inject" /\ staged = {} => from = "Validating")
  BY <1>1, <1>4, <1>5, <1>7 DEF StateIs, Types, Phases
<1>9. CASE how = "committed"
  <2>1. StateOf(c)' = "Committed"
    BY <1>3, <1>4, <1>5, <1>9 DEF StateIs
  <2>2. Moves(c, from, "Committed")
    BY <1>6, <1>7, <2>1 DEF Moves
  <2>3. Machine!ValidTransition(from, "Committed") /\ "Committed" \in Machine!MigrationState
    BY <1>8, <1>9 DEF Machine!ValidTransition, Machine!MigrationState
  <2> QED BY <2>2, <2>3, MachineMoves
<1>10. CASE how # "committed"
  <2>1. StateOf(c)' = "RolledBack"
    BY <1>3, <1>4, <1>5, <1>10 DEF StateIs, Endings
  <2>2. Moves(c, from, "RolledBack")
    BY <1>6, <1>7, <2>1 DEF Moves
  <2>3. Machine!ValidTransition(from, "RolledBack") /\ "RolledBack" \in Machine!MigrationState
    BY <1>8 DEF Machine!ValidTransition, Machine!MigrationState, Machine!Terminal
  <2> QED BY <2>2, <2>3, MachineMoves
<1> QED BY <1>9, <1>10

(* The daemon goes on with the connection it serves. *)
LEMMA ServeMoves ==
    ASSUME MigrationInv, phase # "accept", UNCHANGED <<cpc, cur, ended>>,
           \A d \in Conns : d # cur => net'[d] = net[d],
           NEW from \in Machine!MigrationState, NEW to \in Machine!MigrationState,
           StateIs(cur) => StateOf(cur) = from, StateIs(cur)' => StateOf(cur)' = to,
           from = to \/ Machine!ValidTransition(from, to)
    PROVE  Machine!MachineNext \/ UNCHANGED States
<1>1. Types /\ cur \in Conns
  BY TypesOfInv, CurServed
<1>2. PICK c \in Conns : c = cur
  BY <1>1
<1>3. StateIs(c) /\ StateIs(c)'
  BY StateCases, StateCasesNext
<1>4. StateIs(cur) /\ StateIs(cur)'
  BY <1>2, <1>3
<1>5. StateOf(c) = from /\ StateOf(c)' = to
  BY <1>2, <1>4
<1>6. ASSUME NEW d \in Conns, d # c PROVE StateOf(d)' = StateOf(d)
  <2>1. d # cur /\ d # cur' /\ ended[d] \in Endings /\ phase \in Phases
    BY <1>1, <1>2, <1>6 DEF Types
  <2> QED BY <2>1, SameState
<1>7. CASE from = to
  <2>1. Stays
    BY <1>5, <1>6, <1>7 DEF Stays
  <2> QED BY <2>1, MachineStays
<1>8. CASE Machine!ValidTransition(from, to)
  <2>1. Moves(c, from, to)
    BY <1>5, <1>6 DEF Moves
  <2> QED BY <1>8, <2>1, MachineMoves
<1> QED BY <1>7, <1>8

(* With a layer and a token to migrate there is a block to inject. *)
LEMMA SomethingStaged ==
    ASSUME MigrationInv, phase \in {"streamed", "bound"}, Job[cur].n_layers > 0
    PROVE  {h \in Hashes : accumulated[h] # {}} # {}
<1>1. header = HeaderOf(cur) /\ ValidateHeader(header) /\ header \in Header
  BY DEF MigrationInv, Handling, SafeInv, Counting, Early, TypeInv, DaemonTypeOK
<1>2. header.n_layers > 0
  BY <1>1 DEF HeaderOf
<1>3. /\ header.seq_len \in Nat /\ header.seq_len > 0
      /\ header.block_size \in Nat /\ header.block_size > 0
      /\ Len(header.block_hashes) = (header.seq_len + header.block_size - 1) \div header.block_size
      /\ header.block_hashes \in Seq(Hashes)
  BY <1>1 DEF Header, ValidateHeader, DivCeil
<1>4. \A a, b \in Nat : a > 0 /\ b > 0 => (a + b - 1) \div b > 0
  OBVIOUS
<1>5. 1 \in DOMAIN header.block_hashes
  <2>1. Len(header.block_hashes) > 0
    BY <1>3, <1>4
  <2>2. Len(header.block_hashes) \in Nat
        /\ DOMAIN header.block_hashes = 1 .. Len(header.block_hashes)
    BY <1>3, SeqLen
  <2> QED BY <2>1, <2>2
<1>6. header.block_hashes[1] \in Hashes /\ accumulated[header.block_hashes[1]] # {}
  BY <1>2, <1>5, StagedIsWhole DEF MigrationInv, SafeInv, Streamed
<1> QED BY <1>6

LEMMA DaemonMoves ==
    ASSUME MigrationInv, DaemonNext, UNCHANGED cpc,
           \A c \in Conns : Job[c].n_layers > 0
    PROVE  Machine!MachineNext \/ UNCHANGED States
<1>1. Types
  BY TypesOfInv
<1>2. CASE Returning
  <2>1. phase # "accept"
    BY <1>2 DEF Returning, ReceiveFails, ProtocolViolation, AnswerFails, RejectCapability,
         RejectBinding, InjectFails, NotACommit, VerifyFails, Commit, CommitAnswerFails,
         Verified, GoodCapability, GoodHeader, GoodChunk, Binding, Receives,
         MigrationInv, SafeInv, TypeInv
  <2>2. CASE Commit
    <3>1. \E n : Return(n, "committed")
      BY <2>2 DEF Commit
    <3>2. phase = "inject" /\ staged = {}
      BY <2>2 DEF Commit, Verified
    <3> QED BY <2>1, <3>1, <3>2, ReturnMoves DEF Endings
  <2>3. CASE ~Commit
    <3>1. \E n : Return(n, "failed") \/ Return(n, "rejected")
      BY <1>2, <2>3 DEF Returning, ReceiveFails, ProtocolViolation, AnswerFails,
         RejectCapability, RejectBinding, InjectFails, NotACommit, VerifyFails,
         CommitAnswerFails, Fail
    <3> QED BY <2>1, <3>1, ReturnMoves DEF Endings
  <2> QED BY <2>2, <2>3
<1>3. CASE Accept
  <2>1. /\ cur = NoConn /\ cur' = Head(backlog) /\ phase' = "capability"
        /\ UNCHANGED <<net, ended>> /\ backlog \in Seq(Conns) /\ backlog # <<>>
    BY <1>3 DEF Accept, MigrationInv, SafeInv, TypeInv
  <2>2. PICK c \in Conns : c = Head(backlog) /\ Waits(c)
    <3>1. Head(backlog) \in Conns /\ Head(backlog) = backlog[1] /\ 1 \in 1 .. Len(backlog)
      BY <2>1
    <3> QED BY <3>1 DEF Waits
  <2>3. Queued(c)
    BY <2>2 DEF MigrationInv, Lock, At, NotMade, Served, Over
  <2>4. StateIs(c) /\ StateIs(c)'
    BY StateCases, StateCasesNext
  <2>5. StateOf(c) = "Extracting" /\ StateOf(c)' = "Extracting"
    BY <2>1, <2>2, <2>3, <2>4 DEF StateIs, Queued
  <2>6. ASSUME NEW d \in Conns, d # c PROVE StateOf(d)' = StateOf(d)
    <3>1. d # cur /\ d # cur' /\ ended[d] \in Endings /\ phase \in Phases
      BY <1>1, <2>1, <2>2, <2>6, DaemonAssumption DEF Types
    <3> QED BY <2>1, <3>1, SameState
  <2>7. Stays
    BY <2>5, <2>6 DEF Stays
  <2> QED BY <2>7, MachineStays
<1>4. ASSUME phase # "accept", NEW n, net' = [net EXCEPT ![cur] = n]
      PROVE  \A d \in Conns : d # cur => net'[d] = net[d]
  BY <1>1, <1>4 DEF Types
<1>5. phase # "accept" => ended[cur] = "none"
  BY CurServed DEF Served
<1> DEFINE E == "Extracting"  T == "Streaming"  I == "Injecting"  V == "Validating"
<1>6. /\ {E, T, I, V} \subseteq Machine!MigrationState
      /\ Machine!ValidTransition(E, T) /\ Machine!ValidTransition(T, I)
      /\ Machine!ValidTransition(I, V)
  BY DEF Machine!MigrationState, Machine!ValidTransition
<1>7. CASE AcceptCapability
  <2>1. /\ phase = "capability" /\ phase' = "header" /\ UNCHANGED <<cur, ended>>
        /\ \E n : net' = [net EXCEPT ![cur] = n]
    BY <1>7 DEF AcceptCapability, GoodCapability, Receives, AnswerAndWait
  <2>2. (StateIs(cur) => StateOf(cur) = E) /\ (StateIs(cur)' => StateOf(cur)' = E)
    BY <1>5, <2>1 DEF StateIs
  <2> QED BY <1>4, <1>6, <2>1, <2>2, ServeMoves
<1>8. CASE AcceptHeader
  <2>1. /\ phase = "header" /\ phase' \in {"chunks", "streamed"} /\ UNCHANGED <<cur, ended>>
        /\ \E n : net' = [net EXCEPT ![cur] = n]
    BY <1>8 DEF AcceptHeader, GoodHeader, Receives, AnswerAndWait
  <2>2. (StateIs(cur) => StateOf(cur) = E) /\ (StateIs(cur)' => StateOf(cur)' = T)
    BY <1>5, <2>1 DEF StateIs
  <2> QED BY <1>4, <1>6, <2>1, <2>2, ServeMoves
<1>9. CASE AcceptChunk \/ AcceptBinding
  <2>1. /\ phase \in {"chunks", "streamed"} /\ phase' \in {"chunks", "streamed", "bound"}
        /\ UNCHANGED <<cur, ended>>
        /\ \E n : net' = [net EXCEPT ![cur] = n]
    BY <1>9 DEF AcceptChunk, AcceptBinding, GoodChunk, Binding, Receives, AnswerAndWait
  <2>2. (StateIs(cur) => StateOf(cur) = T) /\ (StateIs(cur)' => StateOf(cur)' = T)
    BY <1>5, <2>1 DEF StateIs
  <2> QED BY <1>4, <1>6, <2>1, <2>2, ServeMoves
<1>10. CASE StartInjection
  <2>1. /\ phase \in {"streamed", "bound"} /\ phase' = "inject" /\ UNCHANGED <<cur, ended>>
        /\ \E n : net' = [net EXCEPT ![cur] = n]
        /\ staged' = {h \in Hashes : accumulated[h] # {}}
    BY <1>10 DEF StartInjection, Receives
  <2>2. staged' # {}
    BY <2>1, SomethingStaged, CurServed
  <2>3. (StateIs(cur) => StateOf(cur) = T) /\ (StateIs(cur)' => StateOf(cur)' = I)
    BY <1>5, <2>1, <2>2 DEF StateIs
  <2> QED BY <1>4, <1>6, <2>1, <2>3, ServeMoves
<1>11. CASE InjectBlock
  <2>1. /\ phase = "inject" /\ staged # {} /\ UNCHANGED <<cur, ended, phase, net>>
    BY <1>11 DEF InjectBlock
  <2>2. CASE staged' # {}
    <3>1. (StateIs(cur) => StateOf(cur) = I) /\ (StateIs(cur)' => StateOf(cur)' = I)
      BY <1>5, <2>1, <2>2 DEF StateIs
    <3> QED BY <1>6, <2>1, <3>1, ServeMoves
  <2>3. CASE staged' = {}
    <3>1. (StateIs(cur) => StateOf(cur) = I) /\ (StateIs(cur)' => StateOf(cur)' = V)
      BY <1>5, <2>1, <2>3 DEF StateIs
    <3> QED BY <1>6, <2>1, <3>1, ServeMoves
  <2> QED BY <2>2, <2>3
<1> QED BY <1>2, <1>3, <1>7, <1>8, <1>9, <1>10, <1>11 DEF DaemonNext, Returning

(* The client's own steps: the begin of a migration, or nothing. *)
LEMMA ClientMoves ==
    ASSUME MigrationInv, NEW c \in Conns, ClientStep(c) \/ Crash(c) \/ Reset(c),
           UNCHANGED <<cur, phase, staged, ended>>
    PROVE  Machine!MachineNext \/ UNCHANGED States
<1>1. Types
  BY TypesOfInv
<1>2. PICK n, w : net' = [net EXCEPT ![c] = n] /\ cpc' = [cpc EXCEPT ![c] = w]
  <2>1. \E n : net' = [net EXCEPT ![c] = n]
    BY DEF ClientStep, Connect, StartFails, SendHeader, SendChunk, EncodeFails, SendBinding,
       SendCommitRequest, Finish, Refused, ConnectionFails, Crash, Reset, Exit, SendAndWait
  <2>2. ClientStep(c) \/ Crash(c) => \E w : cpc' = [cpc EXCEPT ![c] = w]
    BY DEF ClientStep, Connect, StartFails, SendHeader, SendChunk, EncodeFails, SendBinding,
       SendCommitRequest, Finish, Refused, ConnectionFails, Crash, Exit, SendAndWait
  <2>3. Reset(c) => cpc' = [cpc EXCEPT ![c] = cpc[c]]
    BY <1>1 DEF Reset, Types
  <2> QED BY <2>1, <2>2, <2>3
<1>3. \A d \in Conns : d # c => net'[d] = net[d] /\ cpc'[d] = cpc[d]
  BY <1>1, <1>2 DEF Types
<1>4. ASSUME NEW d \in Conns, d # c PROVE StateOf(d)' = StateOf(d)
  BY <1>1, <1>3, <1>4, SameState DEF Types
<1>5. CASE cpc[c] = "start" /\ ~Reset(c)
  <2>1. NotMade(c)
    BY <1>5 DEF MigrationInv, Lock, At, Queued, Served, Over
  <2>2. StateIs(c) /\ StateIs(c)'
    BY StateCases, StateCasesNext
  <2>3. Connect(c) \/ StartFails(c)
    BY <1>5 DEF ClientStep, SendHeader, SendChunk, EncodeFails, SendBinding, StreamDone,
       SendCommitRequest, Finish, Answered, Refused, ConnectionFails, Crash
  <2>4. StateOf(c) = "Idle"
    BY <1>5, <2>1, <2>2 DEF StateIs, NotMade
  <2>5. CASE Connect(c)
    <3>1. net'[c].st = "open" /\ cpc'[c] = "capability"
      BY <1>1, <2>5 DEF Connect, OpenLink, Types
    <3>2. StateOf(c)' = "Extracting"
      BY <2>1, <2>2, <3>1 DEF StateIs, NotMade
    <3>3. Moves(c, "Idle", "Extracting")
      BY <1>4, <2>4, <3>2 DEF Moves
    <3>4. Machine!ValidTransition("Idle", "Extracting")
          /\ "Extracting" \in Machine!MigrationState
      BY DEF Machine!ValidTransition, Machine!MigrationState
    <3> QED BY <3>3, <3>4, MachineMoves
  <2>6. CASE StartFails(c)
    <3>1. net'[c] = net[c] /\ cpc'[c] = "done"
      BY <1>1, <1>5, <2>6 DEF StartFails, Exit, Types
    <3>2. StateOf(c)' = "RolledBack"
      BY <2>1, <2>2, <3>1 DEF StateIs, NotMade, NoLink
    <3>3. Moves(c, "Idle", "RolledBack")
      BY <1>4, <2>4, <3>2 DEF Moves
    <3>4. Machine!ValidTransition("Idle", "RolledBack")
          /\ "RolledBack" \in Machine!MigrationState
      BY DEF Machine!ValidTransition, Machine!MigrationState, Machine!Terminal
    <3> QED BY <3>3, <3>4, MachineMoves
  <2> QED BY <2>3, <2>5, <2>6
<1>6. CASE cpc[c] # "start" \/ Reset(c)
  <2>1. net[c].st # "none" /\ cpc[c] # "start"
    <3>1. CASE Reset(c)
      <4>1. net[c].st # "none"
        BY <3>1 DEF Reset
      <4>2. ~NotMade(c)
        BY <4>1 DEF NotMade, NoLink
      <4> QED BY <4>1, <4>2 DEF MigrationInv, Lock, At, Queued, Served, Over
    <3>2. CASE ~Reset(c)
      <4>1. cpc[c] \notin {"start", "done"}
        BY <1>6, <3>2 DEF ClientStep, Connect, StartFails, SendHeader, SendChunk, EncodeFails,
           SendBinding, SendCommitRequest, StreamDone, Finish, Refused, ConnectionFails,
           Crash, GoesOn, Answered
      <4> QED BY <4>1 DEF MigrationInv, Lock, At, NotMade, Queued, Served, Over
    <3> QED BY <3>1, <3>2
  <2>2. net'[c].st # "none" /\ cpc'[c] # "start"
    <3>1. net[c] \in LinkRecord
      BY <1>1 DEF Types
    <3>2. ASSUME NEW m \in LinkRecord, NEW how, Exit(c, m, how)
          PROVE  net'[c].st # "none" /\ cpc'[c] # "start"
      <4>1. net'[c] = ClientCloses(m) /\ cpc'[c] = "done"
        BY <1>1, <2>1, <3>2 DEF Exit, Types
      <4> QED BY <4>1, CloseParts
    <3>3. net[c].toClient # <<>> => After(c) \in LinkRecord /\ After(c).st = net[c].st
      BY <3>1, LinkTypes, LinkParts DEF After
    <3>4. ASSUME NEW m, NEW u, SendAndWait(c, After(c), m, u), u # "start",
                 net[c].toClient # <<>>
          PROVE  net'[c].st # "none" /\ cpc'[c] # "start"
      <4>1. net'[c] = ClientWrites(After(c), m) /\ cpc'[c] = u
        BY <1>1, <3>4 DEF SendAndWait, Types
      <4>2. ClientWrites(After(c), m).st = After(c).st
        BY <3>3, <3>4, LinkParts
      <4> QED BY <2>1, <3>3, <3>4, <4>1, <4>2
    <3>5. CASE Reset(c)
      BY <1>1, <2>1, <3>5 DEF Reset, DeadLink, Types
    <3>6. CASE EncodeFails(c) \/ Finish(c) \/ Refused(c)
      <4>1. net[c].toClient # <<>> /\ \E how : Exit(c, After(c), how)
        BY <3>6 DEF EncodeFails, Finish, Refused, GoesOn, Answered
      <4> QED BY <3>2, <3>3, <4>1
    <3>7. CASE ConnectionFails(c) \/ Crash(c)
      BY <3>1, <3>2, <3>7 DEF ConnectionFails, Crash
    <3>8. CASE SendHeader(c) \/ SendChunk(c) \/ SendBinding(c) \/ SendCommitRequest(c)
      <4>1. net[c].toClient # <<>>
        BY <3>8 DEF SendHeader, SendChunk, SendBinding, SendCommitRequest, StreamDone,
           GoesOn, Answered
      <4>2. \E m : \E u \in {"headerAck", "chunkAck", "bindingAck", "commitResponse"} :
               SendAndWait(c, After(c), m, u)
        BY <3>8 DEF SendHeader, SendChunk, SendBinding, SendCommitRequest
      <4> QED BY <3>4, <4>1, <4>2
    <3>9. ~Connect(c) /\ ~StartFails(c)
      BY <2>1 DEF Connect, StartFails
    <3> QED BY <3>5, <3>6, <3>7, <3>8, <3>9 DEF ClientStep
  <2>3. StateOf(c)' = StateOf(c)
    BY <1>1, <2>1, <2>2, SameState DEF Types
  <2>4. Stays
    BY <1>4, <2>3 DEF Stays
  <2> QED BY <2>4, MachineStays
<1> QED BY <1>5, <1>6

(* Clients and daemon together implement the state machine of              *)
(* crates/orchestrator/src/state.rs, though neither of them uses it.  (A   *)
(* header of no layers would go from Streaming to Validating: the loop     *)
(* over the staged blocks has nothing to visit.)                           *)
THEOREM FollowsStateMachine ==
    ASSUME \A c \in Conns : Job[c].n_layers > 0
    PROVE  Spec => ImplementsStateMachine
<1>1. Init => Machine!MachineInit
  <2> SUFFICES ASSUME Init, NEW c \in Conns PROVE StateOf(c) = "Idle"
    BY DEF Machine!MachineInit, States
  <2>1. StateIs(c)
    BY StateCases
  <2> QED BY <2>1, DaemonAssumption DEF StateIs, Init, DaemonInit, ClientInit
<1>2. MigrationInv /\ [Next]_vars
         => [Machine!MachineNext]_States
  <2> SUFFICES ASSUME MigrationInv, [Next]_vars
               PROVE  Machine!MachineNext \/ UNCHANGED States
    OBVIOUS
  <2>1. CASE DaemonActs
    BY <2>1, DaemonMoves DEF DaemonActs
  <2>2. ASSUME NEW c \in Conns, ClientActs(c) \/ ClientCrashes(c) \/ Reset(c)
        PROVE  Machine!MachineNext \/ UNCHANGED States
    <3>1. /\ ClientStep(c) \/ Crash(c) \/ Reset(c)
          /\ UNCHANGED <<cur, phase, staged, ended>>
      BY <2>2 DEF ClientActs, ClientCrashes, Reset, handlerVars
    <3> QED BY <3>1, ClientMoves
  <2>3. CASE UNCHANGED vars
    <3>1. UNCHANGED <<net, cur, phase, staged, ended, cpc>>
      BY <2>3 DEF vars, daemonVars, handlerVars
    <3>2. ASSUME NEW d \in Conns PROVE StateOf(d)' = StateOf(d)
      BY <3>1, TypesOfInv, SameState DEF Types
    <3> QED BY <3>2, MachineStays DEF Stays
  <2> QED BY <2>1, <2>2, <2>3 DEF Next, Terminated
<1> QED BY <1>1, <1>2, MigrationInvariant, PTL
        DEF Spec, ImplementsStateMachine, Machine!MachineSpec
=============================================================================
