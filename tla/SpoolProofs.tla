---------------------------- MODULE SpoolProofs -----------------------------
(***************************************************************************)
(* The safety of the target's staging path (TargetSpool), for any number   *)
(* of requests and blocks, any deployment and any kills.                   *)
(***************************************************************************)
EXTENDS TargetSpool, TLAPS

(* Most leaves are first-order: Zenon is tried before SMT. *)
USE ZenonT(2), SMTT(30), ZenonT(60)

\* A thread inside _inject has persisted its block; with the directory consumer
\* it goes on only after the file it wrote is there.
Placed(r) ==
  /\ Active(r) => Ask[r].kind = "inject" /\ Ask[r].hash \in persisted
  /\ at[r] = "consume" => hook = "runtime"
  /\ at[r] \in {"payload2", "ready", "ready2"} => payload[Ask[r].hash] # Absent
  /\ at[r] = "ready2" => ready[Ask[r].hash] # Absent
  /\ at[r] = "load" /\ hook = "directory" =>
        payload[Ask[r].hash] # Absent /\ ready[Ask[r].hash] # Absent

Threads == \A r \in Reqs : Placed(r)

\* An acknowledged hash was injected by a thread that got past the hook.
Consumed(h) ==
  \E r \in Reqs : Ask[r].kind = "inject" /\ Ask[r].hash = h /\ loaded[r] # {}

Acknowledged ==
  /\ \A h \in acked : Consumed(h)
  /\ \A r \in Reqs : \A h \in loaded[r] : Consumed(h)

\* The block the worker is at has no marker before the hook is called, and was
\* given to the hook when the marker is written.
Delivery ==
  \A h \in First :
    /\ wpc \in {"payload", "hook"} => h \notin marker
    /\ wpc = "mark" => calls[h] > 0

StagingInv ==
  SpoolTypeOK /\ Threads /\ AckedIsStaged /\ DescriptorHasPayload

SpoolInv ==
  StagingInv /\ Acknowledged /\ VerifiedWasConsumed /\ Delivery /\ MarkedWasDelivered

\* The steps of a thread keep the types.
LEMMA ThreadTypes ==
  ASSUME SpoolTypeOK, NEW r \in Reqs, ThreadStep(r), UNCHANGED workerVars
  PROVE  SpoolTypeOK'
<1> USE AskAssumption DEF SpoolTypeOK, Steps, Goes, Answers, workerVars
<1>1. CASE Refuse(r)
  BY <1>1 DEF Refuse
<1>2. CASE Inject(r)
  <2>1. at' \in [Reqs -> Steps]
    BY <1>2 DEF Inject
  <2>2. persisted' \subseteq Hashes
    <3>1. persisted' = persisted \cup {Ask[r].hash}
      BY <1>2 DEF Inject
    <3>2. persisted \cup {Ask[r].hash} \subseteq Hashes
      OBVIOUS
    <3>3. QED
      BY ONLY <3>1, <3>2
  <2>3. QED
    BY <1>2, <2>1, <2>2 DEF Inject
<1>3. CASE TruncatePayload(r)
  BY <1>3 DEF TruncatePayload
<1>4. CASE WritePayload(r)
  BY <1>4 DEF WritePayload, WriteOver
<1>5. CASE TruncateReady(r)
  BY <1>5 DEF TruncateReady
<1>6. CASE WriteReady(r)
  BY <1>6 DEF WriteReady, WriteOver
<1>7. CASE RuntimeConsumes(r)
  BY <1>7 DEF RuntimeConsumes
<1>8. CASE LoadAcknowledged(r)
  <2>1. at' \in [Reqs -> Steps]
    BY <1>8 DEF LoadAcknowledged
  <2>2. loaded' \in [Reqs -> SUBSET Hashes]
    <3>1. acked \cup {Ask[r].hash} \in SUBSET Hashes
      OBVIOUS
    <3>2. QED
      BY <1>8, <3>1 DEF LoadAcknowledged
  <2>3. QED
    BY <1>8, <2>1, <2>2 DEF LoadAcknowledged
<1>9. CASE TruncateAcknowledged(r)
  BY <1>9 DEF TruncateAcknowledged
<1>10. CASE SaveAcknowledged(r)
  BY <1>10 DEF SaveAcknowledged
<1>11. CASE AnswerInject(r)
  BY <1>11 DEF AnswerInject
<1>12. CASE Verify(r)
  BY <1>12 DEF Verify, HookAnswers
<1>13. CASE ExportReverse(r)
  BY <1>13 DEF ExportReverse, HookAnswers
<1>14. QED
  BY <1>1, <1>2, <1>3, <1>4, <1>5, <1>6, <1>7, <1>8, <1>9, <1>10, <1>11, <1>12, <1>13
  DEF ThreadStep

\* The worker keeps the types.
LEMMA WorkerTypes ==
  ASSUME SpoolTypeOK, UNCHANGED receiverVars,
         WorkerStep(Descriptors, ready, payload) \/ WorkerKilled \/ WorkerRestarts
  PROVE  SpoolTypeOK'
<1> USE DEF SpoolTypeOK, receiverVars, First, Dies
<1>1. CASE Scan(Descriptors)
  BY <1>1 DEF Scan, Descriptors
<1>2. CASE Sleep
  BY <1>2 DEF Sleep
<1>3. CASE Skip
  BY <1>3 DEF Skip
<1>4. CASE LoadReady(ready)
  BY <1>4 DEF LoadReady
<1>5. CASE LoadPayload(payload)
  BY <1>5 DEF LoadPayload
<1>6. CASE CallHook
  BY <1>6 DEF CallHook
<1>7. CASE RecordProcessed
  BY <1>7 DEF RecordProcessed
<1>8. CASE WorkerKilled
  BY <1>8 DEF WorkerKilled
<1>9. CASE WorkerRestarts
  BY <1>9 DEF WorkerRestarts
<1>10. QED
  BY <1>1, <1>2, <1>3, <1>4, <1>5, <1>6, <1>7, <1>8, <1>9 DEF WorkerStep

\* What AckedIsStaged says of one hash.
Staged(h) ==
  /\ h \in persisted
  /\ hook = "directory" => ready[h] # Absent /\ payload[h] # Absent

\* The hashes it speaks of: those in the file, and those in the threads' copies.
LEMMA AckedStaged ==
  AckedIsStaged <=> /\ \A h \in acked : Staged(h)
                    /\ \A r \in Reqs : \A h \in loaded[r] : Staged(h)
BY ZenonT(60) DEF AckedIsStaged, Staged

\* No step of a thread takes a file away: what was staged stays so.
LEMMA StagedStays ==
  ASSUME SpoolTypeOK, NEW r \in Reqs, ThreadStep(r)
  PROVE  /\ hook' = hook /\ persisted \subseteq persisted'
         /\ \A h \in Hashes : payload[h] # Absent => payload'[h] # Absent
         /\ \A h \in Hashes : ready[h] # Absent => ready'[h] # Absent
         /\ \A h \in Hashes : Staged(h) => Staged(h)'
<1>1. /\ hook' = hook /\ persisted \subseteq persisted'
      /\ \A h \in Hashes : payload[h] # Absent => payload'[h] # Absent
      /\ \A h \in Hashes : ready[h] # Absent => ready'[h] # Absent
  <2> USE AskAssumption DEF SpoolTypeOK, Absent, Torn, Whole
  <2>1. CASE TruncatePayload(r)
    BY <2>1 DEF TruncatePayload
  <2>2. CASE WritePayload(r)
    BY <2>2 DEF WritePayload, WriteOver
  <2>3. CASE TruncateReady(r)
    BY <2>3 DEF TruncateReady
  <2>4. CASE WriteReady(r)
    BY <2>4 DEF WriteReady, WriteOver
  <2>5. CASE Inject(r)
    BY <2>5 DEF Inject
  <2>6. CASE UNCHANGED <<hook, persisted, payload, ready>>
    BY <2>6
  <2>7. QED
    BY <2>1, <2>2, <2>3, <2>4, <2>5, <2>6
    DEF ThreadStep, Refuse, RuntimeConsumes, LoadAcknowledged, TruncateAcknowledged,
        SaveAcknowledged, AnswerInject, Verify, ExportReverse
<1>2. QED
  BY <1>1, ZenonT(60) DEF Staged

\* The steps of a thread keep what the others rely on.
LEMMA ThreadOrder ==
  ASSUME SpoolTypeOK, Threads, NEW r \in Reqs, ThreadStep(r)
  PROVE  Threads'
<1>1. /\ hook' = hook /\ persisted \subseteq persisted'
      /\ \A h \in Hashes : payload[h] # Absent => payload'[h] # Absent
      /\ \A h \in Hashes : ready[h] # Absent => ready'[h] # Absent
  BY StagedStays
<1>2. ASSUME NEW q \in Reqs, q # r
      PROVE  Placed(q)'
  <2>1. at'[q] = at[q]
    BY <1>2
    DEF ThreadStep, Refuse, Inject, TruncatePayload, WritePayload, TruncateReady,
        WriteReady, RuntimeConsumes, LoadAcknowledged, TruncateAcknowledged,
        SaveAcknowledged, AnswerInject, Verify, ExportReverse, Goes, Answers,
        SpoolTypeOK
  <2>2. Placed(q) /\ Ask[q].hash \in Hashes
    BY AskAssumption DEF Threads
  <2>3. QED
    BY <1>1, <2>1, <2>2 DEF Placed, Active
<1>3. Placed(r)'
  <2>1. Placed(r) /\ Ask[r].hash \in Hashes
    BY AskAssumption DEF Threads
  <2> USE <1>1, <2>1, AskAssumption
      DEF Placed, Active, Goes, Answers, SpoolTypeOK, Absent, Torn, Whole
  <2>2. CASE Refuse(r)
    BY <2>2 DEF Refuse
  <2>3. CASE Inject(r)
    BY <2>3 DEF Inject
  <2>4. CASE TruncatePayload(r)
    BY <2>4 DEF TruncatePayload
  <2>5. CASE WritePayload(r)
    BY <2>5 DEF WritePayload
  <2>6. CASE TruncateReady(r)
    BY <2>6 DEF TruncateReady
  <2>7. CASE WriteReady(r)
    BY <2>7 DEF WriteReady
  <2>8. CASE RuntimeConsumes(r)
    BY <2>8 DEF RuntimeConsumes
  <2>9. CASE LoadAcknowledged(r)
    BY <2>9 DEF LoadAcknowledged
  <2>10. CASE TruncateAcknowledged(r)
    BY <2>10 DEF TruncateAcknowledged
  <2>11. CASE SaveAcknowledged(r)
    BY <2>11 DEF SaveAcknowledged
  <2>12. CASE AnswerInject(r)
    BY <2>12 DEF AnswerInject
  <2>13. CASE Verify(r)
    BY <2>13 DEF Verify
  <2>14. CASE ExportReverse(r)
    BY <2>14 DEF ExportReverse
  <2>15. QED
    BY <2>2, <2>3, <2>4, <2>5, <2>6, <2>7, <2>8, <2>9, <2>10, <2>11, <2>12, <2>13, <2>14
    DEF ThreadStep
<1>4. QED
  BY <1>2, <1>3 DEF Threads

\* A descriptor follows its payload, and an acknowledgement both.
LEMMA ThreadStaging ==
  ASSUME StagingInv, NEW r \in Reqs, ThreadStep(r), UNCHANGED workerVars
  PROVE  StagingInv'
<1>1. SpoolTypeOK'
  BY ThreadTypes DEF StagingInv
<1>2. Threads'
  BY ThreadOrder DEF StagingInv
<1>3. AckedIsStaged'
  <2>1. /\ \A h \in acked : Staged(h)
        /\ \A q \in Reqs : \A h \in loaded[q] : Staged(h)
    BY AckedStaged DEF StagingInv
  <2>2. \A h \in Hashes : Staged(h) => Staged(h)'
    BY StagedStays DEF StagingInv
  <2>3. CASE LoadAcknowledged(r)
    <3>1. Staged(Ask[r].hash)
      BY <2>3, AskAssumption
      DEF LoadAcknowledged, Goes, StagingInv, SpoolTypeOK, Threads, Placed, Active, Staged
    <3>2. /\ acked' = acked
          /\ loaded' = [loaded EXCEPT ![r] = acked \cup {Ask[r].hash}]
      BY <2>3 DEF LoadAcknowledged
    <3>3. /\ \A h \in acked' : Staged(h)'
          /\ \A q \in Reqs : \A h \in loaded'[q] : Staged(h)'
      BY <2>1, <2>2, <3>1, <3>2, AskAssumption DEF StagingInv, SpoolTypeOK
    <3>4. QED
      BY <3>3, ZenonT(60) DEF AckedIsStaged, Staged
  <2>4. CASE loaded' = loaded /\ acked' \in {acked, {}, loaded[r]}
    <3>1. /\ \A h \in acked' : Staged(h)'
          /\ \A q \in Reqs : \A h \in loaded'[q] : Staged(h)'
      BY <2>1, <2>2, <2>4 DEF StagingInv, SpoolTypeOK
    <3>2. QED
      BY <3>1, ZenonT(60) DEF AckedIsStaged, Staged
  <2>5. QED
    BY <2>3, <2>4
    DEF ThreadStep, Refuse, Inject, TruncatePayload, WritePayload, TruncateReady,
        WriteReady, RuntimeConsumes, TruncateAcknowledged, SaveAcknowledged,
        AnswerInject, Verify, ExportReverse
<1>4. DescriptorHasPayload'
  <2>1. \A h \in Hashes : payload[h] # Absent => payload'[h] # Absent
    BY StagedStays DEF StagingInv
  <2> USE AskAssumption DEF StagingInv, SpoolTypeOK, DescriptorHasPayload, Absent
  <2>2. CASE TruncateReady(r)
    BY <2>1, <2>2 DEF TruncateReady, Goes, Threads, Placed
  <2>3. CASE WriteReady(r)
    BY <2>1, <2>3 DEF WriteReady, Goes, Threads, Placed
  <2>4. CASE ready' = ready
    BY <2>1, <2>4
  <2>5. QED
    BY <2>2, <2>3, <2>4
    DEF ThreadStep, Refuse, Inject, TruncatePayload, WritePayload, RuntimeConsumes,
        LoadAcknowledged, TruncateAcknowledged, SaveAcknowledged, AnswerInject,
        Verify, ExportReverse
<1>5. QED
  BY <1>1, <1>2, <1>3, <1>4 DEF StagingInv

\* A thread that got past the hook stays one that did.
LEMMA ConsumedStays ==
  ASSUME SpoolTypeOK, NEW r \in Reqs, ThreadStep(r)
  PROVE  \A h \in Hashes : Consumed(h) => Consumed(h)'
<1>1. CASE LoadAcknowledged(r)
  <2>1. \A q \in Reqs : loaded[q] # {} => loaded'[q] # {}
    BY <1>1 DEF LoadAcknowledged, SpoolTypeOK
  <2>2. QED
    BY <2>1 DEF Consumed
<1>2. CASE loaded' = loaded
  BY <1>2 DEF Consumed
<1>3. QED
  BY <1>1, <1>2
  DEF ThreadStep, Refuse, Inject, TruncatePayload, WritePayload, TruncateReady,
      WriteReady, RuntimeConsumes, TruncateAcknowledged, SaveAcknowledged,
      AnswerInject, Verify, ExportReverse

\* Nothing is acknowledged, and no check passes, but for what a hook accepted.
LEMMA ThreadAcknowledges ==
  ASSUME SpoolTypeOK, Threads, Acknowledged, VerifiedWasConsumed,
         NEW r \in Reqs, ThreadStep(r)
  PROVE  Acknowledged' /\ VerifiedWasConsumed'
<1>1. \A h \in Hashes : Consumed(h) => Consumed(h)'
  BY ConsumedStays
<1>2. Acknowledged'
  <2>1. CASE LoadAcknowledged(r)
    <3>1. Ask[r].kind = "inject" /\ loaded'[r] # {} /\ Ask[r].hash \in Hashes
      BY <2>1, AskAssumption
      DEF LoadAcknowledged, Goes, SpoolTypeOK, Threads, Placed, Active
    <3>2. Consumed(Ask[r].hash)'
      BY <3>1 DEF Consumed
    <3>3. acked' = acked /\ loaded' = [loaded EXCEPT ![r] = acked \cup {Ask[r].hash}]
      BY <2>1 DEF LoadAcknowledged
    <3>4. QED
      BY <1>1, <3>2, <3>3 DEF Acknowledged, SpoolTypeOK
  <2>2. CASE loaded' = loaded /\ acked' \in {acked, {}, loaded[r]}
    BY <1>1, <2>2 DEF Acknowledged, SpoolTypeOK
  <2>3. QED
    BY <2>1, <2>2
    DEF ThreadStep, Refuse, Inject, TruncatePayload, WritePayload, TruncateReady,
        WriteReady, RuntimeConsumes, TruncateAcknowledged, SaveAcknowledged,
        AnswerInject, Verify, ExportReverse
<1>3. VerifiedWasConsumed'
  <2>1. SUFFICES ASSUME NEW v \in Reqs, Ask[v].kind = "verify", reply'[v] = "ok",
                        NEW h \in Ask[v].hashes
                 PROVE  Consumed(h)'
    BY DEF VerifiedWasConsumed, Consumed
  <2>2. h \in Hashes
    BY <2>1, AskAssumption
  <2>3. CASE reply[v] = "ok"
    BY <1>1, <2>1, <2>2, <2>3 DEF VerifiedWasConsumed, Consumed
  <2>4. CASE Verify(r) /\ v = r /\ reply[v] # "ok"
    <3>1. Ask[r].hashes \subseteq acked
      BY <2>1, <2>4 DEF Verify, Answers, SpoolTypeOK
    <3>2. QED
      BY <1>1, <2>1, <2>2, <2>4, <3>1 DEF Acknowledged
  <2>5. reply[v] = "ok" \/ (Verify(r) /\ v = r)
    <3>1. CASE Refuse(r) \/ RuntimeConsumes(r) \/ AnswerInject(r)
      BY <2>1, <3>1
      DEF Refuse, RuntimeConsumes, AnswerInject, Goes, Answers, Threads, Placed, Active,
          SpoolTypeOK
    <3>2. CASE ExportReverse(r) \/ Verify(r)
      BY <2>1, <3>2 DEF ExportReverse, Verify, Answers, SpoolTypeOK
    <3>3. CASE reply' = reply
      BY <2>1, <3>3
    <3>4. QED
      BY <3>1, <3>2, <3>3
      DEF ThreadStep, Inject, TruncatePayload, WritePayload, TruncateReady, WriteReady,
          LoadAcknowledged, TruncateAcknowledged, SaveAcknowledged
  <2>6. QED
    BY <2>3, <2>4, <2>5
<1>4. QED
  BY <1>2, <1>3

\* The worker is at one block at a time.
LEMMA OneFirst ==
  ASSUME SpoolTypeOK, NEW h \in First, NEW k \in First
  PROVE  h = k /\ h \in Hashes
<1>1. h \in Nat /\ k \in Nat /\ h <= k /\ k <= h
  BY AskAssumption DEF SpoolTypeOK, First
<1>2. QED
  BY <1>1 DEF SpoolTypeOK, First

\* A marker comes after the call, and a marked block is not called again.
LEMMA WorkerDelivers ==
  ASSUME SpoolTypeOK, Delivery, MarkedWasDelivered,
         WorkerStep(Descriptors, ready, payload) \/ WorkerKilled \/ WorkerRestarts
  PROVE  /\ Delivery' /\ MarkedWasDelivered'
         /\ \A h \in marker : calls'[h] = calls[h] /\ h \in marker'
<1> USE OneFirst DEF Delivery, MarkedWasDelivered
<1>1. CASE Scan(Descriptors)
  BY <1>1 DEF Scan
<1>2. CASE Sleep
  BY <1>2 DEF Sleep
<1>3. CASE Skip
  BY <1>3 DEF Skip
<1>4. CASE LoadReady(ready)
  BY <1>4 DEF LoadReady, Dies, First
<1>5. CASE LoadPayload(payload)
  BY <1>5 DEF LoadPayload, Dies, First
<1>6. CASE CallHook
  BY <1>6 DEF CallHook, First, SpoolTypeOK
<1>7. CASE RecordProcessed
  BY <1>7 DEF RecordProcessed
<1>8. CASE WorkerKilled
  BY <1>8 DEF WorkerKilled, Dies
<1>9. CASE WorkerRestarts
  BY <1>9 DEF WorkerRestarts
<1>10. QED
  BY <1>1, <1>2, <1>3, <1>4, <1>5, <1>6, <1>7, <1>8, <1>9 DEF WorkerStep

\* The properties of the files and replies are kept where those do not change.
LEMMA ReceiverKeepsFiles ==
  ASSUME StagingInv, Acknowledged, VerifiedWasConsumed,
         UNCHANGED <<hook, reply, loaded, persisted, acked, payload, ready>>
  PROVE  /\ AckedIsStaged' /\ DescriptorHasPayload' /\ Acknowledged'
         /\ VerifiedWasConsumed'
<1>1. AckedIsStaged' /\ DescriptorHasPayload'
  BY DEF StagingInv, AckedIsStaged, DescriptorHasPayload
<1>2. \A h : Consumed(h)' <=> Consumed(h)
  BY DEF Consumed
<1>3. Acknowledged'
  BY <1>2 DEF Acknowledged
<1>4. VerifiedWasConsumed'
  BY DEF VerifiedWasConsumed
<1>5. QED
  BY <1>1, <1>3, <1>4

\* A kill of the receiver only ends its threads.
LEMMA KilledStaging ==
  ASSUME SpoolInv, ReceiverKilled, UNCHANGED workerVars
  PROVE  SpoolInv'
<1>1. SpoolTypeOK' /\ Threads'
  BY DEF SpoolInv, StagingInv, ReceiverKilled, SpoolTypeOK, Threads, Placed, Active, Steps,
         workerVars
<1>2. UNCHANGED <<hook, reply, loaded, persisted, acked, payload, ready>>
  BY DEF ReceiverKilled
<1>3. /\ AckedIsStaged' /\ DescriptorHasPayload' /\ Acknowledged'
      /\ VerifiedWasConsumed'
  BY <1>2, ReceiverKeepsFiles DEF SpoolInv
<1>4. Delivery' /\ MarkedWasDelivered'
  BY DEF SpoolInv, Delivery, MarkedWasDelivered, First, workerVars
<1>5. QED
  BY <1>1, <1>3, <1>4 DEF SpoolInv, StagingInv

\* What the receiver's properties speak of is the receiver's alone.
LEMMA WorkerLeavesReceiver ==
  ASSUME SpoolInv, UNCHANGED receiverVars
  PROVE  /\ Threads' /\ AckedIsStaged' /\ DescriptorHasPayload' /\ Acknowledged'
         /\ VerifiedWasConsumed'
<1>1. UNCHANGED <<hook, at, reply, loaded, persisted, acked, payload, ready>>
  BY DEF receiverVars
<1>2. Threads'
  BY <1>1 DEF SpoolInv, StagingInv, Threads, Placed, Active
<1>3. QED
  BY <1>1, <1>2, ReceiverKeepsFiles DEF SpoolInv

\* A block with a marker is not called again and keeps it: a step of the system.
FinalStep == \A h \in marker : calls'[h] = calls[h] /\ h \in marker'

\* Every step of the two processes, and every kill and restart, preserves the
\* inductive invariant, and none undoes a marker.
LEMMA StepPreserves ==
  ASSUME SpoolInv, [Next]_vars
  PROVE  SpoolInv' /\ FinalStep
<1>1. ASSUME NEW r \in Reqs, ThreadStep(r), UNCHANGED workerVars
      PROVE  SpoolInv' /\ FinalStep
  <2>1. StagingInv' /\ Acknowledged' /\ VerifiedWasConsumed'
    BY <1>1, ThreadStaging, ThreadAcknowledges DEF SpoolInv, StagingInv
  <2>2. Delivery' /\ MarkedWasDelivered' /\ FinalStep
    BY <1>1 DEF SpoolInv, Delivery, MarkedWasDelivered, FinalStep, First, workerVars
  <2>3. QED
    BY <2>1, <2>2 DEF SpoolInv
<1>2. ASSUME WorkerStep(Descriptors, ready, payload) \/ WorkerKilled \/ WorkerRestarts,
             UNCHANGED receiverVars
      PROVE  SpoolInv' /\ FinalStep
  <2>1. SpoolTypeOK'
    BY <1>2, WorkerTypes DEF SpoolInv, StagingInv
  <2>2. /\ Threads' /\ AckedIsStaged' /\ DescriptorHasPayload' /\ Acknowledged'
        /\ VerifiedWasConsumed'
    BY <1>2, WorkerLeavesReceiver
  <2>3. Delivery' /\ MarkedWasDelivered' /\ FinalStep
    BY <1>2, WorkerDelivers DEF SpoolInv, StagingInv, FinalStep
  <2>4. QED
    BY <2>1, <2>2, <2>3 DEF SpoolInv, StagingInv
<1>3. CASE ReceiverKilled /\ UNCHANGED workerVars
  BY <1>3, KilledStaging DEF FinalStep, workerVars
<1>4. CASE UNCHANGED vars
  <2>1. UNCHANGED receiverVars /\ UNCHANGED workerVars
    BY <1>4 DEF vars
  <2>2. /\ Threads' /\ AckedIsStaged' /\ DescriptorHasPayload' /\ Acknowledged'
        /\ VerifiedWasConsumed'
    BY <2>1, WorkerLeavesReceiver
  <2>3. SpoolTypeOK' /\ Delivery' /\ MarkedWasDelivered' /\ FinalStep
    BY <2>1
    DEF SpoolInv, StagingInv, SpoolTypeOK, Delivery, MarkedWasDelivered, FinalStep,
        First, workerVars, receiverVars
  <2>4. QED
    BY <2>2, <2>3 DEF SpoolInv, StagingInv
<1>5. QED
  BY <1>1, <1>2, <1>3, <1>4 DEF Next, ReceiverActs, WorkerActs, Crashes, Restarts

\* Nothing is staged, acknowledged or marked at the start.
LEMMA InitInv == Init => SpoolInv
<1>1. SUFFICES ASSUME Init PROVE SpoolInv
  OBVIOUS
<1> USE <1>1 DEF Init, ReceiverInit, WorkerInit
<1>2. SpoolTypeOK
  BY DEF SpoolTypeOK, Steps, Absent
<1>3. Threads /\ DescriptorHasPayload /\ Delivery /\ MarkedWasDelivered
  BY AskAssumption
  DEF Threads, Placed, Active, DescriptorHasPayload, Delivery, MarkedWasDelivered,
      First, Absent
<1>4. AckedIsStaged /\ Acknowledged /\ VerifiedWasConsumed
  BY DEF AckedIsStaged, Acknowledged, VerifiedWasConsumed
<1>5. QED
  BY <1>2, <1>3, <1>4 DEF SpoolInv, StagingInv

\* The inductive invariant holds of every behaviour of the receiver and the worker.
THEOREM SpoolInvariant == Spec => []SpoolInv
<1>1. SpoolInv /\ [Next]_vars => SpoolInv'
  BY StepPreserves
<1>2. QED
  BY InitInv, <1>1, PTL DEF Spec

\* However many requests overlap and whatever is killed, the variables of the
\* receiver and the worker keep their types (all handlers of both programs).
THEOREM SpoolTypes == Spec => []SpoolTypeOK
<1>1. SpoolInv => SpoolTypeOK
  BY DEF SpoolInv, StagingInv
<1>2. QED
  BY SpoolInvariant, <1>1, PTL

\* An acknowledgement is never ahead of the data, for any number of overlapping
\* requests (_inject persists and runs the hook before it touches acked.json).
THEOREM AcknowledgedIsStaged == Spec => []AckedIsStaged
<1>1. SpoolInv => AckedIsStaged
  BY DEF SpoolInv, StagingInv
<1>2. QED
  BY SpoolInvariant, <1>1, PTL

\* A continuation check that succeeds names only blocks a hook accepted (_verify).
THEOREM VerifiedConsumed == Spec => []VerifiedWasConsumed
<1>1. SpoolInv => VerifiedWasConsumed
  BY DEF SpoolInv
<1>2. QED
  BY SpoolInvariant, <1>1, PTL

\* The worker never finds a descriptor without a payload file (consume writes the
\* payload first).
THEOREM PayloadIsThere == Spec => []DescriptorHasPayload
<1>1. SpoolInv => DescriptorHasPayload
  BY DEF SpoolInv, StagingInv
<1>2. QED
  BY SpoolInvariant, <1>1, PTL

\* A marker is written only after a call of the hook (_consume_one).
THEOREM MarkerIsTrue == Spec => []MarkedWasDelivered
<1>1. SpoolInv => MarkedWasDelivered
  BY DEF SpoolInv
<1>2. QED
  BY SpoolInvariant, <1>1, PTL

\* No step gives a marked block to the hook again or takes its marker away
\* (run_once skips it, nothing deletes a marker).
THEOREM MarkerIsFinal == Spec => MarkedIsFinal
<1>1. SpoolInv /\ [Next]_vars
      => [\A h \in marker : calls'[h] = calls[h] /\ h \in marker']_vars
  BY StepPreserves DEF FinalStep
<1>2. QED
  BY SpoolInvariant, <1>1, PTL DEF Spec, MarkedIsFinal
=============================================================================
