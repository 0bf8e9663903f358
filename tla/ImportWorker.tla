---------------------------- MODULE ImportWorker ----------------------------
(***************************************************************************)
(* The worker beside the target runtime (adapters/vllm_import_worker.py):  *)
(* it polls the import directory, hands every staged payload that has no   *)
(* marker yet to the runtime hook and writes the marker.  Nothing catches  *)
(* an exception in its loop: a file that does not parse, metadata that do  *)
(* not validate or a hook that raises ends the process.                    *)
(***************************************************************************)
EXTENDS Integers

CONSTANTS
  BadSpans,    \* the payloads whose agent graph span metadata do not validate
  HookRaises   \* whether the runtime hook may raise

VARIABLES
  wpc,      \* where the worker is
  todo,     \* the ready descriptors of this pass it has not come to
  marker,   \* hashes with a <hash>.ready.processed.json
  calls     \* calls of the runtime hook per hash: 0, 1, or 2 for more

workerVars == <<wpc, todo, marker, calls>>

WorkerInit(hashes) ==
  /\ wpc = "scan"
  /\ todo = {}
  /\ marker = {}
  /\ calls = [h \in hashes |-> 0]

Dies == wpc' = "dead" /\ UNCHANGED <<todo, marker, calls>>

\* The descriptor the worker is at: a pass takes them in the order of their names.
First == {h \in todo : \A k \in todo : h <= k}

\* run_once: sorted(glob("*.ready.json")), read once per pass.
Scan(descriptors) ==
  /\ wpc = "scan"
  /\ todo' = descriptors
  /\ wpc' = "next"
  /\ UNCHANGED <<marker, calls>>

\* The pass is over; the worker sleeps and scans again.
Sleep ==
  /\ wpc = "next"
  /\ todo = {}
  /\ wpc' = "scan"
  /\ UNCHANGED <<todo, marker, calls>>

Skip ==
  /\ wpc = "next"
  /\ \E h \in First : h \in marker /\ todo' = todo \ {h}
  /\ UNCHANGED <<wpc, marker, calls>>

\* A bug of run_once: the marker of an earlier pass is not looked at.
LoadReadyAgain(ready) ==
  /\ wpc = "next"
  /\ \E h \in First :
       IF ready[h] = "whole" THEN wpc' = "payload" /\ UNCHANGED <<todo, marker, calls>>
                             ELSE Dies

\* _consume_one loads the descriptor ...
LoadReady(ready) ==
  /\ wpc = "next"
  /\ \E h \in First :
       /\ h \notin marker
       /\ IF ready[h] = "whole" THEN wpc' = "payload" /\ UNCHANGED <<todo, marker, calls>>
                                ELSE Dies

\* A bug: the marker is written before the hook is called.
LoadPayloadAndMark(payload) ==
  /\ wpc = "payload"
  /\ \E h \in First :
       /\ marker' = marker \cup {h}
       /\ wpc' = IF payload[h] \in BadSpans \cup {"absent", "torn"} THEN "dead" ELSE "hook"
  /\ UNCHANGED <<todo, calls>>

\* ... then the payload it names, and validates the span metadata.
LoadPayload(payload) ==
  /\ wpc = "payload"
  /\ \E h \in First :
       IF payload[h] \in BadSpans \cup {"absent", "torn"}
         THEN Dies
         ELSE wpc' = "hook" /\ UNCHANGED <<todo, marker, calls>>

\* The hook returns a result, a success or not, or it raises.
CallHook ==
  /\ wpc = "hook"
  /\ \E h \in First : calls' = [calls EXCEPT ![h] = IF @ < 2 THEN @ + 1 ELSE 2]
  /\ wpc' \in IF HookRaises THEN {"mark", "dead"} ELSE {"mark"}
  /\ UNCHANGED <<todo, marker>>

\* A bug: a failed result is not recorded and the worker goes on to the next.
RecordProcessedNever ==
  /\ wpc = "mark"
  /\ \E h \in First : todo' = todo \ {h}
  /\ wpc' = "next"
  /\ UNCHANGED <<marker, calls>>

\* _record_processed: the marker, for a failed result as well.
RecordProcessed ==
  /\ wpc = "mark"
  /\ \E h \in First : marker' = marker \cup {h} /\ todo' = todo \ {h}
  /\ wpc' = "next"
  /\ UNCHANGED calls

WorkerKilled ==
  /\ wpc # "dead"
  /\ Dies

\* The process is started again; what it knew was in the files.
WorkerRestarts ==
  /\ wpc = "dead"
  /\ wpc' = "scan"
  /\ todo' = {}
  /\ UNCHANGED <<marker, calls>>

WorkerStep(descriptors, ready, payload) ==
  \/ Scan(descriptors)
  \/ Sleep
  \/ Skip
  \/ LoadReady(ready)
  \/ LoadPayload(payload)
  \/ CallHook
  \/ RecordProcessed
=============================================================================
