------------------------------ MODULE Receiver ------------------------------
(***************************************************************************)
(* The HTTP sidecar in front of the target runtime                         *)
(* (adapters/vllm_runtime_receiver.py) together with the consumer hook it  *)
(* runs in the same thread (adapters/vllm_directory_consumer.py, or a hook *)
(* that reaches a live runtime).                                           *)
(*                                                                         *)
(* ThreadingHTTPServer gives every request a thread of its own, and no     *)
(* lock protects the files, so a step below is one file operation of one   *)
(* thread.  write_text truncates first and writes afterwards: two steps,   *)
(* with Torn (not parseable) in between.  Requests overlap when the client *)
(* of one gave up on it (vllm_http_runtime_hook.py has a timeout) or when  *)
(* two daemons share a receiver.                                           *)
(***************************************************************************)
EXTENDS Integers, FiniteSets

CONSTANTS
  Reqs,     \* the HTTP requests of a behaviour
  Hashes,   \* the block hashes, as their rank in the order of file names
  Ask,      \* [kind, hash, hashes] of each request
  Hooks     \* the consumer hooks that may be configured

ASSUME AskAssumption ==
  /\ Hashes \subseteq Nat
  /\ "absent" \notin Reqs
  /\ Hooks \subseteq {"none", "directory", "runtime"}
  /\ \A r \in Reqs : /\ Ask[r].kind \in {"inject", "verify", "export", "malformed"}
                     /\ Ask[r].hash \in Hashes
                     /\ Ask[r].hashes \subseteq Hashes

VARIABLES
  hook,      \* PERMEANT_VLLM_CONSUMER_HOOK of this deployment
  at,        \* where the thread of each request is
  reply,     \* what the caller was told
  loaded,    \* the acknowledgements a thread read, with its own hash added
  persisted, \* hashes with a <hash>.json in the state directory
  acked,     \* what _load_acknowledged returns for acked.json as it is now
  payload,   \* <hash>.json in the import directory
  ready      \* <hash>.ready.json in the import directory

receiverVars == <<hook, at, reply, loaded, persisted, acked, payload, ready>>

Absent == "absent"
Torn   == "torn"
Whole  == "whole"

Steps == {"new", "consume", "payload", "payload2", "ready", "ready2",
          "load", "truncate", "save", "answer", "done", "killed"}

Active(r) == at[r] \notin {"new", "done", "killed"}

\* What a file holds after its second step, write.  Another thread may have
\* written it since this one truncated it; what is left of a longer text then
\* follows the shorter one, which no longer parses.
WriteOver(old, new) == IF old = Torn THEN {new} ELSE {new, Torn}

ReceiverInit ==
  /\ hook \in Hooks
  /\ at = [r \in Reqs |-> "new"]
  /\ reply = [r \in Reqs |-> "none"]
  /\ loaded = [r \in Reqs |-> {}]
  /\ persisted = {}
  /\ acked = {}
  /\ payload = [h \in Hashes |-> Absent]
  /\ ready = [h \in Hashes |-> Absent]

Goes(r, from, to) ==
  /\ at[r] = from
  /\ at' = [at EXCEPT ![r] = to]

Answers(r, from, answer) ==
  /\ Goes(r, from, "done")
  /\ reply' = [reply EXCEPT ![r] = answer]

\* do_POST: no token, an unknown path, no JSON object or no block hash.
Refuse(r) ==
  /\ Ask[r].kind = "malformed"
  /\ Answers(r, "new", "fail")
  /\ UNCHANGED <<hook, loaded, persisted, acked, payload, ready>>

\* A bug of the order of the two files: the descriptor comes first.
InjectDescriptorFirst(r) ==
  /\ Ask[r].kind = "inject"
  /\ Goes(r, "new", "payload")
  /\ persisted' = persisted \cup {Ask[r].hash}
  /\ ready' = [ready EXCEPT ![Ask[r].hash] = Whole]
  /\ UNCHANGED <<hook, reply, loaded, acked, payload>>

\* A bug of the order in _inject: the block is acknowledged before the hook runs.
InjectAcknowledgesFirst(r) ==
  /\ Ask[r].kind = "inject"
  /\ Goes(r, "new", "payload")
  /\ persisted' = persisted \cup {Ask[r].hash}
  /\ acked' = acked \cup {Ask[r].hash}
  /\ UNCHANGED <<hook, reply, loaded, payload, ready>>

\* _inject up to the hook: the payload is persisted, whatever the hook will say.
Inject(r) ==
  /\ Ask[r].kind = "inject"
  /\ \/ hook = "none" /\ Goes(r, "new", "load")
     \/ hook = "directory" /\ Goes(r, "new", "payload")
     \/ hook = "runtime" /\ Goes(r, "new", "consume")
  /\ persisted' = persisted \cup {Ask[r].hash}
  /\ UNCHANGED <<hook, reply, loaded, acked, payload, ready>>

\* consume of the directory consumer: the payload, then its descriptor.
TruncatePayload(r) ==
  /\ Goes(r, "payload", "payload2")
  /\ payload' = [payload EXCEPT ![Ask[r].hash] = Torn]
  /\ UNCHANGED <<hook, reply, loaded, persisted, acked, ready>>

\* A bug of the two paths: the descriptor's text goes to the payload's file.
WritePayloadSwapped(r) ==
  /\ Goes(r, "payload2", "ready")
  /\ payload' = [payload EXCEPT ![Ask[r].hash] = Whole]
  /\ UNCHANGED <<hook, reply, loaded, persisted, acked, ready>>

WritePayload(r) ==
  /\ Goes(r, "payload2", "ready")
  /\ \E content \in WriteOver(payload[Ask[r].hash], r) :
        payload' = [payload EXCEPT ![Ask[r].hash] = content]
  /\ UNCHANGED <<hook, reply, loaded, persisted, acked, ready>>

TruncateReady(r) ==
  /\ Goes(r, "ready", "ready2")
  /\ ready' = [ready EXCEPT ![Ask[r].hash] = Torn]
  /\ UNCHANGED <<hook, reply, loaded, persisted, acked, payload>>

WriteReady(r) ==
  /\ Goes(r, "ready2", "load")
  /\ \E content \in WriteOver(ready[Ask[r].hash], Whole) :
        ready' = [ready EXCEPT ![Ask[r].hash] = content]
  /\ UNCHANGED <<hook, reply, loaded, persisted, acked, payload>>

\* The hook of a live runtime answers, with success or not, or raises.
RuntimeConsumes(r) ==
  /\ \/ Goes(r, "consume", "load") /\ UNCHANGED reply
     \/ Answers(r, "consume", "fail")
  /\ UNCHANGED <<hook, loaded, persisted, acked, payload, ready>>

\* _load_acknowledged and hashes.add(block_hash).
LoadAcknowledged(r) ==
  /\ Goes(r, "load", "truncate")
  /\ loaded' = [loaded EXCEPT ![r] = acked \cup {Ask[r].hash}]
  /\ UNCHANGED <<hook, reply, persisted, acked, payload, ready>>

\* _save_acknowledged opens acked.json for writing: a reader now gets set().
TruncateAcknowledged(r) ==
  /\ Goes(r, "truncate", "save")
  /\ acked' = {}
  /\ UNCHANGED <<hook, reply, loaded, persisted, payload, ready>>

\* It writes the list (hashes have one length: the longer list is the one with
\* more of them).
SaveAcknowledged(r) ==
  /\ Goes(r, "save", "answer")
  /\ acked' = IF Cardinality(acked) > Cardinality(loaded[r]) THEN {} ELSE loaded[r]
  /\ UNCHANGED <<hook, reply, loaded, persisted, payload, ready>>

\* do_POST answers with the hook's result.
AnswerInject(r) ==
  /\ Answers(r, "answer", "ok")
  /\ UNCHANGED <<hook, loaded, persisted, acked, payload, ready>>

\* What the hook answers to a payload without a block hash.
HookAnswers ==
  {a \in {"ok", "fail"} : (a = "ok" => hook # "directory") /\ (a = "fail" => hook # "none")}

\* A bug of the test for missing hashes: one acknowledged hash is enough.
VerifyAny(r) ==
  /\ Ask[r].kind = "verify"
  /\ \E answer \in IF Ask[r].hashes \cap acked # {} THEN HookAnswers ELSE {"fail"} :
        Answers(r, "new", answer)
  /\ UNCHANGED <<hook, loaded, persisted, acked, payload, ready>>

\* _verify: every hash must be acknowledged, then the hook has its say.
Verify(r) ==
  /\ Ask[r].kind = "verify"
  /\ \E answer \in IF Ask[r].hashes \subseteq acked THEN HookAnswers ELSE {"fail"} :
        Answers(r, "new", answer)
  /\ UNCHANGED <<hook, loaded, persisted, acked, payload, ready>>

\* _export_reverse_runtime_state only asks the hook.
ExportReverse(r) ==
  /\ Ask[r].kind = "export"
  /\ \E answer \in HookAnswers : Answers(r, "new", answer)
  /\ UNCHANGED <<hook, loaded, persisted, acked, payload, ready>>

\* The process ends (and is started again): its threads go, the files stay.
ReceiverKilled ==
  /\ \E r \in Reqs : Active(r)
  /\ at' = [r \in Reqs |-> IF Active(r) THEN "killed" ELSE at[r]]
  /\ UNCHANGED <<hook, reply, loaded, persisted, acked, payload, ready>>

ThreadStep(r) ==
  \/ Refuse(r)
  \/ Inject(r)
  \/ TruncatePayload(r)
  \/ WritePayload(r)
  \/ TruncateReady(r)
  \/ WriteReady(r)
  \/ RuntimeConsumes(r)
  \/ LoadAcknowledged(r)
  \/ TruncateAcknowledged(r)
  \/ SaveAcknowledged(r)
  \/ AnswerInject(r)
  \/ Verify(r)
  \/ ExportReverse(r)
=============================================================================
