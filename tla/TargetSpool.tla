---------------------------- MODULE TargetSpool -----------------------------
(***************************************************************************)
(* The target host's staging path: the threads of the receiver and the     *)
(* import worker, two processes that share the import directory and       *)
(* nothing else.                                                           *)
(***************************************************************************)
EXTENDS Receiver, ImportWorker

CONSTANTS
  Kills,       \* which processes may be killed: a subset of {"receiver", "worker"}
  Restartable  \* whether a worker that ended may be started again

vars == <<receiverVars, workerVars>>

Init == ReceiverInit /\ WorkerInit(Hashes)

Descriptors == {h \in Hashes : ready[h] # Absent}

ReceiverActs == \E r \in Reqs : ThreadStep(r) /\ UNCHANGED workerVars

WorkerActs == WorkerStep(Descriptors, ready, payload) /\ UNCHANGED receiverVars

Crashes ==
  \/ "receiver" \in Kills /\ ReceiverKilled /\ UNCHANGED workerVars
  \/ "worker" \in Kills /\ WorkerKilled /\ UNCHANGED receiverVars

Restarts == Restartable /\ WorkerRestarts /\ UNCHANGED receiverVars

Next == ReceiverActs \/ WorkerActs \/ Crashes \/ Restarts

Spec == Init /\ [][Next]_vars

\* The operating system runs every thread and a worker that is alive.  Nobody need
\* start a worker that ended: docs/target-import-worker.md starts it by hand.
FairSpec ==
  /\ Spec
  /\ \A r \in Reqs : WF_vars(ThreadStep(r) /\ UNCHANGED workerVars)
  /\ WF_vars(WorkerActs)
-----------------------------------------------------------------------------
\* The variables have their types.
SpoolTypeOK ==
  /\ hook \in Hooks
  /\ at \in [Reqs -> Steps]
  /\ reply \in [Reqs -> {"none", "ok", "fail"}]
  /\ loaded \in [Reqs -> SUBSET Hashes]
  /\ persisted \subseteq Hashes
  /\ acked \subseteq Hashes
  /\ payload \in [Hashes -> Reqs \cup {Absent, Torn}]
  /\ ready \in [Hashes -> {Absent, Torn, Whole}]
  /\ wpc \in {"scan", "next", "payload", "hook", "mark", "dead"}
  /\ todo \subseteq Hashes
  /\ marker \subseteq Hashes
  /\ calls \in [Hashes -> 0..2]

\* However the threads interleave, acked.json (and the copy of it a thread holds)
\* names a block only if its payload is persisted and, with the directory consumer,
\* its descriptor and payload are in the import directory: an acknowledgement is
\* never ahead of the data (_inject, consume).
AckedIsStaged ==
  \A h \in acked \cup UNION {loaded[r] : r \in Reqs} :
    /\ h \in persisted
    /\ hook = "directory" => ready[h] # Absent /\ payload[h] # Absent

\* A continuation check that succeeds vouches for blocks the hook accepted: no
\* hash passes _verify unless a thread injecting it got past the hook's success test
\* (only such a thread has loaded the acknowledgements).
VerifiedWasConsumed ==
  \A v \in Reqs : Ask[v].kind = "verify" /\ reply[v] = "ok" =>
    \A h \in Ask[v].hashes :
      \E r \in Reqs : Ask[r].kind = "inject" /\ Ask[r].hash = h /\ loaded[r] # {}

\* The worker's "staged payload missing" cannot happen: a descriptor is never in the
\* import directory without its payload file, whatever is killed and when (consume
\* writes the payload first, _full_payload_path relies on it).
DescriptorHasPayload ==
  \A h \in Hashes : ready[h] # Absent => payload[h] # Absent

\* A marker vouches for a call: no block counts as processed that the runtime hook
\* was never given, though worker and receiver are killed at any point
\* (_consume_one writes the marker last).
MarkedWasDelivered == \A h \in marker : calls[h] > 0

\* A block with a marker is not given to the hook again, by this pass or a later
\* one or after a restart (run_once skips it); only a worker that ended between
\* the call and the marker repeats a call.
MarkedIsFinal == [][\A h \in marker : calls'[h] = calls[h] /\ h \in marker']_vars

\* A worker that is up to stay misses nothing: if from some moment on it does not
\* end, every block the receiver reported as injected, before that or after, is in
\* the end marked processed, however often and wherever in its loop the worker ended
\* before (main, run_once).  What ends it is left open: a kill, a hook that raises, a
\* file that is just being written or that overlapping injects of one block left
\* torn.
InjectedIsProcessed ==
  <>[](wpc # "dead") =>
    \A r \in Reqs : Ask[r].kind = "inject" =>
      (reply[r] = "ok") ~> (Ask[r].hash \in marker)

\* docs/live-runtime-http-bridge.md: "If the consumer returns success, the receiver
\* acknowledges the block hash so continuation checks pass": a check of blocks whose
\* injects were all answered with success succeeds.
AcknowledgedPasses ==
  [][\A v \in Reqs :
       /\ Ask[v].kind = "verify"
       /\ at[v] = "new" /\ at'[v] = "done"
       /\ \A h \in Ask[v].hashes :
            \E r \in Reqs : Ask[r].kind = "inject" /\ Ask[r].hash = h /\ reply[r] = "ok"
       => reply'[v] = "ok"]_vars
=============================================================================
