---------------------------- MODULE VllmRuntime -----------------------------
(***************************************************************************)
(* The live vLLM target: the registration hook                             *)
(* (adapters/vllm_live_runtime_registry.py) and the runtime it reaches     *)
(* (adapters/vllm_real_runtime_target.py, or an object that only exposes   *)
(* its KV caches).                                                         *)
(*                                                                         *)
(* The hook runs in the threads of the receiver, one per HTTP request, and *)
(* nothing locks the runtime or the state file.  A step below is what one  *)
(* thread does up to the next access to something shared: a target block,  *)
(* an attribute of the runtime, the state file.  vLLM itself (block pool,  *)
(* prefix cache, generate) is external and modelled from its use here.     *)
(*                                                                         *)
(* A payload is named by its block hash.  Its content is Size target       *)
(* blocks per layer; where the elements of a block go is module KvLayout.  *)
(***************************************************************************)
EXTENDS Naturals, Sequences, FiniteSets, StateFile

CONSTANTS
    Threads,    \* requests that may be handled at once
    Blocks,     \* the payloads, by hash
    Foreign,    \* payloads with a layer the runtime does not have
    Layers,     \* the layers of the runtime, 1..n
    Size,       \* target blocks of a payload, per layer
    SlotCounts, \* how many target blocks the runtime has per layer
    Pools,      \* per slot count, the orders in which the block pool may give
                \* blocks out (vLLM keeps some, and promises no order)
    Requests,   \* bound: requests of a behaviour
    Crashes     \* bound: restarts of the receiver, where requests are serial

\* What a payload's registration, and a continuation, leave in the runtime.
Contents == (Blocks \cup {None}) \X Nat
Payloads == [hash : Blocks, ids : [1 .. Size -> Nat] \cup {None}]
Continuations ==
    [asked : SUBSET Blocks, known : SUBSET Blocks,
     kv : [Layers -> UNION {[1 .. n -> Contents] : n \in 0 .. Size}]]

ASSUME VllmAssumption ==
    /\ Cardinality(Layers) \in Nat \ {0} /\ Layers = 1 .. Cardinality(Layers)
    /\ Size \in Nat \ {0} /\ SlotCounts \subseteq Nat
    /\ Requests \in Nat /\ Crashes \in Nat
    /\ Pools \in [SlotCounts -> SUBSET Seq(Nat)]
    /\ \A n \in SlotCounts : \A pool \in Pools[n] :
          /\ Len(pool) <= n
          /\ \A i, k \in DOMAIN pool : pool[i] < n /\ (pool[i] = pool[k] => i = k)
    /\ None \notin Blocks /\ \A hashes \in SUBSET Blocks : None # hashes /\ Torn # hashes
    /\ None \notin [1 .. Size -> Nat] /\ None \notin Payloads /\ None \notin Continuations

VARIABLES
    conf,       \* the deployment (does not change)
    runtimes,   \* the runtime objects this process has created
    singleton,  \* _RUNTIME_SINGLETON: which of them, 0 before the first
    memory,     \* _REGISTERED_HASHES
    file,       \* PERMEANT_VLLM_RUNTIME_STATE_FILE
    export,     \* the reverse state published last
    job,        \* per thread, where its request is
    acked,      \* history: hashes answered with success since the last start
    budget      \* what remains of the bounds

vllmVars == <<conf, runtimes, singleton, memory, file, export, job, acked, budget>>

\* target: a runtime with register, verify and export methods ("real"), one
\* that only takes a registered_hashes attribute ("noting"), or neither
\* ("opaque").  cache: one tensor per layer with blocks of the pool or blocks
\* 0, 1, ..., or a key and a value tensor.  serial: the client waits for an
\* answer before it asks again.
Deployments ==
    [target : {"real", "noting", "opaque"}, cache : {"pooled", "sequential", "separate"},
     slots : SlotCounts, serial : BOOLEAN]

Slots == conf.slots

\* writers, placed, pooled and shared are history: who wrote to the cache,
\* where a payload was written to, whether one got blocks of the pool and
\* whether one did without.
FreshRuntime(free) ==
    [cache |-> [l \in Layers |-> [s \in 0 .. Slots - 1 |-> <<None, 0>>]],
     free |-> free,
     registered_hashes |-> IF conf.target = "real" THEN {} ELSE None,
     last_register_payload |-> None, last_continuation |-> None,
     writers |-> {}, placed |-> [h \in {} |-> <<>>], pooled |-> FALSE, shared |-> FALSE]

IdleJob == [at |-> "idle", kind |-> "none", hash |-> None, hashes |-> {}, rt |-> 0,
            ids |-> None, todo |-> <<>>, seeded |-> <<>>, seen |-> {}, answer |-> "none"]

At(t, label) == job[t].at = label

Goto(t, label) == job' = [job EXCEPT ![t].at = label]

Answer(t, answer) == job' = [job EXCEPT ![t] = [IdleJob EXCEPT
    !.kind = job[t].kind, !.hash = job[t].hash, !.hashes = job[t].hashes,
    !.rt = job[t].rt, !.answer = answer]]

Runtime(t) == runtimes[job[t].rt]

\* The exception ends the request (500); nothing is undone.
Raise(t) ==
    /\ Answer(t, "failed")
    /\ UNCHANGED <<conf, runtimes, singleton, memory, file, export, acked, budget>>

(***************************************************************************)
(* runtime_hook: the request, and the runtime it is for.                   *)
(***************************************************************************)
Request(t, kind, hash, hashes) ==
    /\ budget.requests > 0
    /\ budget' = [budget EXCEPT !.requests = @ - 1]
    /\ At(t, "idle")
    /\ conf.serial => \A u \in Threads : At(u, "idle")
    /\ job' = [job EXCEPT ![t] = [IdleJob EXCEPT !.at = "resolve", !.kind = kind,
                                    !.hash = hash, !.hashes = hashes]]
    /\ UNCHANGED <<conf, runtimes, singleton, memory, file, export, acked>>

\* What runtime_hook does with the payload once it has the runtime.
FirstStep(kind) ==
    CASE kind = "register" -> "allocate"
      [] kind = "verify" -> "verify"
      [] kind = "export" -> "export"

\* Mutant of ResolveRuntime: the test for None is dropped.
ResolveRuntimeUntested(t) ==
    /\ At(t, "resolve")
    /\ job' = [job EXCEPT ![t].rt = singleton, ![t].at = FirstStep(job[t].kind)]
    /\ UNCHANGED <<conf, runtimes, singleton, memory, file, export, acked, budget>>

\* get_runtime: the singleton is there, or this thread creates one.
ResolveRuntime(t) ==
    /\ At(t, "resolve")
    /\ job' = [job EXCEPT ![t] = [@ EXCEPT
         !.rt = singleton,
         !.at = IF singleton = 0 THEN "create" ELSE FirstStep(job[t].kind)]]
    /\ UNCHANGED <<conf, runtimes, singleton, memory, file, export, acked, budget>>

\* _create_llm takes long; whoever is last replaces the singleton.
CreateRuntime(t) ==
    /\ At(t, "create")
    /\ \E free \in IF conf.cache = "pooled" THEN Pools[Slots] ELSE {<<>>} :
          runtimes' = Append(runtimes, FreshRuntime(free))
    /\ singleton' = Len(runtimes) + 1
    /\ Goto(t, IF conf.target = "real" THEN "baseline" ELSE "resolve")
    /\ UNCHANGED <<conf, memory, file, export, acked, budget>>

\* The prompt is decoded once with nothing attached, while other threads find
\* the singleton already.  It leaves the continuation that later ones are
\* compared with and, in vLLM's prefix cache, blocks of vLLM's own: no answer
\* and no verification here depends on either.  The runtime returned is the
\* singleton read again.
CaptureBaseline(t) ==
    /\ At(t, "baseline")
    /\ Goto(t, "resolve")
    /\ UNCHANGED <<conf, runtimes, singleton, memory, file, export, acked, budget>>

(***************************************************************************)
(* _direct_register_into_kv_caches.                                        *)
(***************************************************************************)
\* The layers of a payload, in their order; the last one of a foreign
\* payload is not in the layer map.
PayloadLayers(hash) ==
    [l \in 1 .. Cardinality(Layers) + (IF hash \in Foreign THEN 1 ELSE 0) |-> l]

Pooled(t) == conf.cache = "pooled" /\ Len(Runtime(t).free) >= Size

Allocated(t) == IF Pooled(t) THEN SubSeq(Runtime(t).free, 1, Size) ELSE None

\* Mutant of AllocateTargetBlockIds: the ids are read and not taken.
AllocateTargetBlockIdsUntaken(t) ==
    /\ At(t, "allocate")
    /\ job' = [job EXCEPT ![t] = [@ EXCEPT
         !.ids = Allocated(t), !.todo = PayloadLayers(job[t].hash), !.at = "write"]]
    /\ runtimes' = [runtimes EXCEPT ![job[t].rt] =
         IF Pooled(t) THEN [@ EXCEPT !.pooled = TRUE] ELSE [@ EXCEPT !.shared = TRUE]]
    /\ UNCHANGED <<conf, singleton, memory, file, export, acked, budget>>

\* _allocate_target_block_ids: the pool gives out ids, or it is disabled or
\* exhausted (get_new_blocks raises) and the payload goes to 0, 1, ...  Ids
\* are never given back.  Separate key and value tensors ask for none.
AllocateTargetBlockIds(t) ==
    /\ At(t, "allocate")
    /\ job' = [job EXCEPT ![t] = [@ EXCEPT
         !.ids = Allocated(t), !.todo = PayloadLayers(job[t].hash), !.at = "write"]]
    /\ runtimes' = [runtimes EXCEPT ![job[t].rt] =
         IF Pooled(t)
         THEN [@ EXCEPT !.free = SubSeq(Runtime(t).free, Size + 1, Len(Runtime(t).free)), !.pooled = TRUE]
         ELSE [@ EXCEPT !.shared = TRUE]]
    /\ UNCHANGED <<conf, singleton, memory, file, export, acked, budget>>

\* _target_block_id
TargetBlockId(ids, i) == IF ids = None THEN i - 1 ELSE ids[i]

\* Mutant of LayerEnds: the loop always counts the blocks of the payload.
LayerEndsOfPayload(t) == job[t].ids # None \/ Size <= Slots

\* Whether the loop over a layer ends.  For one tensor it counts the blocks
\* of the payload; for a key and a value tensor those of the target, so that
\* what the payload has more is left out and what it has less raises.
LayerEnds(t) ==
    IF conf.cache = "separate" THEN Slots <= Size ELSE job[t].ids # None \/ Size <= Slots

\* _write_combined_cache, _write_separate_cache.  A layer that is not in the
\* layer map, or an index out of range, raises after what was written.
WriteLayer(t) ==
    LET j == job[t]
        layer == Head(j.todo)
        written == {i \in 1 .. Size : TargetBlockId(j.ids, i) < Slots}
        row == [s \in 0 .. Slots - 1 |->
                  LET from == {i \in written : TargetBlockId(j.ids, i) = s}
                  IN IF from = {} THEN Runtime(t).cache[layer][s] ELSE <<j.hash, CHOOSE i \in from : TRUE>>]
    IN /\ At(t, "write") /\ j.todo # <<>>
       /\ \/ layer \notin Layers /\ Raise(t)
          \/ /\ layer \in Layers
             /\ runtimes' = [runtimes EXCEPT ![j.rt] = [@ EXCEPT
                  !.writers = Runtime(t).writers \cup {j.hash},
                  !.cache = [Runtime(t).cache EXCEPT ![layer] = row]]]
             /\ IF LayerEnds(t) THEN job' = [job EXCEPT ![t].todo = Tail(@)]
                                ELSE Answer(t, "failed")
             /\ UNCHANGED <<conf, singleton, memory, file, export, acked, budget>>

\* register_permeant_block remembers the payload it wrote last.
EndRegister(t) ==
    LET j == job[t]
        placed == Runtime(t).placed
        cells == [i \in 1 .. Size |-> TargetBlockId(j.ids, i)]
    IN /\ At(t, "write") /\ j.todo = <<>>
       /\ runtimes' = [runtimes EXCEPT ![j.rt] = [@ EXCEPT
            !.placed = [h \in DOMAIN placed \cup {j.hash} |-> IF h = j.hash THEN cells ELSE placed[h]],
            !.last_register_payload = IF conf.target = "real" THEN [hash |-> j.hash, ids |-> j.ids]
                                      ELSE Runtime(t).last_register_payload]]
       /\ Goto(t, "store")
       /\ UNCHANGED <<conf, singleton, memory, file, export, acked, budget>>

(***************************************************************************)
(* _store_hash and _note_runtime_hash.                                     *)
(***************************************************************************)
\* A state file that does not parse raises.
StoreRead(t) ==
    /\ At(t, "store")
    /\ memory' = memory \cup {job[t].hash}
    /\ IF file = Torn THEN Answer(t, "failed")
       ELSE job' = [job EXCEPT ![t] = [@ EXCEPT !.seen = file \cup {job[t].hash}, !.at = "open"]]
    /\ UNCHANGED <<conf, runtimes, singleton, file, export, acked, budget>>

\* write_text truncates the file before it writes.
StoreOpen(t) ==
    /\ At(t, "open")
    /\ file' = Torn
    /\ Goto(t, "save")
    /\ UNCHANGED <<conf, runtimes, singleton, memory, export, acked, budget>>

\* What a second writer leaves may not parse.
StoreWrite(t) ==
    /\ At(t, "save")
    /\ file' \in IF file = Torn THEN {job[t].seen} ELSE {job[t].seen, Torn}
    /\ Goto(t, "note")
    /\ UNCHANGED <<conf, runtimes, singleton, memory, export, acked, budget>>

\* The request succeeds.
Acknowledge(t, registered_hashes) ==
    /\ runtimes' = [runtimes EXCEPT ![job[t].rt].registered_hashes = registered_hashes]
    /\ acked' = acked \cup {job[t].hash}
    /\ Answer(t, "ok")
    /\ UNCHANGED <<conf, singleton, memory, file, export, budget>>

\* _note_runtime_hash, with the attribute there or not to be set.
NoteRuntimeHash(t) ==
    LET hashes == Runtime(t).registered_hashes
    IN /\ At(t, "note")
       /\ \/ hashes # None /\ Acknowledge(t, hashes \cup {job[t].hash})
          \/ hashes = None /\ conf.target = "opaque" /\ Acknowledge(t, None)
          \/ /\ hashes = None /\ conf.target = "noting"
             /\ Goto(t, "setattr")
             /\ UNCHANGED <<conf, runtimes, singleton, memory, file, export, acked, budget>>

\* The attribute was missing; another thread may have set it since.
SetRuntimeHashes(t) == At(t, "setattr") /\ Acknowledge(t, {job[t].hash})

(***************************************************************************)
(* Verification.                                                           *)
(***************************************************************************)
\* Mutant of VerifyHashes: missing hashes are not answered with.
VerifyHashesAnyway(t) ==
    /\ At(t, "verify")
    /\ IF conf.target = "real" THEN Goto(t, "seed") ELSE Answer(t, "ok")
    /\ UNCHANGED <<conf, runtimes, singleton, memory, file, export, acked, budget>>

\* verify_permeant_hashes or _direct_verify_runtime compare with the set of
\* the runtime; without one _verify_from_state takes memory and file.  Only a
\* real runtime goes on to a continuation of the configured prompt.
VerifyHashes(t) ==
    LET hashes == Runtime(t).registered_hashes
        available == IF hashes # None THEN hashes
                     ELSE IF file # Torn THEN memory \cup file ELSE Torn
    IN /\ At(t, "verify")
       /\ IF available = Torn THEN Answer(t, "failed")
          ELSE IF ~(job[t].hashes \subseteq available) THEN Answer(t, "missing")
          ELSE IF conf.target = "real" THEN Goto(t, "seed") ELSE Answer(t, "ok")
       /\ UNCHANGED <<conf, runtimes, singleton, memory, file, export, acked, budget>>

\* The target blocks of the payload registered last, if it got any.
LastIds(rt) ==
    LET last == rt.last_register_payload
    IN IF last = None \/ last.ids = None THEN <<>> ELSE last.ids

\* _seed_vllm_prefix_cache: as many blocks of the payload registered last as
\* the prompt has full ones become a cached prefix of it.  None do if they
\* have no ids, or the prompt is too short, or vLLM refuses.
SeedPrefixCache(t) ==
    /\ At(t, "seed")
    /\ \E n \in 0 .. Len(LastIds(Runtime(t))) :
          job' = [job EXCEPT ![t] = [@ EXCEPT
             !.seeded = SubSeq(LastIds(Runtime(t)), 1, n), !.at = "generate"]]
    /\ UNCHANGED <<conf, runtimes, singleton, memory, file, export, acked, budget>>

\* generate_continuation.  kv is what the seeded blocks hold as it decodes;
\* whether vLLM uses these, or others cached for the same prompt, is not said.
Generate(t) ==
    LET rt == Runtime(t)
        seeded == job[t].seeded
    IN /\ At(t, "generate")
       /\ runtimes' = [runtimes EXCEPT ![job[t].rt].last_continuation =
            [asked |-> job[t].hashes, known |-> rt.registered_hashes,
             kv |-> [l \in Layers |-> [i \in DOMAIN seeded |-> rt.cache[l][seeded[i]]]]]]
       /\ Goto(t, "report")
       /\ UNCHANGED <<conf, singleton, memory, file, export, acked, budget>>

\* _build_reverse_runtime_state
ReverseState(rt, via) ==
    [via |-> via, continuation |-> rt.last_continuation, registered |-> rt.registered_hashes,
     last |-> IF rt.last_register_payload = None THEN None ELSE rt.last_register_payload.hash,
     shared |-> rt.shared]

\* _maybe_write_reverse_runtime_export, and the answer.
ReportVerified(t) ==
    /\ At(t, "report")
    /\ export' = ReverseState(Runtime(t), "verify")
    /\ Answer(t, "ok")
    /\ UNCHANGED <<conf, runtimes, singleton, memory, file, acked, budget>>

\* export_reverse_runtime_state: the last continuation with the registrations
\* of now.
ExportReverseState(t) ==
    /\ At(t, "export")
    /\ IF Runtime(t).last_continuation = None
       THEN Answer(t, "failed") /\ UNCHANGED export
       ELSE Answer(t, "ok") /\ export' = ReverseState(Runtime(t), "request")
    /\ UNCHANGED <<conf, runtimes, singleton, memory, file, acked, budget>>

\* The receiver is killed and started again: files are all that is left.
Crash ==
    /\ budget.crashes > 0
    /\ budget' = [budget EXCEPT !.crashes = @ - 1]
    /\ runtimes' = <<>> /\ singleton' = 0 /\ memory' = {} /\ acked' = {}
    /\ job' = [t \in Threads |-> IdleJob]
    /\ UNCHANGED <<conf, file, export>>

(***************************************************************************)
(* Specification.                                                          *)
(***************************************************************************)
\* Restarts are explored with a client that asks one thing at a time.
Restarts == IF conf.serial THEN Crashes ELSE 0

VllmInit ==
    /\ conf \in Deployments
    /\ runtimes = <<>> /\ singleton = 0
    /\ memory = {} /\ file = {} /\ export = None
    /\ job = [t \in Threads |-> IdleJob]
    /\ acked = {}
    /\ budget = [requests |-> Requests, crashes |-> Restarts]

VllmNext ==
    \/ \E t \in Threads :
          \/ \E h \in Blocks : Request(t, "register", h, {})
          \/ \E hs \in (SUBSET Blocks) \ {{}} : Request(t, "verify", None, hs)
          \/ Request(t, "export", None, {})
          \/ ResolveRuntime(t) \/ CreateRuntime(t) \/ CaptureBaseline(t)
          \/ AllocateTargetBlockIds(t) \/ WriteLayer(t) \/ EndRegister(t)
          \/ StoreRead(t) \/ StoreOpen(t) \/ StoreWrite(t)
          \/ NoteRuntimeHash(t) \/ SetRuntimeHashes(t)
          \/ VerifyHashes(t) \/ SeedPrefixCache(t) \/ Generate(t) \/ ReportVerified(t)
          \/ ExportReverseState(t)
    \/ Crash

VllmSpec == VllmInit /\ [][VllmNext]_vllmVars

(***************************************************************************)
(* Properties.                                                             *)
(***************************************************************************)
NeverKilled == budget.crashes = Restarts

\* All target blocks of the payload are where its registration put them,
\* except what separate tensors have no room for.
InPlace(rt, h) ==
    \A l \in Layers, i \in 1 .. Size :
        (i > Slots /\ conf.cache = "separate") \/ rt.cache[l][rt.placed[h][i]] = <<h, i>>

\* Types: the singleton is a runtime that exists, a thread works on one that
\* exists, no target block is free twice, and the state file holds hashes.
VllmTypeOK ==
    /\ singleton \in 0 .. Len(runtimes)
    /\ file = Torn \/ file \subseteq Blocks
    /\ \A t \in Threads :
          job[t].rt \in (IF job[t].at \in {"idle", "resolve", "create", "baseline"} THEN 0 ELSE 1)
                       .. Len(runtimes)
    /\ \A r \in DOMAIN runtimes :
          \A i, k \in DOMAIN runtimes[r].free :
             runtimes[r].free[i] = runtimes[r].free[k] => i = k

\* What a verification has confirmed is, and stays, wholly in the cache,
\* whatever registrations overlap, fail half-way or are repeated: as long as
\* all got blocks of the pool, or none did and there was no other payload.  A runtime
\* without methods is believed only if it is the first and only one.
VerifiedIsInPlace ==
    \A t \in Threads :
        LET rt == Runtime(t)
        IN /\ job[t].kind = "verify" /\ job[t].answer = "ok"
           /\ conf.target = "real" \/ (NeverKilled /\ Len(runtimes) = 1)
           => \A h \in job[t].hashes :
                /\ h \in DOMAIN rt.placed
                /\ (~rt.shared \/ (~rt.pooled /\ rt.writers = {h})) => InPlace(rt, h)

\* A hash answered with success can be verified from then on, unless two
\* first requests have each created a runtime or, with a runtime that has no
\* set of hashes of its own, each set the attribute.
AckedStaysVerifiable ==
    /\ Len(runtimes) = 1
    /\ conf.target = "real" \/ (conf.target = "noting" /\ conf.serial)
    /\ acked # {}
    => acked \subseteq runtimes[1].registered_hashes

\* A client that asks one thing at a time sees a registration fail exactly
\* when the payload does not fit the runtime, unless the receiver was killed.
RegisterFailsForCause ==
    \A t \in Threads :
        job[t].kind = "register" /\ job[t].answer # "none" /\ conf.serial /\ NeverKilled
        => (job[t].answer = "failed" <=>
              \/ job[t].hash \in Foreign
              \/ IF conf.cache = "separate" THEN Slots > Size ELSE Slots < Size)

\* A registration is answered truly: with failure for a cause, with success for
\* good.
RegistrationAnswersAreTrue == AckedStaysVerifiable /\ RegisterFailsForCause

\* What a reverse state says belongs together.  Written by a verification of
\* a client that asks one thing at a time, what was put before the prompt of
\* its continuation was, in every layer, the beginning of the payload named as
\* the last, which is a registered one; asked for later, the continuation still
\* knew only hashes that are registered.
ReverseStateBelongsTogether ==
    export # None /\ conf.serial =>
        /\ export.continuation.known \subseteq export.registered
        /\ export.last \in export.registered
        /\ export.via = "verify" /\ ~export.shared =>
              \A l \in Layers : \A i \in DOMAIN export.continuation.kv[l] :
                  export.continuation.kv[l][i] = <<export.last, i>>
=============================================================================
