-------------------------- MODULE ReferenceRuntime --------------------------
(***************************************************************************)
(* The targets that keep what they accepted in one JSON state file: the    *)
(* llama.cpp runtime (adapters/llamacpp_runtime_bridge.py), the PyTorch    *)
(* runtime (adapters/pytorch_runtime_bridge.py), the offline state of      *)
(* adapters/vllm_injector.py and the acknowledgement file of               *)
(* adapters/vllm_runtime_hook_example.py.                                  *)
(*                                                                         *)
(* The daemon starts one injector command per request ("fresh": memory is  *)
(* empty), so the commands of two connections overlap; a Python host keeps *)
(* the runtime between requests ("long").  Nothing locks the file, and     *)
(* write_text truncates it before it writes.                               *)
(***************************************************************************)
EXTENDS Naturals, Sequences, FiniteSets, StateFile

CONSTANTS
    Procs,      \* injector commands that may run at once
    Hashes,     \* the payloads, by hash
    Malformed,  \* payloads whose last layer does not validate
    AsksAlone,  \* bound: requests one after the other
    AsksAtOnce, \* bound: requests that may overlap
    Kills       \* bound: commands (or hosts) that are killed

VARIABLES
    setup,      \* runtime, lifetime and live hook (does not change)
    disk,       \* the state file
    ram,        \* per process, the runtime object
    task,       \* per process, where its request is
    accepted,   \* history: hashes answered with success
    exported,   \* the reverse state exported last
    raced,      \* history: two commands rewrote the file at once
    left        \* what remains of the bounds

refVars == <<setup, disk, ram, task, accepted, exported, raced, left>>

\* alone: the next request comes after the answer to the last.  hook:
\* PERMEANT_LLAMA_CPP_RUNTIME_HOOK is set.
Setups == {s \in [runtime : {"llama", "torch", "fixture", "acks"},
                  lifetime : {"fresh", "long"}, hook : BOOLEAN, alone : BOOLEAN] :
             /\ s.hook => s.runtime = "llama"
             /\ s.lifetime = "long" => s.runtime \in {"llama", "torch"} /\ s.alone}

\* What a file holds: the blocks by hash, the last verification, and the last
\* block bound by the live hook.
BlockMaps == UNION {[S -> {"accepted", "live"}] : S \in SUBSET Hashes}
Verdicts == [success : BOOLEAN, hashes : SUBSET Hashes, claim : {"none", "proven"},
             known : SUBSET Hashes]
Files == [blocks : BlockMaps, verify : Verdicts \cup {None}, live : Hashes \cup {None}]

ASSUME RefAssumption ==
    /\ None \notin Hashes /\ None \notin Verdicts /\ None \notin Files
    /\ Torn \notin Files
    /\ AsksAlone \in Nat /\ AsksAtOnce \in Nat /\ Kills \in Nat

NoFile == [blocks |-> [h \in {} |-> "accepted"], verify |-> None, live |-> None]

EmptyRam == [blocks |-> NoFile.blocks, verify |-> None, live |-> None,
             kv |-> <<None, None>>, mixed |-> FALSE, last |-> None]

IdleTask == [at |-> "idle", kind |-> "none", hash |-> None, hashes |-> {}, mode |-> "accepted",
             new |-> None, then |-> "idle", parts |-> <<>>, got |-> NoFile, names |-> {}]

\* The last layer but one, and the last, stand for the layers of a payload.
Layers2 == 1 .. 2

IsAt(p, label) == task[p].at = label

\* The command ends; a host keeps the runtime object ram.
End(p, object) ==
    /\ task' = [task EXCEPT ![p] = IdleTask]
    /\ ram' = [ram EXCEPT ![p] = IF setup.lifetime = "fresh" THEN EmptyRam ELSE object]

\* The AdapterError becomes the failure of the command.
Reject(p, object) ==
    End(p, object) /\ UNCHANGED <<setup, disk, accepted, exported, raced, left>>

\* _read_json takes a file that does not parse for an empty one.  load_state
\* and _load_acks raise.
Strict == setup.runtime \in {"fixture", "acks"}

Parsed(content) == IF content = Torn THEN NoFile ELSE content

Merge(f, g) == [h \in DOMAIN f \cup DOMAIN g |-> IF h \in DOMAIN g THEN g[h] ELSE f[h]]

(***************************************************************************)
(* Requests.                                                               *)
(***************************************************************************)
\* export_reverse_runtime_state reads the file once for every part.
ExportParts == IF setup.runtime = "llama" THEN <<"existing", "blocks", "hashes">>
                                          ELSE <<"hashes", "blocks">>

Ask(p, kind, hash, hashes) ==
    /\ left.asks > 0
    /\ left' = [left EXCEPT !.asks = @ - 1]
    /\ IsAt(p, "idle")
    /\ setup.alone => \A q \in Procs : IsAt(q, "idle")
    /\ setup.lifetime = "long" => \A q \in Procs \ {p} : ram[q] = EmptyRam
    /\ kind = "export" => ~Strict
    /\ task' = [task EXCEPT ![p] = [IdleTask EXCEPT
          !.at = kind, !.kind = kind, !.hash = hash, !.hashes = hashes,
          !.parts = IF kind = "export" THEN ExportParts ELSE <<>>]]
    /\ UNCHANGED <<setup, disk, ram, accepted, exported, raced>>

(***************************************************************************)
(* register_permeant_block.                                                *)
(***************************************************************************)
\* Mutant of FillCache: a layer that is there is kept.
FillCacheOnce(cache, hash) ==
    [l \in Layers2 |-> IF hash \in Malformed /\ l = 2 THEN cache[l]
                       ELSE IF cache[l] = None THEN hash ELSE cache[l]]

\* PyTorch replaces layer by layer, until one does not validate.
FillCache(cache, hash) ==
    [l \in Layers2 |-> IF hash \in Malformed /\ l = 2 THEN cache[l] ELSE hash]

\* The tensors do not validate: the PyTorch cache keeps what came before.
RejectTensors(p) ==
    /\ IsAt(p, "register") /\ task[p].hash \in Malformed
    /\ \/ setup.runtime = "llama" /\ Reject(p, ram[p])
       \/ setup.runtime = "torch" /\ Reject(p, [ram[p] EXCEPT
                                      !.kv = FillCache(@, task[p].hash), !.mixed = TRUE])

\* The live hook fails or its proof does not name the block.
RejectBinding(p) ==
    /\ IsAt(p, "register") /\ setup.hook /\ task[p].hash \notin Malformed
    /\ Reject(p, ram[p])

Register(p) ==
    LET h == task[p].hash
        mode == IF setup.hook THEN "live" ELSE "accepted"
    IN /\ IsAt(p, "register")
       /\ h \notin Malformed \/ Strict
       /\ ram' = [ram EXCEPT ![p].blocks = Merge(@, [x \in {h} |-> mode]),
                             ![p].live = IF setup.hook THEN h ELSE @,
                             ![p].kv = IF setup.runtime = "torch" THEN FillCache(@, h) ELSE @,
                             ![p].mixed = FALSE, ![p].last = h]
       /\ task' = [task EXCEPT ![p].at = "persist"]
       /\ UNCHANGED <<setup, disk, accepted, exported, raced, left>>

(***************************************************************************)
(* The state file.                                                         *)
(***************************************************************************)
\* Between the read of the file and the end of its rewriting.
Rewrites(q) == IsAt(q, "open") \/ IsAt(q, "write")

Race(p) == raced' = (raced \/ \E q \in Procs \ {p} : Rewrites(q))

\* Mutant of PersistRead: the blocks of the file are not merged.
PersistReadUnmerged(p) ==
    /\ IsAt(p, "persist") /\ ~(Strict /\ disk = Torn)
    /\ task' = [task EXCEPT ![p].new = [NoFile EXCEPT !.blocks = ram[p].blocks],
          ![p].at = "open", ![p].then = IF setup.runtime = "llama" THEN "result" ELSE "done"]
    /\ Race(p) /\ UNCHANGED <<setup, disk, ram, accepted, exported, left>>

\* _persist, _persist_runtime_summary, save_state: the blocks of the file and
\* of memory, and nothing else that was in the file.
PersistRead(p) ==
    /\ IsAt(p, "persist") /\ ~(Strict /\ disk = Torn)
    /\ task' = [task EXCEPT
          ![p].new = [NoFile EXCEPT !.blocks = Merge(Parsed(disk).blocks, ram[p].blocks)],
          ![p].at = "open", ![p].then = IF setup.runtime = "llama" THEN "result" ELSE "done"]
    /\ Race(p) /\ UNCHANGED <<setup, disk, ram, accepted, exported, left>>

\* Mutant of ResultRead: a registration without a hook leaves a result too.
ResultReadAlways(p) ==
    /\ IsAt(p, "result")
    /\ task' = [task EXCEPT
          ![p].new = [Parsed(disk) EXCEPT
              !.live = IF task[p].kind = "register" THEN task[p].hash ELSE @,
              !.verify = IF task[p].kind = "verify" THEN ram[p].verify ELSE @],
          ![p].at = "open", ![p].then = "done"]
    /\ Race(p) /\ UNCHANGED <<setup, disk, ram, accepted, exported, left>>

\* _persist_runtime_result: the file as it is now, with the result that the
\* request produced.
ResultRead(p) ==
    /\ IsAt(p, "result")
    /\ task' = [task EXCEPT
          ![p].new = [Parsed(disk) EXCEPT
              !.live = IF task[p].kind = "register" /\ ram[p].live # None THEN ram[p].live ELSE @,
              !.verify = IF task[p].kind = "verify" THEN ram[p].verify ELSE @],
          ![p].at = "open", ![p].then = "done"]
    /\ Race(p) /\ UNCHANGED <<setup, disk, ram, accepted, exported, left>>

OpenFile(p) ==
    /\ IsAt(p, "open")
    /\ disk' = Torn
    /\ task' = [task EXCEPT ![p].at = "write"]
    /\ UNCHANGED <<setup, ram, accepted, exported, raced, left>>

\* Two writers may leave a file that does not parse.  With the last file
\* written the request is answered.
WriteFile(p) ==
    /\ IsAt(p, "write")
    /\ disk' \in IF disk = Torn THEN {task[p].new} ELSE {task[p].new, Torn}
    /\ IF task[p].then = "result"
       THEN task' = [task EXCEPT ![p].at = "result"] /\ UNCHANGED <<ram, accepted>>
       ELSE /\ End(p, ram[p])
            /\ accepted' = accepted \cup (IF task[p].kind = "register" THEN {task[p].hash} ELSE {})
    /\ UNCHANGED <<setup, exported, raced, left>>

\* json.loads raises in a strict reader.
ReadTorn(p) ==
    /\ Strict /\ disk = Torn
    /\ IsAt(p, "persist") \/ IsAt(p, "verify")
    /\ Reject(p, ram[p])

(***************************************************************************)
(* verify_permeant_hashes.                                                 *)
(***************************************************************************)
Known(p) == DOMAIN ram[p].blocks \cup DOMAIN Parsed(disk).blocks

\* hook of llamacpp_live_state_hook.py: its proof binds the first hash only, and
\* _validate_continuation_result wants all of them bound.
LiveHookBinds(hashes) == \E h \in hashes : {h} = hashes

\* The continuation is refused, or the helper fails.
RejectContinuation(p) ==
    /\ IsAt(p, "verify") /\ setup.hook /\ task[p].hashes \subseteq Known(p)
    /\ Reject(p, ram[p])

\* claim: what decode_status says.  known is history.  The PyTorch runtime
\* and the strict ones write nothing.
Verify(p) ==
    LET hashes == task[p].hashes
        claim == IF setup.hook THEN "proven" ELSE "none"
        result == IF hashes \subseteq Known(p)
                  THEN [success |-> TRUE, hashes |-> hashes, claim |-> claim, known |-> Known(p)]
                  ELSE [success |-> FALSE, hashes |-> hashes \ Known(p), claim |-> "none",
                        known |-> Known(p)]
        object == [ram[p] EXCEPT !.verify = result]
    IN /\ IsAt(p, "verify") /\ ~(Strict /\ disk = Torn)
       /\ setup.hook /\ result.success => LiveHookBinds(hashes)
       /\ IF setup.runtime = "llama"
          THEN ram' = [ram EXCEPT ![p] = object] /\ task' = [task EXCEPT ![p].at = "result"]
          ELSE End(p, object)
       /\ UNCHANGED <<setup, disk, accepted, exported, raced, left>>

(***************************************************************************)
(* export_reverse_runtime_state.                                           *)
(***************************************************************************)
\* Mutant of ReadPart: the blocks are those of memory.
ReadPartOfMemory(p) ==
    LET part == Head(task[p].parts)
        now == Parsed(disk)
    IN /\ IsAt(p, "export") /\ task[p].parts # <<>>
       /\ task' = [task EXCEPT ![p].parts = Tail(@),
             ![p].got.verify = IF part = "existing" THEN now.verify ELSE @,
             ![p].got.blocks = IF part = "blocks" THEN ram[p].blocks ELSE @,
             ![p].names = IF part = "hashes" THEN Known(p) ELSE @]
       /\ UNCHANGED <<setup, disk, ram, accepted, exported, raced, left>>

ReadPart(p) ==
    LET part == Head(task[p].parts)
        now == Parsed(disk)
        blocks == IF now.blocks = NoFile.blocks THEN ram[p].blocks ELSE now.blocks
    IN /\ IsAt(p, "export") /\ task[p].parts # <<>>
       /\ task' = [task EXCEPT ![p].parts = Tail(@),
             ![p].got.verify = IF part = "existing" THEN now.verify ELSE @,
             ![p].got.blocks = IF part = "blocks" THEN blocks ELSE @,
             ![p].names = IF part = "hashes" THEN Known(p) ELSE @]
       /\ UNCHANGED <<setup, disk, ram, accepted, exported, raced, left>>

\* _decode_claim
DecodeClaim(blocks, verify) ==
    IF verify # None /\ verify.claim = "proven" THEN "proven"
    ELSE IF \E h \in DOMAIN blocks : blocks[h] = "live" THEN "bound" ELSE "none"

EndExport(p) ==
    LET verify == IF ram[p].verify # None THEN ram[p].verify ELSE task[p].got.verify
        blocks == task[p].got.blocks
    IN /\ IsAt(p, "export") /\ task[p].parts = <<>>
       /\ exported' = [registered |-> task[p].names, blocks |-> DOMAIN blocks,
                       verify |-> verify, claim |-> DecodeClaim(blocks, verify)]
       /\ End(p, ram[p])
       /\ UNCHANGED <<setup, disk, accepted, raced, left>>

\* A command, or the host, is killed wherever it is.
KillProcess(p) ==
    /\ left.kills > 0 /\ ~IsAt(p, "idle")
    /\ left' = [left EXCEPT !.kills = @ - 1]
    /\ End(p, EmptyRam)
    /\ UNCHANGED <<setup, disk, accepted, exported, raced>>

(***************************************************************************)
(* Specification.                                                          *)
(***************************************************************************)
RefInit ==
    /\ setup \in Setups
    /\ disk = NoFile
    /\ ram = [p \in Procs |-> EmptyRam]
    /\ task = [p \in Procs |-> IdleTask]
    /\ accepted = {} /\ exported = None
    /\ raced = FALSE
    /\ left = [asks |-> IF setup.alone THEN AsksAlone ELSE AsksAtOnce, kills |-> Kills]

RefNext ==
    \E p \in Procs :
        \/ \E h \in Hashes : Ask(p, "register", h, {})
        \/ \E hs \in (SUBSET Hashes) \ {{}} : Ask(p, "verify", None, hs)
        \/ Ask(p, "export", None, {})
        \/ RejectTensors(p) \/ RejectBinding(p) \/ Register(p)
        \/ PersistRead(p) \/ ResultRead(p) \/ OpenFile(p) \/ WriteFile(p)
        \/ ReadTorn(p) \/ RejectContinuation(p) \/ Verify(p)
        \/ ReadPart(p) \/ EndExport(p)
        \/ KillProcess(p)

RefSpec == RefInit /\ [][RefNext]_refVars

(***************************************************************************)
(* Properties.                                                             *)
(***************************************************************************)
NobodyWrites == \A p \in Procs : ~IsAt(p, "write")

\* Types: the file holds blocks of the payloads, the result of a live hook
\* only if there is one, and the result of a verification only for llama.cpp.
RefTypeOK ==
    /\ disk # Torn =>
          /\ DOMAIN disk.blocks \subseteq Hashes
          /\ disk.live # None => setup.hook
          /\ disk.verify # None => setup.runtime = "llama"
    /\ \A p \in Procs : DOMAIN ram[p].blocks \subseteq Hashes

\* Every hash that was answered with success is in the state file, however
\* many other commands, overlapping and failed ones included, have rewritten
\* it since: unless two rewrote it at once or a command was killed.
AcceptedIsPersisted ==
    ~raced /\ left.kills = Kills /\ NobodyWrites =>
        accepted \subseteq DOMAIN Parsed(disk).blocks

\* llamacpp_runtime_bridge.py promises not to overclaim decode fidelity: when
\* every request is a command of its own, an exported claim "proven" rests on
\* a continuation verified after the last registration.  A runtime that is
\* kept in memory does not erase the old result.
ClaimIsCurrent ==
    /\ exported # None /\ setup.alone /\ setup.lifetime = "fresh"
    /\ exported.claim = "proven"
    => exported.verify.success /\ exported.verify.known = exported.registered

\* The blocks and the hashes of an export agree although they are read from
\* the file one after the other, if commands do not overlap.
ExportIsConsistent ==
    exported # None /\ setup.alone => exported.registered = exported.blocks

\* An export says what is there: its parts agree and its claim is not stale.
ExportTellsTheTruth == ClaimIsCurrent /\ ExportIsConsistent

\* The PyTorch cache holds one block, the one registered last, unless a
\* registration has failed since.
CacheIsOfOneBlock ==
    \A p \in Procs :
        setup.runtime = "torch" /\ ~ram[p].mixed => \A l \in Layers2 : ram[p].kv[l] = ram[p].last

\* What was registered is kept: in the file, and in the cache whole.
RegisteredIsKept == AcceptedIsPersisted /\ CacheIsOfOneBlock
=============================================================================
