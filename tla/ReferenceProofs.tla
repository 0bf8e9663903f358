-------------------------- MODULE ReferenceProofs ---------------------------
(***************************************************************************)
(* The targets with a state file (ReferenceRuntime) keep what they         *)
(* accepted and export what is there, for any number of commands,          *)
(* payloads, requests and kills.                                           *)
(*                                                                         *)
(* The argument: unless two commands raced, one at a time rewrites the     *)
(* file and carries over whatever was promised (Kept); requests that come  *)
(* one after the other find in memory no more than the file has (Alone);   *)
(* a verified continuation in the file is about the blocks of the file     *)
(* (Sound), and so an export's parts agree (Export).                       *)
(*                                                                         *)
(* The second part is about the live source (MlxSource), for every seed,   *)
(* every length and every generated text: its cache is always of its       *)
(* tokens, its text is theirs if the tokenizer can decode, and what it     *)
(* answered and imported last is about this runtime (SourceInv).           *)
(***************************************************************************)
EXTENDS ReferenceRuntime, MlxSource, Integers, TLAPS

(* Most leaves are first-order: Zenon is tried before SMT. *)
USE ZenonT(2), SMTT(30), ZenonT(60)

(* Types. *)
Labels == {"idle", "register", "verify", "export", "persist", "result", "open", "write"}
Tasks == [at : Labels, kind : {"none", "register", "verify", "export"},
          hash : Hashes \cup {None}, hashes : SUBSET Hashes, mode : {"accepted"},
          new : Files \cup {None}, then : {"idle", "result", "done"},
          parts : Seq({"existing", "blocks", "hashes"}), got : Files, names : SUBSET Hashes]
Rams == [blocks : BlockMaps, verify : Verdicts \cup {None}, live : Hashes \cup {None},
         kv : [Layers2 -> Hashes \cup {None}], mixed : BOOLEAN, last : Hashes \cup {None}]
Exports == [registered : SUBSET Hashes, blocks : SUBSET Hashes,
            verify : Verdicts \cup {None}, claim : {"proven", "bound", "none"}]

Types ==
    /\ setup \in Setups
    /\ disk \in Files \cup {Torn}
    /\ ram \in [Procs -> Rams]
    /\ task \in [Procs -> Tasks]
    /\ accepted \subseteq Hashes
    /\ exported \in Exports \cup {None}
    /\ raced \in BOOLEAN
    /\ left \in [asks : Nat, kills : 0 .. Kills]

(* Where a request is, and what it then has. *)
Flow ==
    \A p \in Procs :
        /\ task[p].at \in {"register", "verify", "export"} => task[p].kind = task[p].at
        /\ IsAt(p, "persist") => task[p].kind = "register" /\ task[p].hash \in DOMAIN ram[p].blocks
        /\ IsAt(p, "result") \/ Rewrites(p) => task[p].kind \in {"register", "verify"}
        /\ task[p].kind = "register" => task[p].hash \in Hashes
        /\ Rewrites(p) => task[p].new \in Files
        /\ Rewrites(p) /\ task[p].then = "result" => task[p].kind = "register"

(* What must be in the file: the hashes answered with success and those    *)
(* whose registration is only waiting for the second rewriting.            *)
Promised ==
    accepted \cup {task[p].hash : p \in {q \in Procs : task[q].kind = "register" /\ IsAt(q, "result")}}

Quiet == ~raced /\ left.kills = Kills

Kept ==
    /\ ~raced => \A p, q \in Procs : Rewrites(p) /\ Rewrites(q) => p = q
    /\ ~raced => \A p \in Procs : IsAt(p, "write") => disk = Torn
    /\ Quiet /\ NobodyWrites => Promised \subseteq DOMAIN Parsed(disk).blocks
    /\ Quiet => \A p \in Procs : Rewrites(p) =>
          /\ Promised \subseteq DOMAIN task[p].new.blocks
          /\ task[p].kind = "register" => task[p].hash \in DOMAIN task[p].new.blocks

(* Requests one after the other. *)
Alone ==
    setup.alone =>
        /\ \A p \in Procs : ~IsAt(p, "idle") =>
              \A q \in Procs \ {p} : IsAt(q, "idle") /\ ram[q] = EmptyRam
        /\ \A p \in Procs : IsAt(p, "write") => disk = Torn
        /\ \A p \in Procs : ~Rewrites(p) /\ ~IsAt(p, "persist") =>
              DOMAIN ram[p].blocks \subseteq DOMAIN Parsed(disk).blocks
        /\ \A p \in Procs : Rewrites(p) => DOMAIN ram[p].blocks \subseteq DOMAIN task[p].new.blocks

(* A command of its own starts with nothing. *)
Fresh ==
    setup.lifetime = "fresh" =>
        \A p \in Procs :
            /\ task[p].at \in {"idle", "register", "verify", "export"} => ram[p] = EmptyRam
            /\ task[p].kind = "verify" => ram[p].blocks = NoFile.blocks

About(verify, hashes) ==
    verify # None /\ verify.claim = "proven" => verify.success /\ verify.known = hashes

(* A proven continuation is about the blocks it lies with. *)
Sound ==
    setup.alone /\ setup.lifetime = "fresh" =>
        /\ About(Parsed(disk).verify, DOMAIN Parsed(disk).blocks)
        /\ \A p \in Procs :
              /\ Rewrites(p) => About(task[p].new.verify, DOMAIN task[p].new.blocks)
              /\ IsAt(p, "result") /\ task[p].kind = "verify" =>
                    About(ram[p].verify, DOMAIN Parsed(disk).blocks)

Remains(p, part) == \E i \in 1 .. Len(task[p].parts) : task[p].parts[i] = part

(* The parts that an export has read. *)
Export ==
    setup.alone =>
        \A p \in Procs : IsAt(p, "export") =>
            /\ Remains(p, "hashes") \/ task[p].names = Known(p)
            /\ Remains(p, "blocks") \/ DOMAIN task[p].got.blocks = Known(p)
            /\ task[p].got.verify \in {None, Parsed(disk).verify}

Core ==
    Types /\ Flow /\ Kept /\ CacheIsOfOneBlock /\ Alone /\ Fresh /\ Sound /\ Export

RefInv == Core /\ ExportTellsTheTruth

-----------------------------------------------------------------------------

LEMMA Empties ==
    /\ NoFile.blocks \in BlockMaps /\ DOMAIN NoFile.blocks = {} /\ NoFile \in Files
    /\ NoFile.verify = None
    /\ EmptyRam \in Rams /\ IdleTask \in Tasks
<1> DEFINE e == [h \in {} |-> "accepted"]
<1>1. e \in [{} -> {"accepted", "live"}] /\ {} \in SUBSET Hashes
  OBVIOUS
<1>2. e \in BlockMaps
  BY <1>1 DEF BlockMaps
<1>3. NoFile.blocks = e /\ DOMAIN e = {} /\ NoFile.verify = None
  BY DEF NoFile
<1> HIDE DEF e
<1>4. NoFile \in Files
  BY <1>2 DEF NoFile, Files, e
<1>5. <<None, None>> \in [Layers2 -> Hashes \cup {None}]
  BY DEF Layers2
<1>6. EmptyRam \in Rams
  BY <1>2, <1>3, <1>5 DEF EmptyRam, Rams
<1>7. IdleTask \in Tasks
  BY <1>4 DEF IdleTask, Tasks, Labels
<1> QED BY <1>2, <1>3, <1>4, <1>6, <1>7

LEMMA ParsedFile ==
    ASSUME NEW content \in Files \cup {Torn}
    PROVE  Parsed(content) \in Files /\ (content # Torn => Parsed(content) = content)
BY Empties DEF Parsed

LEMMA Merged ==
    ASSUME NEW f \in BlockMaps, NEW g \in BlockMaps
    PROVE  Merge(f, g) \in BlockMaps /\ DOMAIN Merge(f, g) = DOMAIN f \cup DOMAIN g
<1>1. PICK S \in SUBSET Hashes : f \in [S -> {"accepted", "live"}]
  BY DEF BlockMaps
<1>2. PICK T \in SUBSET Hashes : g \in [T -> {"accepted", "live"}]
  BY DEF BlockMaps
<1>3. Merge(f, g) \in [S \cup T -> {"accepted", "live"}] /\ S \cup T \in SUBSET Hashes
  BY <1>1, <1>2 DEF Merge
<1> QED BY <1>1, <1>2, <1>3 DEF BlockMaps

LEMMA MapDomain ==
    ASSUME NEW f \in BlockMaps
    PROVE  DOMAIN f \subseteq Hashes
BY DEF BlockMaps

LEMMA RefInitInv == RefInit => RefInv
<1> SUFFICES ASSUME RefInit PROVE RefInv
  OBVIOUS
<1>1. \A p \in Procs : task[p] = IdleTask /\ ram[p] = EmptyRam
  BY DEF RefInit
<1>2. /\ IdleTask.at = "idle" /\ IdleTask.kind = "none"
      /\ EmptyRam.blocks = NoFile.blocks /\ EmptyRam.verify = None
      /\ EmptyRam.kv = <<None, None>> /\ EmptyRam.last = None
  BY DEF IdleTask, EmptyRam
<1>3. Types
  <2>1. left \in [asks : Nat, kills : 0 .. Kills]
    BY RefAssumption DEF RefInit
  <2> QED BY ZenonT(60), <2>1, Empties DEF RefInit, Types
<1>4. Parsed(disk) = NoFile
  BY DEF RefInit, Parsed
<1>5. Flow /\ Kept
  BY <1>1, <1>2, <1>4, Empties DEF RefInit, Flow, Kept, Promised, IsAt, Rewrites
<1>6. CacheIsOfOneBlock
  BY <1>1, <1>2 DEF CacheIsOfOneBlock, Layers2
<1>7. Alone /\ Fresh
  BY <1>1, <1>2, <1>4, Empties DEF Alone, Fresh, IsAt, Rewrites
<1>8. Sound
  BY <1>1, <1>2, <1>4, Empties DEF Sound, About, IsAt, Rewrites
<1>9. Export /\ ExportTellsTheTruth
  BY <1>1, <1>2 DEF RefInit, Export, IsAt, ExportTellsTheTruth, ClaimIsCurrent, ExportIsConsistent
<1> QED BY <1>3, <1>5, <1>6, <1>7, <1>8, <1>9 DEF RefInv, Core

-----------------------------------------------------------------------------
(* A request begins. *)
LEMMA AskStep ==
    ASSUME Core, NEW p \in Procs, NEW kind \in {"register", "verify", "export"},
           NEW hash \in Hashes \cup {None}, NEW hashes \in SUBSET Hashes,
           kind = "register" => hash \in Hashes, Ask(p, kind, hash, hashes)
    PROVE  Core'
<1> USE DEF Core
<1>1. Types /\ UNCHANGED <<setup, disk, ram, accepted, exported, raced>>
  BY DEF Ask
<1> DEFINE parts == IF kind = "export" THEN ExportParts ELSE <<>>
           new == [IdleTask EXCEPT !.at = kind, !.kind = kind, !.hash = hash, !.hashes = hashes,
                                   !.parts = parts]
<1>2. task' = [task EXCEPT ![p] = new]
  BY DEF Ask
<1>3. ExportParts \in Seq({"existing", "blocks", "hashes"})
      /\ \A part \in {"hashes", "blocks"} : \E i \in 1 .. Len(ExportParts) : ExportParts[i] = part
  <2>1. ASSUME NEW a \in {"existing", "blocks", "hashes"}, NEW b \in {"existing", "blocks", "hashes"},
               NEW c \in {"existing", "blocks", "hashes"}
        PROVE  /\ <<a, b>> \in Seq({"existing", "blocks", "hashes"}) /\ Len(<<a, b>>) = 2
               /\ <<a, b>>[1] = a /\ <<a, b>>[2] = b
               /\ <<a, b, c>> \in Seq({"existing", "blocks", "hashes"}) /\ Len(<<a, b, c>>) = 3
               /\ <<a, b, c>>[2] = b /\ <<a, b, c>>[3] = c
    OBVIOUS
  <2>2. 1 \in 1 .. 2 /\ 2 \in 1 .. 2 /\ 2 \in 1 .. 3 /\ 3 \in 1 .. 3
    OBVIOUS
  <2>3. CASE setup.runtime = "llama"
    <3>1. ExportParts = <<"existing", "blocks", "hashes">>
      BY <2>3 DEF ExportParts
    <3>2. /\ ExportParts \in Seq({"existing", "blocks", "hashes"}) /\ Len(ExportParts) = 3
          /\ ExportParts[2] = "blocks" /\ ExportParts[3] = "hashes"
      BY <2>1, <3>1
    <3> QED BY <2>2, <3>2
  <2>4. CASE setup.runtime # "llama"
    <3>1. ExportParts = <<"hashes", "blocks">>
      BY <2>4 DEF ExportParts
    <3>2. /\ ExportParts \in Seq({"existing", "blocks", "hashes"}) /\ Len(ExportParts) = 2
          /\ ExportParts[1] = "hashes" /\ ExportParts[2] = "blocks"
      BY <2>1, <3>1
    <3> QED BY <2>2, <3>2
  <2> QED BY <2>3, <2>4
<1>4. /\ new \in Tasks /\ new.at = kind /\ new.kind = kind /\ new.hash = hash
      /\ new.parts = parts
      /\ new.got = NoFile
  <2>1. parts \in Seq({"existing", "blocks", "hashes"}) /\ kind \in Labels /\ IdleTask \in Tasks
    BY <1>3, Empties DEF Labels
  <2>2. IdleTask.got = NoFile
    BY DEF IdleTask
  <2> HIDE DEF parts
  <2>3. /\ new \in Tasks /\ new.at = kind /\ new.kind = kind /\ new.hash = hash
        /\ new.parts = parts /\ new.got = NoFile
    BY ZenonT(60), <2>1, <2>2 DEF Tasks
  <2> QED BY ZenonT(60), <2>3 DEF parts
<1> HIDE DEF new
<1>5. /\ task'[p] = new /\ \A q \in Procs \ {p} : task'[q] = task[q]
      /\ task' \in [Procs -> Tasks]
  BY <1>1, <1>2, <1>4 DEF Types
<1>6. IsAt(p, "idle") /\ left'.kills = left.kills /\ left' \in [asks : Nat, kills : 0 .. Kills]
  BY <1>1 DEF Ask, Types
<1>7. Types'
  BY <1>1, <1>5, <1>6 DEF Types
<1>8. /\ ~Rewrites(p)' /\ ~IsAt(p, "write")' /\ ~IsAt(p, "result")' /\ ~IsAt(p, "persist")'
      /\ ~IsAt(p, "idle")'
  BY <1>4, <1>5 DEF Rewrites, IsAt
<1>9. \A q \in Procs \ {p} : \A l : (IsAt(q, l)' <=> IsAt(q, l)) /\ (Rewrites(q)' <=> Rewrites(q))
  BY <1>5 DEF Rewrites, IsAt
<1>10. Flow'
  BY <1>1, <1>4, <1>5, <1>8, <1>9 DEF Flow
<1>11. Promised' \subseteq Promised
  BY <1>1, <1>5, <1>8, <1>9 DEF Promised
<1>12. Kept'
  <2>1. (Quiet' <=> Quiet) /\ (NobodyWrites' => NobodyWrites)
    BY <1>1, <1>6, <1>8, <1>9 DEF Quiet, NobodyWrites, IsAt
  <2>2. Parsed(disk)' = Parsed(disk)
    BY <1>1 DEF Parsed
  <2> QED BY <1>1, <1>5, <1>8, <1>9, <1>11, <2>1, <2>2 DEF Kept
<1>13. CacheIsOfOneBlock'
  BY <1>1 DEF CacheIsOfOneBlock
<1>14. ASSUME setup.alone
       PROVE  \A q \in Procs \ {p} : IsAt(q, "idle")
                  /\ (setup.lifetime \in {"fresh", "long"} => ram[q] = EmptyRam)
  BY <1>14 DEF Ask, Fresh, IsAt
<1>15. setup.lifetime \in {"fresh", "long"}
  BY <1>1 DEF Types, Setups
<1>16. Parsed(disk)' = Parsed(disk)
  BY <1>1 DEF Parsed
<1>17. Alone'
  <2> SUFFICES ASSUME setup.alone PROVE Alone'
    BY <1>1 DEF Alone
  <2>1. \A q \in Procs \ {p} : IsAt(q, "idle")' /\ ~Rewrites(q)' /\ ~IsAt(q, "write")' /\ ram'[q] = EmptyRam
    BY <1>1, <1>5, <1>14, <1>15 DEF IsAt, Rewrites
  <2>2. \A q \in Procs : DOMAIN ram[q].blocks \subseteq DOMAIN Parsed(disk).blocks
    <3>1. \A q \in Procs : ~Rewrites(q) /\ ~IsAt(q, "persist")
      BY <1>6, <1>14 DEF IsAt, Rewrites
    <3> QED BY <3>1 DEF Alone
  <2> QED BY <1>1, <1>8, <1>16, <2>1, <2>2 DEF Alone
<1>18. Fresh'
  <2> SUFFICES ASSUME setup.lifetime = "fresh" PROVE Fresh'
    BY <1>1 DEF Fresh
  <2>1. ram[p] = EmptyRam /\ EmptyRam.blocks = NoFile.blocks
    BY ZenonT(60), <1>6 DEF Fresh, IsAt, EmptyRam
  <2> QED BY <1>1, <1>5, <2>1 DEF Fresh
<1>19. Sound'
  BY <1>1, <1>5, <1>8, <1>9, <1>16 DEF Sound
<1>20. Export'
  <2> SUFFICES ASSUME setup.alone PROVE Export'
    BY <1>1 DEF Export
  <2>1. \A q \in Procs \ {p} : ~IsAt(q, "export")'
    BY <1>9, <1>14 DEF IsAt
  <2>2. ASSUME kind = "export"
        PROVE  Remains(p, "hashes")' /\ Remains(p, "blocks")'
    BY ZenonT(60), <1>3, <1>4, <1>5, <2>2, <1>1 DEF Remains, ExportParts
  <2> QED BY <1>4, <1>5, <2>1, <2>2, Empties DEF Export, IsAt
<1> QED BY <1>7, <1>10, <1>12, <1>13, <1>17, <1>18, <1>19, <1>20

(* A request ends, with an answer or killed, and leaves the file alone. *)
LEMMA EndStep ==
    ASSUME Core, NEW p \in Procs, NEW object \in Rams, End(p, object), ~IsAt(p, "idle"),
           UNCHANGED <<setup, disk, accepted, raced>>,
           exported' \in Exports \cup {None},
           object = EmptyRam \/ object.blocks = ram[p].blocks,
           setup.runtime = "torch" /\ ~object.mixed => \A l \in Layers2 : object.kv[l] = object.last,
           \/ left' = left /\ ~Rewrites(p) /\ (~IsAt(p, "persist") \/ setup.lifetime = "fresh")
           \/ object = EmptyRam /\ left' \in [asks : Nat, kills : 0 .. Kills] /\ left'.kills # Kills
    PROVE  Core'
<1> USE DEF Core
<1> DEFINE after == IF setup.lifetime = "fresh" THEN EmptyRam ELSE object
<1>1. /\ task' = [task EXCEPT ![p] = IdleTask] /\ ram' = [ram EXCEPT ![p] = after] /\ after \in Rams
      /\ EmptyRam.blocks = NoFile.blocks /\ EmptyRam.kv = <<None, None>> /\ EmptyRam.last = None
      /\ IdleTask.at = "idle" /\ IdleTask.kind = "none"
  BY Empties DEF End, EmptyRam, IdleTask
<1>2. /\ task'[p] = IdleTask /\ ram'[p] = after /\ ram' \in [Procs -> Rams] /\ task' \in [Procs -> Tasks]
      /\ \A q \in Procs \ {p} : task'[q] = task[q] /\ ram'[q] = ram[q]
  BY <1>1, Empties DEF Types
<1>3. after = EmptyRam \/ after = object
  OBVIOUS
<1>4. setup.lifetime = "fresh" => after = EmptyRam
  OBVIOUS
<1> HIDE DEF after
<1>5. Types'
  BY <1>2 DEF Types
<1>6. Parsed(disk)' = Parsed(disk)
  BY DEF Parsed
<1>7. \A q \in Procs \ {p} : \A l : (IsAt(q, l)' <=> IsAt(q, l)) /\ (Rewrites(q)' <=> Rewrites(q))
  BY <1>2 DEF Rewrites, IsAt
<1>8. /\ IsAt(p, "idle")' /\ ~Rewrites(p)' /\ ~IsAt(p, "write")' /\ ~IsAt(p, "result")'
      /\ ~IsAt(p, "persist")' /\ ~IsAt(p, "export")' /\ task'[p].kind = "none"
  BY <1>1, <1>2 DEF Rewrites, IsAt
<1>9. Flow'
  BY <1>1, <1>2, <1>7, <1>8 DEF Flow
<1>10. Promised' \subseteq Promised
  BY <1>2, <1>7, <1>8 DEF Promised
<1>11. Kept'
  <2>1. Quiet' => Quiet /\ ~IsAt(p, "write")
    BY DEF Quiet, Rewrites
  <2>2. NobodyWrites' /\ ~IsAt(p, "write") => NobodyWrites
    BY <1>7 DEF NobodyWrites
  <2> QED BY ZenonT(60), <1>2, <1>6, <1>7, <1>8, <1>10, <2>1, <2>2 DEF Kept
<1>12. CacheIsOfOneBlock'
  <2>1. setup.runtime = "torch" /\ ~after.mixed => \A l \in Layers2 : after.kv[l] = after.last
    BY <1>1, <1>3 DEF Layers2
  <2> QED BY <1>2, <2>1 DEF CacheIsOfOneBlock
<1>13. Alone'
  <2> SUFFICES ASSUME setup.alone PROVE Alone'
    BY DEF Alone
  <2>1. \A q \in Procs \ {p} : IsAt(q, "idle") /\ ram[q] = EmptyRam
    BY DEF Alone
  <2>2. DOMAIN after.blocks \subseteq DOMAIN Parsed(disk).blocks
    <3>1. CASE after = EmptyRam
      BY <1>1, <3>1, Empties
    <3>2. CASE after = object /\ object # EmptyRam
      BY <1>4, <3>2 DEF Alone
    <3> QED BY <1>3, <3>1, <3>2
  <2>3. \A q \in Procs : IsAt(q, "idle")' /\ ~Rewrites(q)' /\ ~IsAt(q, "write")'
    BY <1>2, <1>8, <2>1 DEF IsAt, Rewrites
  <2>4. \A q \in Procs : DOMAIN ram'[q].blocks \subseteq DOMAIN Parsed(disk).blocks
    BY <1>1, <1>2, <2>1, <2>2, Empties
  <2> QED BY <1>6, <2>3, <2>4 DEF Alone
<1>14. Fresh'
  BY <1>2, <1>4, <1>8 DEF Fresh
<1>15. Sound'
  BY <1>2, <1>6, <1>7, <1>8 DEF Sound
<1>16. Export'
  <2>1. \A q \in Procs \ {p} : (Known(q)' = Known(q)) /\ \A x : Remains(q, x)' <=> Remains(q, x)
    BY <1>2, <1>6 DEF Known, Remains
  <2> QED BY <1>2, <1>6, <1>7, <1>8, <2>1 DEF Export
<1> QED BY <1>5, <1>9, <1>11, <1>12, <1>13, <1>14, <1>15, <1>16

(* register_permeant_block notes the block in memory. *)
LEMMA RegisterStep ==
    ASSUME Core, NEW p \in Procs, Register(p)
    PROVE  Core'
<1> USE DEF Core
<1> DEFINE h == task[p].hash
           one == [x \in {h} |-> IF setup.hook THEN "live" ELSE "accepted"]
           live == IF setup.hook THEN h ELSE ram[p].live
           kv == IF setup.runtime = "torch" THEN FillCache(ram[p].kv, h) ELSE ram[p].kv
           blocks == Merge(ram[p].blocks, one)
<1>1. /\ Types /\ UNCHANGED <<setup, disk, accepted, exported, raced, left>>
      /\ task' = [task EXCEPT ![p].at = "persist"]
      /\ IsAt(p, "register") /\ (h \notin Malformed \/ Strict)
      /\ ram[p] \in Rams /\ task[p] \in Tasks
  BY DEF Register, Types
<1>2. task[p].kind = "register" /\ h \in Hashes
  BY <1>1 DEF Flow, IsAt
<1>3. one \in BlockMaps /\ DOMAIN one = {h}
  <2>1. one \in [{h} -> {"accepted", "live"}] /\ {h} \in SUBSET Hashes
    BY <1>2
  <2> QED BY ZenonT(60), <2>1 DEF BlockMaps
<1>4. ram[p].blocks \in BlockMaps /\ ram[p].kv \in [Layers2 -> Hashes \cup {None}]
  BY <1>1 DEF Rams
<1>5. blocks \in BlockMaps /\ DOMAIN blocks = DOMAIN ram[p].blocks \cup {h}
  BY <1>3, <1>4, Merged
<1>6. kv \in [Layers2 -> Hashes \cup {None}] /\ live \in Hashes \cup {None}
  BY <1>1, <1>2, <1>4 DEF FillCache, Rams
<1>7. setup.runtime = "torch" => \A l \in Layers2 : kv[l] = h
  BY <1>1 DEF FillCache, Strict
<1>8. ram' = [ram EXCEPT ![p].blocks = blocks, ![p].live = live, ![p].kv = kv,
                         ![p].mixed = FALSE, ![p].last = h]
  BY ZenonT(60) DEF Register
<1> HIDE DEF one, live, kv, blocks
<1>9. /\ ram'[p] \in Rams /\ ram'[p].blocks = blocks /\ ram'[p].kv = kv /\ ram'[p].last = h
      /\ ram' \in [Procs -> Rams] /\ \A q \in Procs \ {p} : ram'[q] = ram[q]
  <2>1. ram'[p] = [ram[p] EXCEPT !.blocks = blocks, !.live = live, !.kv = kv, !.mixed = FALSE, !.last = h]
        /\ \A q \in Procs \ {p} : ram'[q] = ram[q]
    BY <1>1, <1>8 DEF Types
  <2>2. ram'[p] \in Rams /\ ram'[p].blocks = blocks /\ ram'[p].kv = kv /\ ram'[p].last = h
    BY ZenonT(60), <1>1, <1>2, <1>5, <1>6, <2>1 DEF Rams
  <2>3. DOMAIN ram' = Procs
    BY <1>1, <1>8 DEF Types
  <2>4. ram' \in [Procs -> Rams]
    BY <1>1, <1>8, <2>1, <2>2, <2>3 DEF Types
  <2> QED BY <2>1, <2>2, <2>4
<1>10. /\ task' \in [Procs -> Tasks] /\ \A q \in Procs \ {p} : task'[q] = task[q]
       /\ task'[p].at = "persist" /\ task'[p].kind = "register" /\ task'[p].hash = h
  BY ZenonT(60), <1>1, <1>2 DEF Types, Tasks, Labels
<1>11. Types'
  BY <1>1, <1>9, <1>10 DEF Types
<1>12. Parsed(disk)' = Parsed(disk)
  BY <1>1 DEF Parsed
<1>13. \A q \in Procs \ {p} : \A l : (IsAt(q, l)' <=> IsAt(q, l)) /\ (Rewrites(q)' <=> Rewrites(q))
  BY <1>10 DEF Rewrites, IsAt
<1>14. /\ IsAt(p, "persist")' /\ ~Rewrites(p)' /\ ~IsAt(p, "write")' /\ ~IsAt(p, "result")'
       /\ ~IsAt(p, "export")' /\ ~IsAt(p, "idle") /\ ~IsAt(p, "write")
  BY <1>1, <1>10 DEF Rewrites, IsAt
<1>15. Flow'
  BY <1>2, <1>5, <1>9, <1>10, <1>13, <1>14 DEF Flow
<1>16. Promised' \subseteq Promised
  BY <1>1, <1>10, <1>13, <1>14 DEF Promised
<1>17. Kept'
  <2>1. (Quiet' => Quiet) /\ (NobodyWrites' => NobodyWrites)
    BY <1>1, <1>13, <1>14 DEF Quiet, NobodyWrites
  <2> QED BY ZenonT(60), <1>1, <1>10, <1>12, <1>13, <1>14, <1>16, <2>1 DEF Kept
<1>18. CacheIsOfOneBlock'
  BY <1>1, <1>7, <1>9 DEF CacheIsOfOneBlock
<1>19. Alone'
  BY <1>1, <1>9, <1>10, <1>12, <1>13, <1>14 DEF Alone
<1>20. Fresh'
  BY <1>1, <1>9, <1>10 DEF Fresh
<1>21. Sound'
  BY <1>1, <1>9, <1>10, <1>12, <1>13, <1>14 DEF Sound
<1>22. Export'
  <2>1. \A q \in Procs \ {p} : (Known(q)' = Known(q)) /\ \A x : Remains(q, x)' <=> Remains(q, x)
    BY <1>9, <1>10, <1>12 DEF Known, Remains
  <2> QED BY <1>1, <1>10, <1>12, <1>13, <1>14, <2>1 DEF Export
<1> QED BY <1>11, <1>15, <1>17, <1>18, <1>19, <1>20, <1>21, <1>22

(* A request has read the file and goes on to rewrite it as new. *)
LEMMA RewriteStep ==
    ASSUME Core, NEW p \in Procs, NEW new \in Files, NEW then \in {"result", "done"},
           IsAt(p, "persist") \/ IsAt(p, "result"),
           task' = [task EXCEPT ![p].new = new, ![p].at = "open", ![p].then = then],
           Race(p), UNCHANGED <<setup, disk, ram, accepted, exported, left>>,
           DOMAIN Parsed(disk).blocks \subseteq DOMAIN new.blocks,
           IsAt(p, "persist") => DOMAIN ram[p].blocks \subseteq DOMAIN new.blocks,
           setup.alone /\ setup.lifetime = "fresh" => About(new.verify, DOMAIN new.blocks),
           then = "result" => task[p].kind = "register"
    PROVE  Core'
<1> USE DEF Core
<1>1. /\ task' \in [Procs -> Tasks] /\ \A q \in Procs \ {p} : task'[q] = task[q]
      /\ task'[p].at = "open" /\ task'[p].kind = task[p].kind /\ task'[p].hash = task[p].hash
      /\ task'[p].new = new /\ task'[p].then = then
  <2>1. task[p] \in Tasks /\ task \in [Procs -> Tasks]
    BY DEF Types
  <2>2. task'[p] = [task[p] EXCEPT !.new = new, !.at = "open", !.then = then]
        /\ \A q \in Procs \ {p} : task'[q] = task[q]
    BY <2>1
  <2>3. /\ task'[p] \in Tasks /\ task'[p].at = "open" /\ task'[p].kind = task[p].kind
        /\ task'[p].hash = task[p].hash /\ task'[p].new = new /\ task'[p].then = then
    BY ZenonT(60), <2>1, <2>2 DEF Tasks, Labels
  <2> QED BY <2>1, <2>2, <2>3
<1>2. raced' = (raced \/ \E q \in Procs \ {p} : Rewrites(q)) /\ raced' \in BOOLEAN
  BY DEF Race
<1>3. Types'
  BY <1>1, <1>2 DEF Types
<1>4. Parsed(disk)' = Parsed(disk)
  BY DEF Parsed
<1>5. \A q \in Procs \ {p} : \A l : (IsAt(q, l)' <=> IsAt(q, l)) /\ (Rewrites(q)' <=> Rewrites(q))
  BY <1>1 DEF Rewrites, IsAt
<1>6. /\ Rewrites(p)' /\ ~IsAt(p, "persist")' /\ ~IsAt(p, "write")' /\ ~IsAt(p, "result")'
      /\ ~IsAt(p, "export")' /\ ~IsAt(p, "idle")' /\ ~IsAt(p, "idle") /\ ~IsAt(p, "write")
      /\ ~Rewrites(p)
  BY <1>1 DEF Rewrites, IsAt
<1>7. task[p].kind \in {"register", "verify"}
      /\ (IsAt(p, "persist") => task[p].kind = "register" /\ task[p].hash \in DOMAIN ram[p].blocks)
  BY DEF Flow
<1>8. Flow'
  BY <1>1, <1>5, <1>6, <1>7 DEF Flow
<1>9. Promised' \subseteq Promised
      /\ (task[p].kind = "register" /\ IsAt(p, "result") => task[p].hash \in Promised)
  BY <1>1, <1>5, <1>6 DEF Promised
<1>10. Kept'
  <2>1. NobodyWrites' <=> NobodyWrites
    BY <1>5, <1>6 DEF NobodyWrites
  <2>2. ASSUME ~raced'
        PROVE  ~raced /\ \A q \in Procs \ {p} : ~Rewrites(q) /\ ~IsAt(q, "write")
    BY ZenonT(60), <1>2, <2>2 DEF Rewrites
  <2>3. ASSUME Quiet'
        PROVE  /\ Promised' \subseteq DOMAIN Parsed(disk).blocks
               /\ task[p].kind = "register" => task[p].hash \in DOMAIN new.blocks
    <3>1. Quiet /\ NobodyWrites
      BY <1>6, <2>2, <2>3 DEF Quiet, NobodyWrites
    <3>2. Promised \subseteq DOMAIN Parsed(disk).blocks
      BY <3>1 DEF Kept
    <3> QED BY <1>7, <1>9, <3>2
  <2>4. \A q \in Procs : Rewrites(q)' /\ ~raced' => q = p
    BY <1>5, <2>2
  <2>5. Quiet' => ~raced'
    BY DEF Quiet
  <2>6. \A q \in Procs : ~raced' => ~IsAt(q, "write")'
    BY <1>5, <1>6, <2>2
  <2>7. Quiet' => Promised' \subseteq DOMAIN new.blocks
    BY <2>3
  <2>8. Quiet' /\ NobodyWrites' => Promised' \subseteq DOMAIN Parsed(disk)'.blocks
    BY <1>4, <2>3
  <2> QED BY <1>1, <2>3, <2>4, <2>5, <2>6, <2>7, <2>8 DEF Kept
<1>11. CacheIsOfOneBlock'
  BY DEF CacheIsOfOneBlock
<1>12. Alone'
  <2> SUFFICES ASSUME setup.alone PROVE Alone'
    BY ZenonT(60) DEF Alone
  <2>1. \A q \in Procs \ {p} : IsAt(q, "idle") /\ ram[q] = EmptyRam
    BY <1>6 DEF Alone
  <2>2. IsAt(p, "result") => DOMAIN ram[p].blocks \subseteq DOMAIN Parsed(disk).blocks
    BY <1>6 DEF Alone, IsAt
  <2>3. DOMAIN ram[p].blocks \subseteq DOMAIN new.blocks
    BY <2>2
  <2>4. \A q \in Procs \ {p} : IsAt(q, "idle")' /\ ~Rewrites(q)' /\ ~IsAt(q, "write")'
    BY ZenonT(60), <1>5, <2>1 DEF IsAt, Rewrites
  <2>5. \A q \in Procs \ {p} : DOMAIN ram[q].blocks \subseteq DOMAIN Parsed(disk).blocks
    BY <2>1, Empties DEF EmptyRam
  <2> QED BY <1>1, <1>4, <1>6, <2>1, <2>3, <2>4, <2>5 DEF Alone
<1>13. Fresh'
  BY <1>1 DEF Fresh
<1>14. Sound'
  BY <1>1, <1>4, <1>5, <1>6 DEF Sound
<1>15. Export'
  <2>1. \A q \in Procs \ {p} : (Known(q)' = Known(q)) /\ \A x : Remains(q, x)' <=> Remains(q, x)
    BY <1>1, <1>4 DEF Known, Remains
  <2> QED BY <1>1, <1>4, <1>5, <1>6, <2>1 DEF Export
<1> QED BY <1>3, <1>8, <1>10, <1>11, <1>12, <1>13, <1>14, <1>15

(* A request that goes on keeps all but its place. *)
LEMMA Relabel ==
    ASSUME Types, NEW p \in Procs, NEW l \in Labels, task' = [task EXCEPT ![p].at = l]
    PROVE  /\ task' \in [Procs -> Tasks] /\ \A q \in Procs \ {p} : task'[q] = task[q]
           /\ task'[p].at = l /\ task'[p].kind = task[p].kind /\ task'[p].hash = task[p].hash
           /\ task'[p].new = task[p].new /\ task'[p].then = task[p].then
<1>1. task[p] \in Tasks /\ task \in [Procs -> Tasks]
  BY DEF Types
<1>2. task'[p] = [task[p] EXCEPT !.at = l] /\ \A q \in Procs \ {p} : task'[q] = task[q]
  BY <1>1
<1>3. /\ task'[p] \in Tasks /\ task'[p].at = l /\ task'[p].kind = task[p].kind
      /\ task'[p].hash = task[p].hash /\ task'[p].new = task[p].new /\ task'[p].then = task[p].then
  BY ZenonT(60), <1>1, <1>2 DEF Tasks
<1> QED BY <1>1, <1>2, <1>3

(* write_text empties the file. *)
LEMMA OpenStep ==
    ASSUME Core, NEW p \in Procs, OpenFile(p)
    PROVE  Core'
<1> USE DEF Core
<1>1. /\ IsAt(p, "open") /\ disk' = Torn /\ task' = [task EXCEPT ![p].at = "write"]
      /\ UNCHANGED <<setup, ram, accepted, exported, raced, left>>
  BY DEF OpenFile
<1>2. /\ task' \in [Procs -> Tasks] /\ \A q \in Procs \ {p} : task'[q] = task[q]
      /\ task'[p].at = "write" /\ task'[p].kind = task[p].kind /\ task'[p].hash = task[p].hash
      /\ task'[p].new = task[p].new /\ task'[p].then = task[p].then
  BY ZenonT(60), <1>1, Relabel DEF Labels
<1>3. Types'
  BY <1>1, <1>2 DEF Types
<1>4. Parsed(disk)' = NoFile
  BY <1>1 DEF Parsed
<1>5. \A q \in Procs \ {p} : \A l : (IsAt(q, l)' <=> IsAt(q, l)) /\ (Rewrites(q)' <=> Rewrites(q))
  BY <1>2 DEF Rewrites, IsAt
<1>6. /\ Rewrites(p)' /\ ~IsAt(p, "persist")' /\ IsAt(p, "write")' /\ ~IsAt(p, "result")'
      /\ ~IsAt(p, "export")' /\ ~IsAt(p, "idle")' /\ ~IsAt(p, "idle") /\ Rewrites(p)
  BY <1>1, <1>2 DEF Rewrites, IsAt
<1>7. Flow'
  BY <1>1, <1>2, <1>5, <1>6 DEF Flow
<1>8. Promised' \subseteq Promised
  BY <1>1, <1>2, <1>5, <1>6 DEF Promised
<1>9. Kept'
  <2>1. (Quiet' <=> Quiet) /\ ~NobodyWrites'
    BY <1>1, <1>6 DEF Quiet, NobodyWrites
  <2>2. \A q \in Procs : Rewrites(q)' <=> Rewrites(q)
    BY <1>5, <1>6
  <2>3. \A q \in Procs : task'[q].new = task[q].new /\ task'[q].kind = task[q].kind
                            /\ task'[q].hash = task[q].hash
    BY <1>2
  <2> QED BY <1>1, <1>8, <2>1, <2>2, <2>3 DEF Kept
<1>10. CacheIsOfOneBlock'
  BY <1>1 DEF CacheIsOfOneBlock
<1>11. Alone'
  <2> SUFFICES ASSUME setup.alone PROVE Alone'
    BY <1>1 DEF Alone
  <2>1. \A q \in Procs \ {p} : IsAt(q, "idle") /\ ram[q] = EmptyRam
    BY <1>6 DEF Alone
  <2>2. \A q \in Procs \ {p} : DOMAIN ram[q].blocks \subseteq DOMAIN NoFile.blocks
    BY <2>1, Empties DEF EmptyRam
  <2>3. \A q \in Procs \ {p} : IsAt(q, "idle")' /\ ~Rewrites(q)'
    BY <1>5, <2>1 DEF IsAt, Rewrites
  <2>4. DOMAIN ram[p].blocks \subseteq DOMAIN task[p].new.blocks
    BY <1>6 DEF Alone
  <2> QED BY <1>1, <1>2, <1>4, <1>6, <2>1, <2>2, <2>3, <2>4 DEF Alone
<1>12. Fresh'
  BY <1>1, <1>2 DEF Fresh
<1>13. Sound'
  <2> SUFFICES ASSUME setup.alone, setup.lifetime = "fresh" PROVE Sound'
    BY <1>1 DEF Sound
  <2>1. \A q \in Procs \ {p} : IsAt(q, "idle")
    BY <1>6 DEF Alone
  <2>2. \A q \in Procs \ {p} : ~Rewrites(q)' /\ ~IsAt(q, "result")'
    BY <1>5, <2>1 DEF IsAt, Rewrites
  <2>3. About(task[p].new.verify, DOMAIN task[p].new.blocks)
    BY <1>6 DEF Sound
  <2>4. About(NoFile.verify, DOMAIN NoFile.blocks)
    BY Empties DEF About
  <2> QED BY <1>2, <1>4, <1>6, <2>2, <2>3, <2>4 DEF Sound
<1>14. Export'
  <2> SUFFICES ASSUME setup.alone PROVE Export'
    BY <1>1 DEF Export
  <2>1. \A q \in Procs \ {p} : IsAt(q, "idle")
    BY <1>6 DEF Alone
  <2>2. \A q \in Procs : ~IsAt(q, "export")'
    BY <1>5, <1>6, <2>1 DEF IsAt
  <2> QED BY <2>2 DEF Export
<1> QED BY <1>3, <1>7, <1>9, <1>10, <1>11, <1>12, <1>13, <1>14

(* The file is written, and the request goes on or is answered. *)
LEMMA WriteStep ==
    ASSUME Core, NEW p \in Procs, WriteFile(p)
    PROVE  Core'
<1> USE DEF Core
<1> DEFINE new == task[p].new
           mine == IF task[p].kind = "register" THEN {task[p].hash} ELSE {}
<1>1. /\ IsAt(p, "write") /\ disk' \in {new, Torn} /\ (disk = Torn => disk' = new)
      /\ UNCHANGED <<setup, exported, raced, left>>
  BY DEF WriteFile
<1>2. Rewrites(p) /\ new \in Files /\ task[p].kind \in {"register", "verify"}
  BY <1>1 DEF Rewrites, Flow
<1>3. Parsed(new) = new /\ (disk = Torn => Parsed(disk)' = new)
  BY <1>1, <1>2, RefAssumption DEF Parsed
<1>4. \/ /\ task[p].then = "result" /\ task[p].kind = "register"
         /\ task' = [task EXCEPT ![p].at = "result"] /\ UNCHANGED <<ram, accepted>>
      \/ End(p, ram[p]) /\ accepted' = accepted \cup mine
  BY <1>2 DEF WriteFile, Flow
<1>5. /\ task' \in [Procs -> Tasks] /\ ram' \in [Procs -> Rams]
      /\ \A q \in Procs \ {p} : task'[q] = task[q] /\ ram'[q] = ram[q]
      /\ ram'[p] \in {ram[p], EmptyRam}
      /\ \/ /\ task'[p].at = "result" /\ task'[p].kind = "register" /\ task'[p].hash = task[p].hash
            /\ task[p].kind = "register" /\ accepted' = accepted /\ ram'[p] = ram[p]
         \/ /\ task'[p].at = "idle" /\ task'[p].kind = "none" /\ accepted' = accepted \cup mine
            /\ setup.lifetime = "fresh" => ram'[p] = EmptyRam
  <2>1. CASE End(p, ram[p]) /\ accepted' = accepted \cup mine
    <3>1. IdleTask.at = "idle" /\ IdleTask.kind = "none"
      BY DEF IdleTask
    <3> QED BY <2>1, <3>1, Empties DEF End, Types
  <2>2. CASE /\ task[p].then = "result" /\ task[p].kind = "register"
             /\ task' = [task EXCEPT ![p].at = "result"] /\ UNCHANGED <<ram, accepted>>
    BY ZenonT(60), <2>2, Relabel DEF Labels, Types
  <2> QED BY <1>4, <2>1, <2>2
<1> HIDE DEF mine
<1>6. mine \subseteq Hashes /\ accepted' \subseteq accepted \cup mine
  BY <1>5 DEF mine, Flow
<1>7. Types'
  BY <1>1, <1>2, <1>5, <1>6 DEF Types
<1>8. \A q \in Procs \ {p} : \A l : (IsAt(q, l)' <=> IsAt(q, l)) /\ (Rewrites(q)' <=> Rewrites(q))
  BY <1>5 DEF Rewrites, IsAt
<1>9. /\ ~Rewrites(p)' /\ ~IsAt(p, "persist")' /\ ~IsAt(p, "write")' /\ ~IsAt(p, "export")'
      /\ ~IsAt(p, "idle") /\ (IsAt(p, "idle")' \/ (IsAt(p, "result")' /\ task'[p].kind = "register"))
  BY <1>1, <1>5 DEF Rewrites, IsAt
<1>10. Flow'
  <2>1. task'[p].at \notin {"register", "verify", "export"}
    BY <1>5
  <2>2. task'[p].kind = "none" \/ (task'[p].kind = "register" /\ task'[p].hash \in Hashes)
    BY <1>5 DEF Flow
  <2>3. IsAt(p, "result")' => task'[p].kind = "register"
    BY <1>5 DEF IsAt
  <2>4. \A q \in Procs \ {p} : task'[q] = task[q] /\ ram'[q] = ram[q]
    BY <1>5
  <2> QED BY <1>8, <1>9, <2>1, <2>2, <2>3, <2>4 DEF Flow
<1>11. Promised' \subseteq Promised \cup mine
  BY <1>5, <1>8 DEF Promised, mine
<1>12. Kept'
  <2>1. ASSUME ~raced'
        PROVE  disk = Torn /\ \A q \in Procs \ {p} : ~Rewrites(q) /\ ~IsAt(q, "write")
    BY <1>1, <1>2, <2>1 DEF Kept, Rewrites
  <2>2. \A q \in Procs : ~raced' => ~Rewrites(q)' /\ ~IsAt(q, "write")'
    BY <1>8, <1>9, <2>1
  <2>3. ASSUME Quiet'
        PROVE  Promised' \subseteq DOMAIN Parsed(disk)'.blocks
    <3>1. Quiet /\ disk = Torn
      BY <1>1, <2>1, <2>3 DEF Quiet
    <3>2. Promised \subseteq DOMAIN new.blocks /\ mine \subseteq DOMAIN new.blocks
      BY <1>2, <3>1 DEF Kept, mine
    <3> QED BY <1>3, <1>11, <3>1, <3>2
  <2>4. Quiet' => ~raced'
    BY DEF Quiet
  <2> QED BY <2>2, <2>3, <2>4 DEF Kept
<1>13. CacheIsOfOneBlock'
  <2>1. EmptyRam.kv = <<None, None>> /\ EmptyRam.last = None
    BY DEF EmptyRam
  <2> QED BY <1>1, <1>5, <2>1 DEF CacheIsOfOneBlock, Layers2
<1>14. setup.alone => /\ \A q \in Procs \ {p} : IsAt(q, "idle") /\ ram[q] = EmptyRam
                      /\ disk = Torn /\ DOMAIN ram[p].blocks \subseteq DOMAIN new.blocks
  BY <1>1, <1>2, <1>9 DEF Alone
<1>15. setup.alone => \A q \in Procs \ {p} : IsAt(q, "idle")' /\ ~Rewrites(q)' /\ ~IsAt(q, "result")'
                                               /\ ~IsAt(q, "export")' /\ ~IsAt(q, "write")'
  BY <1>8, <1>14 DEF IsAt, Rewrites
<1>16. Alone'
  <2> SUFFICES ASSUME setup.alone PROVE Alone'
    BY <1>1 DEF Alone
  <2>1. \A q \in Procs : DOMAIN ram'[q].blocks \subseteq DOMAIN Parsed(disk)'.blocks
    <3>1. DOMAIN EmptyRam.blocks = {}
      BY Empties DEF EmptyRam
    <3> QED BY <1>3, <1>5, <1>14, <3>1
  <2> QED BY <1>5, <1>9, <1>14, <1>15, <2>1 DEF Alone
<1>17. Fresh'
  BY <1>1, <1>5 DEF Fresh, IsAt
<1>18. Sound'
  <2> SUFFICES ASSUME setup.alone, setup.lifetime = "fresh" PROVE Sound'
    BY <1>1 DEF Sound
  <2>1. About(new.verify, DOMAIN new.blocks)
    BY <1>2 DEF Sound
  <2> QED BY <1>3, <1>9, <1>14, <1>15, <2>1 DEF Sound, IsAt
<1>19. Export'
  BY <1>1, <1>9, <1>15 DEF Export
<1> QED BY <1>7, <1>10, <1>12, <1>13, <1>16, <1>17, <1>18, <1>19

LEMMA KnownHashes ==
    ASSUME Types, NEW p \in Procs
    PROVE  Known(p) \subseteq Hashes
<1>1. ram[p].blocks \in BlockMaps /\ Parsed(disk) \in Files
  BY ParsedFile DEF Types, Rams
<1>2. Parsed(disk).blocks \in BlockMaps
  BY <1>1 DEF Files
<1> QED BY <1>1, <1>2, MapDomain DEF Known

(* A verification of llama.cpp goes on to persist its result. *)
LEMMA VerifyStep ==
    ASSUME Core, NEW p \in Procs, NEW result \in Verdicts, IsAt(p, "verify"),
           ram' = [ram EXCEPT ![p] = [ram[p] EXCEPT !.verify = result]],
           task' = [task EXCEPT ![p].at = "result"],
           UNCHANGED <<setup, disk, accepted, exported, raced, left>>,
           result.claim = "proven" => result.success /\ result.known = Known(p)
    PROVE  Core'
<1> USE DEF Core
<1>1. /\ task' \in [Procs -> Tasks] /\ \A q \in Procs \ {p} : task'[q] = task[q]
      /\ task'[p].at = "result" /\ task'[p].kind = task[p].kind /\ task'[p].hash = task[p].hash
  BY ZenonT(60), Relabel DEF Labels
<1>2. task[p].at = "verify" /\ task[p].kind = "verify"
  BY DEF Flow, IsAt
<1>3. /\ ram' \in [Procs -> Rams] /\ \A q \in Procs \ {p} : ram'[q] = ram[q]
      /\ ram'[p].blocks = ram[p].blocks /\ ram'[p].kv = ram[p].kv /\ ram'[p].verify = result
      /\ ram'[p].mixed = ram[p].mixed /\ ram'[p].last = ram[p].last
  <2>1. ram[p] \in Rams /\ ram \in [Procs -> Rams]
    BY DEF Types
  <2>2. ram'[p] = [ram[p] EXCEPT !.verify = result] /\ \A q \in Procs \ {p} : ram'[q] = ram[q]
    BY <2>1
  <2>3. /\ ram'[p] \in Rams /\ ram'[p].blocks = ram[p].blocks /\ ram'[p].kv = ram[p].kv
        /\ ram'[p].verify = result /\ ram'[p].mixed = ram[p].mixed /\ ram'[p].last = ram[p].last
    BY <2>1, <2>2 DEF Rams
  <2> QED BY <2>1, <2>2, <2>3
<1>4. Types'
  BY <1>1, <1>3 DEF Types
<1>5. Parsed(disk)' = Parsed(disk)
  BY DEF Parsed
<1>6. \A q \in Procs \ {p} : \A l : (IsAt(q, l)' <=> IsAt(q, l)) /\ (Rewrites(q)' <=> Rewrites(q))
  BY <1>1 DEF Rewrites, IsAt
<1>7. /\ ~Rewrites(p)' /\ ~Rewrites(p) /\ ~IsAt(p, "write") /\ ~IsAt(p, "write")'
      /\ ~IsAt(p, "export")' /\ ~IsAt(p, "idle") /\ ~IsAt(p, "persist") /\ ~IsAt(p, "persist")'
      /\ ~IsAt(p, "idle")'
  BY <1>1, <1>2 DEF Rewrites, IsAt
<1>8. Flow'
  BY <1>1, <1>2, <1>3, <1>6, <1>7 DEF Flow
<1>9. Promised' \subseteq Promised
  BY <1>1, <1>2 DEF Promised, IsAt
<1>10. Kept'
  <2>1. (Quiet' <=> Quiet) /\ (NobodyWrites' <=> NobodyWrites)
    BY <1>6, <1>7 DEF Quiet, NobodyWrites
  <2>2. \A q \in Procs : Rewrites(q)' => Rewrites(q) /\ task'[q] = task[q]
    BY <1>1, <1>6, <1>7
  <2>3. \A q \in Procs : IsAt(q, "write")' => IsAt(q, "write")
    BY <1>6, <1>7
  <2> QED BY <1>5, <1>9, <2>1, <2>2, <2>3 DEF Kept
<1>11. CacheIsOfOneBlock'
  BY <1>3 DEF CacheIsOfOneBlock
<1>12. Alone'
  BY <1>1, <1>3, <1>5, <1>6, <1>7 DEF Alone
<1>13. Fresh'
  BY <1>1, <1>2, <1>3 DEF Fresh
<1>14. Sound'
  <2> SUFFICES ASSUME setup.alone, setup.lifetime = "fresh" PROVE Sound'
    BY DEF Sound
  <2>1. ram[p].blocks = NoFile.blocks
    BY <1>2 DEF Fresh
  <2>2. Known(p) = DOMAIN Parsed(disk).blocks
    BY <2>1, Empties DEF Known
  <2>3. About(ram'[p].verify, DOMAIN Parsed(disk).blocks)
    BY <1>3, <2>2 DEF About
  <2>4. \A q \in Procs \ {p} : ram'[q].verify = ram[q].verify /\ task'[q] = task[q]
    BY <1>1, <1>3
  <2> QED BY <1>5, <1>6, <1>7, <2>3, <2>4 DEF Sound
<1>15. Export'
  <2> SUFFICES ASSUME setup.alone PROVE Export'
    BY DEF Export
  <2>1. \A q \in Procs : ~IsAt(q, "export")'
    BY <1>6, <1>7 DEF Alone, IsAt
  <2> QED BY <2>1 DEF Export
<1> QED BY <1>4, <1>8, <1>10, <1>11, <1>12, <1>13, <1>14, <1>15

(* An export reads its next part. *)
LEMMA ReadPartStep ==
    ASSUME Core, NEW p \in Procs, ReadPart(p)
    PROVE  Core'
<1> USE DEF Core
<1> DEFINE part == Head(task[p].parts)
           now == Parsed(disk)
           blocks == IF now.blocks = NoFile.blocks THEN ram[p].blocks ELSE now.blocks
           verify == IF part = "existing" THEN now.verify ELSE task[p].got.verify
           held == IF part = "blocks" THEN blocks ELSE task[p].got.blocks
           names == IF part = "hashes" THEN Known(p) ELSE task[p].names
           got == [task[p].got EXCEPT !.verify = verify, !.blocks = held]
<1>1. /\ IsAt(p, "export") /\ task[p].parts # <<>>
      /\ UNCHANGED <<setup, disk, ram, accepted, exported, raced, left>>
  BY DEF ReadPart
<1>2. task' = [task EXCEPT ![p].parts = Tail(@), ![p].got.verify = verify,
                           ![p].got.blocks = held, ![p].names = names]
  BY ZenonT(60) DEF ReadPart
<1>3. task[p] \in Tasks /\ task \in [Procs -> Tasks] /\ now \in Files /\ ram[p] \in Rams
  BY ParsedFile DEF Types
<1>4. /\ task[p].got \in Files /\ task[p].names \subseteq Hashes /\ ram[p].blocks \in BlockMaps
      /\ task[p].parts \in Seq({"existing", "blocks", "hashes"})
  BY <1>3 DEF Tasks, Rams
<1>5. /\ blocks \in BlockMaps /\ held \in BlockMaps /\ verify \in Verdicts \cup {None}
      /\ names \subseteq Hashes
  BY <1>3, <1>4, KnownHashes DEF Files
<1> HIDE DEF blocks, verify, held, names
<1>6. got \in Files /\ got.verify = verify /\ got.blocks = held
  BY ZenonT(60), <1>4, <1>5 DEF Files
<1> HIDE DEF got
<1>7. Tail(task[p].parts) \in Seq({"existing", "blocks", "hashes"})
  BY <1>1, <1>4
<1>8. /\ task' \in [Procs -> Tasks] /\ \A q \in Procs \ {p} : task'[q] = task[q]
      /\ task'[p].at = task[p].at /\ task'[p].kind = task[p].kind
      /\ task'[p].hash = task[p].hash /\ task'[p].parts = Tail(task[p].parts)
      /\ task'[p].got = got /\ task'[p].names = names
  <2>1. task'[p] = [task[p] EXCEPT !.parts = Tail(task[p].parts), !.got = got, !.names = names]
        /\ \A q \in Procs \ {p} : task'[q] = task[q]
    <3>1. task'[p] = [task[p] EXCEPT !.parts = Tail(task[p].parts), !.got.verify = verify,
                                     !.got.blocks = held, !.names = names]
          /\ \A q \in Procs \ {p} : task'[q] = task[q]
      BY <1>2, <1>3
    <3> QED BY ZenonT(60), <1>3, <3>1 DEF got, Tasks
  <2>2. /\ task'[p] \in Tasks /\ task'[p].at = task[p].at /\ task'[p].kind = task[p].kind
        /\ task'[p].hash = task[p].hash /\ task'[p].parts = Tail(task[p].parts)
        /\ task'[p].got = got /\ task'[p].names = names
    <3> DEFINE rest == Tail(task[p].parts)
    <3>1. /\ rest \in Seq({"existing", "blocks", "hashes"}) /\ names \in SUBSET Hashes
          /\ task'[p] = [task[p] EXCEPT !.parts = rest, !.got = got, !.names = names]
      BY <1>5, <1>7, <2>1
    <3> HIDE DEF rest
    <3>2. task'[p] \in Tasks
      BY ZenonT(60), <1>3, <1>6, <3>1 DEF Tasks
    <3>3. /\ task'[p].at = task[p].at /\ task'[p].kind = task[p].kind
          /\ task'[p].hash = task[p].hash /\ task'[p].parts = rest
          /\ task'[p].got = got /\ task'[p].names = names
      BY <1>3, <3>1 DEF Tasks
    <3> QED BY <3>2, <3>3 DEF rest
  <2>3. DOMAIN task' = Procs
    BY <1>2, <1>3
  <2> QED BY <1>2, <1>3, <2>1, <2>2, <2>3
<1>9. Types'
  BY <1>1, <1>8 DEF Types
<1>10. Parsed(disk)' = now /\ \A q \in Procs : Known(q)' = Known(q)
  BY <1>1 DEF Parsed, Known
<1>11. \A q \in Procs : \A l : (IsAt(q, l)' <=> IsAt(q, l)) /\ (Rewrites(q)' <=> Rewrites(q))
  BY <1>8 DEF Rewrites, IsAt
<1>12. \A q \in Procs : task'[q].kind = task[q].kind /\ task'[q].hash = task[q].hash
                           /\ task'[q].at = task[q].at
  BY <1>8
<1>13. ~Rewrites(p) /\ ~IsAt(p, "persist") /\ ~IsAt(p, "result") /\ ~IsAt(p, "idle")
  BY <1>1 DEF IsAt, Rewrites
<1>14. \A q \in Procs : Rewrites(q) => task'[q] = task[q]
  BY <1>8, <1>13
<1>15. Flow'
  BY <1>1, <1>11, <1>12, <1>14 DEF Flow
<1>16. Promised' = Promised
  BY <1>1, <1>11, <1>12 DEF Promised
<1>17. Kept'
  <2>1. (Quiet' <=> Quiet) /\ (NobodyWrites' <=> NobodyWrites)
    BY <1>1, <1>11 DEF Quiet, NobodyWrites
  <2> QED BY ZenonT(60), <1>1, <1>10, <1>11, <1>12, <1>14, <1>16, <2>1 DEF Kept
<1>18. CacheIsOfOneBlock'
  BY <1>1 DEF CacheIsOfOneBlock
<1>19. Alone'
  BY <1>1, <1>10, <1>11, <1>14 DEF Alone
<1>20. Fresh'
  BY <1>1, <1>12 DEF Fresh
<1>21. Sound'
  BY ZenonT(60), <1>1, <1>10, <1>11, <1>12, <1>14 DEF Sound
<1>22. Export'
  <2> SUFFICES ASSUME setup.alone PROVE Export'
    BY ZenonT(60), <1>1 DEF Export
  <2>1. \A q \in Procs \ {p} : ~IsAt(q, "export")'
    BY <1>11, <1>13 DEF Alone, IsAt
  <2>2. /\ Remains(p, "hashes") \/ task[p].names = Known(p)
        /\ Remains(p, "blocks") \/ DOMAIN task[p].got.blocks = Known(p)
        /\ task[p].got.verify \in {None, now.verify}
    BY <1>1 DEF Export
  <2>3. ASSUME NEW x, Remains(p, x)
        PROVE  x = part \/ Remains(p, x)'
    <3>1. PICK i \in 1 .. Len(task[p].parts) : task[p].parts[i] = x
      BY <2>3 DEF Remains
    <3>2. CASE i = 1
      BY <1>1, <1>4, <3>1, <3>2
    <3>3. CASE i # 1
      <4>1. i - 1 \in 1 .. Len(Tail(task[p].parts)) /\ Tail(task[p].parts)[i - 1] = x
        BY <1>1, <1>4, <3>1, <3>3
      <4> QED BY <1>8, <4>1 DEF Remains
    <3> QED BY <3>2, <3>3
  <2>4. Remains(p, "hashes")' \/ names = Known(p)
    BY <2>2, <2>3 DEF names
  <2>5. DOMAIN blocks = Known(p)
    <3>1. DOMAIN ram[p].blocks \subseteq DOMAIN now.blocks
      BY <1>13 DEF Alone
    <3> QED BY <3>1, Empties DEF blocks, Known
  <2>6. Remains(p, "blocks")' \/ DOMAIN held = Known(p)
    BY <2>2, <2>3, <2>5 DEF held
  <2>7. verify \in {None, now.verify}
    BY <2>2 DEF verify
  <2> QED BY ZenonT(60), <1>6, <1>8, <1>10, <2>1, <2>4, <2>6, <2>7 DEF Export
<1> QED BY <1>9, <1>15, <1>17, <1>18, <1>19, <1>20, <1>21, <1>22

LEMMA PersistStep ==
    ASSUME Core, NEW p \in Procs, PersistRead(p)
    PROVE  Core'
<1> DEFINE blocks == Merge(Parsed(disk).blocks, ram[p].blocks)
           new == [NoFile EXCEPT !.blocks = blocks]
           then == IF setup.runtime = "llama" THEN "result" ELSE "done"
<1>1. /\ IsAt(p, "persist") /\ Race(p) /\ UNCHANGED <<setup, disk, ram, accepted, exported, left>>
      /\ task' = [task EXCEPT ![p].new = new, ![p].at = "open", ![p].then = then]
  BY ZenonT(60) DEF PersistRead
<1>2. Parsed(disk) \in Files /\ ram[p] \in Rams /\ task[p].kind = "register"
  BY <1>1, ParsedFile DEF Core, Types, Flow
<1>3. Parsed(disk).blocks \in BlockMaps /\ ram[p].blocks \in BlockMaps
  BY <1>2 DEF Files, Rams
<1>4. blocks \in BlockMaps /\ DOMAIN blocks = DOMAIN Parsed(disk).blocks \cup DOMAIN ram[p].blocks
  BY ZenonT(60), <1>3, Merged
<1> HIDE DEF blocks
<1>5. new \in Files /\ new.blocks = blocks /\ new.verify = None
  BY <1>4, Empties DEF Files
<1>6. then \in {"result", "done"} /\ About(new.verify, DOMAIN new.blocks)
  BY <1>5 DEF About
<1> HIDE DEF new, then
<1>7. DOMAIN Parsed(disk).blocks \subseteq DOMAIN new.blocks /\ DOMAIN ram[p].blocks \subseteq DOMAIN new.blocks
  BY <1>4, <1>5
<1> QED BY ZenonT(60), <1>1, <1>2, <1>5, <1>6, <1>7, RewriteStep

LEMMA ResultStep ==
    ASSUME Core, NEW p \in Procs, ResultRead(p)
    PROVE  Core'
<1> DEFINE live == IF task[p].kind = "register" /\ ram[p].live # None THEN ram[p].live ELSE Parsed(disk).live
           verify == IF task[p].kind = "verify" THEN ram[p].verify ELSE Parsed(disk).verify
           new == [Parsed(disk) EXCEPT !.live = live, !.verify = verify]
<1>1. /\ IsAt(p, "result") /\ Race(p) /\ UNCHANGED <<setup, disk, ram, accepted, exported, left>>
  BY DEF ResultRead
<1>2. task' = [task EXCEPT ![p].new = new, ![p].at = "open", ![p].then = "done"]
  BY ZenonT(60) DEF ResultRead
<1>3. Parsed(disk) \in Files /\ ram[p] \in Rams /\ task[p].kind \in {"register", "verify"}
  BY <1>1, ParsedFile DEF Core, Types, Flow
<1>4. live \in Hashes \cup {None} /\ verify \in Verdicts \cup {None}
  BY <1>3 DEF Files, Rams
<1>5. setup.alone /\ setup.lifetime = "fresh" => About(verify, DOMAIN Parsed(disk).blocks)
  BY <1>1, <1>3 DEF Core, Sound
<1> HIDE DEF live, verify
<1>6. new \in Files /\ new.blocks = Parsed(disk).blocks /\ new.verify = verify
  BY ZenonT(60), <1>3, <1>4 DEF Files
<1> HIDE DEF new
<1>7. ~IsAt(p, "persist") /\ "done" # "result"
  BY <1>1 DEF IsAt
<1> QED BY ZenonT(60), <1>1, <1>2, <1>5, <1>6, <1>7, RewriteStep

(* A request that is refused. *)
LEMMA RejectStep ==
    ASSUME Core, NEW p \in Procs, NEW object \in Rams, Reject(p, object), ~IsAt(p, "idle"),
           object.blocks = ram[p].blocks, ~Rewrites(p),
           ~IsAt(p, "persist") \/ setup.lifetime = "fresh",
           setup.runtime = "torch" /\ ~object.mixed => \A l \in Layers2 : object.kv[l] = object.last
    PROVE  Core' /\ exported' = exported /\ setup' = setup
<1>1. End(p, object) /\ UNCHANGED <<setup, disk, accepted, exported, raced, left>>
      /\ exported' \in Exports \cup {None}
  BY DEF Reject, Core, Types
<1> QED BY <1>1, EndStep

LEMMA RejectionSteps ==
    ASSUME Core, NEW p \in Procs,
           RejectTensors(p) \/ RejectBinding(p) \/ ReadTorn(p) \/ RejectContinuation(p)
    PROVE  Core' /\ exported' = exported /\ setup' = setup
<1>1. /\ ram[p] \in Rams /\ setup \in Setups
      /\ setup.runtime = "torch" /\ ~ram[p].mixed => \A l \in Layers2 : ram[p].kv[l] = ram[p].last
  BY DEF Core, Types, CacheIsOfOneBlock
<1>2. CASE Reject(p, ram[p]) /\ (IsAt(p, "register") \/ IsAt(p, "verify"))
  <2>1. ~IsAt(p, "idle") /\ ~Rewrites(p) /\ ~IsAt(p, "persist")
    BY <1>2 DEF IsAt, Rewrites
  <2> QED BY <1>1, <1>2, <2>1, RejectStep
<1>3. CASE Reject(p, ram[p]) /\ Strict /\ IsAt(p, "persist")
  <2>1. ~IsAt(p, "idle") /\ ~Rewrites(p)
    BY <1>3 DEF IsAt, Rewrites
  <2>2. setup.lifetime = "fresh"
    BY <1>1, <1>3 DEF Setups, Strict
  <2> QED BY <1>1, <1>3, <2>1, <2>2, RejectStep
<1>4. CASE IsAt(p, "register") /\ Reject(p, [ram[p] EXCEPT !.kv = FillCache(@, task[p].hash), !.mixed = TRUE])
  <2> DEFINE kv == FillCache(ram[p].kv, task[p].hash)
             object == [ram[p] EXCEPT !.kv = kv, !.mixed = TRUE]
  <2>1. ~IsAt(p, "idle") /\ ~Rewrites(p) /\ ~IsAt(p, "persist") /\ task[p].hash \in Hashes
    BY <1>4 DEF IsAt, Rewrites, Core, Flow
  <2>2. kv \in [Layers2 -> Hashes \cup {None}]
    BY <1>1, <2>1 DEF FillCache, Rams
  <2> HIDE DEF kv
  <2>3. object \in Rams /\ object.blocks = ram[p].blocks /\ object.mixed
    BY ZenonT(60), <1>1, <2>2 DEF Rams
  <2>4. Reject(p, object)
    BY <1>4 DEF kv
  <2> HIDE DEF object
  <2> QED BY <2>1, <2>3, <2>4, RejectStep
<1> QED BY <1>2, <1>3, <1>4 DEF RejectTensors, RejectBinding, ReadTorn, RejectContinuation

LEMMA VerifySteps ==
    ASSUME Core, NEW p \in Procs, Verify(p)
    PROVE  Core'
<1> DEFINE hashes == task[p].hashes
           claim == IF setup.hook THEN "proven" ELSE "none"
           good == [success |-> TRUE, hashes |-> hashes, claim |-> claim, known |-> Known(p)]
           bad == [success |-> FALSE, hashes |-> hashes \ Known(p), claim |-> "none", known |-> Known(p)]
           result == IF hashes \subseteq Known(p) THEN good ELSE bad
           object == [ram[p] EXCEPT !.verify = result]
<1>1. /\ IsAt(p, "verify") /\ UNCHANGED <<setup, disk, accepted, exported, raced, left>>
      /\ IF setup.runtime = "llama"
         THEN ram' = [ram EXCEPT ![p] = object] /\ task' = [task EXCEPT ![p].at = "result"]
         ELSE End(p, object)
  BY ZenonT(60) DEF Verify
<1>2. ram[p] \in Rams /\ task[p] \in Tasks /\ exported \in Exports \cup {None} /\ Known(p) \subseteq Hashes
  BY KnownHashes DEF Core, Types
<1>3. hashes \subseteq Hashes /\ claim \in {"none", "proven"}
  BY <1>2 DEF Tasks
<1>4. good \in Verdicts /\ bad \in Verdicts
  BY <1>2, <1>3 DEF Verdicts
<1>5. result \in Verdicts /\ (result.claim = "proven" => result.success /\ result.known = Known(p))
  BY <1>4
<1> HIDE DEF result
<1>6. /\ object \in Rams /\ object.blocks = ram[p].blocks /\ object.kv = ram[p].kv
      /\ object.mixed = ram[p].mixed /\ object.last = ram[p].last
  BY <1>2, <1>5 DEF Rams
<1>7. CASE setup.runtime = "llama"
  BY <1>1, <1>5, <1>7, VerifyStep
<1>8. CASE setup.runtime # "llama"
  <2>1. End(p, object) /\ exported' \in Exports \cup {None}
    BY <1>1, <1>2, <1>8
  <2>2. ~IsAt(p, "idle") /\ ~Rewrites(p) /\ ~IsAt(p, "persist")
    BY <1>1 DEF IsAt, Rewrites
  <2>3. setup.runtime = "torch" /\ ~object.mixed => \A l \in Layers2 : object.kv[l] = object.last
    BY <1>6 DEF Core, CacheIsOfOneBlock
  <2> HIDE DEF object
  <2> QED BY <1>1, <1>6, <2>1, <2>2, <2>3, EndStep
<1> QED BY <1>7, <1>8

(* The answer to an export. *)
LEMMA EndExportStep ==
    ASSUME Core, NEW p \in Procs, EndExport(p)
    PROVE  Core' /\ ExportTellsTheTruth'
<1> DEFINE verify == IF ram[p].verify # None THEN ram[p].verify ELSE task[p].got.verify
           blocks == task[p].got.blocks
           claim == DecodeClaim(blocks, verify)
<1>1. /\ IsAt(p, "export") /\ task[p].parts = <<>> /\ End(p, ram[p])
      /\ exported' = [registered |-> task[p].names, blocks |-> DOMAIN blocks,
                      verify |-> verify, claim |-> claim]
      /\ UNCHANGED <<setup, disk, accepted, raced, left>>
  BY ZenonT(60) DEF EndExport
<1>2. ram[p] \in Rams /\ task[p] \in Tasks
  BY DEF Core, Types
<1>3. /\ task[p].names \subseteq Hashes /\ task[p].got \in Files /\ blocks \in BlockMaps
      /\ DOMAIN blocks \subseteq Hashes /\ verify \in Verdicts \cup {None}
  BY <1>2, MapDomain DEF Tasks, Rams, Files
<1>4. claim \in {"proven", "bound", "none"} /\ (claim = "proven" => verify # None /\ verify.claim = "proven")
  BY DEF DecodeClaim
<1> HIDE DEF verify, blocks, claim
<1>5. exported' \in Exports
  BY ZenonT(60), <1>1, <1>3, <1>4 DEF Exports
<1>6. Core'
  <2>1. ~IsAt(p, "idle") /\ ~Rewrites(p) /\ ~IsAt(p, "persist")
    BY <1>1 DEF IsAt, Rewrites
  <2>2. setup.runtime = "torch" /\ ~ram[p].mixed => \A l \in Layers2 : ram[p].kv[l] = ram[p].last
    BY DEF Core, CacheIsOfOneBlock
  <2> QED BY <1>1, <1>2, <1>5, <2>1, <2>2, EndStep
<1>7. setup.alone => task[p].names = Known(p) /\ DOMAIN blocks = Known(p)
                       /\ task[p].got.verify \in {None, Parsed(disk).verify}
  <2>1. \A x : ~Remains(p, x)
    BY <1>1 DEF Remains
  <2> QED BY ZenonT(60), <1>1, <2>1 DEF Core, Export, blocks
<1>8. ExportIsConsistent'
  BY <1>1, <1>7 DEF ExportIsConsistent
<1>9. ClaimIsCurrent'
  <2> SUFFICES ASSUME setup.alone, setup.lifetime = "fresh", claim = "proven"
               PROVE  verify.success /\ verify.known = task[p].names
    BY <1>1 DEF ClaimIsCurrent
  <2>1. ram[p] = EmptyRam
    BY <1>1 DEF Core, Fresh, IsAt
  <2>2. ram[p].verify = None /\ ram[p].blocks = NoFile.blocks
    BY <2>1 DEF EmptyRam
  <2>3. verify = Parsed(disk).verify
    BY <1>4, <1>7, <2>2 DEF verify
  <2>4. Known(p) = DOMAIN Parsed(disk).blocks
    BY <2>2, Empties DEF Known
  <2>5. About(Parsed(disk).verify, DOMAIN Parsed(disk).blocks)
    BY DEF Core, Sound
  <2> QED BY <1>4, <1>7, <2>3, <2>4, <2>5 DEF About
<1> QED BY <1>6, <1>8, <1>9 DEF ExportTellsTheTruth

LEMMA KillStep ==
    ASSUME Core, NEW p \in Procs, KillProcess(p)
    PROVE  Core'
<1>1. /\ left.kills > 0 /\ ~IsAt(p, "idle") /\ left' = [left EXCEPT !.kills = @ - 1]
      /\ End(p, EmptyRam) /\ UNCHANGED <<setup, disk, accepted, exported, raced>>
  BY DEF KillProcess
<1>2. left' \in [asks : Nat, kills : 0 .. Kills] /\ left'.kills # Kills
  BY <1>1, RefAssumption DEF Core, Types
<1>3. \A l \in Layers2 : EmptyRam.kv[l] = EmptyRam.last
  BY DEF EmptyRam, Layers2
<1>4. EmptyRam \in Rams /\ exported' \in Exports \cup {None}
  BY <1>1, Empties DEF Core, Types
<1> QED BY <1>1, <1>2, <1>3, <1>4, EndStep

LEMMA SameExport ==
    ASSUME ExportTellsTheTruth, exported' = exported, setup' = setup
    PROVE  ExportTellsTheTruth'
BY DEF ExportTellsTheTruth, ClaimIsCurrent, ExportIsConsistent

LEMMA RefNextInv ==
    ASSUME RefInv, [RefNext]_refVars
    PROVE  RefInv'
<1>1. Core /\ ExportTellsTheTruth
  BY DEF RefInv
<1>2. CASE UNCHANGED refVars
  <2>1. UNCHANGED <<setup, disk, ram, task, accepted, exported, raced, left>>
    BY <1>2 DEF refVars
  <2>2. Types' /\ CacheIsOfOneBlock' /\ Fresh'
    BY <1>1, <2>1 DEF Core, Types, CacheIsOfOneBlock, Fresh
  <2>3. Flow'
    BY ZenonT(60), <1>1, <2>1 DEF Core, Flow, Rewrites, IsAt
  <2>4. Kept'
    <3>1. \A q \in Procs : (IsAt(q, "write")' <=> IsAt(q, "write")) /\ (Rewrites(q)' <=> Rewrites(q))
      BY ZenonT(60), <2>1 DEF Rewrites, IsAt
    <3>2. /\ Promised' = Promised /\ (Quiet' <=> Quiet) /\ (NobodyWrites' <=> NobodyWrites)
          /\ Parsed(disk)' = Parsed(disk)
      BY ZenonT(60), <2>1 DEF Promised, Quiet, NobodyWrites, IsAt, Parsed
    <3> QED BY <1>1, <2>1, <3>1, <3>2 DEF Core, Kept
  <2>5. Alone' /\ Sound'
    BY ZenonT(60), <1>1, <2>1 DEF Core, Alone, Sound, Rewrites, IsAt, Parsed
  <2>6. Export'
    BY ZenonT(60), <1>1, <2>1 DEF Core, Export, Remains, Known, IsAt, Parsed
  <2> QED BY <1>1, <2>1, <2>2, <2>3, <2>4, <2>5, <2>6, SameExport DEF RefInv, Core
<1>3. ASSUME NEW p \in Procs, NEW h \in Hashes, Ask(p, "register", h, {})
      PROVE  RefInv'
  <2>1. {} \in SUBSET Hashes /\ exported' = exported /\ setup' = setup
    BY <1>3 DEF Ask
  <2>2. Core'
    BY <1>1, <1>3, <2>1, AskStep
  <2> QED BY <1>1, <2>1, <2>2, SameExport DEF RefInv
<1>4. ASSUME NEW p \in Procs, NEW hs \in SUBSET Hashes, Ask(p, "verify", None, hs)
      PROVE  RefInv'
  <2>1. {} \in SUBSET Hashes /\ exported' = exported /\ setup' = setup
    BY <1>4 DEF Ask
  <2>2. Core'
    BY <1>1, <1>4, <2>1, AskStep
  <2> QED BY <1>1, <2>1, <2>2, SameExport DEF RefInv
<1>5. ASSUME NEW p \in Procs, Ask(p, "export", None, {})
      PROVE  RefInv'
  <2>1. {} \in SUBSET Hashes /\ exported' = exported /\ setup' = setup
    BY <1>5 DEF Ask
  <2>2. Core'
    BY <1>1, <1>5, <2>1, AskStep
  <2> QED BY <1>1, <2>1, <2>2, SameExport DEF RefInv
<1>6. ASSUME NEW p \in Procs,
             RejectTensors(p) \/ RejectBinding(p) \/ ReadTorn(p) \/ RejectContinuation(p)
      PROVE  RefInv'
  BY <1>1, <1>6, RejectionSteps, SameExport DEF RefInv
<1>7. ASSUME NEW p \in Procs, Register(p)
      PROVE  RefInv'
  BY ZenonT(60), <1>1, <1>7, RegisterStep, SameExport DEF Register, RefInv
<1>8. ASSUME NEW p \in Procs, PersistRead(p)
      PROVE  RefInv'
  BY ZenonT(60), <1>1, <1>8, PersistStep, SameExport DEF PersistRead, RefInv
<1>9. ASSUME NEW p \in Procs, ResultRead(p)
      PROVE  RefInv'
  BY ZenonT(60), <1>1, <1>9, ResultStep, SameExport DEF ResultRead, RefInv
<1>10. ASSUME NEW p \in Procs, OpenFile(p)
       PROVE  RefInv'
  BY ZenonT(60), <1>1, <1>10, OpenStep, SameExport DEF OpenFile, RefInv
<1>11. ASSUME NEW p \in Procs, WriteFile(p)
       PROVE  RefInv'
  BY <1>1, <1>11, WriteStep, SameExport DEF WriteFile, RefInv
<1>12. ASSUME NEW p \in Procs, Verify(p)
       PROVE  RefInv'
  BY <1>1, <1>12, VerifySteps, SameExport DEF Verify, RefInv
<1>13. ASSUME NEW p \in Procs, ReadPart(p)
       PROVE  RefInv'
  BY ZenonT(60), <1>1, <1>13, ReadPartStep, SameExport DEF ReadPart, RefInv
<1>14. ASSUME NEW p \in Procs, EndExport(p)
       PROVE  RefInv'
  BY <1>1, <1>14, EndExportStep DEF RefInv
<1>15. ASSUME NEW p \in Procs, KillProcess(p)
       PROVE  RefInv'
  BY <1>1, <1>15, KillStep, SameExport DEF KillProcess, RefInv
<1> QED BY <1>2, <1>3, <1>4, <1>5, <1>6, <1>7, <1>8, <1>9, <1>10, <1>11, <1>12, <1>13, <1>14, <1>15
           DEF RefNext

(* The inductive invariant holds of every behaviour of the commands.       *)
THEOREM ReferenceInvariant == RefSpec => []RefInv
BY RefInitInv, RefNextInv, PTL DEF RefSpec

(* What a target with a state file answered with success it keeps: in the  *)
(* file, unless two commands rewrote it at once or one was killed, and in  *)
(* the PyTorch cache whole, unless a registration failed since.  For any   *)
(* number of commands, payloads and requests (_persist, save_state,        *)
(* register_permeant_block).                                               *)
THEOREM RegistrationsAreKept == RefSpec => []RegisteredIsKept
<1>1. RefInv => RegisteredIsKept
  BY DEF RefInv, Core, Kept, Quiet, Promised, RegisteredIsKept, AcceptedIsPersisted
<1> QED BY <1>1, ReferenceInvariant, PTL

(* When commands do not overlap, the parts of an exported reverse state    *)
(* agree although export_reverse_runtime_state reads the file once for     *)
(* every part, and the claim of a proven continuation is about exactly the *)
(* blocks that are exported: any registration since has erased it.         *)
THEOREM ExportsAreTruthful == RefSpec => []ExportTellsTheTruth
<1>1. RefInv => ExportTellsTheTruth
  BY DEF RefInv
<1> QED BY <1>1, ReferenceInvariant, PTL

-----------------------------------------------------------------------------
(* The live source. *)
LiveRuntimes == [text : Seq(Nat), tokens : Seq(Nat), kv : Seq(Nat)]

(* A runtime r of a source whose tokenizer can decode (d), or not: the     *)
(* cache is of the tokens, and the text is theirs if it could be cut.      *)
SoundRuntime(r, d) ==
    /\ r \in LiveRuntimes /\ r.tokens # <<>> /\ r.kv = r.tokens
    /\ d => r.text = r.tokens

(* The extraction of the tokens ids of a prompt with this text. *)
Extraction(text, ids, w) ==
    [kind |-> "extract", tensors |-> ids, whole |-> w, metadata |-> SpanMetadata(text, ids)]

(* What Provide answers if it has made sure of the runtime r. *)
ExtractionOf(r, n) ==
    [kind |-> "extract", tensors |-> SubSeq(r.kv, 1, n), whole |-> n = Len(r.tokens),
     metadata |-> SpanMetadata(r.text, SubSeq(r.tokens, 1, n))]

SoundReply(p, cont, d) ==
    \/ p = Failed
    \/ p = [kind |-> "import"]
    \/ \E ids \in Seq(Nat), w \in BOOLEAN :
          /\ p = Extraction(cont, ids, w) /\ ids # <<>>
          /\ w /\ d => cont = ids

(* What was imported last is the prompt of the runtime s, and p, if it is  *)
(* an extraction, has a prefix of it.                                      *)
SoundImport(m, s, p) ==
    \/ m = None
    \/ /\ m \in Seq(Nat) /\ s # None /\ s.tokens = m /\ s.text = m
       /\ p.kind = "extract" => p.tensors = SubSeq(m, 1, Len(p.tensors))

(* The inductive invariant of the live source. *)
SourceInv ==
    /\ source # None => SoundRuntime(source, decodes)
    /\ SoundReply(reply, continuation, decodes)
    /\ SoundImport(imported, source, reply)

-----------------------------------------------------------------------------
(* Prompts. *)
LEMMA BaseIsAPrompt ==
    ASSUME NEW n \in Nat
    PROVE  Base(n) \in Seq(Nat) /\ Len(Base(n)) = n
BY DEF Base

LEMMA PrefixIsAPrompt ==
    ASSUME NEW q \in Seq(Nat), NEW n \in Nat \ {0}, n <= Len(q)
    PROVE  /\ SubSeq(q, 1, n) \in Seq(Nat) /\ SubSeq(q, 1, n) # <<>>
           /\ Len(SubSeq(q, 1, n)) = n
           /\ n = Len(q) => SubSeq(q, 1, n) = q
OBVIOUS

LEMMA JoinIsAPrompt ==
    ASSUME NEW p \in Seq(Nat), NEW g \in Seq(Nat)
    PROVE  /\ p \o g \in Seq(Nat)
           /\ g # <<>> => p \o g # <<>>
OBVIOUS

LEMMA SeedsSuffice ==
    ASSUME NEW n \in Nat
    PROVE  (IF n <= SeedLen THEN 1 ELSE (n + SeedLen - 1) \div SeedLen) * SeedLen \in Nat
BY SourceAssumption

(* What _build_prompt_text gives is a prompt of n tokens. *)
LEMMA BuiltPrompt ==
    ASSUME NEW n \in Nat \ {0}
    PROVE  /\ BuildPromptText(n).tokens = Base(n)
           /\ BuildPromptText(n).text \in Seq(Nat)
           /\ decodes => BuildPromptText(n).text = Base(n)
BY BaseIsAPrompt, SeedsSuffice DEF BuildPromptText

LEMMA PrefilledIsSound ==
    ASSUME NEW text \in Seq(Nat), NEW ids \in Seq(Nat), ids # <<>>, NEW d, d => text = ids
    PROVE  /\ SoundRuntime(Prefilled(text, ids), d) /\ Prefilled(text, ids) # None
           /\ Prefilled(text, ids).tokens = ids /\ Prefilled(text, ids).text = text
BY SourceAssumption DEF SoundRuntime, Prefilled, LiveRuntimes

(* _ensure_runtime gives a sound runtime that is long enough. *)
LEMMA EnsuredIsSound ==
    ASSUME SourceInv, NEW n \in Nat \ {0}
    PROVE  /\ SoundRuntime(Ensured(n), decodes) /\ Ensured(n) # None
           /\ n <= Len(Ensured(n).tokens)
           /\ SoundImport(StillImported(n), Ensured(n), Failed)
           /\ StillImported(n) # None => StillImported(n) = Ensured(n).tokens
<1>1. CASE source # None /\ Len(source.tokens) >= n
  <2>1. Ensured(n) = source
    BY <1>1 DEF Ensured
  <2>2. SoundRuntime(source, decodes) /\ Len(source.tokens) \in Nat
    BY <1>1 DEF SourceInv, SoundRuntime, LiveRuntimes
  <2>3. StillImported(n) \in {None, imported}
    BY DEF StillImported
  <2> QED
    BY <1>1, <2>1, <2>2, <2>3 DEF SourceInv, SoundImport, Failed
<1>2. CASE ~(source # None /\ Len(source.tokens) >= n)
  <2> DEFINE p == BuildPromptText(n)
  <2>1. Ensured(n) = Prefilled(p.text, p.tokens)
    BY <1>2 DEF Ensured
  <2>2. /\ p.tokens = Base(n) /\ p.text \in Seq(Nat)
        /\ decodes => p.text = Base(n)
        /\ Base(n) \in Seq(Nat) /\ Len(Base(n)) = n /\ Base(n) # <<>>
    <3>1. Base(n) \in Seq(Nat) /\ Len(Base(n)) = n
      BY BaseIsAPrompt
    <3>2. Base(n) # <<>>
      BY <3>1
    <3> QED
      BY <3>1, <3>2, BuiltPrompt
  <2>3. StillImported(n) = None
    BY <1>2 DEF StillImported, SourceInv, SoundImport
  <2> PICK text : text = p.text
    OBVIOUS
  <2>4. Ensured(n) = Prefilled(text, Base(n))
    BY <2>1, <2>2
  <2>5. text \in Seq(Nat) /\ (decodes => text = Base(n))
    BY <2>2
  <2> HIDE DEF p
  <2>6. /\ SoundRuntime(Prefilled(text, Base(n)), decodes) /\ Prefilled(text, Base(n)) # None
        /\ Prefilled(text, Base(n)).tokens = Base(n)
    BY <2>2, <2>5, PrefilledIsSound, ZenonT(60)
  <2>7. n <= Len(Ensured(n).tokens)
    BY <2>2, <2>4, <2>6
  <2>8. SoundImport(StillImported(n), Ensured(n), Failed)
    BY <2>3 DEF SoundImport
  <2> QED
    BY <2>3, <2>4, <2>6, <2>7, <2>8
<1> QED
  BY <1>1, <1>2

-----------------------------------------------------------------------------
(* Steps. *)
LEMMA FailedAnswer ==
    ASSUME NEW cont, NEW d
    PROVE  SoundReply(Failed, cont, d)
BY DEF SoundReply

(* An extraction of the first n tokens of a sound runtime. *)
LEMMA ExtractionIsSound ==
    ASSUME NEW d, NEW r, SoundRuntime(r, d), NEW n \in Nat \ {0}, n <= Len(r.tokens),
           NEW m, m # None => m = r.tokens, SoundImport(m, r, Failed),
           NEW p, p = ExtractionOf(r, n)
    PROVE  SoundReply(p, r.text, d) /\ SoundImport(m, r, p)
<1> DEFINE w == n = Len(r.tokens)
           ids == SubSeq(r.tokens, 1, n)
<1>1. /\ r.tokens \in Seq(Nat) /\ r.kv = r.tokens /\ r.text \in Seq(Nat)
      /\ d => r.text = r.tokens
  BY DEF SoundRuntime, LiveRuntimes
<1>2. /\ ids \in Seq(Nat) /\ ids # <<>> /\ Len(ids) = n
      /\ w => ids = r.tokens
  BY <1>1, PrefixIsAPrompt
<1>3. p = Extraction(r.text, ids, w) /\ p.kind = "extract" /\ p.tensors = ids /\ w \in BOOLEAN
  BY <1>1 DEF Extraction, ExtractionOf
<1>4. ids = SubSeq(r.tokens, 1, Len(ids))
  BY <1>2
<1> HIDE DEF w
<1>5. SoundReply(p, r.text, d)
  <2>1. w /\ d => r.text = ids
    BY <1>1, <1>2
  <2> HIDE DEF ids
  <2> QED
    BY <2>1, <1>2, <1>3 DEF SoundReply
<1>6. SoundImport(m, r, p)
  <2> HIDE DEF ids
  <2> QED
    BY <1>1, <1>3, <1>4 DEF SoundImport
<1> QED
  BY <1>5, <1>6

LEMMA ProvideKeepsSourceInv ==
    ASSUME SourceInv, NEW k \in Wanted, Provide(k)
    PROVE  SourceInv'
<1> PICK n : n = (IF k = 0 THEN TargetLen ELSE k)
  OBVIOUS
<1>1. n \in Nat \ {0}
  BY SourceAssumption
<1> PICK runtime : runtime = Ensured(n)
  OBVIOUS
<1>2. /\ SoundRuntime(runtime, decodes) /\ runtime # None
      /\ n <= Len(runtime.tokens)
      /\ SoundImport(StillImported(n), runtime, Failed)
      /\ StillImported(n) # None => StillImported(n) = runtime.tokens
  BY <1>1, EnsuredIsSound
<1>3. decodes' = decodes
  BY DEF Provide, Asks
<1>4. CASE RequestFails
  BY <1>3, <1>4, FailedAnswer DEF RequestFails, SourceInv, SoundImport, Failed
<1>5. ASSUME source' = runtime, imported' = StillImported(n), reply' = Failed
      PROVE  SourceInv'
  BY <1>2, <1>3, <1>5, FailedAnswer DEF SourceInv
<1>6. ASSUME source' = runtime, imported' = StillImported(n), continuation' = runtime.text,
             reply' = [kind |-> "extract", tensors |-> SubSeq(runtime.kv, 1, n),
                       whole |-> n = Len(runtime.tokens),
                       metadata |-> SpanMetadata(runtime.text, SubSeq(runtime.tokens, 1, n))]
      PROVE  SourceInv'
  <2> PICK p : p = reply'
    OBVIOUS
  <2> PICK m : m = StillImported(n)
    OBVIOUS
  <2>1. p = ExtractionOf(runtime, n)
    BY <1>6 DEF ExtractionOf
  <2>2. SoundReply(p, runtime.text, decodes) /\ SoundImport(m, runtime, p)
    BY <1>1, <1>2, <2>1, ExtractionIsSound
  <2> QED
    BY <1>2, <1>3, <1>6, <2>2 DEF SourceInv
<1> QED
  BY <1>4, <1>5, <1>6 DEF Provide

(* A prompt that a target continues is a sequence of tokens. *)
LEMMA ContinuedIsAPrompt ==
    ASSUME SourceInv, NEW p \in Continued
    PROVE  p \in Seq(Nat)
BY SourceAssumption, BaseIsAPrompt DEF Continued, SourceInv, SoundRuntime, LiveRuntimes

LEMMA ImportKeepsSourceInv ==
    ASSUME SourceInv, NEW q \in Continued, NEW g \in Generated, ImportReverse(q, g)
    PROVE  SourceInv'
<1> PICK runtime : runtime = Ensured(TargetLen)
  OBVIOUS
<1> PICK advanced : advanced = q \o g
  OBVIOUS
<1>1. TargetLen \in Nat \ {0} /\ g \in Seq(Nat) /\ q \in Seq(Nat)
  BY SourceAssumption, ContinuedIsAPrompt
<1>2. /\ SoundRuntime(runtime, decodes) /\ runtime # None
      /\ SoundImport(StillImported(TargetLen), runtime, Failed)
  BY <1>1, EnsuredIsSound
<1>3. decodes' = decodes
  BY DEF ImportReverse, Asks
<1>4. CASE RequestFails
  BY <1>3, <1>4, FailedAnswer DEF RequestFails, SourceInv, SoundImport, Failed
<1>5. ASSUME source' = runtime, imported' = StillImported(TargetLen), reply' = Failed
      PROVE  SourceInv'
  BY <1>2, <1>3, <1>5, FailedAnswer DEF SourceInv
<1>6. ASSUME g # <<>>, source' = Prefilled(advanced, advanced),
             \/ reply' = Failed /\ imported' = None
             \/ reply' = [kind |-> "import"] /\ imported' = advanced
      PROVE  SourceInv'
  <2>1. advanced \in Seq(Nat) /\ advanced # <<>>
    BY <1>1, <1>6, JoinIsAPrompt
  <2>2. /\ SoundRuntime(source', decodes') /\ source' # None
        /\ source'.tokens = advanced /\ source'.text = advanced
    BY <1>6, <2>1, PrefilledIsSound
  <2>3. SoundReply(reply', continuation', decodes')
    BY <1>6 DEF SoundReply
  <2>4. SoundImport(imported', source', reply')
    <3>1. CASE imported' = None
      BY <3>1 DEF SoundImport
    <3>2. CASE imported' = advanced /\ reply' = [kind |-> "import"]
      <4>1. reply'.kind # "extract"
        BY <3>2
      <4> QED
        BY <3>2, <4>1, <2>1, <2>2 DEF SoundImport
    <3> QED
      BY <1>6, <3>1, <3>2
  <2> QED
    BY <2>2, <2>3, <2>4 DEF SourceInv
<1> QED
  BY <1>4, <1>5, <1>6 DEF ImportReverse

LEMMA RestartKeepsSourceInv ==
    ASSUME SourceInv, RestartSource
    PROVE  SourceInv'
BY DEF RestartSource, Asks, SourceInv, SoundImport

(* The runtime of the live source, its answers and its continuation are    *)
(* sound whatever extractions, imports, failures and restarts went before  *)
(* (provider and _materialize_reverse_runtime_state of the live runtime).  *)
THEOREM SourceInvHolds == SourceSpec => []SourceInv
<1>1. SourceInit => SourceInv
  BY FailedAnswer DEF SourceInit, SourceInv, SoundImport
<1>2. SourceInv /\ [SourceNext]_sourceVars => SourceInv'
  <2> SUFFICES ASSUME SourceInv, [SourceNext]_sourceVars PROVE SourceInv'
    OBVIOUS
  <2>1. CASE UNCHANGED sourceVars
    BY <2>1 DEF sourceVars, SourceInv
  <2>2. CASE \E k \in Wanted : Provide(k)
    BY <2>2, ProvideKeepsSourceInv
  <2>3. CASE \E p \in Continued, g \in Generated : ImportReverse(p, g)
    BY <2>3, ImportKeepsSourceInv
  <2>4. CASE RestartSource
    BY <2>4, RestartKeepsSourceInv
  <2> QED
    BY <2>1, <2>2, <2>3, <2>4 DEF SourceNext
<1> QED
  BY <1>1, <1>2, PTL DEF SourceSpec

-----------------------------------------------------------------------------
LEMMA PromptIsTokens ==
    ASSUME SourceInv, NEW p \in Prompts
    PROVE  p \in Seq(Nat)
<1> DEFINE base == {Base(n) : n \in (Wanted \ {0}) \cup {TargetLen}}
<1>1. \A b \in base : b \in Seq(Nat)
  BY SourceAssumption, BaseIsAPrompt
<1>2. \A b \in base, g \in Generated : b \o g \in Seq(Nat)
  BY <1>1, SourceAssumption, JoinIsAPrompt
<1>3. source # None => source.tokens \in Seq(Nat) /\ source.text \in Seq(Nat)
  BY DEF SourceInv, SoundRuntime, LiveRuntimes
<1>4. p \in base \cup (UNION {{b \o g : g \in Generated} : b \in base})
           \cup (IF source = None THEN {} ELSE {source.tokens, source.text})
  BY ZenonT(60) DEF Prompts
<1> HIDE DEF base
<1>5. CASE p \in base
  BY <1>1, <1>5
<1>6. CASE p \in UNION {{b \o g : g \in Generated} : b \in base}
  <2>1. PICK b \in base : p \in {b \o g : g \in Generated}
    BY <1>6
  <2>2. PICK g \in Generated : p = b \o g
    BY <2>1
  <2> QED
    BY <1>2, <2>2
<1>7. CASE p \in IF source = None THEN {} ELSE {source.tokens, source.text}
  BY <1>3, <1>7
<1> QED
  BY <1>4, <1>5, <1>6, <1>7

(* What the target's comparison says of an extraction. *)
LEMMA SpanDecides ==
    ASSUME NEW text, NEW ids \in Seq(Nat), ids # <<>>
    PROVE  /\ \A t, other : other # None /\ SpanValid(SpanMetadata(text, ids),
                                   TargetPromptView(t, other, None, Tokenizer)) => other = ids
           /\ text = ids =>
                 /\ SpanValid(SpanMetadata(text, ids),
                              TargetPromptView(ids, ids, Len(ids), Tokenizer))
                 /\ SpanValid(SpanMetadata(text, ids), TargetPromptView(ids, None, None, None))
<1>1. Len(ids) \in Nat /\ Len(ids) > 0
  OBVIOUS
<1>2. ASSUME NEW t, NEW other, other # None,
             SpanValid(SpanMetadata(text, ids), TargetPromptView(t, other, None, Tokenizer))
      PROVE  other = ids
  BY <1>2 DEF SpanValid, SpanMetadata, TargetPromptView
<1>3. <<ids>> # <<>>
  OBVIOUS
<1>4. ASSUME text = ids
      PROVE  /\ SpanValid(SpanMetadata(text, ids),
                          TargetPromptView(ids, ids, Len(ids), Tokenizer))
             /\ SpanValid(SpanMetadata(text, ids), TargetPromptView(ids, None, None, None))
  <2> PICK span : span = [token_start |-> 0, token_end |-> Len(ids),
                          tokenizer_hash |-> Tokenizer, block_hashes |-> <<ids>>]
    OBVIOUS
  <2>1. /\ span.token_start = 0 /\ span.token_end = Len(ids)
        /\ span.tokenizer_hash = Tokenizer /\ span.block_hashes # <<>>
    BY <1>3
  <2> PICK m : m = SpanMetadata(text, ids)
    OBVIOUS
  <2>2. /\ m.byte_hash = ids /\ m.token_hash = ids /\ m.token_count = Len(ids)
        /\ m.tokenizer_hash = Tokenizer /\ m.spans = {span}
    BY <1>4 DEF SpanMetadata
  <2>3. ASSUME NEW v, v.prompt = ids, v.token_ids \in {ids, None},
               v.token_count \in {Len(ids), None}, v.tokenizer_hash \in {Tokenizer, None}
        PROVE  SpanValid(m, v)
    BY <1>1, <2>1, <2>2, <2>3 DEF SpanValid
  <2> PICK v : v = TargetPromptView(ids, ids, Len(ids), Tokenizer)
    OBVIOUS
  <2> PICK u : u = TargetPromptView(ids, None, None, None)
    OBVIOUS
  <2>4. /\ v.prompt = ids /\ v.token_ids = ids /\ v.token_count = Len(ids)
        /\ v.tokenizer_hash = Tokenizer
    BY DEF TargetPromptView
  <2>5. /\ u.prompt = ids /\ u.token_ids = None /\ u.token_count = None
        /\ u.tokenizer_hash = None
    BY DEF TargetPromptView
  <2> QED
    BY <2>3, <2>4, <2>5
<1> QED
  BY <1>2, <1>4

LEMMA SourceInvSays ==
    ASSUME SourceInv
    PROVE  SourceTypeOK /\ ReplyBelongsTogether /\ ImportedIsServed
<1>1. ImportedIsServed
  BY DEF SourceInv, SoundImport, ImportedIsServed
<1>2. SourceTypeOK
  BY DEF SourceInv, SoundRuntime, SoundReply, SoundImport, Failed, Extraction, SourceTypeOK
<1>3. CASE reply.kind # "extract"
  <2>1. ValidatedIsTheSame
    BY <1>3 DEF ValidatedIsTheSame
  <2>2. SamePromptIsAccepted
    BY <1>3 DEF SamePromptIsAccepted
  <2>3. ContinuationIsOfTheReply
    BY <1>3 DEF ContinuationIsOfTheReply
  <2> QED
    BY <1>1, <1>2, <2>1, <2>2, <2>3 DEF ReplyBelongsTogether
<1>4. CASE reply.kind = "extract"
  <2>1. \E ids \in Seq(Nat), w \in BOOLEAN :
           /\ reply = Extraction(continuation, ids, w) /\ ids # <<>>
           /\ w /\ decodes => continuation = ids
    BY <1>4 DEF SourceInv, SoundReply, Failed
  <2>2. PICK ids \in Seq(Nat), w \in BOOLEAN :
           /\ reply = Extraction(continuation, ids, w) /\ ids # <<>>
           /\ w /\ decodes => continuation = ids
    BY <2>1
  <2>3. /\ reply.tensors = ids /\ reply.metadata = SpanMetadata(continuation, ids)
        /\ reply.whole = w
    BY <2>2 DEF Extraction
  <2>4. reply.metadata.byte_hash = continuation
    BY <2>3 DEF SpanMetadata
  <2>5. ValidatedIsTheSame
    BY <2>2, <2>3, SourceAssumption, PromptIsTokens, SpanDecides DEF ValidatedIsTheSame
  <2>6. SamePromptIsAccepted
    BY <2>2, <2>3, SpanDecides DEF SamePromptIsAccepted
  <2> QED
    BY <1>1, <1>2, <2>4, <2>5, <2>6 DEF ReplyBelongsTogether, ContinuationIsOfTheReply
<1> QED
  BY <1>3, <1>4

(* The source's runtime has a prompt and a cache of the same length, and   *)
(* what was imported with success is in a runtime.                         *)
THEOREM SourceTypesHold == SourceSpec => []SourceTypeOK
BY SourceInvHolds, SourceInvSays, PTL

(* For every seed, length and generated text, tensors, span metadata and   *)
(* continuation of an extraction belong together: a target's               *)
(* validate_prompt_span_metadata accepts its own prompt exactly as it      *)
(* should.                                                                 *)
THEOREM RepliesBelongTogether == SourceSpec => []ReplyBelongsTogether
BY SourceInvHolds, SourceInvSays, PTL

(* What a target generated and the source imported with success is what    *)
(* the next extraction gives.                                              *)
THEOREM ImportedStaysServed == SourceSpec => []ImportedIsServed
BY SourceInvHolds, SourceInvSays, PTL
=============================================================================
