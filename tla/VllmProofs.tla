---------------------------- MODULE VllmProofs -----------------------------
(***************************************************************************)
(* Proofs about VllmRuntime, for any number of threads, payloads, layers   *)
(* and target blocks, both cache layouts and any order of the block pool.  *)
(*                                                                         *)
(* The argument: a block of the pool is free, or was given to one payload, *)
(* or belongs to one registration in flight (PoolSound, SlotsSound), so a  *)
(* registration writes where nothing was placed and, once it has written   *)
(* all layers, what it filed is in place (PlacesSound, WriteSound); the    *)
(* hashes a runtime, the state file and the requests know come from such   *)
(* registrations (KnowsSound, HashesSound); and requests that come one     *)
(* after the other find what the one before them left (SerialSound).       *)
(***************************************************************************)
EXTENDS VllmRuntime, Integers, TLAPS

(* Most leaves are first-order: Zenon is tried before SMT. *)
USE ZenonT(2), SMTT(30), ZenonT(60)

(* Types. *)
Filing == {"store", "open", "save", "note", "setattr"}
Verifying == {"seed", "generate", "report"}
JobLabels == {"idle", "resolve", "create", "baseline", "allocate", "write", "verify", "export"}
             \cup Filing \cup Verifying

Cells(c) == 0 .. c.slots - 1
Ids(c) == [1 .. Size -> Cells(c)]
Seeds(c) == UNION {[1 .. n -> Cells(c)] : n \in 0 .. Size}
Places == UNION {[S -> [1 .. Size -> Nat]] : S \in SUBSET Blocks}
Runtimes(c) ==
    [cache : [Layers -> [Cells(c) -> Contents]], free : Seq(Cells(c)),
     registered_hashes : (SUBSET Blocks) \cup {None}, last_register_payload : Payloads \cup {None},
     last_continuation : Continuations \cup {None},
     writers : SUBSET Blocks, placed : Places, pooled : BOOLEAN, shared : BOOLEAN]
Jobs(c) ==
    [at : JobLabels, kind : {"none", "register", "verify", "export"}, hash : Blocks \cup {None},
     hashes : SUBSET Blocks, rt : Nat, ids : Ids(c) \cup {None}, todo : Seq(Nat),
     seeded : Seeds(c), seen : SUBSET Blocks, answer : {"none", "ok", "missing", "failed"}]

VllmTypes ==
    /\ conf \in Deployments
    /\ runtimes \in Seq(Runtimes(conf))
    /\ singleton \in 0 .. Len(runtimes)
    /\ memory \subseteq Blocks
    /\ file \in (SUBSET Blocks) \cup {Torn}
    /\ job \in [Threads -> Jobs(conf)]
    /\ acked \subseteq Blocks
    /\ budget \in [requests : Nat, crashes : 0 .. Crashes]

Depth(h) == Cardinality(Layers) + (IF h \in Foreign THEN 1 ELSE 0)
Done(j) == Depth(j.hash) - Len(j.todo)
Fits(c) == IF c.cache = "separate" THEN c.slots <= Size ELSE Size <= c.slots

(* Where a request is. *)
JobFlow(j) ==
    /\ j.at \in {"allocate", "write"} \cup Filing => j.kind = "register"
    /\ j.at \in {"verify"} \cup Verifying => j.kind = "verify"
    /\ j.at = "export" => j.kind = "export"
    /\ j.at \in {"resolve", "create", "baseline"} => j.kind # "none"
    /\ j.kind = "register" => j.hash \in Blocks /\ j.answer # "missing"
    /\ j.kind = "verify" => j.hashes # {}
    /\ j.answer # "none" => j.at = "idle"
    /\ j.at \in Verifying => conf.target = "real"
    /\ j.at = "setattr" => conf.target = "noting"
    /\ j.rt \in 0 .. Len(runtimes)
    /\ j.at \notin {"idle", "resolve", "create", "baseline"} \/ j.answer # "none" => j.rt # 0

(* The target blocks of a runtime. *)
PoolSound(rt, c) ==
    /\ \A i, k \in DOMAIN rt.free : rt.free[i] = rt.free[k] => i = k
    /\ Len(rt.free) <= c.slots

PlacesOf(cache, free, placed, writers, pooled, shared, c) ==
    \A h \in DOMAIN placed :
        /\ Fits(c) /\ h \in writers /\ h \notin Foreign
        /\ ~shared =>
              /\ placed[h] \in Ids(c)
              /\ \A i \in 1 .. Size, k \in DOMAIN free : placed[h][i] # free[k]
              /\ \A l \in Layers, i \in 1 .. Size : cache[l][placed[h][i]] = <<h, i>>
        /\ ~pooled =>
              /\ \A i \in 1 .. Size : placed[h][i] = i - 1
              /\ writers = {h} => \A l \in Layers, i \in 1 .. Size :
                     i <= c.slots => cache[l][i - 1] = <<h, i>>

PlacesSound(rt, c) ==
    PlacesOf(rt.cache, rt.free, rt.placed, rt.writers, rt.pooled, rt.shared, c)

(* A registration that has written the first done layers of payload h. *)
TodoSound(h, todo, done) ==
    /\ Len(todo) <= Depth(h) /\ done = Depth(h) - Len(todo)
    /\ \A i \in 1 .. Len(todo) : todo[i] = done + i
    /\ h \in Foreign => todo # <<>>

WriteOf(cache, free, placed, writers, pooled, shared, h, ids, done, c) ==
    /\ ids = None => shared
    /\ ids # None =>
          /\ pooled /\ c.cache = "pooled" /\ Size <= c.slots
          /\ \A i, k \in 1 .. Size : ids[i] = ids[k] => i = k
          /\ \A i \in 1 .. Size, k \in DOMAIN free : ids[i] # free[k]
    /\ done > 0 => Fits(c) /\ h \in writers
    /\ ~shared =>
          /\ \A g \in DOMAIN placed : \A i, k \in 1 .. Size : placed[g][i] # ids[k]
          /\ \A l \in Layers, i \in 1 .. Size : l <= done => cache[l][ids[i]] = <<h, i>>
    /\ ~pooled /\ writers = {h} =>
          \A l \in Layers, i \in 1 .. Size :
             l <= done /\ i <= c.slots => cache[l][i - 1] = <<h, i>>

WriteSound(rt, j, c) ==
    /\ TodoSound(j.hash, j.todo, Done(j))
    /\ WriteOf(rt.cache, rt.free, rt.placed, rt.writers, rt.pooled, rt.shared,
               j.hash, j.ids, Done(j), c)

Apart(j, k) == \A a, b \in 1 .. Size : j.ids[a] # k.ids[b]

SlotsSound ==
    /\ \A r \in DOMAIN runtimes : PoolSound(runtimes[r], conf) /\ PlacesSound(runtimes[r], conf)
    /\ \A t \in Threads : At(t, "write") => WriteSound(Runtime(t), job[t], conf)
    /\ \A t, u \in Threads :
          /\ t # u /\ At(t, "write") /\ At(u, "write") /\ job[t].rt = job[u].rt
          /\ job[t].ids # None /\ job[u].ids # None
          => Apart(job[t], job[u])

(* What a runtime knows. *)
KnowsSound(rt, c) ==
    /\ c.target = "real" => rt.registered_hashes # None
    /\ c.target = "opaque" => rt.registered_hashes = None
    /\ rt.registered_hashes # None => rt.registered_hashes \subseteq DOMAIN rt.placed
    /\ rt.last_continuation # None =>
          /\ c.target = "real" /\ rt.last_continuation.known # {}
          /\ rt.last_continuation.known \subseteq rt.registered_hashes
    /\ c.target = "real" /\ rt.registered_hashes # {} => rt.last_register_payload # None
    /\ rt.last_register_payload # None => c.target = "real"
    /\ ~rt.shared /\ rt.last_register_payload # None =>
          /\ rt.last_register_payload.hash \in DOMAIN rt.placed
          /\ rt.last_register_payload.ids = rt.placed[rt.last_register_payload.hash]
    /\ rt.last_register_payload # None /\ rt.last_register_payload.ids # None =>
          rt.last_register_payload.ids \in Ids(c)

Only == NeverKilled /\ Len(runtimes) <= 1
PlacedOnly == IF Len(runtimes) = 1 THEN DOMAIN runtimes[1].placed ELSE {}

JobKnows(j) ==
    /\ j.at \in Filing =>
          /\ j.hash \in DOMAIN runtimes[j.rt].placed
          /\ conf.target = "real" => runtimes[j.rt].last_register_payload # None
    /\ j.at \in Verifying => j.hashes \subseteq runtimes[j.rt].registered_hashes
    /\ j.at = "report" => runtimes[j.rt].last_continuation # None
    /\ j.kind = "verify" /\ j.answer = "ok" /\ (conf.target = "real" \/ Only) =>
          j.hashes \subseteq DOMAIN runtimes[j.rt].placed
    /\ Only /\ j.at \in {"open", "save"} => j.seen \subseteq PlacedOnly

HashesSound ==
    /\ \A r \in DOMAIN runtimes : KnowsSound(runtimes[r], conf)
    /\ \A t \in Threads : JobKnows(job[t])
    /\ Only => memory \subseteq PlacedOnly /\ (file # Torn => file \subseteq PlacedOnly)
    /\ Len(runtimes) = 0 => acked = {}
    /\ /\ Len(runtimes) = 1 /\ acked # {}
       /\ conf.target = "real" \/ (conf.target = "noting" /\ conf.serial)
       => runtimes[1].registered_hashes # None /\ acked \subseteq runtimes[1].registered_hashes

(* Requests one after the other. *)
JobAlone(j) ==
    /\ j.at = "create" => Len(runtimes) = 0
    /\ j.at = "save" => file = Torn
    /\ j.at \in {"open", "note", "setattr"} => file # Torn
    /\ j.at = "setattr" => runtimes[j.rt].registered_hashes = None
    /\ j.at \in Filing /\ conf.target = "real" =>
          runtimes[j.rt].last_register_payload.hash = j.hash
    /\ j.at = "generate" /\ ~runtimes[j.rt].shared =>
          \A i \in DOMAIN j.seeded : j.seeded[i] = runtimes[j.rt].last_register_payload.ids[i]
    /\ j.at = "report" /\ ~runtimes[j.rt].shared =>
          \A l \in Layers : \A i \in DOMAIN runtimes[j.rt].last_continuation.kv[l] :
              runtimes[j.rt].last_continuation.kv[l][i]
                  = <<runtimes[j.rt].last_register_payload.hash, i>>

SerialSound ==
    conf.serial =>
        /\ \A t, u \in Threads : At(t, "idle") \/ At(u, "idle") \/ t = u
        /\ Len(runtimes) <= 1 /\ (singleton = 0 => Len(runtimes) = 0)
        /\ \A t \in Threads : JobAlone(job[t])
        /\ file = Torn =>
              \/ \E t \in Threads : At(t, "save")
              \/ ~NeverKilled /\ \A r \in DOMAIN runtimes : runtimes[r].registered_hashes \in {{}, None}
        /\ conf.target = "real" => \A r \in DOMAIN runtimes :
              \/ runtimes[r].last_register_payload = None
              \/ runtimes[r].last_register_payload.hash \in runtimes[r].registered_hashes
              \/ file = Torn
              \/ \E t \in Threads : job[t].at \in Filing

Core ==
    /\ VllmTypes /\ (\A t \in Threads : JobFlow(job[t]))
    /\ SlotsSound /\ HashesSound /\ SerialSound

VllmInv == Core /\ RegisterFailsForCause /\ ReverseStateBelongsTogether

-----------------------------------------------------------------------------
(* Lemmas about the data. *)

LEMMA Depths ==
    /\ Cardinality(Layers) \in Nat /\ Cardinality(Layers) > 0 /\ Layers = 1 .. Cardinality(Layers)
    /\ \A h : /\ Depth(h) \in Nat /\ Depth(h) > 0
              /\ h \notin Foreign => Depth(h) = Cardinality(Layers)
              /\ h \in Foreign => Depth(h) = Cardinality(Layers) + 1
<1>1. Cardinality(Layers) \in Nat /\ Cardinality(Layers) > 0 /\ Layers = 1 .. Cardinality(Layers)
  BY VllmAssumption, SMTT(30)
<1> QED BY <1>1, SMTT(30) DEF Depth

LEMMA Appended ==
    ASSUME NEW S, NEW q \in Seq(S), NEW x \in S
    PROVE  /\ Append(q, x) \in Seq(S) /\ Len(Append(q, x)) = Len(q) + 1
           /\ DOMAIN Append(q, x) = 1 .. Len(q) + 1
           /\ \A i \in 1 .. Len(q) : Append(q, x)[i] = q[i]
           /\ Append(q, x)[Len(q) + 1] = x
OBVIOUS

LEMMA Tailed ==
    ASSUME NEW S, NEW q \in Seq(S), q # <<>>
    PROVE  /\ Tail(q) \in Seq(S) /\ Len(Tail(q)) = Len(q) - 1
           /\ \A i \in 1 .. Len(q) - 1 : Tail(q)[i] = q[i + 1]
OBVIOUS

LEMMA Replaced ==
    ASSUME NEW S, NEW q \in Seq(S), NEW r \in DOMAIN q, NEW x \in S
    PROVE  /\ [q EXCEPT ![r] = x] \in Seq(S) /\ Len([q EXCEPT ![r] = x]) = Len(q)
           /\ DOMAIN [q EXCEPT ![r] = x] = DOMAIN q
           /\ [q EXCEPT ![r] = x][r] = x
           /\ \A s \in DOMAIN q \ {r} : [q EXCEPT ![r] = x][s] = q[s]
OBVIOUS

(* The first n of a sequence, and the rest. *)
LEMMA Taken ==
    ASSUME NEW S, NEW q \in Seq(S), NEW n \in Nat, n <= Len(q)
    PROVE  /\ SubSeq(q, 1, n) \in [1 .. n -> S]
           /\ \A i \in 1 .. n : SubSeq(q, 1, n)[i] = q[i] /\ i \in DOMAIN q
           /\ SubSeq(q, n + 1, Len(q)) \in Seq(S)
           /\ Len(SubSeq(q, n + 1, Len(q))) = Len(q) - n
           /\ DOMAIN SubSeq(q, n + 1, Len(q)) = 1 .. Len(q) - n
           /\ \A k \in 1 .. Len(q) - n :
                 SubSeq(q, n + 1, Len(q))[k] = q[n + k] /\ n + k \in DOMAIN q
<1>1. Len(q) \in Nat /\ DOMAIN q = 1 .. Len(q)
  OBVIOUS
<1>2. PICK a, b : a = SubSeq(q, 1, n) /\ b = SubSeq(q, n + 1, Len(q))
  OBVIOUS
<1>3. a \in Seq(S) /\ Len(a) = n
  BY <1>2
<1>4. b \in Seq(S) /\ Len(b) = Len(q) - n
  BY <1>2
<1>5. a \in [1 .. n -> S] /\ DOMAIN b = 1 .. Len(q) - n
  BY <1>1, <1>3, <1>4
<1>6. \A i \in 1 .. n : a[i] = q[i] /\ i \in DOMAIN q
  BY <1>2
<1>7. \A k \in 1 .. Len(q) - n : b[k] = q[n + k] /\ n + k \in DOMAIN q
  BY <1>2
<1> QED BY <1>2, <1>4, <1>5, <1>6, <1>7

LEMMA NoSeeds ==
    ASSUME NEW c
    PROVE  <<>> \in Seeds(c)
<1>1. 0 \in 0 .. Size /\ <<>> \in [1 .. 0 -> Cells(c)]
  BY VllmAssumption, SMTT(30)
<1> QED BY <1>1 DEF Seeds

LEMMA SeedsOf ==
    ASSUME NEW c, NEW q, q = <<>> \/ q \in Ids(c), NEW n \in 0 .. Len(q)
    PROVE  /\ SubSeq(q, 1, n) \in Seeds(c)
           /\ \A i \in DOMAIN SubSeq(q, 1, n) : SubSeq(q, 1, n)[i] = q[i]
<1>0. Size \in Nat
  BY VllmAssumption, SMTT(30)
<1>1. CASE q = <<>>
  <2>1. n = 0
    BY <1>1, SMTT(30)
  <2>2. SubSeq(q, 1, n) = <<>>
    BY <1>1, <2>1, SMTT(30)
  <2> QED BY <1>1, <2>2, NoSeeds
<1>2. CASE q \in Ids(c)
  <2>1. q \in Seq(Cells(c)) /\ Len(q) = Size /\ \A i \in 1 .. Size : q[i] \in Cells(c)
    BY <1>0, <1>2, SMTT(30) DEF Ids
  <2>2. n \in 0 .. Size /\ n \in Nat /\ n <= Len(q)
    BY <1>0, <2>1, SMTT(30)
  <2> PICK s : s = SubSeq(q, 1, n)
    OBVIOUS
  <2>3. s \in [1 .. n -> Cells(c)] /\ \A i \in 1 .. n : s[i] = q[i]
    BY <2>1, <2>2, Taken
  <2> QED BY <2>2, <2>3 DEF Seeds
<1> QED BY <1>1, <1>2

LEMMA IdleFacts ==
    /\ IdleJob \in Jobs(conf) /\ IdleJob.at = "idle" /\ IdleJob.kind = "none" /\ IdleJob.answer = "none"
    /\ IdleJob.rt = 0
<1>1. <<>> \in Seq(Nat)
  OBVIOUS
<1> QED BY <1>1, NoSeeds DEF IdleJob, Jobs, JobLabels

(* What a step does to the job of its thread. *)
Alike(j, k) ==
    /\ j.kind = k.kind /\ j.hash = k.hash /\ j.hashes = k.hashes /\ j.rt = k.rt

Others(t) ==
    /\ job' \in [Threads -> Jobs(conf)]
    /\ \A u \in Threads \ {t} : job'[u] = job[u]

LEMMA GotoFacts ==
    ASSUME VllmTypes, NEW t \in Threads, NEW label \in JobLabels, Goto(t, label)
    PROVE  /\ Others(t) /\ job'[t].at = label /\ Alike(job'[t], job[t])
           /\ job'[t].ids = job[t].ids /\ job'[t].todo = job[t].todo
           /\ job'[t].seen = job[t].seen /\ job'[t].answer = job[t].answer
<1>1. job \in [Threads -> Jobs(conf)] /\ job[t] \in Jobs(conf) /\ job' = [job EXCEPT ![t] = [job[t] EXCEPT !.at = label]]
  BY DEF VllmTypes, Goto
<1>2. [job[t] EXCEPT !.at = label] \in Jobs(conf)
  BY <1>1 DEF Jobs
<1>3. PICK new \in Jobs(conf) : new = [job[t] EXCEPT !.at = label]
  BY <1>2
<1>4. /\ new.at = label /\ Alike(new, job[t]) /\ new.ids = job[t].ids /\ new.todo = job[t].todo
      /\ new.seen = job[t].seen /\ new.answer = job[t].answer
  BY <1>1, <1>3 DEF Jobs, Alike
<1>5. job' = [job EXCEPT ![t] = new]
  BY <1>1, <1>3
<1>6. job' \in [Threads -> Jobs(conf)] /\ job'[t] = new /\ \A u \in Threads \ {t} : job'[u] = job[u]
  BY <1>1, <1>5
<1> QED BY <1>4, <1>6 DEF Others

LEMMA AnswerFacts ==
    ASSUME VllmTypes, NEW t \in Threads, NEW answer \in {"ok", "missing", "failed"},
           Answer(t, answer)
    PROVE  Others(t) /\ job'[t].at = "idle" /\ Alike(job'[t], job[t]) /\ job'[t].answer = answer
<1>1. job \in [Threads -> Jobs(conf)] /\ job[t] \in Jobs(conf)
  BY DEF VllmTypes
<1> DEFINE n == [IdleJob EXCEPT !.kind = job[t].kind, !.hash = job[t].hash,
                   !.hashes = job[t].hashes, !.rt = job[t].rt, !.answer = answer]
<1>2. n \in Jobs(conf) /\ n.at = "idle" /\ Alike(n, job[t]) /\ n.answer = answer
  BY <1>1, IdleFacts DEF Jobs, Alike
<1>3. PICK new \in Jobs(conf) : new = n /\ new.at = "idle" /\ Alike(new, job[t]) /\ new.answer = answer
  BY <1>2
<1>4. job' = [job EXCEPT ![t] = new]
  BY <1>3 DEF Answer
<1>5. job' \in [Threads -> Jobs(conf)] /\ job'[t] = new /\ \A u \in Threads \ {t} : job'[u] = job[u]
  BY <1>1, <1>4
<1> QED BY <1>3, <1>5 DEF Others

-----------------------------------------------------------------------------
(* Frames: what a step leaves as it was. *)

(* No step but a kill makes a runtime forget. *)
Grows ==
    /\ conf' = conf /\ budget'.crashes = budget.crashes
    /\ runtimes' \in Seq(Runtimes(conf)) /\ Len(runtimes) <= Len(runtimes')
    /\ \A r \in DOMAIN runtimes :
          /\ DOMAIN runtimes[r].placed \subseteq DOMAIN runtimes'[r].placed
          /\ runtimes[r].last_register_payload # None => runtimes'[r].last_register_payload # None
          /\ runtimes[r].last_continuation # None => runtimes'[r].last_continuation # None
          /\ conf.target = "real" =>
                runtimes[r].registered_hashes \subseteq runtimes'[r].registered_hashes

LEMMA InRuntimes ==
    ASSUME VllmTypes, NEW r
    PROVE  /\ r \in DOMAIN runtimes <=> r \in 1 .. Len(runtimes)
           /\ r \in DOMAIN runtimes => runtimes[r] \in Runtimes(conf)
           /\ Len(runtimes) \in Nat
BY DEF VllmTypes

LEMMA OneLeft ==
    ASSUME NEW a \in Nat, NEW b \in Nat, a <= b, b <= 1, a = 1 PROVE b = 1
BY SMTT(30)

LEMMA FirstOfOne ==
    ASSUME NEW n \in Nat, NEW r \in 1 .. n, n <= 1 PROVE r = 1 /\ n = 1
BY SMTT(30)

LEMMA OnlyStays ==
    ASSUME VllmTypes, Grows
    PROVE  /\ NeverKilled' <=> NeverKilled
           /\ Only' => Only
           /\ Only' => PlacedOnly \subseteq PlacedOnly'
<1>1. NeverKilled' <=> NeverKilled
  BY DEF Grows, NeverKilled, Restarts
<1>2. Len(runtimes) \in Nat /\ Len(runtimes') \in Nat /\ Len(runtimes) <= Len(runtimes')
  BY DEF VllmTypes, Grows
<1>3. Only' => Only
  BY <1>1, <1>2, SMTT(30) DEF Only
<1>4. ASSUME Only' PROVE PlacedOnly \subseteq PlacedOnly'
  <2>1. CASE Len(runtimes) = 1
    <3>1. Len(runtimes') = 1
      <4>1. Len(runtimes') <= 1
        BY <1>4 DEF Only
      <4> QED BY <1>2, <2>1, <4>1, OneLeft
    <3>2. 1 \in DOMAIN runtimes
      BY <2>1 DEF VllmTypes
    <3>3. DOMAIN runtimes[1].placed \subseteq DOMAIN runtimes'[1].placed
      BY <3>2 DEF Grows
    <3> QED BY <2>1, <3>1, <3>3 DEF PlacedOnly
  <2>2. CASE Len(runtimes) # 1
    BY <2>2 DEF PlacedOnly
  <2> QED BY <2>1, <2>2
<1> QED BY <1>1, <1>3, <1>4

LEMMA OtherFlow ==
    ASSUME VllmTypes, Grows, NEW u \in Threads, job'[u] = job[u], JobFlow(job[u])
    PROVE  JobFlow(job[u])'
<1>1. conf' = conf /\ Len(runtimes) \in Nat /\ Len(runtimes') \in Nat /\ Len(runtimes) <= Len(runtimes')
  BY DEF VllmTypes, Grows
<1>2. job[u].rt \in 0 .. Len(runtimes)
  BY DEF JobFlow
<1>3. job'[u].rt \in 0 .. Len(runtimes')
  BY <1>1, <1>2, SMTT(30)
<1> QED BY <1>1, <1>3 DEF JobFlow

LEMMA OtherKnows ==
    ASSUME VllmTypes, Grows, NEW u \in Threads, job'[u] = job[u], JobFlow(job[u]), JobKnows(job[u])
    PROVE  JobKnows(job[u])'
<1> DEFINE r == job[u].rt
<1>1. conf' = conf
  BY DEF Grows
<1>2. job[u].at \notin {"idle", "resolve", "create", "baseline"} \/ job[u].answer # "none" => r \in DOMAIN runtimes
  <2>1. r \in 0 .. Len(runtimes) /\ Len(runtimes) \in Nat
    BY InRuntimes DEF JobFlow
  <2>2. r # 0 => r \in 1 .. Len(runtimes)
    BY <2>1, SMTT(30)
  <2> QED BY <2>2, InRuntimes DEF JobFlow
<1>3. job[u].at \in Filing =>
          /\ job[u].hash \in DOMAIN runtimes'[r].placed
          /\ conf.target = "real" => runtimes'[r].last_register_payload # None
  <2>1. job[u].at \in Filing => r \in DOMAIN runtimes
    BY <1>2 DEF Filing
  <2> QED BY <2>1 DEF JobKnows, Grows
<1>4. job[u].at \in Verifying => job[u].hashes \subseteq runtimes'[r].registered_hashes
  <2>1. job[u].at \in Verifying => r \in DOMAIN runtimes /\ conf.target = "real"
    BY <1>2 DEF Verifying, JobFlow
  <2> QED BY <2>1 DEF JobKnows, Grows
<1>5. job[u].at = "report" => runtimes'[r].last_continuation # None
  BY <1>2 DEF JobKnows, Grows
<1>6. job[u].kind = "verify" /\ job[u].answer = "ok" /\ (conf.target = "real" \/ Only') =>
          job[u].hashes \subseteq DOMAIN runtimes'[r].placed
  BY <1>2, OnlyStays DEF JobKnows, Grows
<1>7. Only' /\ job[u].at \in {"open", "save"} => job[u].seen \subseteq PlacedOnly'
  BY OnlyStays DEF JobKnows
<1> HIDE DEF r
<1> QED BY <1>1, <1>3, <1>4, <1>5, <1>6, <1>7 DEF JobKnows, r

SameSlots(x, y) ==
    /\ y.cache = x.cache /\ y.free = x.free /\ y.placed = x.placed /\ y.writers = x.writers
    /\ y.pooled = x.pooled /\ y.shared = x.shared

LEMMA SlotsAlike ==
    ASSUME NEW x, NEW y, NEW c, SameSlots(x, y)
    PROVE  /\ PoolSound(x, c) => PoolSound(y, c)
           /\ PlacesSound(x, c) => PlacesSound(y, c)
<1>1. PoolSound(x, c) => PoolSound(y, c)
  BY DEF PoolSound, SameSlots
<1>2. PlacesSound(x, c) => PlacesSound(y, c)
  BY DEF PlacesSound, SameSlots
<1> QED BY <1>1, <1>2

LEMMA WriteAlike ==
    ASSUME NEW x, NEW y, NEW j, NEW c, SameSlots(x, y), WriteSound(x, j, c)
    PROVE  WriteSound(y, j, c)
BY DEF WriteSound, SameSlots

LEMMA SlotsKept ==
    ASSUME SlotsSound, conf' = conf, DOMAIN runtimes' = DOMAIN runtimes,
           \A r \in DOMAIN runtimes : SameSlots(runtimes[r], runtimes'[r]),
           \A u \in Threads : At(u, "write")' => job'[u] = job[u] /\ job[u].rt \in DOMAIN runtimes
    PROVE  SlotsSound'
<1>1. ASSUME NEW r \in DOMAIN runtimes'
      PROVE  PoolSound(runtimes[r], conf)' /\ PlacesSound(runtimes[r], conf)'
  <2>1. /\ PoolSound(runtimes[r], conf) /\ PlacesSound(runtimes[r], conf)
        /\ SameSlots(runtimes[r], runtimes'[r])
    BY DEF SlotsSound
  <2>2. PoolSound(runtimes'[r], conf) /\ PlacesSound(runtimes'[r], conf)
    BY <2>1, SlotsAlike
  <2> QED BY <2>2
<1>2. ASSUME NEW u \in Threads, At(u, "write")' PROVE WriteSound(Runtime(u), job[u], conf)'
  <2>1. job'[u] = job[u] /\ job[u].rt \in DOMAIN runtimes
    BY <1>2
  <2>2. WriteSound(runtimes[job[u].rt], job[u], conf) /\ SameSlots(runtimes[job[u].rt], runtimes'[job[u].rt])
    BY <1>2, <2>1 DEF At, SlotsSound, Runtime
  <2>3. WriteSound(runtimes'[job[u].rt], job[u], conf)
    BY <2>2, WriteAlike
  <2> QED BY <2>1, <2>3 DEF Runtime
<1>3. ASSUME NEW t \in Threads, NEW u \in Threads, t # u, At(t, "write")', At(u, "write")',
             job'[t].rt = job'[u].rt, job'[t].ids # None, job'[u].ids # None
      PROVE  Apart(job[t], job[u])'
  <2>1. job'[t] = job[t] /\ job'[u] = job[u]
    BY <1>3
  <2>2. Apart(job[t], job[u])
    BY <1>3, <2>1 DEF At, SlotsSound
  <2> QED BY <2>1, <2>2
<1> QED BY <1>1, <1>2, <1>3 DEF SlotsSound

LEMMA KnowsAlike ==
    ASSUME NEW x, NEW y, NEW c, KnowsSound(x, c),
           y.registered_hashes = x.registered_hashes, y.placed = x.placed, y.shared = x.shared,
           y.last_continuation = x.last_continuation,
           y.last_register_payload = x.last_register_payload
    PROVE  KnowsSound(y, c)
BY DEF KnowsSound

(* What is on file, and what was answered. *)
FilesSound == Only => memory \subseteq PlacedOnly /\ (file # Torn => file \subseteq PlacedOnly)
AckedSound ==
    /\ Len(runtimes) = 0 => acked = {}
    /\ /\ Len(runtimes) = 1 /\ acked # {}
       /\ conf.target = "real" \/ (conf.target = "noting" /\ conf.serial)
       => runtimes[1].registered_hashes # None /\ acked \subseteq runtimes[1].registered_hashes

LEMMA HashesParts ==
    /\ HashesSound <=>
          /\ \A r \in DOMAIN runtimes : KnowsSound(runtimes[r], conf)
          /\ \A t \in Threads : JobKnows(job[t])
          /\ FilesSound /\ AckedSound
    /\ HashesSound' <=>
          /\ \A r \in DOMAIN runtimes' : KnowsSound(runtimes[r], conf)'
          /\ \A t \in Threads : JobKnows(job[t])'
          /\ FilesSound' /\ AckedSound'
BY DEF HashesSound, FilesSound, AckedSound

LEMMA FilesKept ==
    ASSUME VllmTypes, FilesSound, Grows, memory' = memory, file' \in {file, Torn}
    PROVE  FilesSound'
BY OnlyStays DEF FilesSound

LEMMA AckedKept ==
    ASSUME AckedSound, Grows, acked' = acked, Len(runtimes') = Len(runtimes),
           Len(runtimes) = 1 => runtimes'[1].registered_hashes = runtimes[1].registered_hashes
    PROVE  AckedSound'
BY DEF AckedSound, Grows

(* Serial requests: the thread t is the only one, before and after. *)
TornSound ==
    file = Torn =>
        \/ \E t \in Threads : At(t, "save")
        \/ ~NeverKilled /\ \A r \in DOMAIN runtimes : runtimes[r].registered_hashes \in {{}, None}
LastSound ==
    conf.target = "real" => \A r \in DOMAIN runtimes :
        \/ runtimes[r].last_register_payload = None
        \/ runtimes[r].last_register_payload.hash \in runtimes[r].registered_hashes
        \/ file = Torn
        \/ \E t \in Threads : job[t].at \in Filing

LEMMA SerialStep ==
    ASSUME SerialSound, NEW t \in Threads, Others(t), conf' = conf,
           conf.serial =>
               /\ At(t, "idle") => \A u \in Threads : At(u, "idle")
               /\ Len(runtimes') <= 1 /\ (singleton' = 0 => Len(runtimes') = 0)
               /\ JobAlone(job[t])' /\ TornSound' /\ LastSound'
    PROVE  SerialSound'
<1> SUFFICES ASSUME conf.serial PROVE SerialSound'
  BY DEF SerialSound
<1>1. \A u \in Threads \ {t} : job[u].at = "idle" /\ job'[u].at = "idle"
  BY DEF SerialSound, Others, At
<1>2. \A u, v \in Threads : At(u, "idle")' \/ At(v, "idle")' \/ u = v
  BY <1>1 DEF At
<1>3. \A u \in Threads : JobAlone(job[u])'
  <2>1. \A u \in Threads \ {t} : JobAlone(job[u])'
    BY <1>1 DEF JobAlone, Filing
  <2> QED BY <2>1
<1> QED BY <1>2, <1>3 DEF SerialSound, TornSound, LastSound

LEMMA SerialParts ==
    ASSUME SerialSound, conf.serial
    PROVE  /\ Len(runtimes) <= 1 /\ (singleton = 0 => Len(runtimes) = 0)
           /\ TornSound /\ LastSound /\ \A t \in Threads : JobAlone(job[t])
           /\ \A t, u \in Threads : At(t, "idle") \/ At(u, "idle") \/ t = u
BY DEF SerialSound, TornSound, LastSound

LEMMA TornKept ==
    ASSUME TornSound, Grows, NEW t \in Threads, Others(t), file' = file, ~At(t, "save"),
           DOMAIN runtimes' = DOMAIN runtimes,
           \A r \in DOMAIN runtimes : runtimes'[r].registered_hashes = runtimes[r].registered_hashes
    PROVE  TornSound'
<1>1. NeverKilled' <=> NeverKilled
  BY DEF Grows, NeverKilled, Restarts
<1>2. ASSUME NEW u \in Threads, At(u, "save") PROVE At(u, "save")'
  BY <1>2 DEF At, Others
<1> QED BY <1>1, <1>2 DEF TornSound

LEMMA LastKept ==
    ASSUME LastSound, conf' = conf, NEW t \in Threads, Others(t), file' = file,
           job[t].at \in Filing => job'[t].at \in Filing,
           DOMAIN runtimes' = DOMAIN runtimes,
           \A r \in DOMAIN runtimes :
              /\ runtimes'[r].last_register_payload = runtimes[r].last_register_payload
              /\ runtimes'[r].registered_hashes = runtimes[r].registered_hashes
    PROVE  LastSound'
<1>1. ASSUME NEW u \in Threads, job[u].at \in Filing PROVE job'[u].at \in Filing
  BY <1>1 DEF Others
<1> QED BY <1>1 DEF LastSound

LEMMA AnswersKept ==
    ASSUME RegisterFailsForCause, Grows, NEW t \in Threads, Others(t),
           job'[t].kind = "register" => job'[t].answer = "none"
    PROVE  RegisterFailsForCause'
<1>1. (NeverKilled' <=> NeverKilled) /\ conf' = conf /\ Slots' = Slots
  BY DEF Slots, Grows, NeverKilled, Restarts
<1>2. ASSUME NEW u \in Threads, job'[u].kind = "register", job'[u].answer # "none",
             conf'.serial, NeverKilled'
      PROVE  (job'[u].answer = "failed" <=>
                \/ job'[u].hash \in Foreign
                \/ IF conf'.cache = "separate" THEN Slots' > Size ELSE Slots' < Size)
  <2>1. job'[u] = job[u]
    BY <1>2 DEF Others
  <2> QED BY <1>1, <1>2, <2>1 DEF RegisterFailsForCause
<1> QED BY <1>2 DEF RegisterFailsForCause

(* A step of one thread, put together. *)
LEMMA StepSound ==
    ASSUME Core, NEW t \in Threads, Grows, Others(t), VllmTypes',
           JobFlow(job[t])', JobKnows(job[t])',
           \A r \in DOMAIN runtimes' : KnowsSound(runtimes[r], conf)',
           FilesSound', AckedSound', SlotsSound', SerialSound'
    PROVE  Core'
<1>1. ASSUME NEW u \in Threads PROVE JobFlow(job[u])' /\ JobKnows(job[u])'
  <2>1. CASE u = t
    BY <2>1
  <2>2. CASE u # t
    <3>1. job'[u] = job[u] /\ VllmTypes /\ JobFlow(job[u]) /\ JobKnows(job[u])
      BY <2>2, HashesParts DEF Others, Core
    <3> QED BY <3>1, OtherFlow, OtherKnows
  <2> QED BY <2>1, <2>2
<1>2. HashesSound'
  BY <1>1, HashesParts
<1> QED BY <1>1, <1>2 DEF Core

-----------------------------------------------------------------------------
(* The steps that leave the runtimes and the files alone. *)

LEMMA SameGrows ==
    ASSUME VllmTypes, conf' = conf, runtimes' = runtimes, budget'.crashes = budget.crashes
    PROVE  Grows
BY DEF VllmTypes, Grows

LEMMA HasRuntime ==
    ASSUME VllmTypes, NEW t \in Threads, JobFlow(job[t]),
           job[t].at \notin {"idle", "resolve", "create", "baseline"} \/ job[t].answer # "none"
    PROVE  /\ job[t].rt \in DOMAIN runtimes /\ job[t].rt \in 1 .. Len(runtimes)
           /\ Runtime(t) = runtimes[job[t].rt] /\ Runtime(t) \in Runtimes(conf)
<1>1. job[t].rt \in 0 .. Len(runtimes) /\ job[t].rt # 0 /\ Len(runtimes) \in Nat
  BY InRuntimes DEF JobFlow
<1>2. job[t].rt \in 1 .. Len(runtimes)
  BY <1>1, SMTT(30)
<1> QED BY <1>2, InRuntimes DEF Runtime

LEMMA QuietStep ==
    ASSUME Core, NEW t \in Threads, Others(t),
           conf' = conf, runtimes' = runtimes, singleton' = singleton, memory' = memory,
           file' = file, acked' = acked,
           budget' \in [requests : Nat, crashes : 0 .. Crashes], budget'.crashes = budget.crashes,
           JobFlow(job[t])', JobKnows(job[t])', job'[t].at # "write",
           job[t].at \in Filing => job[t].at # "save" /\ job'[t].at \in Filing,
           conf.serial => (At(t, "idle") => \A u \in Threads : At(u, "idle")) /\ JobAlone(job[t])'
    PROVE  Core' /\ Grows
<1>0. VllmTypes /\ SlotsSound /\ SerialSound
  BY DEF Core
<1>1. Grows
  BY <1>0, SameGrows
<1>2. VllmTypes'
  BY <1>0 DEF VllmTypes, Others
<1>3. SlotsSound'
  <2>1. \A u \in Threads : At(u, "write")' => job'[u] = job[u] /\ job[u].rt \in DOMAIN runtimes
    <3> SUFFICES ASSUME NEW u \in Threads, At(u, "write")'
                 PROVE  job'[u] = job[u] /\ job[u].rt \in DOMAIN runtimes
      OBVIOUS
    <3>1. job'[u] = job[u] /\ job[u].at = "write"
      BY DEF At, Others
    <3> QED BY <1>0, <3>1, HasRuntime DEF Core
  <2>2. \A r \in DOMAIN runtimes : SameSlots(runtimes[r], runtimes'[r])
    BY DEF SameSlots
  <2> QED BY <1>0, <2>1, <2>2, SlotsKept
<1>4. /\ \A r \in DOMAIN runtimes' : KnowsSound(runtimes[r], conf)'
      /\ FilesSound' /\ AckedSound'
  <2>1. /\ \A r \in DOMAIN runtimes : KnowsSound(runtimes[r], conf)
        /\ FilesSound /\ AckedSound
    BY HashesParts DEF Core
  <2> QED BY <1>0, <1>1, <2>1, FilesKept, AckedKept
<1>5. SerialSound'
  <2>1. conf.serial =>
               /\ Len(runtimes') <= 1 /\ (singleton' = 0 => Len(runtimes') = 0)
               /\ TornSound' /\ LastSound'
    <3>1. ~At(t, "save")
      BY DEF At, Filing
    <3> QED BY <1>0, <1>1, <3>1, SerialParts, TornKept, LastKept
  <2> QED BY <1>0, <2>1, SerialStep
<1> QED BY <1>1, <1>2, <1>3, <1>4, <1>5, StepSound

LEMMA ReverseKept ==
    ASSUME ReverseStateBelongsTogether, conf' = conf, export' = export
    PROVE  ReverseStateBelongsTogether'
BY DEF ReverseStateBelongsTogether

LEMMA RequestStep ==
    ASSUME VllmInv, NEW t \in Threads, NEW kind \in {"register", "verify", "export"},
           NEW hash \in Blocks \cup {None}, NEW hashes \in SUBSET Blocks,
           Request(t, kind, hash, hashes),
           kind = "register" => hash \in Blocks, kind = "verify" => hashes # {}
    PROVE  VllmInv'
<1> DEFINE n == [IdleJob EXCEPT !.at = "resolve", !.kind = kind, !.hash = hash, !.hashes = hashes]
<1>0. Core /\ VllmTypes /\ job \in [Threads -> Jobs(conf)]
  BY DEF VllmInv, Core, VllmTypes
<1>1. n \in Jobs(conf) /\ n.at = "resolve" /\ n.kind = kind /\ n.hash = hash /\ n.hashes = hashes
      /\ n.rt = 0 /\ n.answer = "none"
  BY IdleFacts DEF Jobs, JobLabels
<1>2. PICK new \in Jobs(conf) : new = n /\ new.at = "resolve" /\ new.kind = kind /\ new.hash = hash
                                 /\ new.hashes = hashes /\ new.rt = 0 /\ new.answer = "none"
  BY <1>1
<1>3. job' = [job EXCEPT ![t] = new]
  BY <1>2 DEF Request
<1> HIDE DEF n
<1>4. job' \in [Threads -> Jobs(conf)] /\ job'[t] = new /\ \A u \in Threads \ {t} : job'[u] = job[u]
  BY <1>0, <1>3
<1>5. Others(t)
  BY <1>4 DEF Others
<1>6. /\ conf' = conf /\ runtimes' = runtimes /\ singleton' = singleton /\ memory' = memory
      /\ file' = file /\ acked' = acked /\ export' = export
  BY DEF Request
<1>7. budget' \in [requests : Nat, crashes : 0 .. Crashes] /\ budget'.crashes = budget.crashes
  BY <1>0 DEF Request, VllmTypes
<1>8. JobFlow(job[t])'
  <2>1. 0 \in 0 .. Len(runtimes)
    BY <1>0, InRuntimes, SMTT(30)
  <2> QED BY <1>2, <1>4, <1>6, <2>1 DEF JobFlow, Filing, Verifying
<1>9. JobKnows(job[t])'
  BY <1>2, <1>4, <1>6 DEF JobKnows, Filing, Verifying
<1>10. JobAlone(job[t])'
  BY <1>2, <1>4, <1>6 DEF JobAlone, Filing
<1>11. job[t].at = "idle" /\ (conf.serial => \A u \in Threads : At(u, "idle"))
  BY DEF Request, At
<1>12. Core' /\ Grows
  <2>1. job[t].at \notin Filing /\ job'[t].at # "write"
    BY <1>2, <1>4, <1>11 DEF Filing
  <2> QED BY <1>0, <1>5, <1>6, <1>7, <1>8, <1>9, <1>10, <1>11, <2>1, QuietStep
<1>13. job'[t].kind = "register" => job'[t].answer = "none"
  BY <1>2, <1>4
<1> QED BY <1>5, <1>6, <1>12, <1>13, AnswersKept, ReverseKept DEF VllmInv

LEMMA ResolveStep ==
    ASSUME VllmInv, NEW t \in Threads, ResolveRuntime(t)
    PROVE  VllmInv'
<1> DEFINE label == IF singleton = 0 THEN "create" ELSE FirstStep(job[t].kind)
           n == [job[t] EXCEPT !.rt = singleton, !.at = label]
<1>0. /\ Core /\ VllmTypes /\ job \in [Threads -> Jobs(conf)] /\ job[t] \in Jobs(conf)
      /\ JobFlow(job[t]) /\ job[t].at = "resolve" /\ singleton \in 0 .. Len(runtimes) /\ Len(runtimes) \in Nat
  BY InRuntimes DEF VllmInv, Core, VllmTypes, ResolveRuntime, At
<1>1. /\ job[t].kind \in {"register", "verify", "export"} /\ job[t].answer = "none"
      /\ singleton \in Nat
  <2>1. job[t].kind \in {"none", "register", "verify", "export"}
    BY <1>0 DEF Jobs
  <2> QED BY <1>0, <2>1 DEF JobFlow
<1>2. /\ singleton # 0 /\ job[t].kind = "register" => label = "allocate"
      /\ singleton # 0 /\ job[t].kind = "verify" => label = "verify"
      /\ singleton # 0 /\ job[t].kind = "export" => label = "export"
      /\ singleton = 0 => label = "create"
      /\ label \in {"create", "allocate", "verify", "export"}
  BY <1>1 DEF FirstStep
<1> HIDE DEF label
<1>3. n \in Jobs(conf) /\ n.at = label /\ n.rt = singleton /\ n.kind = job[t].kind
      /\ n.hash = job[t].hash /\ n.hashes = job[t].hashes /\ n.answer = job[t].answer
  BY <1>0, <1>1, <1>2 DEF Jobs, JobLabels
<1>4. PICK new \in Jobs(conf) :
         new = n /\ new.at = label /\ new.rt = singleton /\ new.kind = job[t].kind
         /\ new.hash = job[t].hash /\ new.hashes = job[t].hashes /\ new.answer = job[t].answer
  BY <1>3
<1>5. job' = [job EXCEPT ![t] = new]
  BY <1>4 DEF ResolveRuntime, label
<1> HIDE DEF n
<1>6. job' \in [Threads -> Jobs(conf)] /\ job'[t] = new /\ \A u \in Threads \ {t} : job'[u] = job[u]
  BY <1>0, <1>5
<1>7. Others(t)
  BY <1>6 DEF Others
<1>8. /\ conf' = conf /\ runtimes' = runtimes /\ singleton' = singleton /\ memory' = memory
      /\ file' = file /\ acked' = acked /\ export' = export /\ budget' = budget
  BY DEF ResolveRuntime
<1>9. JobFlow(job[t])'
  BY <1>0, <1>1, <1>2, <1>4, <1>6, <1>8 DEF JobFlow, Filing, Verifying
<1>10. JobKnows(job[t])'
  BY <1>1, <1>2, <1>4, <1>6, <1>8 DEF JobKnows, Filing, Verifying
<1>11. conf.serial => JobAlone(job[t])'
  <2>1. conf.serial /\ singleton = 0 => Len(runtimes) = 0
    BY DEF VllmInv, Core, SerialSound
  <2> QED BY <1>1, <1>2, <1>4, <1>6, <1>8, <2>1 DEF JobAlone, Filing
<1>12. Core' /\ Grows
  <2>1. job[t].at \notin Filing /\ job'[t].at # "write" /\ ~At(t, "idle")
    BY <1>0, <1>2, <1>4, <1>6 DEF Filing, At
  <2>2. budget' \in [requests : Nat, crashes : 0 .. Crashes] /\ budget'.crashes = budget.crashes
    BY <1>0, <1>8 DEF VllmTypes
  <2> QED BY <1>0, <1>7, <1>8, <1>9, <1>10, <1>11, <2>1, <2>2, QuietStep
<1>13. job'[t].answer = "none"
  BY <1>1, <1>4, <1>6
<1> QED BY <1>7, <1>8, <1>12, <1>13, AnswersKept, ReverseKept DEF VllmInv

LEMMA BaselineStep ==
    ASSUME VllmInv, NEW t \in Threads, CaptureBaseline(t)
    PROVE  VllmInv'
<1>0. /\ Core /\ VllmTypes /\ JobFlow(job[t]) /\ job[t].at = "baseline" /\ job[t].kind # "none"
      /\ job[t].answer = "none" /\ job[t].rt \in 0 .. Len(runtimes)
      /\ job[t].kind = "register" => job[t].hash \in Blocks
      /\ job[t].kind = "verify" => job[t].hashes # {}
  BY DEF VllmInv, Core, JobFlow, CaptureBaseline, At
<1>1. /\ conf' = conf /\ runtimes' = runtimes /\ singleton' = singleton /\ memory' = memory
      /\ file' = file /\ acked' = acked /\ export' = export /\ budget' = budget
  BY DEF CaptureBaseline
<1>2. /\ Others(t) /\ job'[t].at = "resolve" /\ Alike(job'[t], job[t]) /\ job'[t].answer = "none"
  <2>1. Goto(t, "resolve") /\ "resolve" \in JobLabels
    BY DEF CaptureBaseline, JobLabels
  <2> QED BY <1>0, <2>1, GotoFacts
<1>3. /\ job'[t].kind = job[t].kind /\ job'[t].hash = job[t].hash /\ job'[t].hashes = job[t].hashes
      /\ job'[t].rt = job[t].rt
  BY <1>2 DEF Alike
<1>4. JobFlow(job[t])'
  BY <1>0, <1>1, <1>2, <1>3 DEF JobFlow, Filing, Verifying
<1>5. JobKnows(job[t])' /\ JobAlone(job[t])'
  BY <1>2 DEF JobKnows, JobAlone, Filing, Verifying
<1>6. Core' /\ Grows
  <2>1. ~At(t, "idle") /\ job[t].at \notin Filing /\ job'[t].at # "write"
    BY <1>0, <1>2 DEF Filing, At
  <2>2. budget' \in [requests : Nat, crashes : 0 .. Crashes] /\ budget'.crashes = budget.crashes
    BY <1>0, <1>1 DEF VllmTypes
  <2> QED BY <1>0, <1>1, <1>2, <1>4, <1>5, <2>1, <2>2, QuietStep
<1> QED BY <1>1, <1>2, <1>6, AnswersKept, ReverseKept DEF VllmInv

LEMMA EndStep ==
    ASSUME VllmInv, NEW t \in Threads, NEW answer \in {"ok", "missing", "failed"}, Answer(t, answer),
           conf' = conf, runtimes' = runtimes, singleton' = singleton, memory' = memory,
           file' = file, acked' = acked, budget' = budget,
           job[t].at \notin {"idle", "resolve", "create", "baseline"} \cup Filing,
           job[t].kind = "register" => answer # "missing",
           job[t].kind = "verify" /\ answer = "ok" /\ (conf.target = "real" \/ Only) =>
               job[t].hashes \subseteq DOMAIN runtimes[job[t].rt].placed
    PROVE  Core' /\ Grows /\ Others(t) /\ Alike(job'[t], job[t]) /\ job'[t].answer = answer
<1>0. /\ Core /\ VllmTypes /\ JobFlow(job[t]) /\ job[t].answer = "none"
  BY DEF VllmInv, Core, JobFlow
<1>1. Others(t) /\ job'[t].at = "idle" /\ Alike(job'[t], job[t]) /\ job'[t].answer = answer
  BY <1>0, AnswerFacts
<1>2. /\ job'[t].kind = job[t].kind /\ job'[t].hash = job[t].hash /\ job'[t].hashes = job[t].hashes
      /\ job'[t].rt = job[t].rt
  BY <1>1 DEF Alike
<1>3. job[t].rt # 0 /\ job[t].rt \in 0 .. Len(runtimes)
  BY <1>0 DEF JobFlow
<1>4. JobFlow(job[t])'
  BY <1>0, <1>1, <1>2, <1>3 DEF JobFlow, Filing, Verifying
<1>5. Only' <=> Only
  BY DEF Only, NeverKilled, Restarts
<1>6. JobKnows(job[t])'
  BY <1>1, <1>2, <1>5 DEF JobKnows, Filing, Verifying
<1>7. JobAlone(job[t])'
  BY <1>1 DEF JobAlone, Filing
<1>8. budget' \in [requests : Nat, crashes : 0 .. Crashes] /\ budget'.crashes = budget.crashes
  BY <1>0 DEF VllmTypes
<1>9. ~At(t, "idle") /\ job[t].at \notin Filing /\ job'[t].at # "write"
  BY <1>1 DEF At
<1>10. Core' /\ Grows
  BY <1>0, <1>1, <1>4, <1>6, <1>7, <1>8, <1>9, QuietStep
<1> QED BY <1>1, <1>10

LEMMA VerifyStep ==
    ASSUME VllmInv, NEW t \in Threads, VerifyHashes(t)
    PROVE  VllmInv'
<1> DEFINE hashes == Runtime(t).registered_hashes
           available == IF hashes # None THEN hashes
                        ELSE IF file # Torn THEN memory \cup file ELSE Torn
<1>0. /\ Core /\ VllmTypes /\ JobFlow(job[t]) /\ job[t].at = "verify" /\ job[t].kind = "verify"
      /\ job[t].answer = "none" /\ job[t].hashes # {}
  BY DEF VllmInv, Core, JobFlow, VerifyHashes, At
<1>1. /\ job[t].rt \in DOMAIN runtimes /\ job[t].rt \in 1 .. Len(runtimes) /\ Len(runtimes) \in Nat
      /\ Runtime(t) = runtimes[job[t].rt] /\ Runtime(t) \in Runtimes(conf)
  BY <1>0, HasRuntime, InRuntimes
<1>2. /\ conf' = conf /\ runtimes' = runtimes /\ singleton' = singleton /\ memory' = memory
      /\ file' = file /\ acked' = acked /\ export' = export /\ budget' = budget
  BY DEF VerifyHashes
<1>3. KnowsSound(Runtime(t), conf) /\ FilesSound
  BY <1>0, <1>1, HashesParts DEF Core
<1>4. job[t].at \notin {"idle", "resolve", "create", "baseline"} \cup Filing
  BY <1>0 DEF Filing
<1>5. ASSUME Others(t), Grows, Core', job'[t].kind = job[t].kind PROVE VllmInv'
  BY <1>0, <1>2, <1>5, AnswersKept, ReverseKept DEF VllmInv
<1>6. CASE Answer(t, "failed")
  BY <1>0, <1>2, <1>4, <1>5, <1>6, EndStep DEF Alike
<1>7. CASE Answer(t, "missing")
  BY <1>0, <1>2, <1>4, <1>5, <1>7, EndStep DEF Alike
<1>8. CASE Answer(t, "ok") /\ conf.target # "real" /\ job[t].hashes \subseteq available /\ available # Torn
  <2>1. ASSUME Only PROVE job[t].hashes \subseteq DOMAIN runtimes[job[t].rt].placed
    <3>1. CASE hashes # None
      BY <1>1, <1>3, <1>8, <3>1 DEF KnowsSound
    <3>2. CASE hashes = None
      <4>1. job[t].rt = 1 /\ Len(runtimes) = 1
        <5>1. Len(runtimes) <= 1
          BY <2>1 DEF Only
        <5> QED BY <1>1, <5>1, FirstOfOne
      <4>2. memory \cup file \subseteq DOMAIN runtimes[1].placed
        BY <1>3, <1>8, <2>1, <3>2, <4>1 DEF FilesSound, PlacedOnly
      <4> QED BY <1>8, <3>2, <4>1, <4>2
    <3> QED BY <3>1, <3>2
  <2>2. Core' /\ Grows /\ Others(t) /\ Alike(job'[t], job[t])
    BY <1>0, <1>2, <1>4, <1>8, <2>1, EndStep
  <2> QED BY <1>5, <2>2 DEF Alike
<1>9. CASE Goto(t, "seed") /\ conf.target = "real" /\ job[t].hashes \subseteq available
  <2>1. /\ Others(t) /\ job'[t].at = "seed" /\ Alike(job'[t], job[t])
        /\ job'[t].answer = job[t].answer
    <3>1. "seed" \in JobLabels
      BY DEF JobLabels, Verifying
    <3> QED BY <1>0, <1>9, <3>1, GotoFacts
  <2>2. /\ job'[t].kind = job[t].kind /\ job'[t].hash = job[t].hash /\ job'[t].hashes = job[t].hashes
        /\ job'[t].rt = job[t].rt
    BY <2>1 DEF Alike
  <2>3. job[t].hashes \subseteq runtimes[job[t].rt].registered_hashes
    BY <1>1, <1>3, <1>9 DEF KnowsSound
  <2>4. JobFlow(job[t])'
    <3>1. job[t].rt # 0 /\ job[t].rt \in 0 .. Len(runtimes)
      BY <1>0 DEF JobFlow
    <3> QED BY <1>0, <1>2, <1>9, <2>1, <2>2, <3>1 DEF JobFlow, Filing, Verifying
  <2>5. JobKnows(job[t])'
    BY <1>0, <1>2, <2>1, <2>2, <2>3 DEF JobKnows, Filing, Verifying
  <2>6. JobAlone(job[t])'
    BY <2>1 DEF JobAlone, Filing
  <2>7. budget' \in [requests : Nat, crashes : 0 .. Crashes] /\ budget'.crashes = budget.crashes
    BY <1>0, <1>2 DEF VllmTypes
  <2>8. ~At(t, "idle") /\ job[t].at \notin Filing /\ job'[t].at # "write"
    BY <1>0, <2>1 DEF At, Filing
  <2>9. Core' /\ Grows
    BY <1>0, <1>2, <2>1, <2>4, <2>5, <2>6, <2>7, <2>8, QuietStep
  <2> QED BY <1>5, <2>1, <2>2, <2>9
<1> QED BY <1>6, <1>7, <1>8, <1>9 DEF VerifyHashes

(* A reverse state of a client that waits for answers names a registered payload. *)
LEMMA LastIsRegistered ==
    ASSUME Core, conf.serial, NEW t \in Threads, job[t].at \in {"report", "export"},
           conf.target = "real", Runtime(t).registered_hashes # {}
    PROVE  /\ Runtime(t).last_register_payload # None
           /\ Runtime(t).last_register_payload.hash \in Runtime(t).registered_hashes
<1>1. /\ job[t].rt \in DOMAIN runtimes /\ Runtime(t) = runtimes[job[t].rt]
  BY HasRuntime DEF Core
<1>2. KnowsSound(runtimes[job[t].rt], conf)
  BY <1>1, HashesParts DEF Core
<1>3. runtimes[job[t].rt].registered_hashes \notin {{}, None}
  BY <1>1, <1>2 DEF KnowsSound
<1>4. TornSound /\ LastSound /\ \A u \in Threads : u # t => At(u, "idle")
  BY SerialParts DEF Core, At
<1>5. \A u \in Threads : job[u].at \notin Filing
  BY <1>4 DEF At, Filing
<1>6. file # Torn
  BY <1>1, <1>3, <1>5 , <1>4 DEF TornSound, At, Filing
<1> QED BY <1>1, <1>2, <1>3, <1>4, <1>5, <1>6 DEF KnowsSound, LastSound

LEMMA ReportStep ==
    ASSUME VllmInv, NEW t \in Threads, ReportVerified(t)
    PROVE  VllmInv'
<1>0. /\ Core /\ VllmTypes /\ JobFlow(job[t]) /\ job[t].at = "report" /\ job[t].kind = "verify"
      /\ job[t].answer = "none" /\ job[t].hashes # {} /\ conf.target = "real"
  BY DEF VllmInv, Core, JobFlow, ReportVerified, At, Verifying
<1>1. /\ job[t].rt \in DOMAIN runtimes /\ Runtime(t) = runtimes[job[t].rt]
  BY <1>0, HasRuntime
<1>2. /\ conf' = conf /\ runtimes' = runtimes /\ singleton' = singleton /\ memory' = memory
      /\ file' = file /\ acked' = acked /\ export' = ReverseState(Runtime(t), "verify")
      /\ budget' = budget /\ Answer(t, "ok")
  BY DEF ReportVerified
<1>3. KnowsSound(Runtime(t), conf) /\ JobKnows(job[t])
  BY <1>0, <1>1, HashesParts DEF Core
<1>4. /\ job[t].hashes \subseteq Runtime(t).registered_hashes /\ Runtime(t).last_continuation # None
      /\ Runtime(t).registered_hashes \subseteq DOMAIN Runtime(t).placed
  BY <1>0, <1>1, <1>3 DEF KnowsSound, JobKnows, Verifying
<1>5. job[t].at \notin {"idle", "resolve", "create", "baseline"} \cup Filing
  BY <1>0 DEF Filing
<1>6. Core' /\ Grows /\ Others(t) /\ Alike(job'[t], job[t])
  BY <1>0, <1>1, <1>2, <1>4, <1>5, EndStep
<1>7. RegisterFailsForCause'
  BY <1>0, <1>6, AnswersKept DEF VllmInv, Alike
<1>8. ASSUME conf.serial
      PROVE  /\ export'.continuation.known \subseteq export'.registered
             /\ export'.last \in export'.registered
             /\ ~export'.shared =>
                   \A l \in Layers : \A i \in DOMAIN export'.continuation.kv[l] :
                      export'.continuation.kv[l][i] = <<export'.last, i>>
  <2>1. /\ Runtime(t).last_register_payload # None
        /\ Runtime(t).last_register_payload.hash \in Runtime(t).registered_hashes
    BY <1>0, <1>4, <1>8, LastIsRegistered
  <2>2. /\ export'.continuation = Runtime(t).last_continuation
        /\ export'.registered = Runtime(t).registered_hashes
        /\ export'.last = Runtime(t).last_register_payload.hash
        /\ export'.shared = Runtime(t).shared
    BY <1>2, <2>1 DEF ReverseState
  <2>3. JobAlone(job[t])
    BY <1>0, <1>8, SerialParts DEF Core
  <2>4. Runtime(t).last_continuation.known \subseteq Runtime(t).registered_hashes
    BY <1>3, <1>4 DEF KnowsSound
  <2>5. ~Runtime(t).shared => \A l \in Layers : \A i \in DOMAIN Runtime(t).last_continuation.kv[l] :
              Runtime(t).last_continuation.kv[l][i]
                  = <<Runtime(t).last_register_payload.hash, i>>
    BY <1>0, <1>1, <2>3 DEF JobAlone
  <2> QED BY <2>1, <2>2, <2>4, <2>5
<1>9. ReverseStateBelongsTogether'
  BY <1>2, <1>8 DEF ReverseStateBelongsTogether
<1> QED BY <1>6, <1>7, <1>9 DEF VllmInv

LEMMA ExportStep ==
    ASSUME VllmInv, NEW t \in Threads, ExportReverseState(t)
    PROVE  VllmInv'
<1>0. /\ Core /\ VllmTypes /\ JobFlow(job[t]) /\ job[t].at = "export" /\ job[t].kind = "export"
  BY DEF VllmInv, Core, JobFlow, ExportReverseState, At
<1>1. /\ job[t].rt \in DOMAIN runtimes /\ Runtime(t) = runtimes[job[t].rt]
  BY <1>0, HasRuntime
<1>2. /\ conf' = conf /\ runtimes' = runtimes /\ singleton' = singleton /\ memory' = memory
      /\ file' = file /\ acked' = acked /\ budget' = budget
  BY DEF ExportReverseState
<1>3. KnowsSound(Runtime(t), conf)
  BY <1>0, <1>1, HashesParts DEF Core
<1>5. job[t].at \notin {"idle", "resolve", "create", "baseline"} \cup Filing
  BY <1>0 DEF Filing
<1>6. Core' /\ Grows /\ Others(t) /\ Alike(job'[t], job[t])
  <2>1. Answer(t, "failed") \/ Answer(t, "ok")
    BY DEF ExportReverseState
  <2> QED BY <1>0, <1>2, <1>5, <2>1, EndStep
<1>7. RegisterFailsForCause'
  BY <1>0, <1>6, AnswersKept DEF VllmInv, Alike
<1>8. CASE Runtime(t).last_continuation = None
  BY <1>2, <1>6, <1>7, <1>8, ReverseKept DEF VllmInv, ExportReverseState
<1>9. CASE Runtime(t).last_continuation # None
  <2>1. export' = ReverseState(Runtime(t), "request")
    BY <1>9 DEF ExportReverseState
  <2>2. /\ conf.target = "real" /\ Runtime(t).registered_hashes # {}
        /\ Runtime(t).last_continuation.known \subseteq Runtime(t).registered_hashes
    BY <1>3, <1>9 DEF KnowsSound
  <2>3. ASSUME conf.serial
        PROVE  /\ export'.continuation.known \subseteq export'.registered
               /\ export'.last \in export'.registered /\ export'.via = "request"
    <3>1. /\ Runtime(t).last_register_payload # None
          /\ Runtime(t).last_register_payload.hash \in Runtime(t).registered_hashes
      BY <1>0, <2>2, <2>3, LastIsRegistered
    <3>2. /\ export'.continuation = Runtime(t).last_continuation
          /\ export'.registered = Runtime(t).registered_hashes
          /\ export'.last = Runtime(t).last_register_payload.hash
          /\ export'.via = "request"
      BY <2>1, <3>1 DEF ReverseState
    <3> QED BY <2>2, <3>1, <3>2
  <2>4. ReverseStateBelongsTogether'
    BY <1>2, <2>3 DEF ReverseStateBelongsTogether
  <2> QED BY <1>6, <1>7, <2>4 DEF VllmInv
<1> QED BY <1>8, <1>9

-----------------------------------------------------------------------------
(* The state file. *)

LEMMA FileStep ==
    ASSUME Core, NEW t \in Threads, Others(t),
           conf' = conf, runtimes' = runtimes, singleton' = singleton, memory' \subseteq Blocks,
           file' \in (SUBSET Blocks) \cup {Torn}, acked' = acked, budget' = budget,
           JobFlow(job[t])', JobKnows(job[t])', job'[t].at # "write", ~At(t, "idle"), FilesSound',
           conf.serial => JobAlone(job[t])' /\ TornSound' /\ LastSound'
    PROVE  Core' /\ Grows
<1>0. VllmTypes /\ SlotsSound /\ SerialSound
  BY DEF Core
<1>1. Grows
  BY <1>0, SameGrows
<1>2. VllmTypes'
  BY <1>0 DEF VllmTypes, Others
<1>3. SlotsSound'
  <2>1. \A u \in Threads : At(u, "write")' => job'[u] = job[u] /\ job[u].rt \in DOMAIN runtimes
    <3> SUFFICES ASSUME NEW u \in Threads, At(u, "write")'
                 PROVE  job'[u] = job[u] /\ job[u].rt \in DOMAIN runtimes
      OBVIOUS
    <3>1. job'[u] = job[u] /\ job[u].at = "write"
      BY DEF At, Others
    <3> QED BY <1>0, <3>1, HasRuntime DEF Core
  <2>2. \A r \in DOMAIN runtimes : SameSlots(runtimes[r], runtimes'[r])
    BY DEF SameSlots
  <2> QED BY <1>0, <2>1, <2>2, SlotsKept
<1>4. (\A r \in DOMAIN runtimes' : KnowsSound(runtimes[r], conf)') /\ AckedSound'
  <2>1. (\A r \in DOMAIN runtimes : KnowsSound(runtimes[r], conf)) /\ AckedSound
    BY HashesParts DEF Core
  <2> QED BY <1>1, <2>1, AckedKept
<1>5. SerialSound'
  <2>1. conf.serial => Len(runtimes') <= 1 /\ (singleton' = 0 => Len(runtimes') = 0)
    BY <1>0, SerialParts
  <2> QED BY <1>0, <2>1, SerialStep
<1> QED BY <1>1, <1>2, <1>3, <1>4, <1>5, StepSound

LEMMA AloneOnFile ==
    ASSUME Core, conf.serial, NEW t \in Threads, job[t].at \notin {"idle", "save"}, file = Torn
    PROVE  ~NeverKilled /\ \A r \in DOMAIN runtimes : runtimes[r].registered_hashes \in {{}, None}
<1>1. TornSound /\ \A u \in Threads : u # t => At(u, "idle")
  BY SerialParts DEF Core, At
<1> QED BY <1>1 DEF TornSound, At

LEMMA OnlyMine ==
    ASSUME Core, Only, NEW t \in Threads, job[t].at \notin {"idle", "resolve", "create", "baseline"}
    PROVE  PlacedOnly = DOMAIN runtimes[job[t].rt].placed
<1>1. VllmTypes /\ JobFlow(job[t]) /\ Len(runtimes) <= 1 /\ Len(runtimes) \in Nat
  BY InRuntimes DEF Core, Only
<1>2. job[t].rt \in 1 .. Len(runtimes)
  BY <1>1, HasRuntime
<1>3. job[t].rt = 1 /\ Len(runtimes) = 1
  BY <1>1, <1>2, FirstOfOne
<1> QED BY <1>3 DEF PlacedOnly

LEMMA StoreReadStep ==
    ASSUME VllmInv, NEW t \in Threads, StoreRead(t)
    PROVE  VllmInv'
<1>0. /\ Core /\ VllmTypes /\ JobFlow(job[t]) /\ JobKnows(job[t]) /\ job[t].at = "store"
      /\ job[t].kind = "register" /\ job[t].hash \in Blocks /\ job[t].answer = "none"
      /\ job[t].rt # 0 /\ job[t].rt \in 0 .. Len(runtimes)
      /\ job \in [Threads -> Jobs(conf)] /\ job[t] \in Jobs(conf)
      /\ file \in (SUBSET Blocks) \cup {Torn} /\ memory \subseteq Blocks
  BY HashesParts DEF VllmInv, Core, JobFlow, StoreRead, At, Filing, VllmTypes
<1>1. /\ conf' = conf /\ runtimes' = runtimes /\ singleton' = singleton
      /\ memory' = memory \cup {job[t].hash} /\ file' = file /\ acked' = acked
      /\ budget' = budget /\ export' = export
  BY DEF StoreRead
<1>2. job[t].hash \in DOMAIN runtimes[job[t].rt].placed
  BY <1>0 DEF JobKnows, Filing
<1>3. Only => PlacedOnly = DOMAIN runtimes[job[t].rt].placed
  BY <1>0, OnlyMine
<1>4. (Only' <=> Only) /\ PlacedOnly' = PlacedOnly
  BY <1>1 DEF Only, NeverKilled, Restarts, PlacedOnly
<1>5. FilesSound'
  <2>1. FilesSound
    BY <1>0, HashesParts DEF Core
  <2> QED BY <1>1, <1>2, <1>3, <1>4, <2>1 DEF FilesSound
<1>6. CASE file = Torn
  <2>1. Others(t) /\ job'[t].at = "idle" /\ Alike(job'[t], job[t]) /\ job'[t].answer = "failed"
    BY <1>0, <1>6, AnswerFacts DEF StoreRead
  <2>2. /\ job'[t].kind = job[t].kind /\ job'[t].hash = job[t].hash /\ job'[t].rt = job[t].rt
    BY <2>1 DEF Alike
  <2>3. JobFlow(job[t])'
    BY <1>0, <1>1, <2>1, <2>2 DEF JobFlow, Filing, Verifying
  <2>4. JobKnows(job[t])' /\ JobAlone(job[t])'
    BY <2>1 DEF JobKnows, JobAlone, Filing, Verifying
  <2>5. conf.serial =>
           ~NeverKilled /\ \A r \in DOMAIN runtimes : runtimes[r].registered_hashes \in {{}, None}
    BY <1>0, <1>6, AloneOnFile
  <2>6. NeverKilled' <=> NeverKilled
    BY <1>1 DEF NeverKilled, Restarts
  <2>7. conf.serial => TornSound' /\ LastSound'
    BY <1>1, <1>6, <2>5, <2>6 DEF TornSound, LastSound
  <2>8. Core' /\ Grows
    <3>1. ~At(t, "idle") /\ job'[t].at # "write" /\ memory' \subseteq Blocks
      BY <1>0, <1>1, <2>1 DEF At
    <3> QED BY <1>0, <1>1, <1>5, <2>1, <2>3, <2>4, <2>7, <3>1, FileStep
  <2>9. RegisterFailsForCause'
    <3> SUFFICES ASSUME NEW u \in Threads, job'[u].kind = "register", job'[u].answer # "none",
                        conf'.serial, NeverKilled'
                 PROVE  job'[u].answer = "failed" <=>
                           \/ job'[u].hash \in Foreign
                           \/ IF conf'.cache = "separate" THEN Slots' > Size ELSE Slots' < Size
      BY DEF RegisterFailsForCause
    <3> QED BY <1>1, <2>5, <2>6
  <2> QED BY <1>1, <2>8, <2>9, ReverseKept DEF VllmInv
<1>7. CASE file # Torn
  <2>0. PICK seen \in SUBSET Blocks : seen = file \cup {job[t].hash}
    <3>1. file \in SUBSET Blocks
      BY <1>0, <1>7
    <3> QED BY <1>0, <3>1
  <2> DEFINE n == [job[t] EXCEPT !.seen = seen, !.at = "open"]
  <2>1. n \in Jobs(conf) /\ n.at = "open" /\ n.kind = job[t].kind /\ n.hash = job[t].hash
        /\ n.rt = job[t].rt /\ n.answer = job[t].answer /\ n.seen = seen
    BY <1>0 DEF Jobs, JobLabels, Filing
  <2>2. PICK new \in Jobs(conf) :
           new = n /\ new.at = "open" /\ new.kind = job[t].kind /\ new.hash = job[t].hash
           /\ new.rt = job[t].rt /\ new.answer = job[t].answer /\ new.seen = seen
    BY <2>1
  <2>3. job' = [job EXCEPT ![t] = new]
    BY <1>7, <2>0, <2>2 DEF StoreRead
  <2> HIDE DEF n
  <2>4. job' \in [Threads -> Jobs(conf)] /\ job'[t] = new /\ \A u \in Threads \ {t} : job'[u] = job[u]
    BY <1>0, <2>3
  <2>5. Others(t)
    BY <2>4 DEF Others
  <2>6. JobFlow(job[t])'
    BY <1>0, <1>1, <2>2, <2>4 DEF JobFlow, Filing, Verifying
  <2>7. JobKnows(job[t])'
    <3>1. Only => file \subseteq PlacedOnly
      BY <1>0, <1>7, HashesParts DEF Core, FilesSound
    <3>2. Only' => job'[t].seen \subseteq PlacedOnly'
      BY <1>2, <1>3, <1>4, <2>0, <2>2, <2>4, <3>1
    <3> QED BY <1>0, <1>1, <2>2, <2>4, <3>2 DEF JobKnows, Filing, Verifying
  <2>8. conf.serial => JobAlone(job[t])' /\ TornSound' /\ LastSound'
    <3>1. conf.serial => JobAlone(job[t])
      BY <1>0, SerialParts DEF Core
    <3>2. conf.serial => JobAlone(job[t])'
      BY <1>0, <1>1, <1>7, <2>2, <2>4, <3>1 DEF JobAlone, Filing
    <3>3. TornSound'
      BY <1>1, <1>7 DEF TornSound
    <3>4. LastSound'
      BY <2>2, <2>4 DEF LastSound, Filing
    <3> QED BY <3>2, <3>3, <3>4
  <2>9. Core' /\ Grows
    <3>1. ~At(t, "idle") /\ job'[t].at # "write" /\ memory' \subseteq Blocks
      BY <1>0, <1>1, <2>2, <2>4 DEF At
    <3> QED BY <1>0, <1>1, <1>5, <2>5, <2>6, <2>7, <2>8, <3>1, FileStep
  <2>10. job'[t].answer = "none"
    BY <1>0, <2>2, <2>4
  <2> QED BY <1>1, <2>5, <2>9, <2>10, AnswersKept, ReverseKept DEF VllmInv
<1> QED BY <1>6, <1>7

LEMMA StoreFileStep ==
    ASSUME VllmInv, NEW t \in Threads, StoreOpen(t) \/ StoreWrite(t)
    PROVE  VllmInv'
<1>0. /\ Core /\ VllmTypes /\ JobFlow(job[t]) /\ JobKnows(job[t]) /\ job[t].at \in {"open", "save"}
      /\ job[t].kind = "register" /\ job[t].hash \in Blocks /\ job[t].answer = "none"
      /\ job[t].rt # 0 /\ job[t].rt \in 0 .. Len(runtimes)
      /\ job[t].seen \subseteq Blocks /\ memory \subseteq Blocks
  BY HashesParts DEF VllmInv, Core, JobFlow, StoreOpen, StoreWrite, At, Filing, VllmTypes, Jobs
<1>1. /\ conf' = conf /\ runtimes' = runtimes /\ singleton' = singleton /\ memory' = memory
      /\ acked' = acked /\ budget' = budget /\ export' = export
      /\ file' \in {Torn, job[t].seen}
  BY DEF StoreOpen, StoreWrite
<1>2. PICK label \in {"save", "note"} :
         /\ Goto(t, label)
         /\ label = "save" => file' = Torn
         /\ label = "note" => job[t].at = "save" /\ (file = Torn => file' = job[t].seen)
  BY DEF StoreOpen, StoreWrite, At
<1>3. /\ Others(t) /\ job'[t].at = label /\ Alike(job'[t], job[t])
      /\ job'[t].seen = job[t].seen /\ job'[t].answer = job[t].answer
  BY <1>0, <1>2, GotoFacts DEF JobLabels, Filing
<1>4. /\ job'[t].kind = job[t].kind /\ job'[t].hash = job[t].hash /\ job'[t].rt = job[t].rt
  BY <1>3 DEF Alike
<1>5. (Only' <=> Only) /\ PlacedOnly' = PlacedOnly
  BY <1>1 DEF Only, NeverKilled, Restarts, PlacedOnly
<1>6. Only => job[t].seen \subseteq PlacedOnly
  BY <1>0 DEF JobKnows
<1>7. FilesSound'
  <2>1. FilesSound
    BY <1>0, HashesParts DEF Core
  <2> QED BY <1>1, <1>5, <1>6, <2>1 DEF FilesSound
<1>8. JobFlow(job[t])'
  BY <1>0, <1>1, <1>3, <1>4 DEF JobFlow, Filing, Verifying
<1>9. JobKnows(job[t])'
  BY <1>0, <1>1, <1>3, <1>4, <1>5 DEF JobKnows, Filing, Verifying
<1>10. ASSUME conf.serial PROVE JobAlone(job[t])' /\ TornSound' /\ LastSound'
  <2>1. JobAlone(job[t])
    BY <1>0, <1>10, SerialParts DEF Core
  <2>2. label = "note" => file' # Torn
    BY <1>0, <1>2, <2>1, VllmAssumption DEF JobAlone
  <2>3. JobAlone(job[t])'
    BY <1>0, <1>1, <1>2, <1>3, <1>4, <2>1, <2>2 DEF JobAlone, Filing
  <2>4. TornSound'
    BY <1>2, <1>3, <2>2 DEF TornSound, At
  <2>5. LastSound'
    BY <1>3 DEF LastSound, Filing
  <2> QED BY <2>3, <2>4, <2>5
<1>11. Core' /\ Grows
  <2>1. ~At(t, "idle") /\ job'[t].at # "write"
    BY <1>0, <1>3 DEF At
  <2>2. file' \in (SUBSET Blocks) \cup {Torn}
    BY <1>0, <1>1
  <2>3. memory' \subseteq Blocks
    BY <1>0, <1>1
  <2> QED BY <1>0, <1>1, <1>3, <1>7, <1>8, <1>9, <1>10, <2>1, <2>2, <2>3, FileStep
<1> QED BY <1>0, <1>1, <1>3, <1>11, AnswersKept, ReverseKept DEF VllmInv

-----------------------------------------------------------------------------
(* The attributes of the runtime. *)

LEMMA FieldStep ==
    ASSUME Core, NEW t \in Threads, Others(t), NEW new \in Runtimes(conf),
           job[t].at \notin {"idle", "resolve", "create", "baseline"},
           runtimes' = [runtimes EXCEPT ![job[t].rt] = new], SameSlots(Runtime(t), new),
           KnowsSound(new, conf), new.last_register_payload = Runtime(t).last_register_payload,
           Runtime(t).last_continuation # None => new.last_continuation # None,
           conf.target = "real" => Runtime(t).registered_hashes \subseteq new.registered_hashes,
           conf' = conf, singleton' = singleton, memory' = memory, file' = file,
           acked' \subseteq Blocks, budget' = budget,
           JobFlow(job[t])', JobKnows(job[t])', job'[t].at # "write", AckedSound',
           conf.serial => JobAlone(job[t])' /\ TornSound' /\ LastSound'
    PROVE  Core' /\ Grows
<1> DEFINE r == job[t].rt
<1>0. /\ VllmTypes /\ SlotsSound /\ SerialSound /\ JobFlow(job[t])
      /\ r \in DOMAIN runtimes /\ Runtime(t) = runtimes[r] /\ runtimes \in Seq(Runtimes(conf))
  BY HasRuntime DEF Core, VllmTypes
<1>1. /\ runtimes' \in Seq(Runtimes(conf)) /\ Len(runtimes') = Len(runtimes)
      /\ DOMAIN runtimes' = DOMAIN runtimes /\ runtimes'[r] = new
      /\ \A s \in DOMAIN runtimes \ {r} : runtimes'[s] = runtimes[s]
  BY <1>0, Replaced
<1> HIDE DEF r
<1>2. \A s \in DOMAIN runtimes : SameSlots(runtimes[s], runtimes'[s])
  BY <1>0, <1>1 DEF SameSlots
<1>3. Grows
  <2>1. Len(runtimes) <= Len(runtimes')
    BY <1>0, <1>1, InRuntimes, SMTT(30)
  <2>2. ASSUME NEW s \in DOMAIN runtimes
        PROVE  /\ DOMAIN runtimes[s].placed \subseteq DOMAIN runtimes'[s].placed
               /\ runtimes[s].last_register_payload # None => runtimes'[s].last_register_payload # None
               /\ runtimes[s].last_continuation # None => runtimes'[s].last_continuation # None
               /\ conf.target = "real" =>
                     runtimes[s].registered_hashes \subseteq runtimes'[s].registered_hashes
    <3>1. CASE s = r
      BY <1>0, <1>1, <3>1 DEF SameSlots
    <3>2. CASE s # r
      BY <1>1, <3>2
    <3> QED BY <3>1, <3>2
  <2> QED BY <1>1, <2>1, <2>2 DEF Grows
<1>4. VllmTypes'
  BY <1>0, <1>1 DEF VllmTypes, Others
<1>5. SlotsSound'
  <2>1. \A u \in Threads : At(u, "write")' => job'[u] = job[u] /\ job[u].rt \in DOMAIN runtimes
    <3> SUFFICES ASSUME NEW u \in Threads, At(u, "write")'
                 PROVE  job'[u] = job[u] /\ job[u].rt \in DOMAIN runtimes
      OBVIOUS
    <3>1. job'[u] = job[u] /\ job[u].at = "write"
      BY DEF At, Others
    <3> QED BY <1>0, <3>1, HasRuntime DEF Core
  <2> QED BY <1>0, <1>1, <1>2, <2>1, SlotsKept
<1>6. \A s \in DOMAIN runtimes' : KnowsSound(runtimes[s], conf)'
  <2>1. \A s \in DOMAIN runtimes : KnowsSound(runtimes[s], conf)
    BY HashesParts DEF Core
  <2>2. ASSUME NEW s \in DOMAIN runtimes' PROVE KnowsSound(runtimes'[s], conf)
    <3>1. CASE s = r
      BY <1>1, <3>1
    <3>2. CASE s # r
      BY <1>1, <2>1, <3>2
    <3> QED BY <3>1, <3>2
  <2> QED BY <2>2
<1>7. FilesSound'
  BY <1>0, <1>3, HashesParts, FilesKept DEF Core
<1>8. SerialSound'
  <2>1. conf.serial => Len(runtimes') <= 1 /\ (singleton' = 0 => Len(runtimes') = 0)
    BY <1>0, <1>1, SerialParts
  <2>2. ~At(t, "idle")
    BY DEF At
  <2> QED BY <1>0, <2>1, <2>2, SerialStep
<1> QED BY <1>3, <1>4, <1>5, <1>6, <1>7, <1>8, StepSound

(* A registration that has ended fits the runtime. *)
LEMMA PlacedFits ==
    ASSUME Core, NEW r \in DOMAIN runtimes, NEW h \in DOMAIN runtimes[r].placed
    PROVE  /\ h \notin Foreign
           /\ ~IF conf.cache = "separate" THEN Slots > Size ELSE Slots < Size
<1>1. Fits(conf) /\ h \notin Foreign
  BY DEF Core, SlotsSound, PlacesSound, PlacesOf
<1>2. conf.slots \in Nat /\ Size \in Nat
  BY VllmAssumption DEF Core, VllmTypes, Deployments
<1> QED BY <1>1, <1>2, SMTT(30) DEF Fits, Slots

LEMMA SetHashes ==
    ASSUME NEW c, NEW rt \in Runtimes(c), NEW hs \in (SUBSET Blocks) \cup {None}
    PROVE  \E new \in Runtimes(c) :
               /\ new = [rt EXCEPT !.registered_hashes = hs]
               /\ new.registered_hashes = hs /\ SameSlots(rt, new)
               /\ new.last_register_payload = rt.last_register_payload
               /\ new.last_continuation = rt.last_continuation
<1> DEFINE n == [rt EXCEPT !.registered_hashes = hs]
<1>1. n \in Runtimes(c)
  BY DEF Runtimes
<1>2. /\ n.registered_hashes = hs /\ n.last_register_payload = rt.last_register_payload
      /\ n.last_continuation = rt.last_continuation
  BY DEF Runtimes
<1>3. SameSlots(rt, n)
  BY DEF Runtimes, SameSlots
<1> QED BY <1>1, <1>2, <1>3

LEMMA AcknowledgeStep ==
    ASSUME VllmInv, NEW t \in Threads, NEW hs, Acknowledge(t, hs), job[t].at \in {"note", "setattr"},
           \/ /\ Runtime(t).registered_hashes # None
              /\ hs = Runtime(t).registered_hashes \cup {job[t].hash}
           \/ Runtime(t).registered_hashes = None /\ conf.target = "opaque" /\ hs = None
           \/ job[t].at = "setattr" /\ hs = {job[t].hash}
    PROVE  VllmInv'
<1>0. /\ Core /\ VllmTypes /\ JobFlow(job[t]) /\ JobKnows(job[t])
      /\ job[t].kind = "register" /\ job[t].hash \in Blocks /\ job[t].answer = "none"
      /\ (job[t].at = "setattr" => conf.target = "noting")
      /\ job[t].rt # 0 /\ job[t].rt \in 0 .. Len(runtimes) /\ acked \subseteq Blocks
  BY HashesParts DEF VllmInv, Core, JobFlow, Filing, VllmTypes
<1>1. /\ job[t].rt \in DOMAIN runtimes /\ Runtime(t) = runtimes[job[t].rt]
      /\ Runtime(t) \in Runtimes(conf) /\ job[t].rt \in 1 .. Len(runtimes) /\ Len(runtimes) \in Nat
      /\ runtimes \in Seq(Runtimes(conf))
  BY <1>0, HasRuntime, InRuntimes DEF VllmTypes
<1>2. /\ conf' = conf /\ singleton' = singleton /\ memory' = memory /\ file' = file
      /\ budget' = budget /\ export' = export /\ acked' = acked \cup {job[t].hash}
      /\ runtimes' = [runtimes EXCEPT ![job[t].rt] = [runtimes[job[t].rt] EXCEPT !.registered_hashes = hs]]
      /\ Answer(t, "ok")
  BY DEF Acknowledge
<1>3. /\ job[t].hash \in DOMAIN Runtime(t).placed
      /\ conf.target = "real" => Runtime(t).last_register_payload # None
      /\ KnowsSound(Runtime(t), conf) /\ AckedSound
  BY <1>0, <1>1, HashesParts DEF JobKnows, Filing, Core
<1>4. Runtime(t).registered_hashes \in (SUBSET Blocks) \cup {None}
  BY <1>1 DEF Runtimes
<1>5. /\ hs \in (SUBSET Blocks) \cup {None}
      /\ conf.target # "opaque" => hs # None /\ job[t].hash \in hs /\ hs \subseteq DOMAIN Runtime(t).placed
      /\ conf.target = "opaque" => hs = None
      /\ conf.target = "real" => Runtime(t).registered_hashes \subseteq hs
  <2>1. CASE /\ Runtime(t).registered_hashes # None
             /\ hs = Runtime(t).registered_hashes \cup {job[t].hash}
    <3>1. hs \in SUBSET Blocks /\ hs # None
      BY <1>0, <1>4, <2>1, VllmAssumption
    <3> QED BY <1>3, <2>1, <3>1 DEF KnowsSound
  <2>2. CASE Runtime(t).registered_hashes = None /\ conf.target = "opaque" /\ hs = None
    BY <2>2
  <2>3. CASE job[t].at = "setattr" /\ hs = {job[t].hash}
    <3>1. hs \in SUBSET Blocks /\ hs # None
      BY <1>0, <2>3, VllmAssumption
    <3> QED BY <1>0, <1>3, <2>3, <3>1
  <2> QED BY <2>1, <2>2, <2>3
<1>6. PICK new \in Runtimes(conf) :
        /\ new = [runtimes[job[t].rt] EXCEPT !.registered_hashes = hs]
        /\ new.registered_hashes = hs /\ SameSlots(Runtime(t), new)
        /\ new.last_register_payload = Runtime(t).last_register_payload
        /\ new.last_continuation = Runtime(t).last_continuation
  <2>1. PICK c, rt, h : c = conf /\ rt = Runtime(t) /\ h = hs
    OBVIOUS
  <2>2. rt \in Runtimes(c) /\ h \in (SUBSET Blocks) \cup {None}
    BY <1>1, <1>5, <2>1
  <2>3. PICK new \in Runtimes(c) :
           /\ new = [rt EXCEPT !.registered_hashes = h]
           /\ new.registered_hashes = h /\ SameSlots(rt, new)
           /\ new.last_register_payload = rt.last_register_payload
           /\ new.last_continuation = rt.last_continuation
    BY <2>2, SetHashes
  <2> QED BY <1>1, <2>1, <2>3
<1>7. KnowsSound(new, conf)
  <2>1. new.placed = Runtime(t).placed /\ new.shared = Runtime(t).shared
    BY <1>6 DEF SameSlots
  <2>2. conf.target \in {"real", "noting", "opaque"}
    BY <1>0 DEF VllmTypes, Deployments
  <2> QED BY <1>3, <1>5, <1>6, <2>1, <2>2 DEF KnowsSound
<1>8. Others(t) /\ job'[t].at = "idle" /\ Alike(job'[t], job[t]) /\ job'[t].answer = "ok"
  BY <1>0, <1>2, AnswerFacts
<1>9. /\ job'[t].kind = job[t].kind /\ job'[t].hash = job[t].hash /\ job'[t].rt = job[t].rt
  BY <1>8 DEF Alike
<1>10. /\ Len(runtimes') = Len(runtimes) /\ DOMAIN runtimes' = DOMAIN runtimes
       /\ runtimes'[job[t].rt] = new
  <2>1. runtimes' = [runtimes EXCEPT ![job[t].rt] = new]
    BY <1>2, <1>6
  <2> QED BY <1>1, <2>1, Replaced
<1>11. JobFlow(job[t])'
  BY <1>0, <1>2, <1>8, <1>9, <1>10 DEF JobFlow, Filing, Verifying
<1>12. JobKnows(job[t])' /\ JobAlone(job[t])'
  BY <1>0, <1>8, <1>9 DEF JobKnows, JobAlone, Filing, Verifying
<1>13. AckedSound'
  <2>1. Len(runtimes) # 0
    BY <1>1, SMTT(30)
  <2>2. ASSUME Len(runtimes) = 1, conf.target = "real" \/ (conf.target = "noting" /\ conf.serial)
        PROVE  hs # None /\ acked \cup {job[t].hash} \subseteq hs /\ job[t].rt = 1
    <3>1. job[t].rt = 1
      BY <1>1, <2>2, SMTT(30)
    <3>2. acked # {} => Runtime(t).registered_hashes # None /\ acked \subseteq Runtime(t).registered_hashes
      BY <1>1, <1>3, <2>2, <3>1 DEF AckedSound
    <3>3. job[t].at = "setattr" => Runtime(t).registered_hashes = None
      <4>1. job[t].at = "setattr" => conf.serial
        BY <1>0, <2>2
      <4>2. conf.serial => JobAlone(job[t])
        BY <1>0, SerialParts DEF Core
      <4> QED BY <1>1, <4>1, <4>2 DEF JobAlone
    <3> QED BY <1>5, <2>2, <3>1, <3>2, <3>3
  <2> QED BY <1>2, <1>6, <1>10, <2>1, <2>2 DEF AckedSound
<1>14. ASSUME conf.serial PROVE TornSound' /\ LastSound'
  <2>1. JobAlone(job[t]) /\ Len(runtimes) <= 1
    BY <1>0, <1>14, SerialParts DEF Core
  <2>2. file # Torn
    BY <2>1 DEF JobAlone
  <2>3. job[t].rt = 1 /\ Len(runtimes) = 1
    BY <1>1, <2>1, FirstOfOne
  <2>4. \A r \in DOMAIN runtimes' : r = 1
    BY <1>0, <1>10, <2>3, InRuntimes
  <2>5. conf.target = "real" => new.last_register_payload.hash = job[t].hash
    BY <1>1, <1>6, <2>1 DEF JobAlone, Filing
  <2>6. LastSound'
    BY <1>2, <1>5, <1>6, <1>10, <2>3, <2>4, <2>5 DEF LastSound
  <2> QED BY <1>2, <2>2, <2>6 DEF TornSound
<1>15. Core' /\ Grows
  <2>1. job[t].at \notin {"idle", "resolve", "create", "baseline"} /\ job'[t].at # "write" /\ acked' \subseteq Blocks
    BY <1>0, <1>2, <1>8
  <2>2. runtimes' = [runtimes EXCEPT ![job[t].rt] = new]
    BY <1>2, <1>6
  <2> QED BY <1>0, <1>2, <1>5, <1>6, <1>7, <1>8, <1>11, <1>12, <1>13, <1>14, <2>1, <2>2, FieldStep
<1>16. RegisterFailsForCause'
  <2> SUFFICES ASSUME NEW u \in Threads, job'[u].kind = "register", job'[u].answer # "none",
                      conf'.serial, NeverKilled'
               PROVE  job'[u].answer = "failed" <=>
                         \/ job'[u].hash \in Foreign
                         \/ IF conf'.cache = "separate" THEN Slots' > Size ELSE Slots' < Size
    BY DEF RegisterFailsForCause
  <2>0. (NeverKilled' <=> NeverKilled) /\ Slots' = Slots
    BY <1>2 DEF NeverKilled, Restarts, Slots
  <2>1. CASE u = t
    <3>1. /\ job[t].hash \notin Foreign
          /\ ~IF conf.cache = "separate" THEN Slots > Size ELSE Slots < Size
      BY <1>0, <1>1, <1>3, PlacedFits
    <3> QED BY <1>2, <1>8, <1>9, <2>0, <2>1, <3>1
  <2>2. CASE u # t
    <3>1. job'[u] = job[u]
      BY <1>8, <2>2 DEF Others
    <3> QED BY <1>2, <2>0, <3>1 DEF VllmInv, RegisterFailsForCause
  <2> QED BY <2>1, <2>2
<1> QED BY <1>2, <1>15, <1>16, ReverseKept DEF VllmInv

LEMMA NoteStep ==
    ASSUME VllmInv, NEW t \in Threads, NoteRuntimeHash(t) \/ SetRuntimeHashes(t)
    PROVE  VllmInv'
<1>1. CASE NoteRuntimeHash(t)
  <2>1. CASE /\ Runtime(t).registered_hashes # None
             /\ Acknowledge(t, Runtime(t).registered_hashes \cup {job[t].hash})
    BY <1>1, <2>1, AcknowledgeStep DEF NoteRuntimeHash, At
  <2>2. CASE /\ Runtime(t).registered_hashes = None /\ conf.target = "opaque" /\ Acknowledge(t, None)
    BY <1>1, <2>2, AcknowledgeStep DEF NoteRuntimeHash, At
  <2>3. CASE /\ Runtime(t).registered_hashes = None /\ conf.target = "noting" /\ Goto(t, "setattr")
             /\ UNCHANGED <<conf, runtimes, singleton, memory, file, export, acked, budget>>
    <3>0. /\ Core /\ VllmTypes /\ JobFlow(job[t]) /\ JobKnows(job[t]) /\ job[t].at = "note"
          /\ job[t].kind = "register" /\ job[t].hash \in Blocks /\ job[t].answer = "none"
          /\ job[t].rt # 0 /\ job[t].rt \in 0 .. Len(runtimes)
      BY <1>1, HashesParts DEF VllmInv, Core, JobFlow, NoteRuntimeHash, At, Filing
    <3>1. /\ conf' = conf /\ runtimes' = runtimes /\ singleton' = singleton /\ memory' = memory
          /\ file' = file /\ acked' = acked /\ export' = export /\ budget' = budget
      BY <2>3
    <3>2. Others(t) /\ job'[t].at = "setattr" /\ Alike(job'[t], job[t]) /\ job'[t].answer = job[t].answer
      BY <2>3, <3>0, GotoFacts DEF JobLabels, Filing
    <3>3. /\ job'[t].kind = job[t].kind /\ job'[t].hash = job[t].hash /\ job'[t].rt = job[t].rt
      BY <3>2 DEF Alike
    <3>4. JobFlow(job[t])'
      BY <2>3, <3>0, <3>1, <3>2, <3>3 DEF JobFlow, Filing, Verifying
    <3>5. JobKnows(job[t])'
      BY <3>0, <3>1, <3>2, <3>3 DEF JobKnows, Filing, Verifying
    <3>6. conf.serial => JobAlone(job[t])'
      <4>1. conf.serial => JobAlone(job[t])
        BY <3>0, SerialParts DEF Core
      <4>2. Runtime(t) = runtimes[job[t].rt]
        BY DEF Runtime
      <4> QED BY <2>3, <3>0, <3>1, <3>2, <3>3, <4>1, <4>2 DEF JobAlone, Filing
    <3>7. Core' /\ Grows
      <4>1. budget' \in [requests : Nat, crashes : 0 .. Crashes] /\ budget'.crashes = budget.crashes
        BY <3>0, <3>1 DEF VllmTypes
      <4>2. ~At(t, "idle") /\ job[t].at # "save" /\ job'[t].at \in Filing /\ job'[t].at # "write"
        BY <3>0, <3>2 DEF At, Filing
      <4> QED BY <3>0, <3>1, <3>2, <3>4, <3>5, <3>6, <4>1, <4>2, QuietStep
    <3> QED BY <3>0, <3>1, <3>2, <3>7, AnswersKept, ReverseKept DEF VllmInv
  <2> QED BY <1>1, <2>1, <2>2, <2>3 DEF NoteRuntimeHash
<1>2. CASE SetRuntimeHashes(t)
  BY <1>2, AcknowledgeStep DEF SetRuntimeHashes, At
<1> QED BY <1>1, <1>2

(* What the runtime of a verification under way holds. *)
LEMMA VerifyingFacts ==
    ASSUME Core, NEW t \in Threads, job[t].at \in Verifying
    PROVE  /\ conf.target = "real" /\ job[t].kind = "verify" /\ job[t].hashes # {}
           /\ job[t].answer = "none" /\ job[t].rt # 0 /\ job[t].rt \in 0 .. Len(runtimes)
           /\ job[t].rt \in DOMAIN runtimes /\ Runtime(t) = runtimes[job[t].rt]
           /\ Runtime(t) \in Runtimes(conf) /\ KnowsSound(Runtime(t), conf)
           /\ job[t].hashes \subseteq Runtime(t).registered_hashes
           /\ Runtime(t).registered_hashes \in SUBSET Blocks /\ Runtime(t).registered_hashes # {}
           /\ Runtime(t).last_register_payload \in Payloads /\ Runtime(t).last_register_payload # None
           /\ ~Runtime(t).shared =>
                 /\ Runtime(t).last_register_payload.hash \in DOMAIN Runtime(t).placed
                 /\ Runtime(t).last_register_payload.ids \in Ids(conf)
                 /\ Runtime(t).last_register_payload.ids # None
                 /\ \A l \in Layers, i \in 1 .. Size :
                       Runtime(t).cache[l][Runtime(t).last_register_payload.ids[i]]
                          = <<Runtime(t).last_register_payload.hash, i>>
<1>1. /\ VllmTypes /\ JobFlow(job[t]) /\ JobKnows(job[t])
      /\ conf.target = "real" /\ job[t].kind = "verify" /\ job[t].hashes # {}
      /\ job[t].answer = "none" /\ job[t].rt # 0 /\ job[t].rt \in 0 .. Len(runtimes)
  BY HashesParts DEF Core, JobFlow, Verifying
<1>2. /\ job[t].rt \in DOMAIN runtimes /\ Runtime(t) = runtimes[job[t].rt]
      /\ Runtime(t) \in Runtimes(conf)
  BY <1>1, HasRuntime DEF Verifying
<1>3. KnowsSound(Runtime(t), conf) /\ PlacesSound(Runtime(t), conf)
  BY <1>2, HashesParts DEF Core, SlotsSound
<1>4. job[t].hashes \subseteq Runtime(t).registered_hashes
  BY <1>1, <1>2 DEF JobKnows
<1>5. PICK hs, last : /\ hs = Runtime(t).registered_hashes /\ last = Runtime(t).last_register_payload
                      /\ hs \in (SUBSET Blocks) \cup {None} /\ last \in Payloads \cup {None}
  BY <1>2 DEF Runtimes
<1>6. hs # None /\ hs # {} /\ last # None
  BY <1>1, <1>3, <1>4, <1>5 DEF KnowsSound
<1>7. ASSUME ~Runtime(t).shared
      PROVE  /\ last.hash \in DOMAIN Runtime(t).placed /\ last.ids \in Ids(conf) /\ last.ids # None
             /\ \A l \in Layers, i \in 1 .. Size : Runtime(t).cache[l][last.ids[i]] = <<last.hash, i>>
  <2>1. last.hash \in DOMAIN Runtime(t).placed /\ last.ids = Runtime(t).placed[last.hash]
    BY <1>3, <1>5, <1>6, <1>7 DEF KnowsSound
  <2>2. last.ids \in Ids(conf)
    BY <1>3, <1>7, <2>1 DEF PlacesSound, PlacesOf
  <2>3. last.ids # None
    <3>1. conf.slots \in Nat
      BY <1>1, VllmAssumption DEF VllmTypes, Deployments
    <3>2. Ids(conf) \subseteq [1 .. Size -> Nat]
      BY <3>1, SMTT(30) DEF Ids, Cells
    <3> QED BY <2>2, <3>2, VllmAssumption
  <2>4. \A l \in Layers, i \in 1 .. Size : Runtime(t).cache[l][last.ids[i]] = <<last.hash, i>>
    <3>1. \A l \in Layers, i \in 1 .. Size :
              Runtime(t).cache[l][Runtime(t).placed[last.hash][i]] = <<last.hash, i>>
      BY <1>3, <1>7, <2>1 DEF PlacesSound, PlacesOf
    <3> QED BY <2>1, <3>1
  <2> QED BY <2>1, <2>2, <2>3, <2>4
<1> QED BY <1>1, <1>2, <1>3, <1>4, <1>5, <1>6, <1>7

LEMMA SetContinuation ==
    ASSUME NEW c, NEW rt \in Runtimes(c), NEW continuation \in Continuations
    PROVE  \E new \in Runtimes(c) :
               /\ new = [rt EXCEPT !.last_continuation = continuation]
               /\ new.last_continuation = continuation /\ SameSlots(rt, new)
               /\ new.last_register_payload = rt.last_register_payload
               /\ new.registered_hashes = rt.registered_hashes
<1> DEFINE n == [rt EXCEPT !.last_continuation = continuation]
<1>1. n \in Runtimes(c)
  BY DEF Runtimes
<1>2. /\ n.registered_hashes = rt.registered_hashes /\ n.last_register_payload = rt.last_register_payload
      /\ n.last_continuation = continuation
  BY DEF Runtimes
<1>3. SameSlots(rt, n)
  BY DEF Runtimes, SameSlots
<1> QED BY <1>1, <1>2, <1>3

(* A verification under way that changes the runtime. *)
LEMMA VerifyingStep ==
    ASSUME VllmInv, NEW t \in Threads, NEW new \in Runtimes(conf),
           job[t].at \in Verifying, Goto(t, "report"),
           UNCHANGED <<conf, singleton, memory, file, export, acked, budget>>,
           runtimes' = [runtimes EXCEPT ![job[t].rt] = new], SameSlots(Runtime(t), new),
           new.registered_hashes = Runtime(t).registered_hashes, KnowsSound(new, conf),
           new.last_register_payload = Runtime(t).last_register_payload,
           new.last_continuation # None,
           conf.serial /\ ~new.shared =>
               \A l \in Layers : \A i \in DOMAIN new.last_continuation.kv[l] :
                  new.last_continuation.kv[l][i] = <<new.last_register_payload.hash, i>>
    PROVE  VllmInv'
<1>0. /\ Core /\ VllmTypes /\ runtimes \in Seq(Runtimes(conf)) /\ acked \subseteq Blocks
  BY DEF VllmInv, Core, VllmTypes
<1>1. /\ conf.target = "real" /\ job[t].kind = "verify" /\ job[t].hashes # {}
      /\ job[t].answer = "none" /\ job[t].rt # 0 /\ job[t].rt \in 0 .. Len(runtimes)
      /\ job[t].rt \in DOMAIN runtimes /\ Runtime(t) = runtimes[job[t].rt]
      /\ job[t].hashes \subseteq Runtime(t).registered_hashes
  BY <1>0, VerifyingFacts
<1>2. /\ conf' = conf /\ singleton' = singleton /\ memory' = memory
      /\ file' = file /\ acked' = acked /\ export' = export /\ budget' = budget
  OBVIOUS
<1>3. Others(t) /\ job'[t].at = "report" /\ Alike(job'[t], job[t]) /\ job'[t].answer = job[t].answer
  BY <1>0, GotoFacts DEF JobLabels, Verifying
<1>4. /\ job'[t].kind = job[t].kind /\ job'[t].hash = job[t].hash /\ job'[t].rt = job[t].rt
      /\ job'[t].hashes = job[t].hashes
  BY <1>3 DEF Alike
<1>5. /\ Len(runtimes') = Len(runtimes) /\ DOMAIN runtimes' = DOMAIN runtimes
      /\ runtimes'[job[t].rt] = new
      /\ \A s \in DOMAIN runtimes \ {job[t].rt} : runtimes'[s] = runtimes[s]
  BY <1>0, <1>1, Replaced
<1>6. JobFlow(job[t])'
  BY <1>1, <1>2, <1>3, <1>4, <1>5 DEF JobFlow, Filing, Verifying
<1>7. JobKnows(job[t])'
  BY <1>1, <1>2, <1>3, <1>4, <1>5 DEF JobKnows, Filing, Verifying
<1>8. ASSUME conf.serial PROVE JobAlone(job[t])'
  <2>1. job'[t].rt = job[t].rt /\ runtimes'[job'[t].rt] = new
    BY <1>4, <1>5
  <2>3. /\ job'[t].at \notin {"create", "save", "open", "note", "setattr", "generate"}
        /\ job'[t].at \notin Filing
    BY <1>3 DEF Filing
  <2>5. ~new.shared =>
           \A l \in Layers : \A i \in DOMAIN new.last_continuation.kv[l] :
              new.last_continuation.kv[l][i] = <<new.last_register_payload.hash, i>>
    BY <1>8
  <2> QED BY <2>1, <2>3, <2>5 DEF JobAlone
<1>9. \A s \in DOMAIN runtimes :
         /\ runtimes'[s].registered_hashes = runtimes[s].registered_hashes
         /\ runtimes'[s].last_register_payload = runtimes[s].last_register_payload
  BY <1>1, <1>5
<1>10. DOMAIN runtimes' = DOMAIN runtimes /\ job[t].at \notin Filing /\ ~At(t, "save")
  BY <1>5 DEF Filing, Verifying, At
<1>11. conf.serial => TornSound' /\ LastSound'
  <2>1. conf.serial => TornSound /\ LastSound
    BY <1>0, SerialParts DEF Core
  <2>2. TornSound => TornSound'
    <3>1. NeverKilled' <=> NeverKilled
      BY <1>2 DEF NeverKilled, Restarts
    <3>2. ASSUME NEW u \in Threads, At(u, "save") PROVE At(u, "save")'
      BY <1>3, <1>10, <3>2 DEF At, Others
    <3> QED BY <1>2, <1>9, <1>10, <3>1, <3>2 DEF TornSound
  <2>3. LastSound => LastSound'
    BY <1>2, <1>3, <1>9, <1>10, LastKept
  <2> QED BY <2>1, <2>2, <2>3
<1>12. AckedSound'
  <2>1. AckedSound /\ Len(runtimes) \in Nat
    BY <1>0, HashesParts, InRuntimes DEF Core
  <2>2. Len(runtimes) = 1 => 1 \in DOMAIN runtimes
    BY <1>0, InRuntimes, SMTT(30)
  <2> QED BY <1>2, <1>5, <1>9, <2>1, <2>2 DEF AckedSound
<1>13. Core' /\ Grows
  <2>1. job[t].at \notin {"idle", "resolve", "create", "baseline"} /\ job'[t].at # "write" /\ acked' \subseteq Blocks
    BY <1>0, <1>2, <1>3 DEF Verifying
  <2> QED BY <1>0, <1>2, <1>3, <1>6, <1>7, <1>8, <1>11, <1>12, <2>1, FieldStep
<1> QED BY <1>1, <1>2, <1>3, <1>13, AnswersKept, ReverseKept DEF VllmInv

LEMMA SeedStep ==
    ASSUME VllmInv, NEW t \in Threads, SeedPrefixCache(t)
    PROVE  VllmInv'
<1> DEFINE last == Runtime(t).last_register_payload
<1>0. /\ Core /\ VllmTypes /\ job[t].at = "seed" /\ job[t].at \in Verifying
      /\ job \in [Threads -> Jobs(conf)] /\ job[t] \in Jobs(conf)
  BY DEF VllmInv, SeedPrefixCache, At, Verifying, Core, VllmTypes
<1>1. /\ job[t].rt \in DOMAIN runtimes /\ Runtime(t) = runtimes[job[t].rt]
      /\ KnowsSound(Runtime(t), conf) /\ last # None
      /\ ~Runtime(t).shared => last.ids \in Ids(conf) /\ last.ids # None
      /\ conf.target = "real" /\ job[t].kind = "verify" /\ job[t].hashes # {}
      /\ job[t].answer = "none" /\ job[t].rt # 0 /\ job[t].rt \in 0 .. Len(runtimes)
      /\ job[t].hashes \subseteq Runtime(t).registered_hashes
  BY <1>0, VerifyingFacts
<1>2. /\ conf' = conf /\ runtimes' = runtimes /\ singleton' = singleton /\ memory' = memory
      /\ file' = file /\ acked' = acked /\ export' = export /\ budget' = budget
  BY DEF SeedPrefixCache
<1>3. PICK q : q = LastIds(Runtime(t))
  OBVIOUS
<1>4. (q = <<>> \/ q \in Ids(conf)) /\ (~Runtime(t).shared => q = last.ids)
  <2>1. last.ids # None => last.ids \in Ids(conf)
    BY <1>1 DEF KnowsSound
  <2>2. q = IF last.ids = None THEN <<>> ELSE last.ids
    BY <1>1, <1>3 DEF LastIds
  <2> QED BY <1>1, <2>1, <2>2
<1>5. PICK n \in 0 .. Len(q) :
        job' = [job EXCEPT ![t] = [job[t] EXCEPT !.seeded = SubSeq(q, 1, n), !.at = "generate"]]
  BY <1>3 DEF SeedPrefixCache
<1>6. PICK seeded \in Seeds(conf) :
        /\ seeded = SubSeq(q, 1, n)
        /\ \A i \in DOMAIN seeded : seeded[i] = q[i]
  <2>1. PICK c : c = conf
    OBVIOUS
  <2>2. /\ SubSeq(q, 1, n) \in Seeds(c)
        /\ \A i \in DOMAIN SubSeq(q, 1, n) : SubSeq(q, 1, n)[i] = q[i]
    BY <1>4, <2>1, SeedsOf
  <2> QED BY <2>1, <2>2
<1>7. PICK new \in Jobs(conf) :
        /\ new = [job[t] EXCEPT !.seeded = seeded, !.at = "generate"]
        /\ new.at = "generate" /\ new.seeded = seeded /\ Alike(new, job[t])
        /\ new.answer = job[t].answer
  <2> DEFINE m == [job[t] EXCEPT !.seeded = seeded, !.at = "generate"]
  <2>1. "generate" \in JobLabels
    BY DEF JobLabels, Verifying
  <2>2. m \in Jobs(conf)
    BY <1>0, <2>1 DEF Jobs
  <2>3. m.at = "generate" /\ m.seeded = seeded /\ Alike(m, job[t]) /\ m.answer = job[t].answer
    BY <1>0 DEF Jobs, Alike
  <2> HIDE DEF m
  <2> QED BY <2>2, <2>3 DEF m
<1>8. job' = [job EXCEPT ![t] = new]
  BY <1>5, <1>6, <1>7
<1>9. job'[t] = new /\ Others(t)
  BY <1>0, <1>8 DEF Others
<1>10. /\ job'[t].at = "generate" /\ job'[t].kind = job[t].kind /\ job'[t].hash = job[t].hash
       /\ job'[t].hashes = job[t].hashes /\ job'[t].rt = job[t].rt
       /\ job'[t].answer = "none" /\ job'[t].seeded = seeded
  BY <1>1, <1>7, <1>9 DEF Alike
<1>11. JobFlow(job[t])'
  BY <1>1, <1>2, <1>10 DEF JobFlow, Filing, Verifying
<1>12. JobKnows(job[t])'
  BY <1>1, <1>2, <1>10 DEF JobKnows, Filing, Verifying
<1>13. JobAlone(job[t])'
  <2>1. ~runtimes'[job'[t].rt].shared =>
          \A i \in DOMAIN job'[t].seeded :
             job'[t].seeded[i] = runtimes'[job'[t].rt].last_register_payload.ids[i]
    BY <1>1, <1>2, <1>4, <1>6, <1>10
  <2> QED BY <1>10, <2>1 DEF JobAlone, Filing
<1>14. Core' /\ Grows
  <2>1. budget' \in [requests : Nat, crashes : 0 .. Crashes] /\ budget'.crashes = budget.crashes
    BY <1>0, <1>2 DEF VllmTypes
  <2>2. ~At(t, "idle") /\ job[t].at \notin Filing /\ job'[t].at # "write"
    BY <1>0, <1>10 DEF At, Filing
  <2> QED BY <1>0, <1>2, <1>9, <1>11, <1>12, <1>13, <2>1, <2>2, QuietStep
<1> QED BY <1>2, <1>9, <1>10, <1>14, AnswersKept, ReverseKept DEF VllmInv

LEMMA GenerateStep ==
    ASSUME VllmInv, NEW t \in Threads, Generate(t)
    PROVE  VllmInv'
<1>0. /\ Core /\ job[t].at = "generate" /\ job[t].at \in Verifying /\ runtimes \in Seq(Runtimes(conf))
      /\ job[t].hashes \subseteq Blocks /\ job[t].seeded \in Seeds(conf)
  BY DEF VllmInv, Generate, At, Verifying, Core, VllmTypes, Jobs
<1>1. /\ job[t].rt \in DOMAIN runtimes /\ Runtime(t) = runtimes[job[t].rt] /\ conf.target = "real"
      /\ Runtime(t) \in Runtimes(conf) /\ KnowsSound(Runtime(t), conf)
      /\ Runtime(t).registered_hashes \in SUBSET Blocks /\ Runtime(t).registered_hashes # {}
      /\ ~Runtime(t).shared =>
            /\ Runtime(t).last_register_payload.ids \in Ids(conf)
            /\ \A l \in Layers, i \in 1 .. Size :
                   Runtime(t).cache[l][Runtime(t).last_register_payload.ids[i]]
                          = <<Runtime(t).last_register_payload.hash, i>>
  BY <1>0, VerifyingFacts
<1>2. Goto(t, "report") /\ UNCHANGED <<conf, singleton, memory, file, export, acked, budget>>
  BY DEF Generate
<1>3. PICK c, rt, asked, seeded :
        c = conf /\ rt = Runtime(t) /\ asked = job[t].hashes /\ seeded = job[t].seeded
  OBVIOUS
<1> DEFINE k == [l \in Layers |-> [i \in DOMAIN seeded |-> rt.cache[l][seeded[i]]]]
<1>s. PICK m \in 0 .. Size : seeded \in [1 .. m -> Cells(c)]
  BY <1>0, <1>3 DEF Seeds
<1>4. k \in [Layers -> UNION {[1 .. n -> Contents] : n \in 0 .. Size}]
  <2>1. rt.cache \in [Layers -> [Cells(c) -> Contents]]
    BY <1>1, <1>3 DEF Runtimes
  <2>2. DOMAIN seeded = 1 .. m /\ \A i \in 1 .. m : seeded[i] \in Cells(c)
    BY <1>s
  <2>3. ASSUME NEW l \in Layers PROVE [i \in DOMAIN seeded |-> rt.cache[l][seeded[i]]] \in [1 .. m -> Contents]
    BY <2>1, <2>2
  <2> QED BY <1>s, <2>3
<1>5. PICK kv \in [Layers -> UNION {[1 .. n -> Contents] : n \in 0 .. Size}] : kv = k
  BY <1>4
<1> HIDE DEF k
<1>6. PICK continuation \in Continuations :
         /\ continuation = [asked |-> asked, known |-> rt.registered_hashes, kv |-> kv]
         /\ continuation.known = rt.registered_hashes /\ continuation.kv = kv
  <2>1. asked \in SUBSET Blocks
    BY <1>0, <1>3
  <2>2. PICK known \in SUBSET Blocks : known = rt.registered_hashes
    BY <1>1, <1>3
  <2>3. [asked |-> asked, known |-> known, kv |-> kv] \in Continuations
    BY <1>5, <2>1, <2>2 DEF Continuations
  <2> QED BY <2>2, <2>3
<1>7. rt \in Runtimes(c)
  BY <1>1, <1>3
<1>8. PICK new \in Runtimes(c) :
               /\ new = [rt EXCEPT !.last_continuation = continuation]
               /\ new.last_continuation = continuation /\ SameSlots(rt, new)
               /\ new.last_register_payload = rt.last_register_payload
               /\ new.registered_hashes = rt.registered_hashes
  BY <1>7, SetContinuation
<1>9. runtimes' = [runtimes EXCEPT ![job[t].rt] = new]
  <2>1. runtimes' = [runtimes EXCEPT ![job[t].rt] = [runtimes[job[t].rt] EXCEPT !.last_continuation =
              [asked |-> job[t].hashes, known |-> Runtime(t).registered_hashes,
               kv |-> [l \in Layers |->
                         [i \in DOMAIN job[t].seeded |-> Runtime(t).cache[l][job[t].seeded[i]]]]]]]
    BY DEF Generate
  <2>2. kv = [l \in Layers |->
                 [i \in DOMAIN job[t].seeded |-> Runtime(t).cache[l][job[t].seeded[i]]]]
    BY <1>3, <1>5 DEF k
  <2>3. runtimes' = [runtimes EXCEPT ![job[t].rt] = [rt EXCEPT !.last_continuation =
              [asked |-> asked, known |-> rt.registered_hashes, kv |-> kv]]]
    BY <1>1, <1>3, <2>1, <2>2
  <2> QED BY <1>6, <1>8, <2>3
<1>10. continuation # None
  BY <1>6, VllmAssumption
<1>11. KnowsSound(new, conf)
  <2>1. new.placed = rt.placed /\ new.shared = rt.shared
    BY <1>8 DEF SameSlots
  <2> QED BY <1>1, <1>3, <1>6, <1>8, <2>1 DEF KnowsSound
<1>12. ASSUME conf.serial, ~new.shared, NEW l \in Layers, NEW i \in DOMAIN new.last_continuation.kv[l]
       PROVE  new.last_continuation.kv[l][i] = <<new.last_register_payload.hash, i>>
  <2>1. ~rt.shared
    BY <1>8, <1>12 DEF SameSlots
  <2>2. JobAlone(job[t])
    BY <1>0, <1>12, SerialParts DEF Core
  <2>3. \A a \in DOMAIN seeded : seeded[a] = rt.last_register_payload.ids[a]
    BY <1>0, <1>1, <1>3, <2>1, <2>2 DEF JobAlone
  <2>4. DOMAIN seeded = 1 .. m
    BY <1>s
  <2>5. new.last_continuation.kv[l] = [a \in DOMAIN seeded |-> rt.cache[l][seeded[a]]]
    BY <1>5, <1>6, <1>8 DEF k
  <2>6. i \in DOMAIN seeded /\ i \in 1 .. m
    BY <1>12, <2>4, <2>5
  <2>7. new.last_continuation.kv[l][i] = rt.cache[l][seeded[i]]
    BY <2>5, <2>6
  <2>8. i \in 1 .. Size
    BY <2>6, VllmAssumption, SMTT(30)
  <2>9. rt.cache[l][rt.last_register_payload.ids[i]] = <<rt.last_register_payload.hash, i>>
    BY <1>1, <1>3, <2>1, <2>8
  <2> QED BY <1>8, <2>3, <2>6, <2>7, <2>9
<1> QED
  <2>1. new \in Runtimes(conf) /\ SameSlots(Runtime(t), new)
        /\ new.registered_hashes = Runtime(t).registered_hashes
        /\ new.last_register_payload = Runtime(t).last_register_payload
        /\ new.last_continuation # None
    BY <1>3, <1>8, <1>10
  <2> QED BY <1>0, <1>2, <1>9, <1>11, <1>12, <2>1, VerifyingStep

-----------------------------------------------------------------------------
(* The target blocks. *)

LEMMA SlotStep ==
    ASSUME Core, NEW t \in Threads, Others(t), NEW new \in Runtimes(conf),
           job[t].at \in {"allocate", "write"},
           runtimes' = [runtimes EXCEPT ![job[t].rt] = new],
           PoolSound(new, conf), PlacesSound(new, conf), KnowsSound(new, conf),
           DOMAIN Runtime(t).placed \subseteq DOMAIN new.placed,
           new.registered_hashes = Runtime(t).registered_hashes,
           new.last_continuation = Runtime(t).last_continuation,
           Runtime(t).last_register_payload # None => new.last_register_payload # None,
           conf' = conf, singleton' = singleton, memory' = memory, file' = file,
           acked' = acked, budget' = budget,
           JobFlow(job[t])', JobKnows(job[t])', job'[t].rt = job[t].rt,
           At(t, "write")' => WriteSound(new, job'[t], conf),
           \A u \in Threads \ {t} : At(u, "write") /\ job[u].rt = job[t].rt =>
               /\ WriteSound(new, job[u], conf)
               /\ At(t, "write")' /\ job'[t].ids # None /\ job[u].ids # None =>
                     Apart(job'[t], job[u]),
           conf.serial => JobAlone(job[t])' /\ LastSound'
    PROVE  Core' /\ Grows
<1> DEFINE r == job[t].rt
<1>0. /\ VllmTypes /\ SlotsSound /\ SerialSound /\ JobFlow(job[t])
      /\ r \in DOMAIN runtimes /\ Runtime(t) = runtimes[r] /\ runtimes \in Seq(Runtimes(conf))
  BY HasRuntime DEF Core, VllmTypes
<1>1. /\ runtimes' \in Seq(Runtimes(conf)) /\ Len(runtimes') = Len(runtimes)
      /\ DOMAIN runtimes' = DOMAIN runtimes /\ runtimes'[r] = new
      /\ \A s \in DOMAIN runtimes \ {r} : runtimes'[s] = runtimes[s]
  BY <1>0, Replaced
<1>10. job'[t].rt = r
  OBVIOUS
<1> HIDE DEF r
<1>2. Grows
  <2>1. Len(runtimes) <= Len(runtimes')
    BY <1>0, <1>1, InRuntimes, SMTT(30)
  <2>2. ASSUME NEW s \in DOMAIN runtimes
        PROVE  /\ DOMAIN runtimes[s].placed \subseteq DOMAIN runtimes'[s].placed
               /\ runtimes[s].last_register_payload # None => runtimes'[s].last_register_payload # None
               /\ runtimes[s].last_continuation # None => runtimes'[s].last_continuation # None
               /\ conf.target = "real" =>
                     runtimes[s].registered_hashes \subseteq runtimes'[s].registered_hashes
    <3>1. CASE s = r
      BY <1>0, <1>1, <3>1
    <3>2. CASE s # r
      BY <1>1, <3>2
    <3> QED BY <3>1, <3>2
  <2> QED BY <1>1, <2>1, <2>2 DEF Grows
<1>3. VllmTypes'
  BY <1>0, <1>1 DEF VllmTypes, Others
<1>4. SlotsSound'
  <2>1. ASSUME NEW s \in DOMAIN runtimes' PROVE (PoolSound(runtimes[s], conf) /\ PlacesSound(runtimes[s], conf))'
    <3>1. CASE s = r
      BY <1>1, <3>1
    <3>2. CASE s # r
      BY <1>0, <1>1, <3>2 DEF SlotsSound
    <3> QED BY <3>1, <3>2
  <2>2. ASSUME NEW u \in Threads, At(u, "write")' PROVE WriteSound(Runtime(u), job[u], conf)'
    <3>1. CASE u = t
      <4>1. WriteSound(new, job'[t], conf)
        BY <2>2, <3>1
      <4>2. Runtime(t)' = new
        BY <1>1, <1>10 DEF Runtime
      <4> QED BY <3>1, <4>1, <4>2
    <3>2. CASE u # t
      <4>1. job'[u] = job[u] /\ At(u, "write") /\ JobFlow(job[u])
        BY <2>2, <3>2 DEF Others, At, Core
      <4>2. job[u].rt \in DOMAIN runtimes /\ Runtime(u) = runtimes[job[u].rt]
        BY <1>0, <4>1, HasRuntime DEF At
      <4>3. Runtime(u)' = runtimes'[job[u].rt]
        BY <4>1 DEF Runtime
      <4>4. CASE job[u].rt = r
        <5>1. WriteSound(new, job[u], conf)
          BY <3>2, <4>1, <4>4 DEF r
        <5> QED BY <1>1, <4>1, <4>3, <4>4, <5>1
      <4>5. CASE job[u].rt # r
        <5>1. WriteSound(Runtime(u), job[u], conf)
          BY <1>0, <4>1 DEF SlotsSound
        <5> QED BY <1>1, <4>1, <4>2, <4>3, <4>5, <5>1
      <4> QED BY <4>4, <4>5
    <3> QED BY <3>1, <3>2
  <2>3. ASSUME NEW u \in Threads, NEW v \in Threads, u # v, At(u, "write")', At(v, "write")',
               job'[u].rt = job'[v].rt, job'[u].ids # None, job'[v].ids # None
        PROVE  Apart(job[u], job[v])'
    <3>1. ASSUME NEW w \in Threads, w # t, At(w, "write")', job'[w].rt = r, job'[w].ids # None,
                 At(t, "write")', job'[t].ids # None
          PROVE  Apart(job'[t], job'[w]) /\ Apart(job'[w], job'[t])
      <4>1. job'[w] = job[w] /\ At(w, "write")
        BY <3>1 DEF Others, At
      <4>2. Apart(job'[t], job[w])
        BY <3>1, <4>1 DEF r
      <4> QED BY <4>1, <4>2 DEF Apart
    <3>2. CASE u = t
      BY <1>10, <2>3, <3>1, <3>2
    <3>3. CASE v = t
      BY <1>10, <2>3, <3>1, <3>3
    <3>4. CASE u # t /\ v # t
      <4>1. job'[u] = job[u] /\ job'[v] = job[v]
        BY <3>4 DEF Others
      <4>2. Apart(job[u], job[v])
        BY <1>0, <2>3, <4>1 DEF SlotsSound, At
      <4> QED BY <4>1, <4>2
    <3> QED BY <3>2, <3>3, <3>4
  <2> QED BY <2>1, <2>2, <2>3 DEF SlotsSound
<1>5. \A s \in DOMAIN runtimes' : KnowsSound(runtimes[s], conf)'
  <2>1. \A s \in DOMAIN runtimes : KnowsSound(runtimes[s], conf)
    BY HashesParts DEF Core
  <2>2. ASSUME NEW s \in DOMAIN runtimes' PROVE KnowsSound(runtimes'[s], conf)
    <3>1. CASE s = r
      BY <1>1, <3>1
    <3>2. CASE s # r
      BY <1>1, <2>1, <3>2
    <3> QED BY <3>1, <3>2
  <2> QED BY <2>2
<1>6. FilesSound'
  BY <1>0, <1>2, HashesParts, FilesKept DEF Core
<1>7. \A s \in DOMAIN runtimes : runtimes'[s].registered_hashes = runtimes[s].registered_hashes
  BY <1>0, <1>1
<1>8. AckedSound'
  <2>1. AckedSound
    BY HashesParts DEF Core
  <2>2. Len(runtimes) = 1 => 1 \in DOMAIN runtimes
    BY <1>0, InRuntimes, SMTT(30)
  <2> QED BY <1>1, <1>2, <1>7, <2>1, <2>2, AckedKept
<1>9. SerialSound'
  <2>1. ~At(t, "save") /\ ~At(t, "idle")
    BY DEF At
  <2>2. conf.serial => /\ Len(runtimes') <= 1 /\ (singleton' = 0 => Len(runtimes') = 0)
                       /\ TornSound'
    BY <1>0, <1>1, <1>2, <1>7, <2>1, SerialParts, TornKept
  <2> QED BY <1>0, <2>1, <2>2, SerialStep
<1> QED BY <1>2, <1>3, <1>4, <1>5, <1>6, <1>8, <1>9, StepSound

(* Fewer free blocks, and a runtime once pooled or shared stays so. *)
LEMMA PlacesStay ==
    ASSUME NEW cache, NEW free, NEW placed, NEW writers, NEW pooled, NEW shared, NEW c,
           NEW free2, NEW pooled2, NEW shared2,
           PlacesOf(cache, free, placed, writers, pooled, shared, c),
           \A k \in DOMAIN free2 : \E m \in DOMAIN free : free2[k] = free[m],
           pooled => pooled2, shared => shared2
    PROVE  PlacesOf(cache, free2, placed, writers, pooled2, shared2, c)
<1> SUFFICES ASSUME NEW h \in DOMAIN placed
             PROVE  /\ Fits(c) /\ h \in writers /\ h \notin Foreign
                    /\ ~shared2 =>
                          /\ placed[h] \in Ids(c)
                          /\ \A i \in 1 .. Size, k \in DOMAIN free2 : placed[h][i] # free2[k]
                          /\ \A l \in Layers, i \in 1 .. Size : cache[l][placed[h][i]] = <<h, i>>
                    /\ ~pooled2 =>
                          /\ \A i \in 1 .. Size : placed[h][i] = i - 1
                          /\ writers = {h} => \A l \in Layers, i \in 1 .. Size :
                                 i <= c.slots => cache[l][i - 1] = <<h, i>>
  BY DEF PlacesOf
<1>1. Fits(c) /\ h \in writers /\ h \notin Foreign
  BY DEF PlacesOf
<1>2. ~shared2 => /\ placed[h] \in Ids(c)
                  /\ \A i \in 1 .. Size, k \in DOMAIN free : placed[h][i] # free[k]
                  /\ \A l \in Layers, i \in 1 .. Size : cache[l][placed[h][i]] = <<h, i>>
  BY DEF PlacesOf
<1>3. ~pooled2 =>
          /\ \A i \in 1 .. Size : placed[h][i] = i - 1
          /\ writers = {h} => \A l \in Layers, i \in 1 .. Size :
                 i <= c.slots => cache[l][i - 1] = <<h, i>>
  BY DEF PlacesOf
<1>4. ASSUME ~shared2, NEW i \in 1 .. Size, NEW k \in DOMAIN free2 PROVE placed[h][i] # free2[k]
  <2>1. PICK m \in DOMAIN free : free2[k] = free[m]
    OBVIOUS
  <2> QED BY <1>2, <1>4, <2>1
<1> QED BY <1>1, <1>2, <1>3, <1>4

LEMMA WriteStays ==
    ASSUME NEW cache, NEW free, NEW placed, NEW writers, NEW pooled, NEW shared, NEW c,
           NEW h, NEW ids, NEW done, NEW free2, NEW pooled2, NEW shared2,
           WriteOf(cache, free, placed, writers, pooled, shared, h, ids, done, c),
           \A k \in DOMAIN free2 : \E m \in DOMAIN free : free2[k] = free[m],
           pooled => pooled2, shared => shared2
    PROVE  WriteOf(cache, free2, placed, writers, pooled2, shared2, h, ids, done, c)
<1>1. ids = None => shared2
  BY DEF WriteOf
<1>2. ASSUME ids # None
      PROVE  /\ pooled2 /\ c.cache = "pooled" /\ Size <= c.slots
             /\ \A i, k \in 1 .. Size : ids[i] = ids[k] => i = k
             /\ \A i \in 1 .. Size, k \in DOMAIN free : ids[i] # free[k]
  BY <1>2 DEF WriteOf
<1>3. done > 0 => Fits(c) /\ h \in writers
  BY DEF WriteOf
<1>4. ~shared2 =>
          /\ \A g \in DOMAIN placed : \A i, k \in 1 .. Size : placed[g][i] # ids[k]
          /\ \A l \in Layers, i \in 1 .. Size : l <= done => cache[l][ids[i]] = <<h, i>>
  BY DEF WriteOf
<1>5. ~pooled2 /\ writers = {h} =>
          \A l \in Layers, i \in 1 .. Size :
             l <= done /\ i <= c.slots => cache[l][i - 1] = <<h, i>>
  BY DEF WriteOf
<1>6. ids # None => \A i \in 1 .. Size, k \in DOMAIN free2 : ids[i] # free2[k]
  BY <1>2
<1> QED BY <1>1, <1>2, <1>3, <1>4, <1>5, <1>6 DEF WriteOf

TookBlocks(rt, free) == [rt EXCEPT !.free = free, !.pooled = TRUE]

LEMMA SetShared ==
    ASSUME NEW c, NEW rt \in Runtimes(c)
    PROVE  \E new \in Runtimes(c) :
               /\ new = [rt EXCEPT !.shared = TRUE]
               /\ new.free = rt.free /\ new.pooled = rt.pooled /\ new.shared = TRUE
               /\ new.cache = rt.cache /\ new.placed = rt.placed /\ new.writers = rt.writers
               /\ new.last_register_payload = rt.last_register_payload
               /\ new.last_continuation = rt.last_continuation
               /\ new.registered_hashes = rt.registered_hashes
<1> DEFINE n == [rt EXCEPT !.shared = TRUE]
<1>1. n \in Runtimes(c)
  BY DEF Runtimes
<1>2. /\ n.registered_hashes = rt.registered_hashes /\ n.last_register_payload = rt.last_register_payload
      /\ n.last_continuation = rt.last_continuation
  BY DEF Runtimes
<1>3. n.free = rt.free /\ n.pooled = rt.pooled /\ n.shared = TRUE
  BY DEF Runtimes
<1>4. n.cache = rt.cache /\ n.placed = rt.placed /\ n.writers = rt.writers
  BY DEF Runtimes
<1> QED BY <1>1, <1>2, <1>3, <1>4

LEMMA LayersToWrite ==
    ASSUME NEW h
    PROVE  /\ PayloadLayers(h) \in Seq(Nat) /\ Len(PayloadLayers(h)) = Depth(h)
           /\ TodoSound(h, PayloadLayers(h), 0)
<1>1. PICK d : d = Depth(h) /\ d \in Nat /\ d > 0
  BY Depths
<1>2. PayloadLayers(h) = [l \in 1 .. d |-> l]
  BY <1>1 DEF PayloadLayers, Depth
<1>3. PayloadLayers(h) \in Seq(Nat) /\ Len(PayloadLayers(h)) = d
  BY <1>1, <1>2, SMTT(30)
<1>4. \A i \in 1 .. d : PayloadLayers(h)[i] = 0 + i
  BY <1>1, <1>2, SMTT(30)
<1>5. PayloadLayers(h) # <<>>
  BY <1>1, <1>3, SMTT(30)
<1>6. d <= d /\ 0 = d - d
  BY <1>1, SMTT(30)
<1> QED BY <1>1, <1>3, <1>4, <1>5, <1>6 DEF TodoSound

(* What AllocateTargetBlockIds gives a request, ids, and leaves in the pool, free. *)
LEMMA PoolGives ==
    ASSUME Core, NEW t \in Threads, job[t].at = "allocate"
    PROVE  \E ids \in Ids(conf) \cup {None}, free \in Seq(Cells(conf)), pooled \in BOOLEAN :
             /\ ids = Allocated(t) /\ (pooled <=> Pooled(t))
             /\ free = IF Pooled(t) THEN SubSeq(Runtime(t).free, Size + 1, Len(Runtime(t).free))
                       ELSE Runtime(t).free
             /\ ids = None <=> ~pooled
             /\ \A k \in DOMAIN free : \E m \in DOMAIN Runtime(t).free : free[k] = Runtime(t).free[m]
             /\ (\A i, k \in DOMAIN free : free[i] = free[k] => i = k) /\ Len(free) <= conf.slots
             /\ pooled =>
                   /\ conf.cache = "pooled" /\ Size <= conf.slots
                   /\ \A i \in 1 .. Size : \E m \in DOMAIN Runtime(t).free : ids[i] = Runtime(t).free[m]
                   /\ \A i, k \in 1 .. Size : ids[i] = ids[k] => i = k
                   /\ \A i \in 1 .. Size, k \in DOMAIN free : ids[i] # free[k]
<1>0. /\ Runtime(t) = runtimes[job[t].rt] /\ Runtime(t) \in Runtimes(conf) /\ job[t].rt \in DOMAIN runtimes
      /\ conf.slots \in Nat /\ Size \in Nat
  BY HasRuntime, VllmAssumption DEF Core, VllmTypes, Deployments
<1>1. PoolSound(Runtime(t), conf)
  BY <1>0 DEF Core, SlotsSound
<1>2. PICK q \in Seq(Cells(conf)) : q = Runtime(t).free
  BY <1>0 DEF Runtimes
<1>3. /\ \A i, k \in DOMAIN q : q[i] = q[k] => i = k
      /\ Len(q) <= conf.slots /\ Len(q) \in Nat /\ DOMAIN q = 1 .. Len(q)
  <2>1. Len(q) \in Nat /\ DOMAIN q = 1 .. Len(q)
    BY <1>2
  <2>2. (\A i, k \in DOMAIN q : q[i] = q[k] => i = k) /\ Len(q) <= conf.slots
    BY <1>1, <1>2 DEF PoolSound
  <2> QED BY <2>1, <2>2
<1>4. CASE Pooled(t)
  <2>1. Size <= Len(q) /\ conf.cache = "pooled"
    BY <1>0, <1>2, <1>3, <1>4, SMTT(30) DEF Pooled
  <2>2. PICK ids, free : ids = SubSeq(q, 1, Size) /\ free = SubSeq(q, Size + 1, Len(q))
    OBVIOUS
  <2>3. /\ ids \in [1 .. Size -> Cells(conf)]
        /\ \A i \in 1 .. Size : ids[i] = q[i] /\ i \in DOMAIN q
        /\ free \in Seq(Cells(conf))
        /\ Len(free) = Len(q) - Size /\ DOMAIN free = 1 .. Len(q) - Size
        /\ \A k \in 1 .. Len(q) - Size : free[k] = q[Size + k] /\ Size + k \in DOMAIN q
    BY <1>0, <2>1, <2>2, Taken
  <2>4. ids \in Ids(conf)
    BY <2>3 DEF Ids
  <2>5. ids # None
    <3>1. Ids(conf) \subseteq [1 .. Size -> Nat]
      BY <1>0, SMTT(30) DEF Ids, Cells
    <3> QED BY <2>4, <3>1, VllmAssumption
  <2>6. \A i, k \in DOMAIN free : free[i] = free[k] => i = k
    <3> SUFFICES ASSUME NEW i \in 1 .. Len(q) - Size, NEW k \in 1 .. Len(q) - Size, free[i] = free[k]
                 PROVE  i = k
      BY <2>3
    <3>1. Size + i = Size + k
      BY <1>3, <2>3
    <3> QED BY <1>0, <1>3, <3>1, SMTT(30)
  <2>7. Len(free) <= conf.slots /\ Size <= conf.slots
    BY <1>0, <1>3, <2>1, <2>3, SMTT(30)
  <2>8. \A i, k \in 1 .. Size : ids[i] = ids[k] => i = k
    BY <1>3, <2>3
  <2>9. \A i \in 1 .. Size, k \in DOMAIN free : ids[i] # free[k]
    <3> SUFFICES ASSUME NEW i \in 1 .. Size, NEW k \in 1 .. Len(q) - Size, ids[i] = free[k]
                 PROVE  FALSE
      BY <2>3
    <3>1. i = Size + k
      BY <1>3, <2>3
    <3> QED BY <1>0, <1>3, <3>1, SMTT(30)
  <2>10. \A k \in DOMAIN free : \E m \in DOMAIN q : free[k] = q[m]
    BY <2>3
  <2>11. \A i \in 1 .. Size : \E m \in DOMAIN q : ids[i] = q[m]
    BY <2>3
  <2>12. /\ ids = Allocated(t)
         /\ free = IF Pooled(t) THEN SubSeq(Runtime(t).free, Size + 1, Len(Runtime(t).free))
                   ELSE Runtime(t).free
    BY <1>2, <1>4, <2>2 DEF Allocated
  <2>13. ids \in Ids(conf) \cup {None} /\ free \in Seq(Cells(conf)) /\ TRUE \in BOOLEAN
    BY <2>3, <2>4
  <2> USE <2>13
  <2> WITNESS ids \in Ids(conf) \cup {None}, free \in Seq(Cells(conf)), TRUE \in BOOLEAN
  <2> QED BY <1>2, <1>4, <2>1, <2>5, <2>6, <2>7, <2>8, <2>9, <2>10, <2>11, <2>12
<1>5. CASE ~Pooled(t)
  <2>1. None = Allocated(t)
    BY <1>5 DEF Allocated
  <2> QED BY <1>2, <1>3, <1>5, <2>1
<1> QED BY <1>4, <1>5

LEMMA AllocateStep ==
    ASSUME VllmInv, NEW t \in Threads, AllocateTargetBlockIds(t)
    PROVE  VllmInv'
<1>0. /\ Core /\ VllmTypes /\ JobFlow(job[t]) /\ job[t].at = "allocate" /\ job[t].kind = "register"
      /\ job[t].hash \in Blocks /\ job[t].answer = "none" /\ job[t].rt # 0
      /\ job[t].rt \in 0 .. Len(runtimes)
      /\ job \in [Threads -> Jobs(conf)] /\ job[t] \in Jobs(conf) /\ runtimes \in Seq(Runtimes(conf))
  BY DEF VllmInv, Core, JobFlow, AllocateTargetBlockIds, At, Filing, VllmTypes
<1>1. /\ job[t].rt \in DOMAIN runtimes /\ Runtime(t) = runtimes[job[t].rt]
      /\ Runtime(t) \in Runtimes(conf)
  BY <1>0, HasRuntime
<1>2. /\ conf' = conf /\ singleton' = singleton /\ memory' = memory /\ file' = file
      /\ acked' = acked /\ budget' = budget /\ export' = export
  BY DEF AllocateTargetBlockIds
<1>3. PICK ids \in Ids(conf) \cup {None}, free \in Seq(Cells(conf)), pooled \in BOOLEAN :
             /\ ids = Allocated(t) /\ (pooled <=> Pooled(t))
             /\ free = IF Pooled(t) THEN SubSeq(Runtime(t).free, Size + 1, Len(Runtime(t).free))
                       ELSE Runtime(t).free
             /\ ids = None <=> ~pooled
             /\ \A k \in DOMAIN free : \E m \in DOMAIN Runtime(t).free : free[k] = Runtime(t).free[m]
             /\ (\A i, k \in DOMAIN free : free[i] = free[k] => i = k) /\ Len(free) <= conf.slots
             /\ pooled =>
                   /\ conf.cache = "pooled" /\ Size <= conf.slots
                   /\ \A i \in 1 .. Size : \E m \in DOMAIN Runtime(t).free : ids[i] = Runtime(t).free[m]
                   /\ \A i, k \in 1 .. Size : ids[i] = ids[k] => i = k
                   /\ \A i \in 1 .. Size, k \in DOMAIN free : ids[i] # free[k]
  BY <1>0, PoolGives
<1>4. PICK c, rt, todo : c = conf /\ rt = Runtime(t) /\ todo = PayloadLayers(job[t].hash)
  OBVIOUS
<1>5. todo \in Seq(Nat) /\ Len(todo) = Depth(job[t].hash) /\ TodoSound(job[t].hash, todo, 0)
  BY <1>4, LayersToWrite
<1>6. ~pooled => free = rt.free
  BY <1>3, <1>4
<1>7. PICK new \in Runtimes(c) :
               /\ pooled => new = TookBlocks(rt, free)
               /\ ~pooled => new = [rt EXCEPT !.shared = TRUE]
               /\ new.free = free
               /\ (rt.pooled \/ pooled => new.pooled) /\ (rt.shared \/ ~pooled => new.shared)
               /\ new.cache = rt.cache /\ new.placed = rt.placed /\ new.writers = rt.writers
               /\ new.last_register_payload = rt.last_register_payload
               /\ new.last_continuation = rt.last_continuation
               /\ new.registered_hashes = rt.registered_hashes
  <2>1. rt \in Runtimes(c) /\ free \in Seq(Cells(c))
    BY <1>1, <1>3, <1>4
  <2>2. CASE pooled
    <3> DEFINE m == TookBlocks(rt, free)
    <3>1. m \in Runtimes(c)
      BY <2>1 DEF Runtimes, TookBlocks
    <3>2. /\ m.registered_hashes = rt.registered_hashes /\ m.last_register_payload = rt.last_register_payload
          /\ m.last_continuation = rt.last_continuation
      BY <2>1 DEF Runtimes, TookBlocks
    <3>3. m.free = free /\ m.pooled = TRUE /\ m.shared = rt.shared
      BY <2>1 DEF Runtimes, TookBlocks
    <3>4. m.cache = rt.cache /\ m.placed = rt.placed /\ m.writers = rt.writers
      BY <2>1 DEF Runtimes, TookBlocks
    <3> HIDE DEF m
    <3>5. m = TookBlocks(rt, free)
      BY DEF m
    <3> QED BY <2>2, <3>1, <3>2, <3>3, <3>4, <3>5
  <2>3. CASE ~pooled
    <3>1. PICK new \in Runtimes(c) :
               /\ new = [rt EXCEPT !.shared = TRUE]
               /\ new.free = rt.free /\ new.pooled = rt.pooled /\ new.shared = TRUE
               /\ new.cache = rt.cache /\ new.placed = rt.placed /\ new.writers = rt.writers
               /\ new.last_register_payload = rt.last_register_payload
               /\ new.last_continuation = rt.last_continuation
               /\ new.registered_hashes = rt.registered_hashes
      BY <2>1, SetShared
    <3> QED BY <1>6, <2>3, <3>1
  <2> QED BY <2>2, <2>3
<1>8. runtimes' = [runtimes EXCEPT ![job[t].rt] = new]
  <2>1. runtimes' = [runtimes EXCEPT ![job[t].rt] =
           IF Pooled(t) THEN [runtimes[job[t].rt] EXCEPT
                                !.free = SubSeq(Runtime(t).free, Size + 1, Len(Runtime(t).free)),
                                !.pooled = TRUE]
           ELSE [runtimes[job[t].rt] EXCEPT !.shared = TRUE]]
    BY DEF AllocateTargetBlockIds
  <2>2. CASE pooled
    <3>1. free = SubSeq(Runtime(t).free, Size + 1, Len(Runtime(t).free)) /\ Pooled(t)
      BY <1>3, <2>2
    <3>2. runtimes' = [runtimes EXCEPT ![job[t].rt] = TookBlocks(runtimes[job[t].rt], free)]
      BY <2>1, <3>1 DEF TookBlocks
    <3> QED BY <1>1, <1>4, <1>7, <2>2, <3>2
  <2>3. CASE ~pooled
    <3>1. ~Pooled(t)
      BY <1>3, <2>3
    <3>2. runtimes' = [runtimes EXCEPT ![job[t].rt] = [runtimes[job[t].rt] EXCEPT !.shared = TRUE]]
      BY <2>1, <3>1
    <3> QED BY <1>1, <1>4, <1>7, <2>3, <3>2
  <2> QED BY <2>2, <2>3
<1> DEFINE n == [job[t] EXCEPT !.ids = ids, !.todo = todo, !.at = "write"]
<1>9. /\ n \in Jobs(conf) /\ n.at = "write" /\ n.kind = job[t].kind /\ n.hash = job[t].hash
      /\ n.rt = job[t].rt /\ n.answer = job[t].answer /\ n.ids = ids /\ n.todo = todo
  BY <1>0, <1>3, <1>5 DEF Jobs, JobLabels
<1>10. PICK j \in Jobs(conf) :
         /\ j = n /\ j.at = "write" /\ j.kind = job[t].kind /\ j.hash = job[t].hash
         /\ j.rt = job[t].rt /\ j.answer = job[t].answer /\ j.ids = ids /\ j.todo = todo
  BY <1>9
<1>11. job' = [job EXCEPT ![t] = j]
  BY <1>3, <1>4, <1>10 DEF AllocateTargetBlockIds
<1> HIDE DEF n
<1>12. job' \in [Threads -> Jobs(conf)] /\ job'[t] = j /\ \A u \in Threads \ {t} : job'[u] = job[u]
  BY <1>0, <1>11
<1>13. Others(t)
  BY <1>12 DEF Others
<1>14. Len(runtimes') = Len(runtimes)
  BY <1>0, <1>1, <1>4, <1>7, <1>8, Replaced
<1>15. JobFlow(job[t])'
  BY <1>0, <1>2, <1>10, <1>12, <1>14 DEF JobFlow, Filing, Verifying
<1>16. JobKnows(job[t])'
  BY <1>0, <1>10, <1>12 DEF JobKnows, Filing, Verifying
<1>17. JobAlone(job[t])'
  BY <1>10, <1>12 DEF JobAlone, Filing
<1>18. PoolSound(rt, conf) /\ PlacesSound(rt, conf) /\ KnowsSound(rt, conf)
  <2>1. SlotsSound /\ HashesSound
    BY <1>0 DEF Core
  <2> QED BY <1>1, <1>4, <2>1, HashesParts DEF SlotsSound
<1>19. PoolSound(new, conf)
  <2>1. (\A i, k \in DOMAIN free : free[i] = free[k] => i = k) /\ Len(free) <= conf.slots
    BY <1>3
  <2> QED BY <1>7, <2>1 DEF PoolSound
<1>61. /\ \A k \in DOMAIN free : \E m \in DOMAIN rt.free : free[k] = rt.free[m]
       /\ (rt.pooled => new.pooled) /\ (rt.shared => new.shared)
  BY <1>3, <1>4, <1>7
<1>20. PlacesSound(new, conf)
  <2>1. PlacesOf(rt.cache, rt.free, rt.placed, rt.writers, rt.pooled, rt.shared, conf)
    BY <1>18 DEF PlacesSound
  <2>2. PlacesOf(rt.cache, free, rt.placed, rt.writers, new.pooled, new.shared, conf)
    BY <1>61, <2>1, PlacesStay
  <2> QED BY <1>7, <2>2 DEF PlacesSound
<1>21. KnowsSound(new, conf)
  <2>1. ~new.shared => ~rt.shared
    BY <1>61
  <2> QED BY <1>7, <1>18, <2>1 DEF KnowsSound
<1>22. Done(j) = 0
  <2>1. Len(todo) \in Nat /\ Done(j) = Len(todo) - Len(todo)
    BY <1>5, <1>10 DEF Done
  <2> QED BY <2>1, SMTT(30)
<1>23. WriteSound(new, j, conf)
  <2>1. TodoSound(j.hash, j.todo, Done(j))
    BY <1>5, <1>10, <1>22
  <2>2. ids = None => new.shared
    BY <1>3, <1>7
  <2>3. ids # None => /\ new.pooled /\ conf.cache = "pooled" /\ Size <= conf.slots
                      /\ \A i, k \in 1 .. Size : ids[i] = ids[k] => i = k
                      /\ \A i \in 1 .. Size, k \in DOMAIN free : ids[i] # free[k]
    BY <1>3, <1>7
  <2>4. \A l \in Layers : ~(l <= 0)
    BY Depths, SMTT(30)
  <2>5. ASSUME ~new.shared PROVE \A g \in DOMAIN rt.placed : \A i, k \in 1 .. Size : rt.placed[g][i] # ids[k]
    <3>1. ~rt.shared /\ pooled
      BY <1>3, <1>7, <2>5
    <3>2. \A g \in DOMAIN rt.placed : \A i \in 1 .. Size, k \in DOMAIN rt.free : rt.placed[g][i] # rt.free[k]
      BY <1>18, <3>1 DEF PlacesSound, PlacesOf
    <3>3. \A k \in 1 .. Size : \E m \in DOMAIN rt.free : ids[k] = rt.free[m]
      BY <1>3, <1>4, <3>1
    <3> QED BY <3>2, <3>3
  <2>6. WriteOf(rt.cache, free, rt.placed, rt.writers, new.pooled, new.shared, job[t].hash, ids, 0, conf)
    BY <2>2, <2>3, <2>4, <2>5 DEF WriteOf
  <2> QED BY <1>7, <1>10, <1>22, <2>1, <2>6 DEF WriteSound
<1>24. ASSUME NEW u \in Threads \ {t}, At(u, "write"), job[u].rt = job[t].rt
       PROVE  /\ WriteSound(new, job[u], conf)
              /\ ids # None /\ job[u].ids # None => Apart(j, job[u])
  <2>1. Runtime(u) = rt
    BY <1>4, <1>24 DEF Runtime
  <2>2. WriteSound(rt, job[u], conf)
    BY <1>0, <1>24, <2>1 DEF Core, SlotsSound
  <2>3. TodoSound(job[u].hash, job[u].todo, Done(job[u]))
        /\ WriteOf(rt.cache, rt.free, rt.placed, rt.writers, rt.pooled, rt.shared,
                   job[u].hash, job[u].ids, Done(job[u]), conf)
    BY <2>2 DEF WriteSound
  <2>4. WriteOf(rt.cache, free, rt.placed, rt.writers, new.pooled, new.shared, job[u].hash, job[u].ids, Done(job[u]), conf)
    BY <1>61, <2>3, WriteStays
  <2>5. WriteSound(new, job[u], conf)
    BY <1>7, <2>3, <2>4 DEF WriteSound
  <2>6. ASSUME ids # None, job[u].ids # None PROVE Apart(j, job[u])
    <3>1. \A i \in 1 .. Size, k \in DOMAIN rt.free : job[u].ids[i] # rt.free[k]
      BY <2>3, <2>6 DEF WriteOf
    <3>2. \A k \in 1 .. Size : \E m \in DOMAIN rt.free : ids[k] = rt.free[m]
      BY <1>3, <1>4, <2>6
    <3> QED BY <1>10, <3>1, <3>2 DEF Apart
  <2> QED BY <2>5, <2>6
<1>25. conf.serial => LastSound'
  <2>1. conf.serial => LastSound
    BY <1>0, SerialParts DEF Core
  <2>2. job[t].at \notin Filing
    BY <1>0 DEF Filing
  <2>3. DOMAIN runtimes' = DOMAIN runtimes /\ runtimes'[job[t].rt] = new
        /\ \A v \in DOMAIN runtimes \ {job[t].rt} : runtimes'[v] = runtimes[v]
    BY <1>0, <1>1, <1>4, <1>7, <1>8, Replaced
  <2>4. \A v \in DOMAIN runtimes :
            /\ runtimes'[v].last_register_payload = runtimes[v].last_register_payload
            /\ runtimes'[v].registered_hashes = runtimes[v].registered_hashes
    BY <1>1, <1>4, <1>7, <2>3
  <2> QED BY <1>2, <1>13, <2>1, <2>2, <2>3, <2>4, LastKept
<1>26. Core' /\ Grows
  <2>1. new \in Runtimes(conf)
    BY <1>4, <1>7
  <2>2. /\ DOMAIN Runtime(t).placed \subseteq DOMAIN new.placed
        /\ new.registered_hashes = Runtime(t).registered_hashes
        /\ new.last_continuation = Runtime(t).last_continuation
        /\ Runtime(t).last_register_payload # None => new.last_register_payload # None
    BY <1>4, <1>7
  <2>3. job[t].at \in {"allocate", "write"} /\ job'[t].rt = job[t].rt /\ job'[t].ids = ids
    BY <1>0, <1>10, <1>12
  <2>4. At(t, "write")' => WriteSound(new, job'[t], conf)
    BY <1>12, <1>23
  <2>5. \A u \in Threads \ {t} : At(u, "write") /\ job[u].rt = job[t].rt =>
               /\ WriteSound(new, job[u], conf)
               /\ At(t, "write")' /\ job'[t].ids # None /\ job[u].ids # None =>
                     Apart(job'[t], job[u])
    BY <1>12, <1>24, <2>3
  <2> QED BY <1>0, <1>2, <1>8, <1>13, <1>15, <1>16, <1>17, <1>19, <1>20, <1>21, <1>25,
             <2>1, <2>2, <2>3, <2>4, <2>5, SlotStep
<1>27. job'[t].answer = "none"
  BY <1>0, <1>10, <1>12
<1> QED BY <1>2, <1>13, <1>26, <1>27, AnswersKept, ReverseKept DEF VllmInv

(* The row of a layer after a payload has been written to it. *)
From(ids, s, c) ==
    {i \in {m \in 1 .. Size : TargetBlockId(ids, m) < c.slots} : TargetBlockId(ids, i) = s}
Row(old, h, ids, c) ==
    [s \in 0 .. c.slots - 1 |->
        IF From(ids, s, c) = {} THEN old[s] ELSE <<h, CHOOSE i \in From(ids, s, c) : TRUE>>]

LEMMA CellFacts ==
    ASSUME NEW c, c.slots \in Nat, NEW ids \in Ids(c) \cup {None}, NEW i \in 1 .. Size
    PROVE  /\ TargetBlockId(ids, i) \in Nat
           /\ ids = None => TargetBlockId(ids, i) = i - 1
           /\ ids # None => TargetBlockId(ids, i) = ids[i] /\ ids[i] \in Cells(c) /\ ids \in Ids(c)
           /\ TargetBlockId(ids, i) \in Cells(c) <=> TargetBlockId(ids, i) < c.slots
           /\ i - 1 \in Cells(c) <=> i <= c.slots
<1>1. Size \in Nat /\ i \in Nat /\ i - 1 \in Nat
  BY VllmAssumption, SMTT(30)
<1>2. ASSUME ids # None PROVE ids \in Ids(c) /\ ids[i] \in Cells(c) /\ ids[i] \in Nat
  <2>1. ids \in [1 .. Size -> Cells(c)]
    BY <1>2 DEF Ids
  <2>2. ids[i] \in Cells(c)
    BY <2>1
  <2> QED BY <1>2, <2>2, SMTT(30) DEF Cells
<1>3. \A n \in Nat : n \in Cells(c) <=> n < c.slots
  BY SMTT(30) DEF Cells
<1>4. TargetBlockId(ids, i) \in Nat
  BY <1>1, <1>2 DEF TargetBlockId
<1>5. i - 1 < c.slots <=> i <= c.slots
  BY <1>1, SMTT(30)
<1> QED BY <1>1, <1>2, <1>3, <1>4, <1>5 DEF TargetBlockId

LEMMA RowFacts ==
    ASSUME NEW c, c.slots \in Nat, NEW old \in [Cells(c) -> Contents], NEW h \in Blocks,
           NEW ids \in Ids(c) \cup {None},
           ids # None => \A i, k \in 1 .. Size : ids[i] = ids[k] => i = k
    PROVE  /\ Row(old, h, ids, c) \in [Cells(c) -> Contents]
           /\ \A i \in 1 .. Size : TargetBlockId(ids, i) \in Cells(c) =>
                 Row(old, h, ids, c)[TargetBlockId(ids, i)] = <<h, i>>
           /\ \A s \in Cells(c) : (\A i \in 1 .. Size : TargetBlockId(ids, i) # s) =>
                 Row(old, h, ids, c)[s] = old[s]
<1>1. \A i \in 1 .. Size : i \in Nat
  BY VllmAssumption, SMTT(30)
<1>2. \A i, k \in 1 .. Size : TargetBlockId(ids, i) = TargetBlockId(ids, k) => i = k
  <2> SUFFICES ASSUME NEW i \in 1 .. Size, NEW k \in 1 .. Size,
                      TargetBlockId(ids, i) = TargetBlockId(ids, k)
               PROVE  i = k
    OBVIOUS
  <2>1. CASE ids = None
    <3>1. i - 1 = k - 1
      BY <2>1, CellFacts
    <3> QED BY <1>1, <3>1, SMTT(30)
  <2>2. CASE ids # None
    BY <2>2, CellFacts
  <2> QED BY <2>1, <2>2
<1>3. \A s \in Cells(c), i \in 1 .. Size : i \in From(ids, s, c) <=> TargetBlockId(ids, i) = s
  BY CellFacts DEF From
<1>4. \A s : From(ids, s, c) \subseteq 1 .. Size
  BY DEF From
<1>5. \A s \in Cells(c) :
         Row(old, h, ids, c)[s] = IF From(ids, s, c) = {} THEN old[s]
                                  ELSE <<h, CHOOSE i \in From(ids, s, c) : TRUE>>
  BY DEF Row, Cells
<1>6. \A s \in Cells(c) : From(ids, s, c) # {} => (CHOOSE i \in From(ids, s, c) : TRUE) \in From(ids, s, c)
  OBVIOUS
<1>7. Row(old, h, ids, c) \in [Cells(c) -> Contents]
  <2>1. ASSUME NEW s \in Cells(c)
        PROVE  (IF From(ids, s, c) = {} THEN old[s] ELSE <<h, CHOOSE i \in From(ids, s, c) : TRUE>>) \in Contents
    <3>1. CASE From(ids, s, c) = {}
      BY <3>1
    <3>2. CASE From(ids, s, c) # {}
      <4>1. (CHOOSE i \in From(ids, s, c) : TRUE) \in Nat
        BY <1>1, <1>4, <1>6, <3>2
      <4> QED BY <3>2, <4>1 DEF Contents
    <3> QED BY <3>1, <3>2
  <2> QED BY <2>1 DEF Row, Cells
<1>8. ASSUME NEW i \in 1 .. Size, TargetBlockId(ids, i) \in Cells(c)
      PROVE  Row(old, h, ids, c)[TargetBlockId(ids, i)] = <<h, i>>
  <2>1. PICK s \in Cells(c) : s = TargetBlockId(ids, i)
    BY <1>8
  <2>2. i \in From(ids, s, c)
    BY <1>3, <2>1
  <2>3. (CHOOSE k \in From(ids, s, c) : TRUE) \in From(ids, s, c)
    BY <1>6, <2>2
  <2>4. (CHOOSE k \in From(ids, s, c) : TRUE) = i
    BY <1>2, <1>3, <1>4, <2>1, <2>3
  <2>5. Row(old, h, ids, c)[s] = <<h, CHOOSE k \in From(ids, s, c) : TRUE>>
    BY <1>5, <2>2
  <2> QED BY <2>1, <2>4, <2>5
<1>9. ASSUME NEW s \in Cells(c), \A i \in 1 .. Size : TargetBlockId(ids, i) # s
      PROVE  Row(old, h, ids, c)[s] = old[s]
  <2>1. From(ids, s, c) = {}
    BY <1>3, <1>4, <1>9
  <2> QED BY <1>5, <2>1
<1> QED BY <1>7, <1>8, <1>9

(* The layer of a runtime being rewritten: the payloads placed before, the      *)
(* registration that writes, and the others.                                    *)
LEMMA RowPlaces ==
    ASSUME NEW cache, NEW free, NEW placed, NEW writers, NEW pooled, NEW shared, NEW c,
           NEW h \in Blocks, NEW ids \in Ids(c) \cup {None}, NEW done, NEW layer \in Layers, NEW row,
           c.slots \in Nat, cache \in [Layers -> [Cells(c) -> Contents]],
           PlacesOf(cache, free, placed, writers, pooled, shared, c),
           WriteOf(cache, free, placed, writers, pooled, shared, h, ids, done, c),
           row = Row(cache[layer], h, ids, c)
    PROVE  PlacesOf([cache EXCEPT ![layer] = row], free, placed, writers \cup {h}, pooled, shared, c)
<1> DEFINE new == [cache EXCEPT ![layer] = row]
<1>1. /\ cache[layer] \in [Cells(c) -> Contents]
      /\ new[layer] = row /\ \A l \in Layers : l # layer => new[l] = cache[l]
  OBVIOUS
<1>2. ids # None => pooled /\ \A i, k \in 1 .. Size : ids[i] = ids[k] => i = k
  BY DEF WriteOf
<1>3. /\ \A i \in 1 .. Size : TargetBlockId(ids, i) \in Cells(c) => row[TargetBlockId(ids, i)] = <<h, i>>
      /\ \A s \in Cells(c) : (\A i \in 1 .. Size : TargetBlockId(ids, i) # s) => row[s] = cache[layer][s]
  BY <1>1, <1>2, RowFacts
<1> HIDE DEF new
<1> SUFFICES ASSUME NEW g \in DOMAIN placed
             PROVE  /\ Fits(c) /\ g \in writers \cup {h} /\ g \notin Foreign
                    /\ ~shared =>
                          /\ placed[g] \in Ids(c)
                          /\ \A i \in 1 .. Size, k \in DOMAIN free : placed[g][i] # free[k]
                          /\ \A l \in Layers, i \in 1 .. Size : new[l][placed[g][i]] = <<g, i>>
                    /\ ~pooled =>
                          /\ \A i \in 1 .. Size : placed[g][i] = i - 1
                          /\ writers \cup {h} = {g} => \A l \in Layers, i \in 1 .. Size :
                                 i <= c.slots => new[l][i - 1] = <<g, i>>
  BY DEF PlacesOf, new
<1>4. Fits(c) /\ g \in writers /\ g \notin Foreign
  BY DEF PlacesOf
<1>5. ASSUME ~shared
      PROVE  /\ placed[g] \in Ids(c)
             /\ \A i \in 1 .. Size, k \in DOMAIN free : placed[g][i] # free[k]
             /\ \A l \in Layers, i \in 1 .. Size : new[l][placed[g][i]] = <<g, i>>
  <2>1. /\ placed[g] \in Ids(c)
        /\ \A i \in 1 .. Size, k \in DOMAIN free : placed[g][i] # free[k]
        /\ \A l \in Layers, i \in 1 .. Size : cache[l][placed[g][i]] = <<g, i>>
    BY <1>5 DEF PlacesOf
  <2>2. ids # None /\ \A i, k \in 1 .. Size : placed[g][i] # ids[k]
    BY <1>5 DEF WriteOf
  <2>3. ASSUME NEW i \in 1 .. Size PROVE row[placed[g][i]] = cache[layer][placed[g][i]]
    <3>1. placed[g][i] \in Cells(c)
      BY <2>1 DEF Ids
    <3>2. \A k \in 1 .. Size : TargetBlockId(ids, k) # placed[g][i]
      BY <2>2 DEF TargetBlockId
    <3> QED BY <1>3, <3>1, <3>2
  <2>4. ASSUME NEW l \in Layers, NEW i \in 1 .. Size PROVE new[l][placed[g][i]] = <<g, i>>
    <3>1. cache[l][placed[g][i]] = <<g, i>> /\ cache[layer][placed[g][i]] = <<g, i>>
      BY <2>1
    <3>2. CASE l = layer
      BY <1>1, <2>3, <3>1, <3>2
    <3>3. CASE l # layer
      BY <1>1, <3>1, <3>3
    <3> QED BY <3>2, <3>3
  <2> QED BY <2>1, <2>4
<1>6. ASSUME ~pooled
      PROVE  /\ \A i \in 1 .. Size : placed[g][i] = i - 1
             /\ writers \cup {h} = {g} => \A l \in Layers, i \in 1 .. Size :
                    i <= c.slots => new[l][i - 1] = <<g, i>>
  <2>1. /\ \A i \in 1 .. Size : placed[g][i] = i - 1
        /\ writers = {g} => \A l \in Layers, i \in 1 .. Size :
               i <= c.slots => cache[l][i - 1] = <<g, i>>
    BY <1>6 DEF PlacesOf
  <2>2. ids = None
    BY <1>2, <1>6
  <2>3. ASSUME writers \cup {h} = {g}, NEW l \in Layers, NEW i \in 1 .. Size, i <= c.slots
        PROVE  new[l][i - 1] = <<g, i>>
    <3>1. writers = {g} /\ h = g
      BY <1>4, <2>3
    <3>2. TargetBlockId(ids, i) = i - 1 /\ i - 1 \in Cells(c)
      BY <2>2, <2>3, CellFacts
    <3>3. row[i - 1] = <<g, i>>
      BY <1>3, <3>1, <3>2
    <3>4. cache[l][i - 1] = <<g, i>>
      BY <2>1, <2>3, <3>1
    <3> QED BY <1>1, <3>3, <3>4
  <2> QED BY <2>1, <2>3
<1> QED BY <1>4, <1>5, <1>6

LEMMA RowMine ==
    ASSUME NEW cache, NEW free, NEW placed, NEW writers, NEW pooled, NEW shared, NEW c,
           NEW h \in Blocks, NEW ids \in Ids(c) \cup {None}, NEW done \in Nat, NEW layer \in Layers,
           NEW row, c.slots \in Nat, cache \in [Layers -> [Cells(c) -> Contents]],
           WriteOf(cache, free, placed, writers, pooled, shared, h, ids, done, c),
           row = Row(cache[layer], h, ids, c), layer = done + 1, Fits(c)
    PROVE  WriteOf([cache EXCEPT ![layer] = row], free, placed, writers \cup {h}, pooled, shared,
                   h, ids, done + 1, c)
<1> DEFINE new == [cache EXCEPT ![layer] = row]
<1>1. /\ cache[layer] \in [Cells(c) -> Contents]
      /\ new[layer] = row /\ \A l \in Layers : l # layer => new[l] = cache[l]
  OBVIOUS
<1>2. /\ ids = None => shared
      /\ ids # None =>
          /\ pooled /\ c.cache = "pooled" /\ Size <= c.slots
          /\ \A i, k \in 1 .. Size : ids[i] = ids[k] => i = k
          /\ \A i \in 1 .. Size, k \in DOMAIN free : ids[i] # free[k]
  BY DEF WriteOf
<1>3. \A i \in 1 .. Size : TargetBlockId(ids, i) \in Cells(c) => row[TargetBlockId(ids, i)] = <<h, i>>
  BY <1>1, <1>2, RowFacts
<1>4. \A l \in Layers : /\ l <= done + 1 => l = layer \/ l <= done
                        /\ l <= done => done > 0
  BY Depths, SMTT(30)
<1> HIDE DEF new
<1>5. ASSUME ~shared
      PROVE  /\ \A g \in DOMAIN placed : \A i, k \in 1 .. Size : placed[g][i] # ids[k]
             /\ \A l \in Layers, i \in 1 .. Size : l <= done + 1 => new[l][ids[i]] = <<h, i>>
  <2>1. /\ \A g \in DOMAIN placed : \A i, k \in 1 .. Size : placed[g][i] # ids[k]
        /\ \A l \in Layers, i \in 1 .. Size : l <= done => cache[l][ids[i]] = <<h, i>>
    BY <1>5 DEF WriteOf
  <2>2. \A i \in 1 .. Size : row[ids[i]] = <<h, i>>
    BY <1>2, <1>3, <1>5, CellFacts
  <2>3. ASSUME NEW l \in Layers, NEW i \in 1 .. Size, l <= done + 1 PROVE new[l][ids[i]] = <<h, i>>
    <3>1. CASE l = layer
      BY <1>1, <2>2, <3>1
    <3>2. CASE l # layer
      <4>1. new[l] = cache[l] /\ l <= done
        BY <1>1, <1>4, <2>3, <3>2
      <4> QED BY <2>1, <4>1
    <3> QED BY <3>1, <3>2
  <2> QED BY <2>1, <2>3
<1>6. ASSUME ~pooled, writers \cup {h} = {h}, NEW l \in Layers, NEW i \in 1 .. Size,
             l <= done + 1, i <= c.slots
      PROVE  new[l][i - 1] = <<h, i>>
  <2>1. CASE l = layer
    <3>1. TargetBlockId(ids, i) = i - 1 /\ i - 1 \in Cells(c)
      BY <1>2, <1>6, CellFacts
    <3> QED BY <1>1, <1>3, <2>1, <3>1
  <2>2. CASE l # layer
    <3>1. new[l] = cache[l] /\ l <= done /\ done > 0
      BY <1>1, <1>4, <1>6, <2>2
    <3>2. h \in writers
      BY <3>1 DEF WriteOf
    <3>3. writers = {h}
      BY <1>6, <3>2
    <3>4. cache[l][i - 1] = <<h, i>>
      BY <1>6, <3>1, <3>3 DEF WriteOf
    <3> QED BY <3>1, <3>4
  <2> QED BY <2>1, <2>2
<1> QED BY <1>2, <1>5, <1>6 DEF WriteOf, new

LEMMA RowOther ==
    ASSUME NEW cache, NEW free, NEW placed, NEW writers, NEW pooled, NEW shared, NEW c,
           NEW h \in Blocks, NEW ids \in Ids(c) \cup {None}, NEW done, NEW layer \in Layers,
           NEW row, c.slots \in Nat, cache \in [Layers -> [Cells(c) -> Contents]],
           WriteOf(cache, free, placed, writers, pooled, shared, h, ids, done, c),
           row = Row(cache[layer], h, ids, c),
           NEW g, NEW ids2 \in Ids(c) \cup {None}, NEW done2 \in Nat,
           WriteOf(cache, free, placed, writers, pooled, shared, g, ids2, done2, c),
           ids # None /\ ids2 # None => \A a, b \in 1 .. Size : ids[a] # ids2[b]
    PROVE  WriteOf([cache EXCEPT ![layer] = row], free, placed, writers \cup {h}, pooled, shared,
                   g, ids2, done2, c)
<1> DEFINE new == [cache EXCEPT ![layer] = row]
<1>1. /\ cache[layer] \in [Cells(c) -> Contents]
      /\ new[layer] = row /\ \A l \in Layers : l # layer => new[l] = cache[l]
  OBVIOUS
<1>2. /\ ids = None => shared
      /\ ids # None => pooled /\ \A i, k \in 1 .. Size : ids[i] = ids[k] => i = k
  BY DEF WriteOf
<1>3. /\ ids2 = None => shared
      /\ ids2 # None =>
          /\ pooled /\ c.cache = "pooled" /\ Size <= c.slots
          /\ \A i, k \in 1 .. Size : ids2[i] = ids2[k] => i = k
          /\ \A i \in 1 .. Size, k \in DOMAIN free : ids2[i] # free[k]
      /\ done2 > 0 => Fits(c) /\ g \in writers
  BY DEF WriteOf
<1>4. /\ \A i \in 1 .. Size : TargetBlockId(ids, i) \in Cells(c) => row[TargetBlockId(ids, i)] = <<h, i>>
      /\ \A s \in Cells(c) : (\A i \in 1 .. Size : TargetBlockId(ids, i) # s) => row[s] = cache[layer][s]
  BY <1>1, <1>2, RowFacts
<1>5. \A l \in Layers : l <= done2 => done2 > 0
  BY Depths, SMTT(30)
<1> HIDE DEF new
<1>6. ASSUME ~shared
      PROVE  /\ \A f \in DOMAIN placed : \A i, k \in 1 .. Size : placed[f][i] # ids2[k]
             /\ \A l \in Layers, i \in 1 .. Size : l <= done2 => new[l][ids2[i]] = <<g, i>>
  <2>1. /\ \A f \in DOMAIN placed : \A i, k \in 1 .. Size : placed[f][i] # ids2[k]
        /\ \A l \in Layers, i \in 1 .. Size : l <= done2 => cache[l][ids2[i]] = <<g, i>>
    BY <1>6 DEF WriteOf
  <2>2. ids # None /\ ids2 # None
    BY <1>2, <1>3, <1>6
  <2>3. ASSUME NEW i \in 1 .. Size PROVE row[ids2[i]] = cache[layer][ids2[i]]
    <3>1. ids2[i] \in Cells(c)
      BY <2>2, CellFacts
    <3>2. \A k \in 1 .. Size : TargetBlockId(ids, k) # ids2[i]
      BY <2>2 DEF TargetBlockId
    <3> QED BY <1>4, <3>1, <3>2
  <2>4. ASSUME NEW l \in Layers, NEW i \in 1 .. Size, l <= done2 PROVE new[l][ids2[i]] = <<g, i>>
    <3>1. cache[l][ids2[i]] = <<g, i>>
      BY <2>1, <2>4
    <3>2. CASE l = layer
      BY <1>1, <2>3, <3>1, <3>2
    <3>3. CASE l # layer
      BY <1>1, <3>1, <3>3
    <3> QED BY <3>2, <3>3
  <2> QED BY <2>1, <2>4
<1>7. ASSUME ~pooled, writers \cup {h} = {g}, NEW l \in Layers, NEW i \in 1 .. Size,
             l <= done2, i <= c.slots
      PROVE  new[l][i - 1] = <<g, i>>
  <2>1. g \in writers
    BY <1>3, <1>5, <1>7
  <2>2. writers = {g} /\ h = g
    BY <1>7, <2>1
  <2>3. cache[l][i - 1] = <<g, i>>
    BY <1>7, <2>2 DEF WriteOf
  <2>4. TargetBlockId(ids, i) = i - 1 /\ i - 1 \in Cells(c)
    BY <1>2, <1>7, CellFacts
  <2>5. row[i - 1] = <<g, i>>
    BY <1>4, <2>2, <2>4
  <2>6. CASE l = layer
    BY <1>1, <2>5, <2>6
  <2>7. CASE l # layer
    BY <1>1, <2>3, <2>7
  <2> QED BY <2>6, <2>7
<1> QED BY <1>3, <1>6, <1>7 DEF WriteOf, new

LEMMA TodoNext ==
    ASSUME NEW h, NEW todo \in Seq(Nat), todo # <<>>, NEW done, TodoSound(h, todo, done)
    PROVE  /\ done \in Nat /\ Head(todo) = done + 1
           /\ Tail(todo) \in Seq(Nat) /\ Depth(h) - Len(Tail(todo)) = done + 1
           /\ Head(todo) \notin Layers => h \in Foreign
           /\ Head(todo) \in Layers => TodoSound(h, Tail(todo), done + 1)
<1>1. PICK n, m, d : n = Len(todo) /\ m = Cardinality(Layers) /\ d = Depth(h)
  OBVIOUS
<1>2. n \in Nat /\ n > 0 /\ n <= d /\ d \in Nat /\ done = d - n /\ m \in Nat /\ Layers = 1 .. m
  <2>1. n \in Nat /\ n > 0
    BY <1>1, SMTT(30)
  <2> QED BY <1>1, <2>1, Depths DEF TodoSound
<1>3. (h \notin Foreign => d = m) /\ (h \in Foreign => d = m + 1)
  BY <1>1, Depths
<1>4. \A i \in 1 .. n : todo[i] = done + i
  BY <1>1 DEF TodoSound
<1>5. done \in Nat /\ 1 \in 1 .. n /\ d - (n - 1) = done + 1 /\ n - 1 <= d /\ n - 1 \in Nat
  BY <1>2, SMTT(30)
<1>6. Head(todo) = done + 1
  BY <1>4, <1>5
<1>7. PICK tail : tail = Tail(todo)
  OBVIOUS
<1>8. tail \in Seq(Nat) /\ Len(tail) = n - 1
  BY <1>1, <1>7, Tailed
<1>9. \A i \in 1 .. n - 1 : tail[i] = todo[i + 1]
  BY <1>1, <1>7, Tailed
<1>10. \A i \in 1 .. n - 1 : tail[i] = (done + 1) + i
  <2> TAKE i \in 1 .. n - 1
  <2>1. i + 1 \in 1 .. n /\ done + (i + 1) = (done + 1) + i
    BY <1>2, <1>5, SMTT(30)
  <2> QED BY <1>4, <1>9, <2>1
<1>11. Head(todo) \notin Layers => h \in Foreign
  <2>1. d = m => done + 1 \in 1 .. m
    BY <1>2, <1>5, SMTT(30)
  <2> QED BY <1>2, <1>3, <1>6, <2>1
<1>12. Head(todo) \in Layers /\ h \in Foreign => tail # <<>>
  <2>1. d = m + 1 /\ done + 1 \in 1 .. m => n - 1 > 0
    BY <1>2, <1>5, SMTT(30)
  <2>2. tail = <<>> => n - 1 = 0
    BY <1>8
  <2>3. ~(0 > 0)
    BY SMTT(30)
  <2> QED BY <1>2, <1>3, <1>6, <2>1, <2>2, <2>3
<1>13. Head(todo) \in Layers => TodoSound(h, tail, done + 1)
  BY <1>1, <1>5, <1>8, <1>10, <1>12 DEF TodoSound
<1> QED BY <1>1, <1>5, <1>6, <1>7, <1>8, <1>11, <1>13

LEMMA AnswersFail ==
    ASSUME RegisterFailsForCause, Grows, NEW t \in Threads, Others(t), job'[t].answer = "failed",
           \/ job'[t].hash \in Foreign
           \/ IF conf.cache = "separate" THEN Slots > Size ELSE Slots < Size
    PROVE  RegisterFailsForCause'
<1>1. (NeverKilled' <=> NeverKilled) /\ conf' = conf /\ Slots' = Slots
  BY DEF Slots, Grows, NeverKilled, Restarts
<1>2. ASSUME NEW u \in Threads, job'[u].kind = "register", job'[u].answer # "none",
             conf'.serial, NeverKilled'
      PROVE  (job'[u].answer = "failed" <=>
                \/ job'[u].hash \in Foreign
                \/ IF conf'.cache = "separate" THEN Slots' > Size ELSE Slots' < Size)
  <2>1. CASE u = t
    BY <1>1, <2>1
  <2>2. CASE u # t
    <3>1. job'[u] = job[u]
      BY <2>2 DEF Others
    <3> QED BY <1>1, <1>2, <3>1 DEF RegisterFailsForCause
  <2> QED BY <2>1, <2>2
<1> QED BY <1>2 DEF RegisterFailsForCause

Wrote(rt, writers, cache) == [rt EXCEPT !.writers = writers, !.cache = cache]

(* The runtime a written layer leaves, and what it means for the others. *)
LEMMA WriteLeaves ==
    ASSUME Core, NEW t \in Threads, WriteLayer(t), Head(job[t].todo) \in Layers
    PROVE  \E new \in Runtimes(conf) :
             /\ runtimes' = [runtimes EXCEPT ![job[t].rt] = new]
             /\ PoolSound(new, conf) /\ PlacesSound(new, conf) /\ KnowsSound(new, conf)
             /\ new.placed = Runtime(t).placed
             /\ new.registered_hashes = Runtime(t).registered_hashes
             /\ new.last_continuation = Runtime(t).last_continuation
             /\ new.last_register_payload = Runtime(t).last_register_payload
             /\ Fits(conf) => WriteOf(new.cache, new.free, new.placed, new.writers, new.pooled,
                                      new.shared, job[t].hash, job[t].ids, Done(job[t]) + 1, conf)
             /\ \A u \in Threads \ {t} : At(u, "write") /\ job[u].rt = job[t].rt =>
                   WriteSound(new, job[u], conf)
<1>0. /\ VllmTypes /\ SlotsSound /\ JobFlow(job[t]) /\ At(t, "write") /\ job[t].at = "write"
      /\ job[t].kind = "register" /\ job[t].hash \in Blocks /\ job[t].todo # <<>>
      /\ job[t] \in Jobs(conf) /\ conf.slots \in Nat
  BY VllmAssumption DEF Core, JobFlow, WriteLayer, At, VllmTypes, Deployments
<1>1. /\ job[t].rt \in DOMAIN runtimes /\ Runtime(t) = runtimes[job[t].rt]
      /\ Runtime(t) \in Runtimes(conf)
  BY <1>0, HasRuntime
<1>21. PICK layer \in Layers, ids \in Ids(conf) \cup {None}, h \in Blocks :
          layer = Head(job[t].todo) /\ ids = job[t].ids /\ h = job[t].hash
  <2>1. job[t].ids \in Ids(conf) \cup {None}
    BY <1>0 DEF Jobs
  <2> QED BY <1>0, <2>1
<1>22. PICK c, rt, row : c = conf /\ rt = Runtime(t) /\ row = Row(Runtime(t).cache[layer], h, ids, conf)
  OBVIOUS
<1>2. /\ c = conf /\ rt = Runtime(t) /\ layer = Head(job[t].todo) /\ ids = job[t].ids
      /\ h = job[t].hash /\ row = Row(rt.cache[layer], h, ids, c)
  BY <1>21, <1>22
<1>3. /\ WriteSound(rt, job[t], c) /\ PoolSound(rt, c) /\ PlacesSound(rt, c) /\ KnowsSound(rt, c)
      /\ rt \in Runtimes(c) /\ c.slots \in Nat /\ ids \in Ids(c) \cup {None}
  <2>1. \A r \in DOMAIN runtimes : KnowsSound(runtimes[r], conf)
    BY HashesParts DEF Core
  <2> QED BY <1>0, <1>1, <1>2, <2>1 DEF SlotsSound
<1>4. /\ rt.cache \in [Layers -> [Cells(c) -> Contents]] /\ rt.writers \subseteq Blocks
      /\ rt.cache[layer] \in [Cells(c) -> Contents]
  BY <1>3 DEF Runtimes
<1>5. PICK done : /\ done = Done(job[t]) /\ TodoSound(h, job[t].todo, done)
                  /\ WriteOf(rt.cache, rt.free, rt.placed, rt.writers, rt.pooled, rt.shared, h, ids, done, c)
  BY <1>2, <1>3 DEF WriteSound
<1>6. done \in Nat /\ layer = done + 1
  <2>1. job[t].todo \in Seq(Nat)
    BY <1>0 DEF Jobs
  <2>2. PICK todo \in Seq(Nat) : todo = job[t].todo
    BY <2>1
  <2>3. todo # <<>> /\ TodoSound(h, todo, done) /\ layer = Head(todo)
    BY <1>0, <1>2, <1>5, <2>2
  <2> QED BY <2>3, TodoNext, ZenonT(60)
<1>7. row \in [Cells(c) -> Contents]
  <2>1. ids # None => \A i, k \in 1 .. Size : ids[i] = ids[k] => i = k
    BY <1>5 DEF WriteOf
  <2>2. PICK old \in [Cells(c) -> Contents] : old = rt.cache[layer]
    BY <1>4
  <2>3. c.slots \in Nat /\ ids \in Ids(c) \cup {None} /\ h \in Blocks
    BY <1>3
  <2>4. Row(old, h, ids, c) \in [Cells(c) -> Contents]
    BY <2>1, <2>3, RowFacts
  <2> QED BY <1>2, <2>2, <2>4
<1>8. PICK cache, writers : cache = [rt.cache EXCEPT ![layer] = row] /\ writers = rt.writers \cup {h}
  OBVIOUS
<1>9. cache \in [Layers -> [Cells(c) -> Contents]] /\ writers \subseteq Blocks
  BY <1>4, <1>7, <1>8
<1> DEFINE m == Wrote(rt, writers, cache)
<1>10. m \in Runtimes(c)
  BY <1>3, <1>9 DEF Runtimes, Wrote
<1>11. /\ m.registered_hashes = rt.registered_hashes /\ m.last_register_payload = rt.last_register_payload
       /\ m.last_continuation = rt.last_continuation
  BY <1>3 DEF Runtimes, Wrote
<1>12. m.free = rt.free /\ m.pooled = rt.pooled /\ m.shared = rt.shared /\ m.placed = rt.placed
  BY <1>3 DEF Runtimes, Wrote
<1>13. m.cache = cache /\ m.writers = writers
  BY <1>3 DEF Runtimes, Wrote
<1>14. PICK new \in Runtimes(c) :
         /\ new = Wrote(rt, writers, cache)
         /\ new.registered_hashes = rt.registered_hashes
         /\ new.last_register_payload = rt.last_register_payload
         /\ new.last_continuation = rt.last_continuation
         /\ new.free = rt.free /\ new.pooled = rt.pooled /\ new.shared = rt.shared
         /\ new.placed = rt.placed /\ new.cache = cache /\ new.writers = writers
  <2> HIDE DEF m
  <2>1. m = Wrote(rt, writers, cache)
    BY DEF m
  <2> QED BY <1>10, <1>11, <1>12, <1>13, <2>1
<1> HIDE DEF m
<1>15. runtimes' = [runtimes EXCEPT ![job[t].rt] = new]
  <2>1. runtimes' = [runtimes EXCEPT ![job[t].rt] =
            Wrote(runtimes[job[t].rt], Runtime(t).writers \cup {job[t].hash},
                  [Runtime(t).cache EXCEPT ![Head(job[t].todo)] =
                     Row(Runtime(t).cache[Head(job[t].todo)], job[t].hash, job[t].ids, conf)])]
    BY DEF WriteLayer, Row, From, Slots, Wrote
  <2> QED BY <1>1, <1>2, <1>8, <1>14, <2>1
<1>16. PoolSound(new, c)
  <2>1. PoolSound(rt, c) /\ new.free = rt.free
    BY <1>3, <1>14
  <2> QED BY <2>1 DEF PoolSound
<1>17. PlacesSound(new, c)
  <2>1. PlacesOf(rt.cache, rt.free, rt.placed, rt.writers, rt.pooled, rt.shared, c)
    BY <1>3 DEF PlacesSound
  <2>2. PlacesOf(cache, rt.free, rt.placed, writers, rt.pooled, rt.shared, c)
    BY <1>2, <1>3, <1>4, <1>5, <1>8, <2>1, RowPlaces
  <2> QED BY <1>14, <2>2 DEF PlacesSound
<1>18. KnowsSound(new, c)
  BY <1>3, <1>14, KnowsAlike
<1>19. Fits(c) => WriteOf(new.cache, new.free, new.placed, new.writers, new.pooled,
                          new.shared, h, ids, done + 1, c)
  <2>1. Fits(c) => WriteOf(cache, rt.free, rt.placed, writers, rt.pooled, rt.shared, h, ids, done + 1, c)
    BY <1>2, <1>3, <1>4, <1>5, <1>6, <1>8, RowMine
  <2> QED BY <1>14, <2>1
<1>20. ASSUME NEW u \in Threads \ {t}, At(u, "write"), job[u].rt = job[t].rt
       PROVE  WriteSound(new, job[u], c)
  <2>1. Runtime(u) = rt /\ job[u] \in Jobs(conf)
    BY <1>0, <1>2, <1>20 DEF Runtime, VllmTypes
  <2>2. WriteSound(rt, job[u], c)
    BY <1>0, <1>2, <1>20, <2>1 DEF SlotsSound
  <2>7. job[u].ids \in Ids(c) \cup {None}
    BY <1>2, <2>1 DEF Jobs
  <2>3. PICK ids2, done2, g :
          /\ ids2 = job[u].ids /\ done2 = Done(job[u]) /\ g = job[u].hash
          /\ ids2 \in Ids(c) \cup {None}
          /\ TodoSound(g, job[u].todo, done2)
          /\ WriteOf(rt.cache, rt.free, rt.placed, rt.writers, rt.pooled, rt.shared, g, ids2, done2, c)
    BY <2>2, <2>7 DEF WriteSound
  <2>4. done2 \in Nat
    <3>1. Len(job[u].todo) \in Nat
      <4>1. job[u].todo \in Seq(Nat)
        BY <2>1 DEF Jobs
      <4> QED BY <4>1
    <3>2. Len(job[u].todo) <= Depth(g) /\ done2 = Depth(g) - Len(job[u].todo) /\ Depth(g) \in Nat
      BY <2>3, Depths DEF TodoSound
    <3> QED BY <3>1, <3>2, SMTT(30)
  <2>5. ids # None /\ ids2 # None => \A a, b \in 1 .. Size : ids[a] # ids2[b]
    BY <1>0, <1>2, <1>20, <2>3 DEF SlotsSound, Apart
  <2>6. WriteOf(cache, rt.free, rt.placed, writers, rt.pooled, rt.shared, g, ids2, done2, c)
    BY <1>2, <1>3, <1>4, <1>5, <1>8, <2>3, <2>4, <2>5, RowOther
  <2> QED BY <1>14, <2>3, <2>6 DEF WriteSound
<1> QED BY <1>2, <1>5, <1>14, <1>15, <1>16, <1>17, <1>18, <1>19, <1>20

LEMMA WriteStep ==
    ASSUME VllmInv, NEW t \in Threads, WriteLayer(t)
    PROVE  VllmInv'
<1>0. /\ Core /\ VllmTypes /\ SlotsSound /\ JobFlow(job[t]) /\ At(t, "write") /\ job[t].at = "write"
      /\ job[t].kind = "register" /\ job[t].hash \in Blocks /\ job[t].answer = "none"
      /\ job[t].rt # 0 /\ job[t].rt \in 0 .. Len(runtimes) /\ job[t].todo # <<>>
      /\ job \in [Threads -> Jobs(conf)] /\ job[t] \in Jobs(conf) /\ runtimes \in Seq(Runtimes(conf))
      /\ conf.slots \in Nat /\ Size \in Nat
  BY VllmAssumption DEF VllmInv, Core, JobFlow, WriteLayer, At, VllmTypes, Deployments
<1>1. /\ job[t].rt \in DOMAIN runtimes /\ Runtime(t) = runtimes[job[t].rt]
      /\ Runtime(t) \in Runtimes(conf)
  BY <1>0, HasRuntime
<1>2. /\ conf' = conf /\ singleton' = singleton /\ memory' = memory /\ file' = file
      /\ acked' = acked /\ budget' = budget /\ export' = export
  BY DEF WriteLayer, Raise
<1>3. PICK todo \in Seq(Nat) : todo = job[t].todo
  BY <1>0 DEF Jobs
<1>4. WriteSound(Runtime(t), job[t], conf) /\ TodoSound(job[t].hash, todo, Done(job[t]))
  BY <1>0, <1>3 DEF SlotsSound, WriteSound
<1>5. PICK done, h : done = Done(job[t]) /\ h = job[t].hash
  OBVIOUS
<1>6. /\ done \in Nat /\ Tail(todo) \in Seq(Nat) /\ Depth(h) - Len(Tail(todo)) = done + 1
      /\ Head(todo) \notin Layers => h \in Foreign
      /\ Head(todo) \in Layers => TodoSound(h, Tail(todo), done + 1)
  BY <1>0, <1>3, <1>4, <1>5, TodoNext
<1>7. CASE Head(todo) \notin Layers
  <2>1. Answer(t, "failed") /\ runtimes' = runtimes
    BY <1>3, <1>7 DEF WriteLayer, Raise
  <2>2. job[t].at \notin {"idle", "resolve", "create", "baseline"} \cup Filing
    BY <1>0 DEF Filing
  <2>3. Core' /\ Grows /\ Others(t) /\ Alike(job'[t], job[t]) /\ job'[t].answer = "failed"
    BY <1>0, <1>2, <2>1, <2>2, EndStep
  <2>4. job'[t].hash \in Foreign
    BY <1>5, <1>6, <1>7, <2>3 DEF Alike
  <2> QED BY <1>2, <2>3, <2>4, AnswersFail, ReverseKept DEF VllmInv
<1>8. CASE Head(todo) \in Layers
  <2>1. PICK new \in Runtimes(conf) :
             /\ runtimes' = [runtimes EXCEPT ![job[t].rt] = new]
             /\ PoolSound(new, conf) /\ PlacesSound(new, conf) /\ KnowsSound(new, conf)
             /\ new.placed = Runtime(t).placed
             /\ new.registered_hashes = Runtime(t).registered_hashes
             /\ new.last_continuation = Runtime(t).last_continuation
             /\ new.last_register_payload = Runtime(t).last_register_payload
             /\ Fits(conf) => WriteOf(new.cache, new.free, new.placed, new.writers, new.pooled,
                                      new.shared, job[t].hash, job[t].ids, Done(job[t]) + 1, conf)
             /\ \A u \in Threads \ {t} : At(u, "write") /\ job[u].rt = job[t].rt =>
                   WriteSound(new, job[u], conf)
    BY <1>0, <1>3, <1>8, WriteLeaves
  <2>2. /\ Len(runtimes') = Len(runtimes) /\ DOMAIN runtimes' = DOMAIN runtimes
        /\ runtimes'[job[t].rt] = new
        /\ \A v \in DOMAIN runtimes \ {job[t].rt} : runtimes'[v] = runtimes[v]
    BY <1>0, <1>1, <2>1, Replaced, SMTT(30)
  <2>3. ASSUME Others(t), job'[t].rt = job[t].rt, JobFlow(job[t])', JobKnows(job[t])',
               JobAlone(job[t])',
               At(t, "write")' => WriteSound(new, job'[t], conf) /\ job'[t].ids = job[t].ids
        PROVE  Core' /\ Grows
    <3>1. \A u \in Threads \ {t} : At(u, "write") /\ job[u].rt = job[t].rt =>
               /\ WriteSound(new, job[u], conf)
               /\ At(t, "write")' /\ job'[t].ids # None /\ job[u].ids # None =>
                     Apart(job'[t], job[u])
      <4> SUFFICES ASSUME NEW u \in Threads \ {t}, At(u, "write"), job[u].rt = job[t].rt
                   PROVE  /\ WriteSound(new, job[u], conf)
                          /\ At(t, "write")' /\ job'[t].ids # None /\ job[u].ids # None =>
                                Apart(job'[t], job[u])
        OBVIOUS
      <4>1. job[t].ids # None /\ job[u].ids # None => Apart(job[t], job[u])
        BY <1>0 DEF SlotsSound
      <4> QED BY <2>1, <2>3, <4>1 DEF Apart
    <3>2. conf.serial => LastSound'
      <4>1. conf.serial => LastSound
        BY <1>0, SerialParts DEF Core
      <4>2. job[t].at \notin Filing
        BY <1>0 DEF Filing
      <4>3. \A v \in DOMAIN runtimes :
                /\ runtimes'[v].last_register_payload = runtimes[v].last_register_payload
                /\ runtimes'[v].registered_hashes = runtimes[v].registered_hashes
        BY <1>1, <2>1, <2>2
      <4> QED BY <1>2, <2>2, <2>3, <4>1, <4>2, <4>3, LastKept
    <3>3. /\ DOMAIN Runtime(t).placed \subseteq DOMAIN new.placed
          /\ Runtime(t).last_register_payload # None => new.last_register_payload # None
          /\ job[t].at \in {"allocate", "write"}
      BY <1>0, <2>1
    <3>4. At(t, "write")' => WriteSound(new, job'[t], conf)
      BY <2>3
    <3> QED BY <1>0, <1>2, <2>1, <2>3, <3>1, <3>2, <3>3, <3>4, SlotStep
  <2>4. CASE LayerEnds(t)
    <3> DEFINE n == [job[t] EXCEPT !.todo = Tail(todo)]
    <3>1. /\ n \in Jobs(conf) /\ n.at = job[t].at /\ n.kind = job[t].kind /\ n.hash = job[t].hash
          /\ n.rt = job[t].rt /\ n.answer = job[t].answer /\ n.ids = job[t].ids /\ n.todo = Tail(todo)
      BY <1>0, <1>6 DEF Jobs
    <3>2. PICK j \in Jobs(conf) :
          /\ j = n /\ j.at = job[t].at /\ j.kind = job[t].kind /\ j.hash = job[t].hash
          /\ j.rt = job[t].rt /\ j.answer = job[t].answer /\ j.ids = job[t].ids /\ j.todo = Tail(todo)
      BY <3>1
    <3>3. job' = [job EXCEPT ![t] = j]
      BY <1>3, <1>8, <2>4, <3>2 DEF WriteLayer
    <3> HIDE DEF n
    <3>4. job' \in [Threads -> Jobs(conf)] /\ job'[t] = j /\ \A u \in Threads \ {t} : job'[u] = job[u]
      BY <1>0, <3>3
    <3>5. Others(t)
      BY <3>4 DEF Others
    <3>6. JobFlow(job[t])'
      BY <1>0, <1>2, <2>2, <3>2, <3>4 DEF JobFlow, Filing, Verifying
    <3>7. JobKnows(job[t])' /\ JobAlone(job[t])'
      BY <1>0, <3>2, <3>4 DEF JobKnows, JobAlone, Filing, Verifying
    <3>8. Fits(conf)
      <4>1. job[t].ids # None => conf.cache = "pooled" /\ Size <= conf.slots
        BY <1>4 DEF WriteSound, WriteOf
      <4> QED BY <2>4, <4>1 DEF LayerEnds, Fits, Slots
    <3>9. Done(j) = done + 1
      BY <1>5, <1>6, <3>2 DEF Done
    <3>10. WriteSound(new, j, conf)
      <4>1. TodoSound(j.hash, j.todo, Done(j))
        BY <1>5, <1>6, <1>8, <3>2, <3>9
      <4>2. WriteOf(new.cache, new.free, new.placed, new.writers, new.pooled,
                    new.shared, j.hash, j.ids, Done(j), conf)
        BY <1>5, <2>1, <3>2, <3>8, <3>9
      <4> QED BY <4>1, <4>2 DEF WriteSound
    <3>11. Core' /\ Grows
      BY <2>3, <3>2, <3>4, <3>5, <3>6, <3>7, <3>10
    <3>12. job'[t].answer = "none"
      BY <1>0, <3>2, <3>4
    <3> QED BY <1>2, <3>5, <3>11, <3>12, AnswersKept, ReverseKept DEF VllmInv
  <2>5. CASE ~LayerEnds(t)
    <3>1. Answer(t, "failed")
      BY <1>3, <1>8, <2>5 DEF WriteLayer
    <3>2. Others(t) /\ job'[t].at = "idle" /\ Alike(job'[t], job[t]) /\ job'[t].answer = "failed"
      BY <1>0, <3>1, AnswerFacts
    <3>3. /\ job'[t].kind = job[t].kind /\ job'[t].hash = job[t].hash /\ job'[t].rt = job[t].rt
          /\ job'[t].at = "idle" /\ job'[t].answer = "failed"
      BY <3>2 DEF Alike
    <3>4. JobFlow(job[t])'
      BY <1>0, <1>2, <2>2, <3>3 DEF JobFlow, Filing, Verifying
    <3>5. JobKnows(job[t])' /\ JobAlone(job[t])'
      BY <1>0, <3>3 DEF JobKnows, JobAlone, Filing, Verifying
    <3>6. ~At(t, "write")'
      BY <3>3 DEF At
    <3>7. Core' /\ Grows
      BY <2>3, <3>2, <3>3, <3>4, <3>5, <3>6
    <3>8. IF conf.cache = "separate" THEN Slots > Size ELSE Slots < Size
      BY <1>0, <2>5, SMTT(30) DEF LayerEnds, Slots
    <3> QED BY <1>2, <3>2, <3>7, <3>8, AnswersFail, ReverseKept DEF VllmInv
  <2> QED BY <2>4, <2>5
<1> QED BY <1>7, <1>8

(* A payload is in place: its blocks join those placed before. *)
CellsOf(ids) == [i \in 1 .. Size |-> TargetBlockId(ids, i)]
Placed(placed, h, cells) ==
    [g \in DOMAIN placed \cup {h} |-> IF g = h THEN cells ELSE placed[g]]

LEMMA TodoEmpty ==
    ASSUME NEW h, NEW done, TodoSound(h, <<>>, done)
    PROVE  h \notin Foreign /\ done \in Nat /\ done > 0 /\ \A l \in Layers : l <= done
<1>1. Len(<<>>) = 0
  OBVIOUS
<1>2. h \notin Foreign /\ done = Depth(h) - 0
  BY <1>1 DEF TodoSound
<1>3. Depth(h) = Cardinality(Layers) /\ Cardinality(Layers) \in Nat /\ Cardinality(Layers) > 0
      /\ Layers = 1 .. Cardinality(Layers)
  BY <1>2, Depths
<1>4. done = Cardinality(Layers)
  BY <1>2, <1>3, SMTT(30)
<1> QED BY <1>2, <1>3, <1>4, SMTT(30)

LEMMA CellsFacts ==
    ASSUME NEW c, c.slots \in Nat, NEW ids \in Ids(c) \cup {None}
    PROVE  /\ CellsOf(ids) \in [1 .. Size -> Nat]
           /\ \A i \in 1 .. Size : CellsOf(ids)[i] = TargetBlockId(ids, i)
           /\ ids # None => CellsOf(ids) = ids /\ ids \in Ids(c)
<1>1. \A i \in 1 .. Size : TargetBlockId(ids, i) \in Nat
  BY CellFacts
<1>2. CellsOf(ids) \in [1 .. Size -> Nat]
  BY <1>1 DEF CellsOf
<1>3. ASSUME ids # None PROVE CellsOf(ids) = ids /\ ids \in Ids(c)
  <2>1. ids \in [1 .. Size -> Cells(c)] /\ ids \in Ids(c)
    BY <1>3 DEF Ids
  <2>2. CellsOf(ids) = [i \in 1 .. Size |-> ids[i]]
    BY <1>3 DEF CellsOf, TargetBlockId
  <2> QED BY <2>1, <2>2
<1> QED BY <1>2, <1>3 DEF CellsOf

LEMMA PutPlaces ==
    ASSUME NEW cache, NEW free, NEW placed, NEW writers, NEW pooled, NEW shared, NEW c,
           NEW h, NEW ids \in Ids(c) \cup {None}, NEW done \in Nat, c.slots \in Nat,
           PlacesOf(cache, free, placed, writers, pooled, shared, c),
           WriteOf(cache, free, placed, writers, pooled, shared, h, ids, done, c),
           h \notin Foreign, done > 0, \A l \in Layers : l <= done
    PROVE  PlacesOf(cache, free, Placed(placed, h, CellsOf(ids)), writers, pooled, shared, c)
<1>0. PICK put : put = Placed(placed, h, CellsOf(ids))
  OBVIOUS
<1>1. /\ DOMAIN put = DOMAIN placed \cup {h} /\ put[h] = CellsOf(ids)
      /\ \A g \in DOMAIN placed : g # h => put[g] = placed[g]
  BY <1>0 DEF Placed
<1>2. Fits(c) /\ h \in writers
  BY DEF WriteOf
<1>3. ASSUME ~shared
      PROVE  /\ put[h] \in Ids(c)
             /\ \A i \in 1 .. Size, k \in DOMAIN free : put[h][i] # free[k]
             /\ \A l \in Layers, i \in 1 .. Size : cache[l][put[h][i]] = <<h, i>>
  <2>1. ids # None
    BY <1>3 DEF WriteOf
  <2>2. put[h] = ids /\ ids \in Ids(c)
    BY <1>1, <2>1, CellsFacts
  <2>3. \A i \in 1 .. Size, k \in DOMAIN free : ids[i] # free[k]
    BY <2>1 DEF WriteOf
  <2>4. \A l \in Layers, i \in 1 .. Size : cache[l][ids[i]] = <<h, i>>
    BY <1>3 DEF WriteOf
  <2> QED BY <2>2, <2>3, <2>4
<1>4. ASSUME ~pooled
      PROVE  /\ \A i \in 1 .. Size : put[h][i] = i - 1
             /\ writers = {h} => \A l \in Layers, i \in 1 .. Size :
                    i <= c.slots => cache[l][i - 1] = <<h, i>>
  <2>1. ids = None
    BY <1>4 DEF WriteOf
  <2>2. \A i \in 1 .. Size : put[h][i] = i - 1
    <3>1. ASSUME NEW i \in 1 .. Size PROVE put[h][i] = i - 1
      <4>1. CellsOf(ids)[i] = TargetBlockId(ids, i)
        BY CellsFacts
      <4>2. TargetBlockId(ids, i) = i - 1
        BY <2>1, CellFacts
      <4> QED BY <1>1, <4>1, <4>2
    <3> QED BY <3>1
  <2>3. writers = {h} => \A l \in Layers, i \in 1 .. Size :
                    i <= c.slots => cache[l][i - 1] = <<h, i>>
    BY <1>4 DEF WriteOf
  <2> QED BY <2>2, <2>3
<1>5. ASSUME NEW g \in DOMAIN put
      PROVE  /\ Fits(c) /\ g \in writers /\ g \notin Foreign
             /\ ~shared =>
                   /\ put[g] \in Ids(c)
                   /\ \A i \in 1 .. Size, k \in DOMAIN free : put[g][i] # free[k]
                   /\ \A l \in Layers, i \in 1 .. Size : cache[l][put[g][i]] = <<g, i>>
             /\ ~pooled =>
                   /\ \A i \in 1 .. Size : put[g][i] = i - 1
                   /\ writers = {g} => \A l \in Layers, i \in 1 .. Size :
                          i <= c.slots => cache[l][i - 1] = <<g, i>>
  <2>1. CASE g = h
    BY <1>2, <1>3, <1>4, <2>1
  <2>2. CASE g # h
    <3>1. g \in DOMAIN placed /\ put[g] = placed[g]
      BY <1>1, <2>2
    <3>2. Fits(c) /\ g \in writers /\ g \notin Foreign
      BY <3>1 DEF PlacesOf
    <3>3. ~shared =>
                   /\ placed[g] \in Ids(c)
                   /\ \A i \in 1 .. Size, k \in DOMAIN free : placed[g][i] # free[k]
                   /\ \A l \in Layers, i \in 1 .. Size : cache[l][placed[g][i]] = <<g, i>>
      BY <3>1 DEF PlacesOf
    <3>4. ~pooled =>
                   /\ \A i \in 1 .. Size : placed[g][i] = i - 1
                   /\ writers = {g} => \A l \in Layers, i \in 1 .. Size :
                          i <= c.slots => cache[l][i - 1] = <<g, i>>
      BY <3>1 DEF PlacesOf
    <3> QED BY <3>1, <3>2, <3>3, <3>4
  <2> QED BY <2>1, <2>2
<1>6. PlacesOf(cache, free, put, writers, pooled, shared, c)
  BY <1>5 DEF PlacesOf
<1> QED BY <1>0, <1>6

LEMMA PutOther ==
    ASSUME NEW cache, NEW free, NEW placed, NEW writers, NEW pooled, NEW shared, NEW c,
           NEW h, NEW ids \in Ids(c) \cup {None}, c.slots \in Nat, ids = None => shared,
           NEW g, NEW ids2, NEW done2,
           WriteOf(cache, free, placed, writers, pooled, shared, g, ids2, done2, c),
           ids # None /\ ids2 # None => \A a, b \in 1 .. Size : ids[a] # ids2[b]
    PROVE  WriteOf(cache, free, Placed(placed, h, CellsOf(ids)), writers, pooled, shared, g, ids2, done2, c)
<1>0. PICK put : put = Placed(placed, h, CellsOf(ids))
  OBVIOUS
<1>1. /\ DOMAIN put = DOMAIN placed \cup {h} /\ put[h] = CellsOf(ids)
      /\ \A f \in DOMAIN placed : f # h => put[f] = placed[f]
  BY <1>0 DEF Placed
<1>2. /\ ids2 = None => shared
      /\ ids2 # None =>
          /\ pooled /\ c.cache = "pooled" /\ Size <= c.slots
          /\ \A i, k \in 1 .. Size : ids2[i] = ids2[k] => i = k
          /\ \A i \in 1 .. Size, k \in DOMAIN free : ids2[i] # free[k]
      /\ done2 > 0 => Fits(c) /\ g \in writers
  BY DEF WriteOf
<1>3. ~shared =>
          /\ \A f \in DOMAIN placed : \A i, k \in 1 .. Size : placed[f][i] # ids2[k]
          /\ \A l \in Layers, i \in 1 .. Size : l <= done2 => cache[l][ids2[i]] = <<g, i>>
  BY DEF WriteOf
<1>4. ~pooled /\ writers = {g} =>
          \A l \in Layers, i \in 1 .. Size :
             l <= done2 /\ i <= c.slots => cache[l][i - 1] = <<g, i>>
  BY DEF WriteOf
<1>5. ASSUME ~shared, NEW f \in DOMAIN put PROVE \A i, k \in 1 .. Size : put[f][i] # ids2[k]
  <2>1. CASE f = h
    <3>1. put[h] = ids /\ ids # None /\ ids2 # None
      BY <1>1, <1>2, <1>5, CellsFacts
    <3> QED BY <2>1, <3>1
  <2>2. CASE f # h
    BY <1>1, <1>3, <1>5, <2>2
  <2> QED BY <2>1, <2>2
<1>6. WriteOf(cache, free, put, writers, pooled, shared, g, ids2, done2, c)
  BY <1>2, <1>3, <1>4, <1>5 DEF WriteOf
<1> QED BY <1>0, <1>6

Remembers(rt, placed, last) == [rt EXCEPT !.placed = placed, !.last_register_payload = last]

LEMMA EndRegisterStep ==
    ASSUME VllmInv, NEW t \in Threads, EndRegister(t)
    PROVE  VllmInv'
<1>0. /\ Core /\ VllmTypes /\ SlotsSound /\ JobFlow(job[t]) /\ At(t, "write") /\ job[t].at = "write"
      /\ job[t].kind = "register" /\ job[t].hash \in Blocks /\ job[t].answer = "none"
      /\ job[t].rt # 0 /\ job[t].rt \in 0 .. Len(runtimes) /\ job[t].todo = <<>>
      /\ job[t] \in Jobs(conf) /\ runtimes \in Seq(Runtimes(conf)) /\ conf.slots \in Nat
  BY VllmAssumption DEF VllmInv, Core, JobFlow, EndRegister, At, VllmTypes, Deployments
<1>1. /\ job[t].rt \in DOMAIN runtimes /\ Runtime(t) = runtimes[job[t].rt]
      /\ Runtime(t) \in Runtimes(conf)
  BY <1>0, HasRuntime
<1>2. /\ conf' = conf /\ singleton' = singleton /\ memory' = memory /\ file' = file
      /\ acked' = acked /\ budget' = budget /\ export' = export
  BY DEF EndRegister
<1>3. PICK c, rt, ids, h, done :
         /\ c = conf /\ rt = Runtime(t) /\ ids = job[t].ids /\ h = job[t].hash /\ done = Done(job[t])
  OBVIOUS
<1>4. ids \in Ids(c) \cup {None} /\ h \in Blocks /\ c.slots \in Nat /\ rt \in Runtimes(c)
  <2>1. job[t].ids \in Ids(conf) \cup {None}
    BY <1>0 DEF Jobs
  <2> QED BY <1>0, <1>1, <1>3, <2>1
<1>5. PoolSound(rt, c) /\ PlacesSound(rt, c) /\ KnowsSound(rt, c) /\ WriteSound(rt, job[t], c)
  <2>1. \A r \in DOMAIN runtimes : KnowsSound(runtimes[r], conf)
    BY <1>0, HashesParts DEF Core
  <2> QED BY <1>0, <1>1, <1>3, <2>1 DEF SlotsSound
<1>6. /\ TodoSound(h, <<>>, done)
      /\ WriteOf(rt.cache, rt.free, rt.placed, rt.writers, rt.pooled, rt.shared, h, ids, done, c)
  BY <1>0, <1>3, <1>5 DEF WriteSound
<1>7. h \notin Foreign /\ done \in Nat /\ done > 0 /\ \A l \in Layers : l <= done
  BY <1>6, TodoEmpty
<1>8. PICK cells, put, last :
        /\ cells = CellsOf(ids) /\ put = Placed(rt.placed, h, cells)
        /\ last = IF c.target = "real" THEN [hash |-> h, ids |-> ids] ELSE rt.last_register_payload
  OBVIOUS
<1>9. /\ cells \in [1 .. Size -> Nat]
      /\ ids # None => cells = ids /\ ids \in Ids(c) /\ ids \in [1 .. Size -> Nat]
  BY <1>4, <1>8, CellsFacts
<1>10. /\ DOMAIN put = DOMAIN rt.placed \cup {h} /\ put[h] = cells
       /\ \A g \in DOMAIN rt.placed : g # h => put[g] = rt.placed[g]
  BY <1>8 DEF Placed
<1>11. put \in Places
  <2>1. PICK S \in SUBSET Blocks : rt.placed \in [S -> [1 .. Size -> Nat]]
    BY <1>4 DEF Runtimes, Places
  <2>2. put \in [S \cup {h} -> [1 .. Size -> Nat]]
    BY <1>8, <1>9, <2>1 DEF Placed
  <2>3. S \cup {h} \in SUBSET Blocks
    BY <1>4
  <2> QED BY <2>2, <2>3 DEF Places
<1>12. /\ last \in Payloads \cup {None}
       /\ c.target = "real" => last # None /\ last.hash = h /\ last.ids = ids
       /\ c.target # "real" => last = None
  <2>1. CASE c.target = "real"
    <3>1. [hash |-> h, ids |-> ids] \in Payloads
      BY <1>4, <1>9 DEF Payloads
    <3>2. last = [hash |-> h, ids |-> ids]
      BY <1>8, <2>1
    <3> QED BY <2>1, <3>1, <3>2, VllmAssumption
  <2>2. CASE c.target # "real"
    BY <1>5, <1>8, <2>2 DEF KnowsSound
  <2> QED BY <2>1, <2>2
<1> DEFINE m == Remembers(rt, put, last)
<1>13. m \in Runtimes(c)
  BY <1>4, <1>11, <1>12 DEF Runtimes, Remembers
<1>14. /\ m.registered_hashes = rt.registered_hashes /\ m.last_register_payload = last
       /\ m.last_continuation = rt.last_continuation
  BY <1>4 DEF Runtimes, Remembers
<1>15. m.free = rt.free /\ m.pooled = rt.pooled /\ m.shared = rt.shared /\ m.placed = put
  BY <1>4 DEF Runtimes, Remembers
<1>16. m.cache = rt.cache /\ m.writers = rt.writers
  BY <1>4 DEF Runtimes, Remembers
<1>17. PICK new \in Runtimes(c) :
         /\ new = Remembers(rt, put, last)
         /\ new.registered_hashes = rt.registered_hashes
         /\ new.last_register_payload = last
         /\ new.last_continuation = rt.last_continuation
         /\ new.free = rt.free /\ new.pooled = rt.pooled /\ new.shared = rt.shared
         /\ new.placed = put /\ new.cache = rt.cache /\ new.writers = rt.writers
  <2> HIDE DEF m
  <2>1. m = Remembers(rt, put, last)
    BY DEF m
  <2> QED BY <1>13, <1>14, <1>15, <1>16, <2>1
<1> HIDE DEF m
<1>18. runtimes' = [runtimes EXCEPT ![job[t].rt] = new]
  <2>1. runtimes' = [runtimes EXCEPT ![job[t].rt] =
            Remembers(runtimes[job[t].rt], Placed(Runtime(t).placed, job[t].hash, CellsOf(job[t].ids)),
                      IF conf.target = "real" THEN [hash |-> job[t].hash, ids |-> job[t].ids]
                      ELSE Runtime(t).last_register_payload)]
    BY DEF EndRegister, Remembers, Placed, CellsOf
  <2> QED BY <1>1, <1>3, <1>8, <1>17, <2>1
<1>19. PoolSound(new, c)
  BY <1>5, <1>17 DEF PoolSound
<1>20. PlacesSound(new, c)
  <2>1. PlacesOf(rt.cache, rt.free, rt.placed, rt.writers, rt.pooled, rt.shared, c)
    BY <1>5 DEF PlacesSound
  <2>2. PlacesOf(rt.cache, rt.free, put, rt.writers, rt.pooled, rt.shared, c)
    BY <1>4, <1>6, <1>7, <1>8, <2>1, PutPlaces
  <2> QED BY <1>17, <2>2 DEF PlacesSound
<1>21. ids = None => rt.shared
  BY <1>6 DEF WriteOf
<1>22. KnowsSound(new, c)
  <2>1. /\ c.target = "real" => new.registered_hashes # None
        /\ c.target = "opaque" => new.registered_hashes = None
        /\ new.registered_hashes # None => new.registered_hashes \subseteq DOMAIN new.placed
        /\ new.last_continuation # None =>
              /\ c.target = "real" /\ new.last_continuation.known # {}
              /\ new.last_continuation.known \subseteq new.registered_hashes
    BY <1>5, <1>10, <1>17 DEF KnowsSound
  <2>2. /\ c.target = "real" /\ new.registered_hashes # {} => new.last_register_payload # None
        /\ new.last_register_payload # None => c.target = "real"
    BY <1>12, <1>17
  <2>3. ASSUME ~new.shared, new.last_register_payload # None
        PROVE  /\ new.last_register_payload.hash \in DOMAIN new.placed
               /\ new.last_register_payload.ids = new.placed[new.last_register_payload.hash]
    <3>1. last.hash = h /\ last.ids = ids /\ cells = ids
      BY <1>9, <1>12, <1>17, <1>21, <2>3
    <3> QED BY <1>10, <1>17, <3>1
  <2>4. new.last_register_payload # None /\ new.last_register_payload.ids # None =>
           new.last_register_payload.ids \in Ids(c)
    BY <1>9, <1>12, <1>17
  <2> QED BY <2>1, <2>2, <2>3, <2>4 DEF KnowsSound
<1>23. /\ Others(t) /\ job'[t].at = "store" /\ Alike(job'[t], job[t])
       /\ job'[t].answer = job[t].answer
  <2>1. Goto(t, "store") /\ "store" \in JobLabels
    BY DEF EndRegister, JobLabels, Filing
  <2> QED BY <1>0, <2>1, GotoFacts
<1>24. /\ job'[t].kind = "register" /\ job'[t].hash = h /\ job'[t].rt = job[t].rt
       /\ job'[t].at = "store" /\ job'[t].answer = "none" /\ ~At(t, "write")'
  BY <1>0, <1>3, <1>23 DEF Alike, At
<1>25. /\ Len(runtimes') = Len(runtimes) /\ DOMAIN runtimes' = DOMAIN runtimes
       /\ runtimes'[job[t].rt] = new
  BY <1>0, <1>1, <1>3, <1>17, <1>18, Replaced, SMTT(30)
<1>26. JobFlow(job[t])'
  BY <1>0, <1>2, <1>4, <1>24, <1>25 DEF JobFlow, Filing, Verifying
<1>27. JobKnows(job[t])'
  <2>1. h \in DOMAIN new.placed /\ (conf.target = "real" => new.last_register_payload # None)
    BY <1>3, <1>10, <1>12, <1>17
  <2> QED BY <1>2, <1>24, <1>25, <2>1 DEF JobKnows, Filing, Verifying
<1>28. JobAlone(job[t])'
  <2>1. conf.target = "real" => new.last_register_payload.hash = h
    BY <1>3, <1>12, <1>17
  <2> QED BY <1>2, <1>24, <1>25, <2>1 DEF JobAlone, Filing
<1>29. LastSound'
  <2>1. job'[t].at \in Filing
    BY <1>24 DEF Filing
  <2> QED BY <2>1 DEF LastSound
<1>30. ASSUME NEW u \in Threads \ {t}, At(u, "write"), job[u].rt = job[t].rt
       PROVE  WriteSound(new, job[u], conf)
  <2>1. Runtime(u) = rt
    BY <1>3, <1>30 DEF Runtime
  <2>2. WriteSound(rt, job[u], c)
    BY <1>0, <1>3, <1>30, <2>1 DEF SlotsSound
  <2>3. PICK ids2, done2, g :
          /\ ids2 = job[u].ids /\ done2 = Done(job[u]) /\ g = job[u].hash
          /\ TodoSound(g, job[u].todo, done2)
          /\ WriteOf(rt.cache, rt.free, rt.placed, rt.writers, rt.pooled, rt.shared, g, ids2, done2, c)
    BY <2>2 DEF WriteSound
  <2>4. ids # None /\ ids2 # None => \A a, b \in 1 .. Size : ids[a] # ids2[b]
    BY <1>0, <1>3, <1>30, <2>3 DEF SlotsSound, Apart
  <2>5. WriteOf(rt.cache, rt.free, put, rt.writers, rt.pooled, rt.shared, g, ids2, done2, c)
    BY <1>4, <1>8, <1>21, <2>3, <2>4, PutOther
  <2> QED BY <1>3, <1>17, <2>3, <2>5 DEF WriteSound
<1>31. Core' /\ Grows
  <2>1. /\ new \in Runtimes(conf) /\ job[t].at \in {"allocate", "write"}
        /\ PoolSound(new, conf) /\ PlacesSound(new, conf) /\ KnowsSound(new, conf)
    BY <1>0, <1>3, <1>17, <1>19, <1>20, <1>22
  <2>2. /\ DOMAIN Runtime(t).placed \subseteq DOMAIN new.placed
        /\ new.registered_hashes = Runtime(t).registered_hashes
        /\ new.last_continuation = Runtime(t).last_continuation
    BY <1>3, <1>10, <1>17
  <2>3. Runtime(t).last_register_payload # None => new.last_register_payload # None
    BY <1>3, <1>5, <1>12, <1>17 DEF KnowsSound
  <2> QED BY <1>0, <1>2, <1>18, <1>23, <1>24, <1>26, <1>27, <1>28, <1>29, <1>30, <2>1, <2>2, <2>3, SlotStep
<1> QED BY <1>2, <1>23, <1>24, <1>31, AnswersKept, ReverseKept DEF VllmInv

-----------------------------------------------------------------------------
(* A runtime is created; the receiver is killed. *)

LEMMA FreshFacts ==
    ASSUME conf \in Deployments, NEW free,
           free \in (IF conf.cache = "pooled" THEN Pools[Slots] ELSE {<<>>})
    PROVE  /\ FreshRuntime(free) \in Runtimes(conf)
           /\ PoolSound(FreshRuntime(free), conf) /\ PlacesSound(FreshRuntime(free), conf)
           /\ KnowsSound(FreshRuntime(free), conf)
           /\ FreshRuntime(free).registered_hashes \in {{}, None}
           /\ FreshRuntime(free).last_register_payload = None
<1>1. conf.slots \in SlotCounts /\ conf.slots \in Nat
  BY VllmAssumption DEF Deployments
<1>2. /\ free \in Seq(Cells(conf)) /\ Len(free) <= conf.slots
      /\ \A i, k \in DOMAIN free : free[i] = free[k] => i = k
  <2>1. CASE conf.cache = "pooled"
    <3>1. free \in Pools[conf.slots] /\ Pools[conf.slots] \subseteq Seq(Nat)
      BY <1>1, <2>1, VllmAssumption DEF Slots
    <3>2. /\ free \in Seq(Nat) /\ Len(free) <= conf.slots
          /\ \A i, k \in DOMAIN free : free[i] < conf.slots /\ (free[i] = free[k] => i = k)
      BY <1>1, <3>1, VllmAssumption
    <3>3. \A i \in 1 .. Len(free) : free[i] \in Cells(conf)
      <4> TAKE i \in 1 .. Len(free)
      <4>1. free[i] \in Nat /\ free[i] < conf.slots
        BY <3>2
      <4> QED BY <1>1, <4>1, SMTT(30) DEF Cells
    <3>4. free \in Seq(Cells(conf))
      BY <3>2, <3>3
    <3> QED BY <3>2, <3>4
  <2>2. CASE conf.cache # "pooled"
    <3>1. free = <<>> /\ Len(<<>>) = 0 /\ DOMAIN <<>> = {} /\ <<>> \in Seq(Cells(conf))
      BY <2>2
    <3>2. 0 <= conf.slots
      BY <1>1, SMTT(30)
    <3> QED BY <3>1, <3>2
  <2> QED BY <2>1, <2>2
<1>3. PICK cache : cache = [l \in Layers |-> [s \in 0 .. Slots - 1 |-> <<None, 0>>]]
  OBVIOUS
<1>4. cache \in [Layers -> [Cells(conf) -> Contents]]
  <2>1. <<None, 0>> \in Contents
    BY DEF Contents
  <2> QED BY <1>3, <2>1 DEF Cells, Slots
<1>5. PICK placed : placed = [h \in {} |-> <<>>]
  OBVIOUS
<1>6. placed \in Places /\ DOMAIN placed = {}
  <2>1. placed \in [{} -> [1 .. Size -> Nat]] /\ {} \in SUBSET Blocks
    BY <1>5
  <2> QED BY <1>5, <2>1 DEF Places
<1>7. PICK hashes : hashes = IF conf.target = "real" THEN {} ELSE None
  OBVIOUS
<1>8. hashes \in (SUBSET Blocks) \cup {None} /\ hashes \in {{}, None}
  BY <1>7
<1>9. FreshRuntime(free) =
        [cache |-> cache, free |-> free, registered_hashes |-> hashes,
         last_register_payload |-> None, last_continuation |-> None,
         writers |-> {}, placed |-> placed, pooled |-> FALSE, shared |-> FALSE]
  BY <1>3, <1>5, <1>7 DEF FreshRuntime
<1>10. FreshRuntime(free) \in Runtimes(conf)
  BY <1>2, <1>4, <1>6, <1>8, <1>9 DEF Runtimes
<1>11. PICK new : /\ new = FreshRuntime(free) /\ new.free = free /\ new.placed = placed
                  /\ new.registered_hashes = hashes /\ new.last_register_payload = None
                  /\ new.last_continuation = None
  BY <1>9
<1>12. PoolSound(new, conf)
  BY <1>2, <1>11 DEF PoolSound
<1>13. PlacesSound(new, conf)
  BY <1>6, <1>11 DEF PlacesSound, PlacesOf
<1>14. KnowsSound(new, conf)
  <2>1. {} # None
    BY VllmAssumption
  <2> QED BY <1>6, <1>7, <1>11, <2>1 DEF KnowsSound
<1> QED BY <1>8, <1>10, <1>11, <1>12, <1>13, <1>14

LEMMA CreateStep ==
    ASSUME VllmInv, NEW t \in Threads, CreateRuntime(t)
    PROVE  VllmInv'
<1>0. /\ Core /\ VllmTypes /\ SlotsSound /\ SerialSound /\ HashesSound /\ JobFlow(job[t])
      /\ job[t].at = "create" /\ job[t].kind # "none" /\ job[t].answer = "none"
      /\ job[t].rt \in 0 .. Len(runtimes) /\ runtimes \in Seq(Runtimes(conf)) /\ conf \in Deployments
  BY DEF VllmInv, Core, JobFlow, CreateRuntime, At, VllmTypes
<1>1. /\ conf' = conf /\ singleton' = Len(runtimes) + 1 /\ memory' = memory /\ file' = file
      /\ acked' = acked /\ budget' = budget /\ export' = export
  BY DEF CreateRuntime
<1>2. PICK free : /\ free \in (IF conf.cache = "pooled" THEN Pools[Slots] ELSE {<<>>})
                  /\ runtimes' = Append(runtimes, FreshRuntime(free))
  BY DEF CreateRuntime
<1>3. PICK new \in Runtimes(conf) :
        /\ new = FreshRuntime(free)
        /\ PoolSound(new, conf) /\ PlacesSound(new, conf) /\ KnowsSound(new, conf)
        /\ new.registered_hashes \in {{}, None} /\ new.last_register_payload = None
  BY <1>0, <1>2, FreshFacts
<1>4. PICK n : n = Len(runtimes)
  OBVIOUS
<1>5. /\ n \in Nat /\ DOMAIN runtimes = 1 .. n
      /\ runtimes' \in Seq(Runtimes(conf)) /\ Len(runtimes') = n + 1
      /\ DOMAIN runtimes' = 1 .. n + 1
      /\ \A r \in 1 .. n : runtimes'[r] = runtimes[r]
      /\ runtimes'[n + 1] = new
  BY <1>0, <1>2, <1>3, <1>4, Appended, SMTT(30)
<1>6. /\ n <= n + 1 /\ n + 1 # 0 /\ (n + 1 = 1 => n = 0) /\ (n = 0 => 1 .. n = {})
      /\ n + 1 \in 0 .. n + 1 /\ job[t].rt \in 0 .. n + 1
      /\ \A r \in 1 .. n + 1 : r \in 1 .. n \/ r = n + 1
  BY <1>0, <1>4, <1>5, SMTT(30)
<1>7. /\ Others(t) /\ job'[t].at \in {"baseline", "resolve"} /\ Alike(job'[t], job[t])
      /\ job'[t].answer = "none"
  <2>1. PICK label \in {"baseline", "resolve"} : Goto(t, label)
    BY DEF CreateRuntime
  <2>2. label \in JobLabels
    BY DEF JobLabels
  <2> QED BY <1>0, <2>1, <2>2, GotoFacts
<1>8. Grows
  <2>1. \A r \in DOMAIN runtimes : runtimes'[r] = runtimes[r]
    BY <1>5
  <2> QED BY <1>1, <1>4, <1>5, <1>6, <2>1 DEF Grows
<1>9. VllmTypes'
  BY <1>0, <1>1, <1>4, <1>5, <1>6, <1>7 DEF VllmTypes, Others
<1>10. JobFlow(job[t])'
  BY <1>0, <1>5, <1>6, <1>7 DEF JobFlow, Alike, Filing, Verifying
<1>11. JobKnows(job[t])' /\ JobAlone(job[t])'
  BY <1>7 DEF JobKnows, JobAlone, Filing, Verifying
<1>12. \A r \in DOMAIN runtimes' : KnowsSound(runtimes[r], conf)'
  <2> SUFFICES ASSUME NEW r \in 1 .. n + 1 PROVE KnowsSound(runtimes'[r], conf)
    BY <1>1, <1>5
  <2>1. CASE r \in 1 .. n
    BY <1>0, <1>5, <2>1, HashesParts
  <2>2. CASE r = n + 1
    BY <1>3, <1>5, <2>2
  <2> QED BY <1>6, <2>1, <2>2
<1>13. SlotsSound'
  <2>1. ASSUME NEW r \in DOMAIN runtimes' PROVE (PoolSound(runtimes[r], conf) /\ PlacesSound(runtimes[r], conf))'
    <3>1. CASE r \in 1 .. n
      BY <1>0, <1>1, <1>5, <3>1 DEF SlotsSound
    <3>2. CASE r = n + 1
      BY <1>1, <1>3, <1>5, <3>2
    <3> QED BY <1>5, <1>6, <2>1, <3>1, <3>2
  <2>2. ASSUME NEW u \in Threads, At(u, "write")'
        PROVE  job'[u] = job[u] /\ At(u, "write") /\ Runtime(u)' = Runtime(u)
    <3>1. u # t /\ job'[u] = job[u] /\ At(u, "write")
      BY <1>7, <2>2 DEF Others, At
    <3>2. job[u].rt \in DOMAIN runtimes
      BY <1>0, <3>1, HasRuntime DEF Core, At
    <3> QED BY <1>5, <3>1, <3>2 DEF Runtime
  <2>3. ASSUME NEW u \in Threads, At(u, "write")' PROVE WriteSound(Runtime(u), job[u], conf)'
    <3>1. WriteSound(Runtime(u), job[u], conf) /\ job'[u] = job[u] /\ Runtime(u)' = Runtime(u)
      BY <1>0, <2>2, <2>3 DEF SlotsSound
    <3> QED BY <1>1, <3>1
  <2>4. ASSUME NEW u \in Threads, NEW v \in Threads, u # v, At(u, "write")', At(v, "write")',
               job'[u].rt = job'[v].rt, job'[u].ids # None, job'[v].ids # None
        PROVE  Apart(job[u], job[v])'
    <3>1. job'[u] = job[u] /\ job'[v] = job[v] /\ At(u, "write") /\ At(v, "write")
      BY <2>2, <2>4
    <3>2. Apart(job[u], job[v])
      BY <1>0, <2>4, <3>1 DEF SlotsSound
    <3> QED BY <3>1, <3>2
  <2> QED BY <2>1, <2>3, <2>4 DEF SlotsSound
<1>14. FilesSound'
  BY <1>0, <1>1, <1>8, HashesParts, FilesKept
<1>15. AckedSound'
  <2>1. n = 0 => acked = {}
    BY <1>0, <1>4, HashesParts DEF AckedSound
  <2> QED BY <1>1, <1>5, <1>6, <2>1 DEF AckedSound
<1>16. ASSUME conf.serial
       PROVE  /\ Len(runtimes') <= 1 /\ (singleton' = 0 => Len(runtimes') = 0)
              /\ TornSound' /\ LastSound'
  <2>1. n = 0
    BY <1>0, <1>4, <1>16, SerialParts DEF JobAlone
  <2>2. Len(runtimes') <= 1 /\ singleton' # 0 /\ DOMAIN runtimes' = {1} /\ runtimes'[1] = new
    BY <1>1, <1>4, <1>5, <2>1, SMTT(30)
  <2>3. TornSound'
    <3>1. file = Torn => ~NeverKilled
      BY <1>0, <1>16, AloneOnFile
    <3>2. NeverKilled' <=> NeverKilled
      BY <1>1 DEF NeverKilled, Restarts
    <3>3. \A r \in DOMAIN runtimes' : runtimes'[r].registered_hashes \in {{}, None}
      BY <1>3, <2>2
    <3> QED BY <1>1, <3>1, <3>2, <3>3 DEF TornSound
  <2>4. LastSound'
    BY <1>3, <2>2 DEF LastSound
  <2> QED BY <2>2, <2>3, <2>4
<1>17. SerialSound'
  <2>1. ~At(t, "idle")
    BY <1>0 DEF At
  <2> QED BY <1>0, <1>1, <1>7, <1>11, <1>16, <2>1, SerialStep
<1>18. Core'
  BY <1>0, <1>7, <1>8, <1>9, <1>10, <1>11, <1>12, <1>13, <1>14, <1>15, <1>17, StepSound
<1> QED BY <1>1, <1>7, <1>8, <1>18, AnswersKept, ReverseKept DEF VllmInv

(* The receiver is killed only where requests are serial. *)
KillsBounded == budget.crashes \in 0 .. Restarts

LEMMA AllIdle ==
    ASSUME conf \in Deployments, runtimes = <<>>, singleton = 0, memory = {}, acked = {},
           job = [t \in Threads |-> IdleJob], file \in (SUBSET Blocks) \cup {Torn},
           budget \in [requests : Nat, crashes : 0 .. Crashes],
           ~NeverKilled \/ file = {}
    PROVE  Core /\ RegisterFailsForCause
<1>1. \A t \in Threads : /\ job[t] = IdleJob /\ job[t].at = "idle" /\ job[t].kind = "none"
                         /\ job[t].answer = "none" /\ job[t].rt = 0
  BY IdleFacts
<1>2. Len(runtimes) = 0 /\ DOMAIN runtimes = {} /\ runtimes \in Seq(Runtimes(conf)) /\ 0 \in 0 .. 0
  OBVIOUS
<1>3. VllmTypes
  BY <1>2, IdleFacts DEF VllmTypes
<1>4. \A t \in Threads : JobFlow(job[t])
  BY <1>1, <1>2 DEF JobFlow, Filing, Verifying
<1>5. \A t \in Threads : JobKnows(job[t]) /\ JobAlone(job[t])
  BY <1>1 DEF JobKnows, JobAlone, Filing, Verifying
<1>6. SlotsSound
  BY <1>1, <1>2 DEF SlotsSound, At
<1>7. FilesSound
  BY DEF FilesSound, Only
<1>8. HashesSound
  <2>1. AckedSound
    BY <1>2 DEF AckedSound
  <2> QED BY <1>2, <1>5, <1>7, <2>1, HashesParts
<1>9. SerialSound
  <2>1. file = Torn => ~NeverKilled
    BY VllmAssumption
  <2>2. 0 <= 1
    BY SMTT(30)
  <2> QED BY <1>1, <1>2, <1>5, <2>1, <2>2 DEF SerialSound, At
<1>10. RegisterFailsForCause
  BY <1>1 DEF RegisterFailsForCause
<1> QED BY <1>3, <1>4, <1>6, <1>8, <1>9, <1>10 DEF Core

LEMMA VllmInitInv == VllmInit => VllmInv /\ KillsBounded
<1> SUFFICES ASSUME VllmInit PROVE VllmInv /\ KillsBounded
  OBVIOUS
<1>1. Restarts \in 0 .. Crashes /\ Restarts \in 0 .. Restarts /\ Requests \in Nat
  <2>1. Crashes \in Nat /\ Requests \in Nat
    BY VllmAssumption
  <2>2. Restarts = Crashes \/ Restarts = 0
    BY DEF Restarts
  <2> QED BY <2>1, <2>2, SMTT(30)
<1>2. budget \in [requests : Nat, crashes : 0 .. Crashes] /\ budget.crashes = Restarts
  BY <1>1 DEF VllmInit
<1>3. Core /\ RegisterFailsForCause
  BY <1>2, AllIdle DEF VllmInit
<1>4. ReverseStateBelongsTogether
  BY DEF VllmInit, ReverseStateBelongsTogether
<1> QED BY <1>1, <1>2, <1>3, <1>4 DEF VllmInv, KillsBounded

LEMMA CrashStep ==
    ASSUME VllmInv, KillsBounded, Crash
    PROVE  VllmInv' /\ KillsBounded'
<1>1. PICK n, k : n = budget.crashes /\ k = Restarts
  OBVIOUS
<1>2. /\ budget \in [requests : Nat, crashes : 0 .. Crashes] /\ conf \in Deployments
      /\ file \in (SUBSET Blocks) \cup {Torn} /\ Crashes \in Nat
  BY VllmAssumption DEF VllmInv, Core, VllmTypes
<1>3. /\ conf' = conf /\ file' = file /\ export' = export /\ n > 0 /\ n \in 0 .. Crashes
      /\ budget' = [budget EXCEPT !.crashes = n - 1] /\ n \in 0 .. k /\ k \in Nat
  <2>1. Restarts \in Nat
    BY VllmAssumption DEF Restarts
  <2> QED BY <1>1, <1>2, <2>1 DEF Crash, KillsBounded
<1>4. n - 1 \in 0 .. Crashes /\ n - 1 \in 0 .. k /\ n - 1 # k
  BY <1>2, <1>3, SMTT(30)
<1>5. budget' \in [requests : Nat, crashes : 0 .. Crashes] /\ budget'.crashes = n - 1
  BY <1>2, <1>3, <1>4
<1>6. Restarts' = k
  BY <1>1, <1>3 DEF Restarts
<1>7. ~NeverKilled' /\ KillsBounded'
  BY <1>4, <1>5, <1>6 DEF NeverKilled, KillsBounded
<1>8. /\ runtimes' = <<>> /\ singleton' = 0 /\ memory' = {} /\ acked' = {}
      /\ job' = [t \in Threads |-> IdleJob]
  BY DEF Crash
<1>9. (Core /\ RegisterFailsForCause)'
  <2>1. /\ (conf \in Deployments)' /\ (runtimes = <<>>)' /\ (singleton = 0)' /\ (memory = {})'
        /\ (acked = {})' /\ (job = [t \in Threads |-> IdleJob])'
        /\ (file \in (SUBSET Blocks) \cup {Torn})'
        /\ (budget \in [requests : Nat, crashes : 0 .. Crashes])' /\ (~NeverKilled \/ file = {})'
    BY <1>2, <1>3, <1>5, <1>7, <1>8
  <2> QED BY <2>1, AllIdle, PTL
<1>10. ReverseStateBelongsTogether'
  BY <1>3, ReverseKept DEF VllmInv
<1> QED BY <1>7, <1>9, <1>10 DEF VllmInv

LEMMA KillsStay ==
    ASSUME VllmInv, KillsBounded, conf' = conf, budget'.crashes = budget.crashes
    PROVE  KillsBounded'
BY DEF KillsBounded, Restarts

LEMMA VllmNextInv ==
    VllmInv /\ KillsBounded /\ [VllmNext]_vllmVars => (VllmInv /\ KillsBounded)'
<1> SUFFICES ASSUME VllmInv, KillsBounded, [VllmNext]_vllmVars PROVE (VllmInv /\ KillsBounded)'
  OBVIOUS
<1>1. CASE UNCHANGED vllmVars
  <2>1. /\ conf' = conf /\ runtimes' = runtimes /\ singleton' = singleton /\ memory' = memory
        /\ file' = file /\ export' = export /\ job' = job /\ acked' = acked /\ budget' = budget
    BY <1>1 DEF vllmVars
  <2>2. VllmInv'
    <3>1. VllmTypes' /\ (\A t \in Threads : JobFlow(job[t])')
      BY <2>1 DEF VllmInv, Core, VllmTypes, JobFlow
    <3>2. SlotsSound'
      BY <2>1 DEF VllmInv, Core, SlotsSound, At, Runtime
    <3>3. HashesSound'
      BY <2>1 DEF VllmInv, Core, HashesSound, JobKnows, Only, PlacedOnly, NeverKilled, Restarts
    <3>4. SerialSound'
      <4>1. (\A t \in Threads : JobAlone(job[t])' <=> JobAlone(job[t]))
            /\ (NeverKilled' <=> NeverKilled) /\ (\A t, x : At(t, x)' <=> At(t, x))
        BY <2>1 DEF JobAlone, NeverKilled, Restarts, At
      <4> QED BY <2>1, <4>1 DEF VllmInv, Core, SerialSound
    <3>5. RegisterFailsForCause' /\ ReverseStateBelongsTogether'
      BY <2>1 DEF VllmInv, RegisterFailsForCause, ReverseStateBelongsTogether, NeverKilled, Restarts, Slots
    <3> QED BY <3>1, <3>2, <3>3, <3>4, <3>5 DEF VllmInv, Core
  <2> QED BY <2>1, <2>2, KillsStay
<1>2. CASE Crash
  BY <1>2, CrashStep
<1>3. ASSUME NEW t \in Threads,
             \/ \E h \in Blocks : Request(t, "register", h, {})
             \/ \E hs \in (SUBSET Blocks) \ {{}} : Request(t, "verify", None, hs)
             \/ Request(t, "export", None, {})
      PROVE  (VllmInv /\ KillsBounded)'
  <2>1. VllmInv'
    <3>1. CASE \E h \in Blocks : Request(t, "register", h, {})
      BY <3>1, RequestStep
    <3>2. CASE \E hs \in (SUBSET Blocks) \ {{}} : Request(t, "verify", None, hs)
      BY <3>2, RequestStep
    <3>3. CASE Request(t, "export", None, {})
      BY <3>3, RequestStep
    <3> QED BY <1>3, <3>1, <3>2, <3>3
  <2>2. conf' = conf /\ budget' = [budget EXCEPT !.requests = budget.requests - 1]
    BY <1>3 DEF Request
  <2>3. budget'.crashes = budget.crashes
    BY <2>2 DEF VllmInv, Core, VllmTypes
  <2> QED BY <2>1, <2>2, <2>3, KillsStay
<1>4. ASSUME NEW t \in Threads,
             \/ ResolveRuntime(t) \/ CreateRuntime(t) \/ CaptureBaseline(t)
             \/ AllocateTargetBlockIds(t) \/ WriteLayer(t) \/ EndRegister(t)
             \/ StoreRead(t) \/ StoreOpen(t) \/ StoreWrite(t)
             \/ NoteRuntimeHash(t) \/ SetRuntimeHashes(t)
             \/ VerifyHashes(t) \/ SeedPrefixCache(t) \/ Generate(t) \/ ReportVerified(t)
             \/ ExportReverseState(t)
      PROVE  (VllmInv /\ KillsBounded)'
  <2>1. VllmInv'
    BY <1>4, ResolveStep, CreateStep, BaselineStep, AllocateStep, WriteStep, EndRegisterStep, StoreReadStep,
       StoreFileStep, NoteStep, VerifyStep, SeedStep, GenerateStep, ReportStep, ExportStep
  <2>2. conf' = conf /\ budget' = budget
    BY <1>4 DEF ResolveRuntime, CreateRuntime, CaptureBaseline, AllocateTargetBlockIds, WriteLayer,
       Raise, EndRegister,
       StoreRead, StoreOpen, StoreWrite, NoteRuntimeHash, SetRuntimeHashes, Acknowledge,
       VerifyHashes, SeedPrefixCache, Generate, ReportVerified, ExportReverseState
  <2> QED BY <2>1, <2>2, KillsStay
<1> QED BY <1>1, <1>2, <1>3, <1>4 DEF VllmNext

-----------------------------------------------------------------------------
(* VllmInv holds in every reachable state of the live vLLM target: the target    *)
(* blocks, the hashes and the requests in flight agree, whatever requests the    *)
(* threads of the receiver interleave and wherever it is killed.                 *)
THEOREM VllmInvHolds == VllmSpec => [](VllmInv /\ KillsBounded)
<1>1. VllmInit => VllmInv /\ KillsBounded
  BY VllmInitInv
<1>2. VllmInv /\ KillsBounded /\ [VllmNext]_vllmVars => (VllmInv /\ KillsBounded)'
  BY VllmNextInv
<1> QED BY <1>1, <1>2, PTL DEF VllmSpec

(* The singleton of get_runtime and the runtime of a request are runtimes that   *)
(* exist, no target block is free twice, and the state file holds hashes.        *)
THEOREM VllmTypesHold == VllmSpec => []VllmTypeOK
<1>1. VllmInv => VllmTypeOK
  <2> SUFFICES ASSUME VllmInv PROVE VllmTypeOK
    OBVIOUS
  <2>1. VllmTypes /\ Len(runtimes) \in Nat /\ SlotsSound
    BY InRuntimes DEF VllmInv, Core
  <2>2. singleton \in 0 .. Len(runtimes) /\ (file = Torn \/ file \subseteq Blocks)
    BY <2>1 DEF VllmTypes
  <2>3. ASSUME NEW t \in Threads
        PROVE  job[t].rt \in (IF job[t].at \in {"idle", "resolve", "create", "baseline"} THEN 0 ELSE 1) .. Len(runtimes)
    <3>1. JobFlow(job[t])
      BY DEF VllmInv, Core
    <3>2. CASE job[t].at \in {"idle", "resolve", "create", "baseline"}
      BY <3>1, <3>2 DEF JobFlow
    <3>3. CASE job[t].at \notin {"idle", "resolve", "create", "baseline"}
      BY <2>1, <3>1, <3>3, HasRuntime
    <3> QED BY <3>2, <3>3
  <2>4. \A r \in DOMAIN runtimes : \A i, k \in DOMAIN runtimes[r].free :
             runtimes[r].free[i] = runtimes[r].free[k] => i = k
    BY <2>1 DEF SlotsSound, PoolSound
  <2> QED BY <2>2, <2>3, <2>4 DEF VllmTypeOK
<1> QED BY <1>1, VllmInvHolds, PTL

(* What a verification has confirmed is, and stays, wholly in the KV cache, for  *)
(* any number of threads, payloads, layers and target blocks and any order of    *)
(* the block pool: the writes of an overlapping, failing or repeated             *)
(* registration never touch a block that was given out before.                   *)
THEOREM VerifiedStaysInPlace == VllmSpec => []VerifiedIsInPlace
<1>1. VllmInv => VerifiedIsInPlace
  <2> SUFFICES ASSUME VllmInv, NEW t \in Threads, job[t].kind = "verify", job[t].answer = "ok",
                      conf.target = "real" \/ (NeverKilled /\ Len(runtimes) = 1),
                      NEW h \in job[t].hashes
               PROVE  /\ h \in DOMAIN Runtime(t).placed
                      /\ (~Runtime(t).shared \/ (~Runtime(t).pooled /\ Runtime(t).writers = {h})) =>
                             InPlace(Runtime(t), h)
    BY DEF VerifiedIsInPlace
  <2>1. VllmTypes /\ JobFlow(job[t]) /\ SlotsSound /\ JobKnows(job[t])
    BY HashesParts DEF VllmInv, Core
  <2>2. /\ job[t].rt \in DOMAIN runtimes /\ Runtime(t) = runtimes[job[t].rt]
    BY <2>1, HasRuntime
  <2>3. Len(runtimes) = 1 => Len(runtimes) <= 1
    BY SMTT(30)
  <2>4. h \in DOMAIN Runtime(t).placed
    BY <2>1, <2>2, <2>3 DEF JobKnows, Only
  <2>5. PICK c, rt : c = conf /\ rt = Runtime(t)
    OBVIOUS
  <2>6. PlacesOf(rt.cache, rt.free, rt.placed, rt.writers, rt.pooled, rt.shared, c)
    BY <2>1, <2>2, <2>5 DEF SlotsSound, PlacesSound
  <2>7. c.slots \in Nat /\ Size \in Nat
    BY <2>1, <2>5, VllmAssumption DEF VllmTypes, Deployments
  <2>8. ASSUME ~rt.shared \/ (~rt.pooled /\ rt.writers = {h}), NEW l \in Layers, NEW i \in 1 .. Size
        PROVE  (i > c.slots /\ c.cache = "separate") \/ rt.cache[l][rt.placed[h][i]] = <<h, i>>
    <3>1. CASE ~rt.shared
      <4>1. h \in DOMAIN rt.placed
        BY <2>4, <2>5
      <4>2. rt.cache[l][rt.placed[h][i]] = <<h, i>>
        BY <2>6, <2>8, <3>1, <4>1 DEF PlacesOf
      <4> QED BY <4>2
    <3>2. CASE ~rt.pooled /\ rt.writers = {h}
      <4>1. rt.placed[h][i] = i - 1 /\ Fits(c) /\ (i <= c.slots => rt.cache[l][i - 1] = <<h, i>>)
        <5>1. h \in DOMAIN rt.placed
          BY <2>4, <2>5
        <5>2. rt.placed[h][i] = i - 1 /\ Fits(c)
          BY <2>6, <3>2, <5>1 DEF PlacesOf
        <5>3. i <= c.slots => rt.cache[l][i - 1] = <<h, i>>
          BY <2>6, <3>2, <5>1 DEF PlacesOf
        <5> QED BY <5>2, <5>3
      <4>2. CASE i <= c.slots
        BY <4>1, <4>2
      <4>3. CASE ~(i <= c.slots)
        <5>1. i > c.slots /\ ~(Size <= c.slots)
          BY <2>7, <4>3, SMTT(30)
        <5> QED BY <4>1, <5>1 DEF Fits
      <4> QED BY <4>2, <4>3
    <3> QED BY <2>8, <3>1, <3>2
  <2> QED BY <2>4, <2>5, <2>8 DEF InPlace, Slots
<1> QED BY <1>1, VllmInvHolds, PTL

(* A registration is answered truly: a hash answered with success can be         *)
(* verified from then on, and to a client that asks one thing at a time a        *)
(* registration fails exactly when the payload does not fit the runtime.         *)
THEOREM RegistrationAnswersHold == VllmSpec => []RegistrationAnswersAreTrue
<1>1. VllmInv => RegistrationAnswersAreTrue
  <2> SUFFICES ASSUME VllmInv PROVE RegistrationAnswersAreTrue
    OBVIOUS
  <2>1. AckedStaysVerifiable
    BY HashesParts DEF VllmInv, Core, AckedSound, AckedStaysVerifiable
  <2> QED BY <2>1 DEF VllmInv, RegistrationAnswersAreTrue
<1> QED BY <1>1, VllmInvHolds, PTL

(* What a reverse state says of the runtime belongs together: the continuation   *)
(* published by a verification was decoded from the payload it names as the      *)
(* last, and knew only hashes that are registered.                               *)
THEOREM ReverseStateHolds == VllmSpec => []ReverseStateBelongsTogether
<1>1. VllmInv => ReverseStateBelongsTogether
  BY DEF VllmInv
<1> QED BY <1>1, VllmInvHolds, PTL
=============================================================================
