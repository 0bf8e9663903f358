------------------------------ MODULE KvLayout ------------------------------
(***************************************************************************)
(* Where every element of a KV tensor goes on its way from the source's    *)
(* cache to the target's: adapters/mlx_runtime_bridge.py,                  *)
(* runtime_adapter_utils.py, crates/transpiler/src/layout.rs, the daemon's *)
(* blocks, adapters/vllm_runtime_bridge.py, the writers of                 *)
(* vllm_live_runtime_registry.py, and the tensors the reference runtimes   *)
(* accept.                                                                 *)
(*                                                                         *)
(* A tensor is its shape and its row-major data; nested lists and flat     *)
(* arrays are the same thing.  An element is its position, head and        *)
(* dimension in the source, so that the target can be compared with what   *)
(* it should hold.  Padding is Zero.                                       *)
(***************************************************************************)
EXTENDS Integers, Sequences, FiniteSets

CONSTANTS
    SeqLens,     \* the tokens asked for
    Spare,       \* positions the source cache holds beyond (or short of) them
    HeadCounts, Dims, BlockSizes, TargetTokens  \* small positive numbers

ASSUME LayoutAssumption ==
    /\ SeqLens \subseteq Nat \ {0} /\ Spare \subseteq Int
    /\ HeadCounts \subseteq Nat \ {0} /\ Dims \subseteq Nat \ {0}
    /\ BlockSizes \subseteq Nat \ {0} /\ TargetTokens \subseteq Nat \ {0}

VARIABLES
    shape,   \* the dimensions and the layouts (do not change)
    stage,   \* how far the transfer is
    key, value,  \* the tensors at this stage
    cache,   \* the target's cache
    sampled  \* all_samples_match of the slot probe

layoutVars == <<shape, stage, key, value, cache, sampled>>

\* source: how the extractor's tensors are laid out ("documented" is the shape
\* of docs/runtime-adapter-protocol.md, passed on by the extractor as it is).
\* route: through the daemon in blocks, or canonical tensors directly.
\* order: whether the target's cache has its tokens or its heads first.
Sources == {"seq", "head", "batch_seq", "batch_head", "documented"}

Shapes ==
    [seq : SeqLens, spare : Spare, heads : HeadCounts, dim : Dims, block : BlockSizes,
     tokens : TargetTokens, source : Sources,
     route : {"blocks", "canonical"}, order : {"token", "head"},
     target : {"vllm", "reference"}]

Zero == <<>>
To(n) == 0 .. n - 1
Held == shape.seq + shape.spare
DivUp(a, b) == (a + b - 1) \div b

Tensor3(a, b, c, at(_, _, _)) ==
    [shape |-> <<a, b, c>>,
     data |-> [o \in To(a * b * c) |-> at(o \div (b * c), (o \div c) % b, o % c)]]

Tensor4(a, b, c, d, at(_, _, _, _)) ==
    [shape |-> <<a, b, c, d>>,
     data |-> [o \in To(a * b * c * d) |->
                 at(o \div (b * c * d), (o \div (c * d)) % b, (o \div d) % c, o % d)]]

At3(t, i, j, k) == t.data[(i * t.shape[2] + j) * t.shape[3] + k]

\* _flat_key_value, and the offsets of layout.rs
At4(t, i, j, k, l) == t.data[((i * t.shape[2] + j) * t.shape[3] + k) * t.shape[4] + l]

(***************************************************************************)
(* The source: _canonicalize_tensor, and normalize_canonical_kv_tensor.    *)
(***************************************************************************)
Element(s, h, d) == <<s, h, d>>

SourceTensor ==
    LET swapped(h, s, d) == Element(s, h, d)
        seqFirst == Tensor3(Held, shape.heads, shape.dim, Element)
        headFirst == Tensor3(shape.heads, Held, shape.dim, swapped)
        batched(t) == [t EXCEPT !.shape = <<1, t.shape[1], t.shape[2], t.shape[3]>>]
    IN CASE shape.source = "seq" -> seqFirst
         [] shape.source = "head" -> headFirst
         [] shape.source = "batch_seq" -> batched(seqFirst)
         [] OTHER -> batched(headFirst)

\* The first dimension of a batch of one is dropped.
DropBatch(t) == IF Len(t.shape) = 4 /\ t.shape[1] = 1 THEN [t EXCEPT !.shape = Tail(@)] ELSE t

\* _transpose_0_1
Transpose01(t) ==
    LET at(j, i, k) == At3(t, i, j, k)
    IN Tensor3(t.shape[2], t.shape[1], t.shape[3], at)

\* The tensor is taken to have its heads first.
TakesHeadsFirst(dims, seq_len) ==
    /\ dims[1] # seq_len
    /\ dims[2] = seq_len \/ (dims[1] < dims[2] /\ dims[2] >= seq_len)

Oriented(t, seq_len) ==
    LET u == DropBatch(t)
    IN IF TakesHeadsFirst(u.shape, seq_len) THEN Transpose01(u) ELSE u

\* Mutant of Trim: the shape is cut, the data is not.
TrimShape(t, n) == [t EXCEPT !.shape[1] = n]

\* Mutant of Trim: the last positions are kept.
TrimLast(t, n) ==
    LET at(s, h, d) == At3(t, t.shape[1] - n + s, h, d)
    IN Tensor3(n, t.shape[2], t.shape[3], at)

\* _trim_seq_len
Trim(t, n) ==
    LET at(s, h, d) == At3(t, s, h, d)
    IN Tensor3(n, t.shape[2], t.shape[3], at)

\* [1, heads, seq, dim] becomes [seq, heads, dim] with the data as it is.
NormalizeCanonicalKvTensor(t) ==
    IF Len(t.shape) = 3 THEN t
    ELSE [t EXCEPT !.shape = <<t.shape[3], t.shape[2], t.shape[4]>>]

Fail == stage' = "failed" /\ UNCHANGED <<key, value, cache, sampled>>

\* The adapter's build_extractor_response_from_cache; the client takes any
\* extractor's tensors as they come.
Extract ==
    LET t == Oriented(SourceTensor, shape.seq)
        documented == NormalizeCanonicalKvTensor(SourceTensor)
        extracted(u) == /\ key' = u /\ value' = u /\ stage' = "canonical"
                        /\ UNCHANGED <<cache, sampled>>
    IN /\ stage = "source"
       /\ IF shape.source = "documented" THEN extracted(documented)
          ELSE IF t.shape[1] < shape.seq THEN Fail
          ELSE extracted(Trim(t, shape.seq))
       /\ UNCHANGED shape

(***************************************************************************)
(* Blocks of block tokens: layout.rs and vllm_runtime_bridge.py.           *)
(***************************************************************************)
TokenOf(t, s, h, d) == IF s < t.shape[1] THEN At3(t, s, h, d) ELSE Zero

\* Mutant of KeyBlocks: the last block is dropped if it is not full.
KeyBlocksFull(t, blocks, size) ==
    LET at(b, h, d, k) == IF (b + 1) * size > t.shape[1] THEN Zero ELSE TokenOf(t, b * size + k, h, d)
    IN Tensor4(blocks, t.shape[2], t.shape[3], size, at)

\* canonical_to_vllm_block_key, _key_to_blocks
KeyBlocks(t, blocks, size) ==
    LET at(b, h, d, k) == TokenOf(t, b * size + k, h, d)
    IN Tensor4(blocks, t.shape[2], t.shape[3], size, at)

\* canonical_to_vllm_block_value, _value_to_blocks
ValueBlocks(t, blocks, size) ==
    LET at(b, h, k, d) == TokenOf(t, b * size + k, h, d)
    IN Tensor4(blocks, t.shape[2], size, t.shape[3], at)

\* Without a daemon in between, the bridge makes the blocks itself.
ToBlocks ==
    LET blocks == DivUp(key.shape[1], shape.block)
    IN /\ stage = "canonical" /\ (shape.target = "vllm" \/ shape.route = "blocks")
       /\ key' = KeyBlocks(key, blocks, shape.block)
       /\ value' = ValueBlocks(value, blocks, shape.block)
       /\ stage' = IF shape.route = "blocks" THEN "transpiled" ELSE "prepared"
       /\ UNCHANGED <<shape, cache, sampled>>

\* The client slices the data by the heads of its configuration, and panics if
\* there are too few of them; the daemon labels every slice as one block of the
\* header's shape.  All slices together are one tensor of that shape.
StreamBlocks ==
    LET blocks == DivUp(shape.seq, shape.block)
        floats == blocks * shape.heads * shape.dim * shape.block
        slices(t, dims) == [shape |-> dims, data |-> [o \in To(floats) |-> t.data[o]]]
    IN /\ stage = "transpiled"
       /\ IF ~(To(floats) \subseteq DOMAIN key.data) THEN Fail
          ELSE /\ key' = slices(key, <<blocks, shape.heads, shape.dim, shape.block>>)
               /\ value' = slices(value, <<blocks, shape.heads, shape.block, shape.dim>>)
               /\ stage' = "prepared"
               /\ UNCHANGED <<cache, sampled>>
       /\ UNCHANGED shape

\* The reference runtimes drop the leading 1 of a block's shape and take the
\* rest for [seq, kv_heads, head_dim]; key and value must then agree.
TakenAsCanonical(t) ==
    IF Len(t.shape) = 4 THEN <<t.shape[2], t.shape[3], t.shape[4]>> ELSE t.shape

RegisterReference ==
    /\ shape.target = "reference"
    /\ \/ stage = "canonical" /\ shape.route = "canonical"
       \/ stage = "prepared"
    /\ IF TakenAsCanonical(key) = TakenAsCanonical(value) THEN stage' = "accepted" /\ UNCHANGED <<key, value, cache, sampled>>
       ELSE Fail
    /\ UNCHANGED shape

(***************************************************************************)
(* The combined cache of vLLM: [slots, 2, x, y, dim].                      *)
(***************************************************************************)
CacheDims == IF shape.order = "token" THEN <<shape.tokens, shape.heads>>
                                      ELSE <<shape.heads, shape.tokens>>

\* Mutant of CombinedLayout: no blocks are split.
CombinedLayoutWhole(dims, size, heads) ==
    IF dims = <<size, heads>> THEN [first |-> "token", tokens |-> size, per |-> 1]
    ELSE IF dims = <<heads, size>> THEN [first |-> "head", tokens |-> size, per |-> 1]
    ELSE [first |-> "unsupported", tokens |-> 0, per |-> 1]

\* _combined_layout
CombinedLayout(dims, size, heads) ==
    IF dims = <<size, heads>> THEN [first |-> "token", tokens |-> size, per |-> 1]
    ELSE IF dims = <<heads, size>> THEN [first |-> "head", tokens |-> size, per |-> 1]
    ELSE IF dims[2] = heads /\ size % dims[1] = 0
         THEN [first |-> "token", tokens |-> dims[1], per |-> size \div dims[1]]
    ELSE IF dims[1] = heads /\ size % dims[2] = 0
         THEN [first |-> "head", tokens |-> dims[2], per |-> size \div dims[2]]
    ELSE [first |-> "unsupported", tokens |-> 0, per |-> 1]

\* _layer_block_views: what the prepared tensors say of themselves.
NumBlocks == key.shape[1]
PayloadHeads == key.shape[2]

Layout == CombinedLayout(CacheDims, shape.block, PayloadHeads)

\* Mutant of TargetBlockCount: a source block takes one block of the target.
TargetBlockCountWhole == NumBlocks

\* _combined_target_block_count, over all payloads of the transfer.
TargetBlockCount == NumBlocks * Layout.per

\* The pool hands out ids in no particular order.
TargetBlockIdOf(i) == TargetBlockCount - 1 - i

\* _combined_target_indices
CombinedTargetIndices(b, k, h, d) ==
    LET block == TargetBlockIdOf(b * Layout.per + k \div Layout.tokens)
        token == k % Layout.tokens
    IN IF Layout.first = "token" THEN <<block, token, h, d>> ELSE <<block, h, token, d>>

\* Mutant of WriteIndex: the blocks before b are counted unsplit.
WriteIndexUnsplit(b, k, h, d) ==
    LET dims == CacheDims
        split(n) == TargetBlockIdOf(b + k \div n)
    IN IF dims = <<shape.block, PayloadHeads>> THEN <<TargetBlockIdOf(b), k, h, d>>
       ELSE IF dims = <<PayloadHeads, shape.block>> THEN <<TargetBlockIdOf(b), h, k, d>>
       ELSE IF dims[2] = PayloadHeads /\ shape.block % dims[1] = 0
            THEN <<split(dims[1]), k % dims[1], h, d>>
       ELSE <<split(dims[2]), h, k % dims[2], d>>

\* _write_combined_cache: where the element of a token goes.
WriteIndex(b, k, h, d) ==
    LET dims == CacheDims
        split(n) == TargetBlockIdOf(b * (shape.block \div n) + k \div n)
    IN IF dims = <<shape.block, PayloadHeads>> THEN <<TargetBlockIdOf(b), k, h, d>>
       ELSE IF dims = <<PayloadHeads, shape.block>> THEN <<TargetBlockIdOf(b), h, k, d>>
       ELSE IF dims[2] = PayloadHeads /\ shape.block % dims[1] = 0
            THEN <<split(dims[1]), k % dims[1], h, d>>
       ELSE <<split(dims[2]), h, k % dims[2], d>>

Tokens == To(NumBlocks) \X To(shape.block) \X To(PayloadHeads) \X To(shape.dim)

Cells == [x \in Tokens |-> WriteIndex(x[1], x[2], x[3], x[4])]

\* The element that was written into cell c.
Origin(cells, c) == CHOOSE x \in DOMAIN cells : cells[x] = c

\* The cache becomes a function of block, x, y and dimension.
WriteCombinedCache ==
    LET cells == Cells
        written == {cells[x] : x \in Tokens}
        k(x) == At4(key, x[1], x[3], x[4], x[2])
        v(x) == At4(value, x[1], x[3], x[2], x[4])
    IN /\ stage = "prepared" /\ shape.target = "vllm"
       /\ IF Layout.first = "unsupported" THEN Fail
          ELSE /\ cache' = [key |-> [c \in written |-> k(Origin(cells, c))],
                            value |-> [c \in written |-> v(Origin(cells, c))]]
               /\ stage' = "written"
               /\ UNCHANGED <<key, value, sampled>>
       /\ UNCHANGED shape

\* _sample_points
SamplePoints ==
    LET low(n) == IF n > 1 THEN 1 ELSE 0
    IN {<<0, 0, 0, 0>>, <<0, low(shape.block), low(PayloadHeads), low(shape.dim)>>,
        <<NumBlocks - 1, shape.block - 1, PayloadHeads - 1, shape.dim - 1>>}

\* _combined_slot_samples
CombinedSlotSamples ==
    /\ stage = "written"
    /\ sampled' = \A x \in SamplePoints :
          LET c == CombinedTargetIndices(x[1], x[2], x[3], x[4])
          IN /\ c \in DOMAIN cache.key  \* else the cell was never written
             /\ cache.key[c] = At4(key, x[1], x[3], x[4], x[2])
             /\ cache.value[c] = At4(value, x[1], x[3], x[2], x[4])
    /\ stage' = "accepted"
    /\ UNCHANGED <<shape, key, value, cache>>

LayoutInit ==
    /\ shape \in Shapes
    /\ shape.seq + shape.spare > 0
    /\ shape.source = "documented" => shape.spare = 0
    /\ shape.target = "reference" => shape.order = "token" /\ shape.tokens = shape.block
    /\ stage = "source"
    /\ key = Zero /\ value = Zero /\ cache = Zero /\ sampled = FALSE

LayoutNext == \/ Extract \/ ToBlocks \/ StreamBlocks \/ RegisterReference
              \/ WriteCombinedCache \/ CombinedSlotSamples

LayoutSpec == LayoutInit /\ [][LayoutNext]_layoutVars

(***************************************************************************)
(* Properties.                                                             *)
(***************************************************************************)
\* What the code can tell apart: more tokens than heads, and a target whose
\* blocks, with the heads first, do not have as many tokens as heads.
SourceIsClear == shape.seq > shape.heads /\ shape.source # "documented"
TargetIsClear == shape.order = "token" \/ shape.tokens # shape.heads

\* Types: tensors have as much data as their shape says.
LayoutTypeOK ==
    /\ shape \in Shapes
    /\ stage \in {"source", "canonical", "transpiled", "prepared", "written", "accepted", "failed"}
    /\ stage \notin {"source", "failed"} =>
         \A t \in {key, value} :
            DOMAIN t.data = To(t.shape[1] * t.shape[2] * t.shape[3] *
                               (IF Len(t.shape) = 4 THEN t.shape[4] ELSE 1))

\* The canonical tensor is the first seq positions of the source's cache,
\* whichever way round and however much longer the cache is.
CanonicalIsTheCache ==
    stage = "canonical" /\ SourceIsClear =>
        \A s \in To(shape.seq), h \in To(shape.heads), d \in To(shape.dim) :
            At3(key, s, h, d) = <<s, h, d>>

\* vLLM, looking up token s in the block that its block table names, finds the
\* key and the value of token s of the source; beyond the last token, padding.
TargetReadsTheSource ==
    stage = "accepted" /\ shape.target = "vllm" /\ SourceIsClear /\ TargetIsClear =>
        \A s \in To(NumBlocks * shape.block), h \in To(shape.heads), d \in To(shape.dim) :
            LET block == TargetBlockIdOf(s \div shape.tokens)
                cell == IF shape.order = "token" THEN <<block, s % shape.tokens, h, d>>
                                                 ELSE <<block, h, s % shape.tokens, d>>
                element == IF s < shape.seq THEN <<s, h, d>> ELSE Zero
            IN cache.key[cell] = element /\ cache.value[cell] = element

\* The slot probe, which computes its indices on its own, agrees with the
\* writer for every layout the writer supports.
SamplesMatch == stage = "accepted" /\ shape.target = "vllm" => sampled

\* The writer fills all blocks that were allocated, and no other.
AllocationIsExact ==
    stage = "written" => {c[1] : c \in DOMAIN cache.key} = To(TargetBlockCount)

\* A transfer is refused only if the cache is too short, the target's blocks
\* do not divide the source's, or a reference runtime is given blocks whose
\* key and value differ in shape.
RefusedForCause ==
    stage = "failed" /\ SourceIsClear =>
        \/ shape.spare < 0
        \/ shape.target = "vllm" /\ shape.block % shape.tokens # 0
        \/ shape.target = "reference" /\ shape.route = "blocks" /\ shape.dim # shape.block

\* From cache to cache: every element is where the reader of each stage looks
\* for it, the probe that vouches for it agrees, no block too many or too few
\* is taken, and what can be moved is not refused.
TransferIsRight ==
    /\ CanonicalIsTheCache /\ TargetReadsTheSource /\ SamplesMatch
    /\ AllocationIsExact /\ RefusedForCause

\* docs/runtime-adapter-protocol.md: [1, n_kv_heads, seq_len, head_dim] is the
\* canonical shape the transpiler expects.
DocumentedShapeIsKept ==
    stage = "canonical" /\ shape.source = "documented" =>
        \A s \in To(shape.seq), h \in To(shape.heads), d \in To(shape.dim) :
            At3(key, s, h, d) = <<s, h, d>>
=============================================================================
