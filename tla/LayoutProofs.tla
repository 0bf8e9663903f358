---------------------------- MODULE LayoutProofs ----------------------------
(***************************************************************************)
(* Proofs about KvLayout, for every number of tokens, heads and            *)
(* dimensions, every block size on either side, all layouts of the source  *)
(* and of the target's cache, and both routes.                             *)
(*                                                                         *)
(* The argument: a row-major offset determines its indices (Offset3,       *)
(* Offset4), so what a tensor that was transposed, trimmed or cut into     *)
(* blocks has at an index is known from the tensor before.  Canonical and  *)
(* Blocked say it of the two forms a tensor takes.  The target's block and *)
(* slot of a token are the quotient and the remainder of one division, so  *)
(* no two elements share a cell (SameBlock), every allocated block gets    *)
(* one (EveryBlock), and the reader, who divides the position in the whole *)
(* sequence, finds the cell that the writer, who divides the position in   *)
(* the source's block, has filled (ReaderFinds).                           *)
(***************************************************************************)
EXTENDS KvLayout, TLAPS

(* Most leaves are first-order: Zenon is tried before SMT. *)
USE ZenonT(2), SMTT(30), ZenonT(60)

Positive == Nat \ {0}

-----------------------------------------------------------------------------
(* Division. *)
LEMMA Composed ==
    ASSUME NEW a \in Nat, NEW c \in Positive, NEW k \in To(c)
    PROVE  a * c + k \in Nat /\ (a * c + k) \div c = a /\ (a * c + k) % c = k
BY SMTT(30) DEF To, Positive

LEMMA Divided ==
    ASSUME NEW n \in Nat, NEW c \in Positive
    PROVE  /\ n \div c \in Nat /\ n % c \in To(c)
           /\ n = (n \div c) * c + (n % c)
BY SMTT(30) DEF To, Positive

(* A place in a product of two sides. *)
LEMMA Within ==
    ASSUME NEW a \in Positive, NEW c \in Positive, NEW i \in To(a), NEW k \in To(c)
    PROVE  i * c + k \in To(a * c) /\ a * c \in Positive
<1>1. i \in Int /\ k \in Int /\ 0 <= i /\ i <= a - 1 /\ 0 <= k /\ k <= c - 1 /\ a > 0 /\ c > 0
  BY SMTT(30) DEF To, Positive
<1>2. i * c <= (a - 1) * c /\ 0 <= i * c /\ a * c > 0
  BY <1>1, SMTT(30) DEF Positive
<1>3. (a - 1) * c = a * c - c
  BY <1>1, SMTT(30) DEF Positive
<1> QED BY <1>1, <1>2, <1>3, SMTT(30) DEF To, Positive

LEMMA Quotient ==
    ASSUME NEW a \in Positive, NEW c \in Positive, NEW n \in To(a * c)
    PROVE  n \div c \in To(a) /\ n % c \in To(c) /\ n = (n \div c) * c + (n % c)
<1>1. n \in Nat /\ n < a * c
  BY SMTT(30) DEF To, Positive
<1> DEFINE q == n \div c
<1> DEFINE r == n % c
<1>2. q \in Nat /\ r \in To(c) /\ n = q * c + r
  BY <1>1, Divided
<1> HIDE DEF q, r
<1>3. q < a
  <2>1. SUFFICES ASSUME q >= a PROVE FALSE
    BY <1>2, SMTT(30) DEF Positive
  <2>2. q * c >= a * c
    BY <1>2, <2>1, SMTT(30) DEF Positive
  <2>3. q * c \in Int /\ a * c \in Int /\ r \in Int /\ r >= 0
    BY <1>2, SMTT(30) DEF Positive, To
  <2> QED BY <1>1, <1>2, <2>2, <2>3, SMTT(30)
<1> QED BY <1>2, <1>3, SMTT(30) DEF q, r, To, Positive

-----------------------------------------------------------------------------
(* Row-major offsets: the indices come back from the offset. *)
LEMMA Offset3 ==
    ASSUME NEW a \in Positive, NEW b \in Positive, NEW c \in Positive,
           NEW i \in To(a), NEW j \in To(b), NEW k \in To(c)
    PROVE  LET o == (i * b + j) * c + k
           IN /\ o \in To(a * b * c)
              /\ o \div (b * c) = i /\ (o \div c) % b = j /\ o % c = k
<1> DEFINE o == (i * b + j) * c + k
<1>1. i \in Nat /\ i * b + j \in To(a * b) /\ a * b \in Positive /\ b * c \in Positive
  BY Within, SMTT(30) DEF To, Positive
<1>2. i * b + j \in Nat
  BY <1>1, SMTT(30) DEF To
<1>3. o \in To(a * b * c)
  BY <1>1, Within
<1>4. o \div c = i * b + j /\ o % c = k
  BY <1>2, Composed
<1>5. (i * b + j) % b = j
  BY <1>1, Composed
<1>6. j * c + k \in To(b * c)
  BY Within
<1>7. o = i * (b * c) + (j * c + k)
  BY SMTT(30) DEF To, Positive
<1>8. o \div (b * c) = i
  BY <1>1, <1>6, <1>7, Composed
<1> QED BY <1>3, <1>4, <1>5, <1>8

LEMMA Offset4 ==
    ASSUME NEW a \in Positive, NEW b \in Positive, NEW c \in Positive, NEW d \in Positive,
           NEW i \in To(a), NEW j \in To(b), NEW k \in To(c), NEW l \in To(d)
    PROVE  LET o == ((i * b + j) * c + k) * d + l
           IN /\ o \in To(a * b * c * d)
              /\ o \div (b * c * d) = i /\ (o \div (c * d)) % b = j
              /\ (o \div d) % c = k /\ o % d = l
<1> DEFINE o == ((i * b + j) * c + k) * d + l
<1>1. c * d \in Positive /\ k * d + l \in To(c * d)
  BY Within
<1>2. o = (i * b + j) * (c * d) + (k * d + l)
  BY SMTT(30) DEF To, Positive
<1>3. /\ o \in To(a * b * (c * d))
      /\ o \div (b * (c * d)) = i /\ (o \div (c * d)) % b = j
  BY <1>1, <1>2, Offset3
<1>4. a * b * (c * d) = a * b * c * d /\ b * (c * d) = b * c * d
  BY SMTT(30) DEF Positive
<1>5. i * b + j \in Nat /\ (i * b + j) * c + k \in Nat
  BY SMTT(30) DEF To, Positive
<1>6. o \div d = (i * b + j) * c + k /\ o % d = l
  BY <1>5, Composed
<1>7. ((i * b + j) * c + k) % c = k
  BY <1>5, Composed
<1> QED BY <1>3, <1>4, <1>6, <1>7

-----------------------------------------------------------------------------
(* Tensors: the shape and the amount of data, and what is at an index. *)
Shaped3(t, a, b, c) == t.shape = <<a, b, c>> /\ DOMAIN t.data = To(a * b * c)

Shaped4(t, a, b, c, d) == t.shape = <<a, b, c, d>> /\ DOMAIN t.data = To(a * b * c * d)

LEMMA TransposeIs ==
    ASSUME NEW t, NEW a \in Positive, NEW b \in Positive, NEW c \in Positive,
           Shaped3(t, a, b, c)
    PROVE  /\ Shaped3(Transpose01(t), b, a, c)
           /\ \A i \in To(a), j \in To(b), k \in To(c) :
                 At3(Transpose01(t), j, i, k) = At3(t, i, j, k)
<1>1. /\ Transpose01(t).shape = <<b, a, c>>
      /\ Transpose01(t).data =
           [o \in To(b * a * c) |-> At3(t, (o \div c) % a, o \div (a * c), o % c)]
  BY DEF Transpose01, Tensor3, Shaped3
<1>2. Shaped3(Transpose01(t), b, a, c)
  BY <1>1 DEF Shaped3
<1>3. ASSUME NEW i \in To(a), NEW j \in To(b), NEW k \in To(c)
      PROVE  At3(Transpose01(t), j, i, k) = At3(t, i, j, k)
  <2> DEFINE o == (j * a + i) * c + k
  <2>1. /\ o \in To(b * a * c)
        /\ o \div (a * c) = j /\ (o \div c) % a = i /\ o % c = k
    BY Offset3
  <2>2. At3(Transpose01(t), j, i, k) = Transpose01(t).data[o]
    BY <1>1 DEF At3
  <2> HIDE DEF o
  <2> QED BY <1>1, <2>1, <2>2
<1> QED BY <1>2, <1>3

(* The part of u with these sides is that of t. *)
Agree(u, t, a, b, c) ==
    \A i \in To(a), j \in To(b), k \in To(c) : At3(u, i, j, k) = At3(t, i, j, k)

LEMMA TrimIs ==
    ASSUME NEW t, NEW a \in Positive, NEW b \in Positive, NEW c \in Positive,
           NEW n \in Positive, Shaped3(t, a, b, c)
    PROVE  /\ Shaped3(Trim(t, n), n, b, c)
           /\ Agree(Trim(t, n), t, n, b, c)
<1>1. /\ Trim(t, n).shape = <<n, b, c>>
      /\ Trim(t, n).data =
           [o \in To(n * b * c) |-> At3(t, o \div (b * c), (o \div c) % b, o % c)]
  BY DEF Trim, Tensor3, Shaped3
<1>2. Shaped3(Trim(t, n), n, b, c)
  BY <1>1 DEF Shaped3
<1>3. ASSUME NEW i \in To(n), NEW j \in To(b), NEW k \in To(c)
      PROVE  At3(Trim(t, n), i, j, k) = At3(t, i, j, k)
  <2> DEFINE o == (i * b + j) * c + k
  <2>1. /\ o \in To(n * b * c)
        /\ o \div (b * c) = i /\ (o \div c) % b = j /\ o % c = k
    BY Offset3
  <2>2. At3(Trim(t, n), i, j, k) = Trim(t, n).data[o]
    BY <1>1 DEF At3
  <2> HIDE DEF o
  <2> QED BY <1>1, <2>1, <2>2
<1> QED BY <1>2, <1>3 DEF Agree

(* u holds the tokens of t in blocks of size, as keys and as values. *)
KeysOf(u, t, n, size, b, c) ==
    \A i \in To(n), k \in To(size), h \in To(b), d \in To(c) :
        At4(u, i, h, d, k) = TokenOf(t, i * size + k, h, d)

ValuesOf(u, t, n, size, b, c) ==
    \A i \in To(n), k \in To(size), h \in To(b), d \in To(c) :
        At4(u, i, h, k, d) = TokenOf(t, i * size + k, h, d)

LEMMA KeyBlocksAre ==
    ASSUME NEW t, NEW a \in Positive, NEW b \in Positive, NEW c \in Positive,
           NEW n \in Positive, NEW size \in Positive, Shaped3(t, a, b, c)
    PROVE  /\ Shaped4(KeyBlocks(t, n, size), n, b, c, size)
           /\ KeysOf(KeyBlocks(t, n, size), t, n, size, b, c)
<1>1. /\ KeyBlocks(t, n, size).shape = <<n, b, c, size>>
      /\ KeyBlocks(t, n, size).data =
           [o \in To(n * b * c * size) |->
              TokenOf(t, (o \div (b * c * size)) * size + (o % size),
                      (o \div (c * size)) % b, (o \div size) % c)]
  BY DEF KeyBlocks, Tensor4, Shaped3
<1>2. Shaped4(KeyBlocks(t, n, size), n, b, c, size)
  BY <1>1 DEF Shaped4
<1>3. ASSUME NEW i \in To(n), NEW k \in To(size), NEW h \in To(b), NEW d \in To(c)
      PROVE  At4(KeyBlocks(t, n, size), i, h, d, k) = TokenOf(t, i * size + k, h, d)
  <2> DEFINE o == ((i * b + h) * c + d) * size + k
  <2>1. /\ o \in To(n * b * c * size)
        /\ o \div (b * c * size) = i /\ (o \div (c * size)) % b = h
        /\ (o \div size) % c = d /\ o % size = k
    BY Offset4
  <2>2. At4(KeyBlocks(t, n, size), i, h, d, k) = KeyBlocks(t, n, size).data[o]
    BY <1>1 DEF At4
  <2> HIDE DEF o
  <2> QED BY <1>1, <2>1, <2>2
<1> QED BY <1>2, <1>3 DEF KeysOf

LEMMA ValueBlocksAre ==
    ASSUME NEW t, NEW a \in Positive, NEW b \in Positive, NEW c \in Positive,
           NEW n \in Positive, NEW size \in Positive, Shaped3(t, a, b, c)
    PROVE  /\ Shaped4(ValueBlocks(t, n, size), n, b, size, c)
           /\ ValuesOf(ValueBlocks(t, n, size), t, n, size, b, c)
<1>1. /\ ValueBlocks(t, n, size).shape = <<n, b, size, c>>
      /\ ValueBlocks(t, n, size).data =
           [o \in To(n * b * size * c) |->
              TokenOf(t, (o \div (b * size * c)) * size + ((o \div c) % size),
                      (o \div (size * c)) % b, o % c)]
  BY DEF ValueBlocks, Tensor4, Shaped3
<1>2. Shaped4(ValueBlocks(t, n, size), n, b, size, c)
  BY <1>1 DEF Shaped4
<1>3. ASSUME NEW i \in To(n), NEW k \in To(size), NEW h \in To(b), NEW d \in To(c)
      PROVE  At4(ValueBlocks(t, n, size), i, h, k, d) = TokenOf(t, i * size + k, h, d)
  <2> DEFINE o == ((i * b + h) * size + k) * c + d
  <2>1. /\ o \in To(n * b * size * c)
        /\ o \div (b * size * c) = i /\ (o \div (size * c)) % b = h
        /\ (o \div c) % size = k /\ o % c = d
    BY Offset4
  <2>2. At4(ValueBlocks(t, n, size), i, h, k, d) = ValueBlocks(t, n, size).data[o]
    BY <1>1 DEF At4
  <2> HIDE DEF o
  <2> QED BY <1>1, <2>1, <2>2
<1> QED BY <1>2, <1>3 DEF ValuesOf

-----------------------------------------------------------------------------
(* The source: an element is where its name says, or with its position and *)
(* its head exchanged.                                                     *)
Elements(t, a, b, c) ==
    \A s \in To(a), h \in To(b), d \in To(c) : At3(t, s, h, d) = <<s, h, d>>

Swapped(t, a, b, c) ==
    \A s \in To(a), h \in To(b), d \in To(c) : At3(t, h, s, d) = <<s, h, d>>

(* What LayoutInit says of the shape, and LayoutAssumption. *)
Dimensions ==
    /\ shape.seq \in Positive /\ shape.spare \in Int /\ Held \in Positive
    /\ shape.heads \in Positive /\ shape.dim \in Positive
    /\ shape.block \in Positive /\ shape.tokens \in Positive
    /\ shape.source \in Sources
    /\ shape.route \in {"blocks", "canonical"} /\ shape.order \in {"token", "head"}
    /\ shape.target \in {"vllm", "reference"}
    /\ shape.source = "documented" => shape.spare = 0

SeqFirst(a, b, c) ==
    [shape |-> <<a, b, c>>,
     data |-> [o \in To(a * b * c) |-> <<o \div (b * c), (o \div c) % b, o % c>>]]

HeadFirst(a, b, c) ==
    [shape |-> <<b, a, c>>,
     data |-> [o \in To(b * a * c) |-> <<(o \div c) % a, o \div (a * c), o % c>>]]

LEMMA SeqFirstIs ==
    ASSUME NEW a \in Positive, NEW b \in Positive, NEW c \in Positive
    PROVE  Shaped3(SeqFirst(a, b, c), a, b, c) /\ Elements(SeqFirst(a, b, c), a, b, c)
<1>1. /\ SeqFirst(a, b, c).shape = <<a, b, c>>
      /\ SeqFirst(a, b, c).data =
           [o \in To(a * b * c) |-> <<o \div (b * c), (o \div c) % b, o % c>>]
  BY DEF SeqFirst
<1>2. ASSUME NEW s \in To(a), NEW h \in To(b), NEW d \in To(c)
      PROVE  At3(SeqFirst(a, b, c), s, h, d) = <<s, h, d>>
  <2> DEFINE o == (s * b + h) * c + d
  <2>1. /\ o \in To(a * b * c)
        /\ o \div (b * c) = s /\ (o \div c) % b = h /\ o % c = d
    BY Offset3
  <2>2. At3(SeqFirst(a, b, c), s, h, d) = SeqFirst(a, b, c).data[o]
    BY <1>1 DEF At3
  <2> HIDE DEF o
  <2> QED BY <1>1, <2>1, <2>2
<1> QED BY <1>1, <1>2 DEF Shaped3, Elements

LEMMA HeadFirstIs ==
    ASSUME NEW a \in Positive, NEW b \in Positive, NEW c \in Positive
    PROVE  Shaped3(HeadFirst(a, b, c), b, a, c) /\ Swapped(HeadFirst(a, b, c), a, b, c)
<1>1. /\ HeadFirst(a, b, c).shape = <<b, a, c>>
      /\ HeadFirst(a, b, c).data =
           [o \in To(b * a * c) |-> <<(o \div c) % a, o \div (a * c), o % c>>]
  BY DEF HeadFirst
<1>2. ASSUME NEW s \in To(a), NEW h \in To(b), NEW d \in To(c)
      PROVE  At3(HeadFirst(a, b, c), h, s, d) = <<s, h, d>>
  <2> DEFINE o == (h * a + s) * c + d
  <2>1. /\ o \in To(b * a * c)
        /\ o \div (a * c) = h /\ (o \div c) % a = s /\ o % c = d
    BY Offset3
  <2>2. At3(HeadFirst(a, b, c), h, s, d) = HeadFirst(a, b, c).data[o]
    BY <1>1 DEF At3
  <2> HIDE DEF o
  <2> QED BY <1>1, <2>1, <2>2
<1> QED BY <1>1, <1>2 DEF Shaped3, Swapped

WithBatch(t) == [t EXCEPT !.shape = <<1, t.shape[1], t.shape[2], t.shape[3]>>]

LEMMA Batched ==
    ASSUME NEW t, NEW a, NEW b, NEW c, t.shape = <<a, b, c>>,
           t = [shape |-> t.shape, data |-> t.data]
    PROVE  /\ DropBatch(t) = t /\ DropBatch(WithBatch(t)) = t
           /\ WithBatch(t) = [shape |-> <<1, a, b, c>>, data |-> t.data]
<1>1. Len(t.shape) = 3
  OBVIOUS
<1>2. DropBatch(t) = t
  BY <1>1 DEF DropBatch
<1>3. Tail(<<1, a, b, c>>) = <<a, b, c>>
  OBVIOUS
<1>4. WithBatch(t) = [shape |-> <<1, a, b, c>>, data |-> t.data]
  BY DEF WithBatch
<1>5. DropBatch([shape |-> <<1, a, b, c>>, data |-> t.data]) = [shape |-> <<a, b, c>>, data |-> t.data]
  BY <1>3 DEF DropBatch
<1> QED BY <1>2, <1>4, <1>5

LEMMA SourceIs ==
    ASSUME Dimensions
    PROVE  /\ shape.source \in {"seq", "batch_seq"} =>
                DropBatch(SourceTensor) = SeqFirst(Held, shape.heads, shape.dim)
           /\ shape.source \in {"head", "batch_head"} =>
                DropBatch(SourceTensor) = HeadFirst(Held, shape.heads, shape.dim)
           /\ shape.source = "documented" =>
                SourceTensor = [shape |-> <<1, shape.heads, Held, shape.dim>>,
                                data |-> HeadFirst(Held, shape.heads, shape.dim).data]
<1> DEFINE t == SeqFirst(Held, shape.heads, shape.dim)
<1> DEFINE u == HeadFirst(Held, shape.heads, shape.dim)
<1>1. SourceTensor =
        CASE shape.source = "seq" -> t
          [] shape.source = "head" -> u
          [] shape.source = "batch_seq" -> WithBatch(t)
          [] OTHER -> WithBatch(u)
  BY DEF WithBatch, SourceTensor, Tensor3, Element, SeqFirst, HeadFirst
<1>2. /\ t.shape = <<Held, shape.heads, shape.dim>> /\ t = [shape |-> t.shape, data |-> t.data]
      /\ u.shape = <<shape.heads, Held, shape.dim>> /\ u = [shape |-> u.shape, data |-> u.data]
  BY DEF SeqFirst, HeadFirst
<1> HIDE DEF t, u
<1>3. /\ DropBatch(t) = t /\ DropBatch(WithBatch(t)) = t
      /\ DropBatch(u) = u /\ DropBatch(WithBatch(u)) = u
      /\ WithBatch(u) = [shape |-> <<1, shape.heads, Held, shape.dim>>, data |-> u.data]
  BY <1>2, Batched
<1>4. CASE shape.source = "seq"
  BY <1>1, <1>3, <1>4 DEF t
<1>5. CASE shape.source = "head"
  BY <1>1, <1>3, <1>5 DEF u
<1>6. CASE shape.source = "batch_seq"
  BY <1>1, <1>3, <1>6 DEF t
<1>7. CASE shape.source = "batch_head"
  BY <1>1, <1>3, <1>7 DEF u
<1>8. CASE shape.source = "documented"
  BY <1>1, <1>3, <1>8 DEF u
<1> QED BY <1>4, <1>5, <1>6, <1>7, <1>8 DEF Dimensions, Sources

(* If there are more tokens than heads, the guess which axis is the        *)
(* sequence is right, or the cache is too short and is refused.            *)
LEMMA OrientedIs ==
    ASSUME Dimensions, shape.source # "documented", NEW t, t = Oriented(SourceTensor, shape.seq)
    PROVE  /\ \/ Shaped3(t, Held, shape.heads, shape.dim)
              \/ Shaped3(t, shape.heads, Held, shape.dim)
           /\ SourceIsClear /\ Held < shape.seq => t.shape[1] < shape.seq
           /\ SourceIsClear /\ Held >= shape.seq =>
                /\ Shaped3(t, Held, shape.heads, shape.dim)
                /\ Elements(t, Held, shape.heads, shape.dim)
<1> PICK u : u = DropBatch(SourceTensor)
  OBVIOUS
<1> PICK a : a = Held
  OBVIOUS
<1> PICK b : b = shape.heads
  OBVIOUS
<1> PICK c : c = shape.dim
  OBVIOUS
<1>1. a \in Positive /\ b \in Positive /\ c \in Positive /\ shape.seq \in Positive
  BY DEF Dimensions
<1>2. t = IF TakesHeadsFirst(u.shape, shape.seq) THEN Transpose01(u) ELSE u
  BY DEF Oriented
<1>3. SourceIsClear <=> shape.seq > b
  BY DEF SourceIsClear
<1>4. CASE shape.source \in {"seq", "batch_seq"}
  <2>1. u = SeqFirst(a, b, c)
    BY <1>4, SourceIs
  <2>2. Shaped3(u, a, b, c) /\ Elements(u, a, b, c)
    BY <1>1, <2>1, SeqFirstIs
  <2>3. u.shape = <<a, b, c>> /\ u.shape[1] = a /\ u.shape[2] = b
    BY <2>2 DEF Shaped3
  <2>4. Shaped3(Transpose01(u), b, a, c)
    BY <1>1, <2>2, TransposeIs
  <2>5. SourceIsClear => ~TakesHeadsFirst(u.shape, shape.seq)
    BY <1>1, <1>3, <2>3, SMTT(30) DEF TakesHeadsFirst, Positive
  <2>6. SourceIsClear => t = u
    BY <1>2, <2>5
  <2> QED BY <1>2, <2>2, <2>3, <2>4, <2>6
<1>5. CASE shape.source \in {"head", "batch_head"}
  <2>1. u = HeadFirst(a, b, c)
    BY <1>5, SourceIs
  <2>2. Shaped3(u, b, a, c) /\ Swapped(u, a, b, c)
    BY <1>1, <2>1, HeadFirstIs
  <2>3. u.shape = <<b, a, c>> /\ u.shape[1] = b /\ u.shape[2] = a
    BY <2>2 DEF Shaped3
  <2>4. /\ Shaped3(Transpose01(u), a, b, c)
        /\ \A i \in To(b), j \in To(a), k \in To(c) :
              At3(Transpose01(u), j, i, k) = At3(u, i, j, k)
    BY <1>1, <2>2, TransposeIs
  <2>5. Elements(Transpose01(u), a, b, c)
    BY <2>2, <2>4 DEF Swapped, Elements
  <2>6. SourceIsClear => (TakesHeadsFirst(u.shape, shape.seq) <=> a >= shape.seq)
    BY <1>1, <1>3, <2>3, SMTT(30) DEF TakesHeadsFirst, Positive
  <2>7. SourceIsClear /\ a < shape.seq => t = u
    BY <1>1, <1>2, <2>6, SMTT(30) DEF Positive
  <2>8. SourceIsClear /\ a >= shape.seq => t = Transpose01(u)
    BY <1>2, <2>6
  <2> QED BY <1>2, <1>3, <2>2, <2>3, <2>4, <2>5, <2>7, <2>8
<1> QED BY <1>4, <1>5 DEF Dimensions, Sources

-----------------------------------------------------------------------------
(* The canonical tensors. *)
Clear(sh) == sh.seq > sh.heads /\ sh.source # "documented"

Token(sh, s, h, d) == IF s < sh.seq THEN <<s, h, d>> ELSE Zero

(* Key and value after the extraction: seq tokens, whatever was taken for  *)
(* the heads; the elements if the source is clear.                         *)
Canonical(sh, k, v) ==
    /\ v = k
    /\ k.shape[2] \in Positive /\ Shaped3(k, sh.seq, k.shape[2], sh.dim)
    /\ Clear(sh) => k.shape[2] = sh.heads /\ Elements(k, sh.seq, sh.heads, sh.dim)

(* RefusedForCause, for a given shape. *)
Cause(sh) ==
    \/ sh.spare < 0
    \/ sh.target = "vllm" /\ sh.block % sh.tokens # 0
    \/ sh.target = "reference" /\ sh.route = "blocks" /\ sh.dim # sh.block

LEMMA Extracted ==
    ASSUME Dimensions, Extract
    PROVE  \/ stage' = "canonical" /\ Canonical(shape, key', value')
           \/ stage' = "failed" /\ (Clear(shape) => Cause(shape))
<1> PICK t : t = Oriented(SourceTensor, shape.seq)
  OBVIOUS
<1>1. /\ shape.seq \in Positive /\ Held \in Positive /\ shape.heads \in Positive
      /\ shape.dim \in Positive /\ Held = shape.seq + shape.spare /\ shape.spare \in Int
  BY DEF Dimensions, Held
<1>2. Clear(shape) <=> SourceIsClear
  BY DEF Clear, SourceIsClear
<1>3. CASE shape.source = "documented"
  <2> PICK u : u = NormalizeCanonicalKvTensor(SourceTensor)
    OBVIOUS
  <2>1. key' = u /\ value' = u /\ stage' = "canonical"
    BY <1>3 DEF Extract
  <2> PICK f : f = HeadFirst(Held, shape.heads, shape.dim).data
    OBVIOUS
  <2>2. SourceTensor = [shape |-> <<1, shape.heads, Held, shape.dim>>, data |-> f]
    BY <1>3, SourceIs
  <2>3. DOMAIN f = To(shape.heads * Held * shape.dim)
    BY <1>1, HeadFirstIs, ZenonT(60) DEF Shaped3
  <2>4. u = [shape |-> <<Held, shape.heads, shape.dim>>, data |-> f]
    BY <2>2 DEF NormalizeCanonicalKvTensor
  <2>5. Held = shape.seq
    BY <1>1, <1>3, SMTT(30) DEF Dimensions, Positive
  <2>6. shape.heads * Held * shape.dim = Held * shape.heads * shape.dim
    BY <1>1, SMTT(30) DEF Positive
  <2>7. Shaped3(u, shape.seq, shape.heads, shape.dim)
    BY <2>3, <2>4, <2>5, <2>6 DEF Shaped3
  <2>8. u.shape[2] = shape.heads
    BY <2>4
  <2> QED BY <1>1, <1>3, <2>1, <2>7, <2>8 DEF Canonical, Clear
<1>4. CASE shape.source # "documented" /\ t.shape[1] < shape.seq
  <2>1. stage' = "failed"
    BY <1>4 DEF Extract, Fail
  <2>2. ASSUME SourceIsClear PROVE shape.spare < 0
    <3>1. CASE Held < shape.seq
      BY <1>1, <3>1, SMTT(30) DEF Positive
    <3>2. CASE Held >= shape.seq
      <4>1. t.shape = <<Held, shape.heads, shape.dim>>
        BY <1>4, <2>2, <3>2, OrientedIs DEF Shaped3
      <4> QED BY <1>1, <1>4, <3>2, <4>1, SMTT(30) DEF Positive
    <3> QED BY <1>1, <3>1, <3>2, SMTT(30) DEF Positive
  <2> QED BY <1>2, <2>1, <2>2 DEF Cause
<1>5. CASE shape.source # "documented" /\ ~(t.shape[1] < shape.seq)
  <2> PICK u : u = Trim(t, shape.seq)
    OBVIOUS
  <2>1. key' = u /\ value' = u /\ stage' = "canonical"
    BY <1>5 DEF Extract
  <2>2. Shaped3(u, shape.seq, u.shape[2], shape.dim) /\ u.shape[2] \in Positive
    <3>1. CASE Shaped3(t, Held, shape.heads, shape.dim)
      <4>1. Shaped3(u, shape.seq, shape.heads, shape.dim)
        BY <1>1, <3>1, TrimIs
      <4> QED BY <1>1, <4>1 DEF Shaped3
    <3>2. CASE Shaped3(t, shape.heads, Held, shape.dim)
      <4>1. Shaped3(u, shape.seq, Held, shape.dim)
        BY <1>1, <3>2, TrimIs
      <4> QED BY <1>1, <4>1 DEF Shaped3
    <3> QED BY <1>5, <3>1, <3>2, OrientedIs
  <2>3. ASSUME SourceIsClear
        PROVE  u.shape[2] = shape.heads /\ Elements(u, shape.seq, shape.heads, shape.dim)
    <3>1. Held >= shape.seq
      BY <1>1, <1>5, <2>3, OrientedIs, SMTT(30) DEF Positive
    <3>2. Shaped3(t, Held, shape.heads, shape.dim) /\ Elements(t, Held, shape.heads, shape.dim)
      BY <1>5, <2>3, <3>1, OrientedIs
    <3>3. /\ Shaped3(u, shape.seq, shape.heads, shape.dim)
          /\ Agree(u, t, shape.seq, shape.heads, shape.dim)
      BY <1>1, <3>2, TrimIs
    <3>4. \A i \in To(shape.seq) : i \in To(Held)
      BY <1>1, <3>1, SMTT(30) DEF To, Positive
    <3> QED BY <3>2, <3>3, <3>4 DEF Elements, Shaped3, Agree
  <2> QED BY <1>2, <2>1, <2>2, <2>3 DEF Canonical
<1> QED BY <1>3, <1>4, <1>5

-----------------------------------------------------------------------------
(* Blocks. *)
BlockCount(sh) == DivUp(sh.seq, sh.block)

TokensIn(sh, k, v) ==
    \A i \in To(BlockCount(sh)), t \in To(sh.block), h \in To(sh.heads), d \in To(sh.dim) :
        /\ At4(k, i, h, d, t) = Token(sh, i * sh.block + t, h, d)
        /\ At4(v, i, h, t, d) = Token(sh, i * sh.block + t, h, d)

(* Key and value in blocks. *)
Blocked(sh, k, v) ==
    /\ k.shape[2] \in Positive
    /\ Shaped4(k, BlockCount(sh), k.shape[2], sh.dim, sh.block)
    /\ Shaped4(v, BlockCount(sh), k.shape[2], sh.block, sh.dim)
    /\ Clear(sh) => k.shape[2] = sh.heads /\ TokensIn(sh, k, v)

LEMMA SomeBlocks ==
    ASSUME Dimensions
    PROVE  BlockCount(shape) \in Positive
<1> PICK s : s = shape.seq
  OBVIOUS
<1> PICK c : c = shape.block
  OBVIOUS
<1>1. s \in Positive /\ c \in Positive
  BY DEF Dimensions
<1> PICK n : n = s + c - 1
  OBVIOUS
<1> PICK q : q = n \div c
  OBVIOUS
<1> PICK r : r = n % c
  OBVIOUS
<1>2. n \in Nat /\ n >= c
  BY <1>1, SMTT(30) DEF Positive
<1>3. q \in Nat /\ r \in To(c) /\ n = q * c + r
  BY <1>1, <1>2, Divided
<1>4. q # 0
  <2>1. SUFFICES ASSUME q = 0 PROVE FALSE
    OBVIOUS
  <2>2. n = r
    BY <1>1, <1>2, <1>3, <2>1, SMTT(30) DEF To, Positive
  <2> QED BY <1>1, <1>2, <1>3, <2>2, SMTT(30) DEF To, Positive
<1>5. BlockCount(shape) = q
  BY DEF BlockCount, DivUp
<1> QED BY <1>3, <1>4, <1>5 DEF Positive

LEMMA Blocking ==
    ASSUME Dimensions, Canonical(shape, key, value), ToBlocks
    PROVE  Blocked(shape, key', value')
<1> PICK n : n = BlockCount(shape)
  OBVIOUS
<1> PICK p : p = key.shape[2]
  OBVIOUS
<1> PICK b : b = shape.block
  OBVIOUS
<1> PICK e : e = shape.dim
  OBVIOUS
<1> PICK k : k = KeyBlocks(key, n, b)
  OBVIOUS
<1> PICK v : v = ValueBlocks(key, n, b)
  OBVIOUS
<1>1. /\ n \in Positive /\ p \in Positive /\ b \in Positive /\ e \in Positive
      /\ shape.seq \in Positive /\ value = key
      /\ Shaped3(key, shape.seq, p, e)
  BY SomeBlocks DEF Dimensions, Canonical
<1>2. key.shape[1] = shape.seq
  BY <1>1 DEF Shaped3
<1>3. key' = k /\ value' = v
  BY <1>1, <1>2 DEF ToBlocks, BlockCount
<1>4. Shaped4(k, n, p, e, b) /\ KeysOf(k, key, n, b, p, e)
  BY <1>1, KeyBlocksAre
<1>5. Shaped4(v, n, p, b, e) /\ ValuesOf(v, key, n, b, p, e)
  BY <1>1, ValueBlocksAre
<1>6. k.shape[2] = p
  BY <1>4 DEF Shaped4
<1>7. ASSUME Clear(shape) PROVE p = shape.heads /\ TokensIn(shape, k, v)
  <2>1. p = shape.heads /\ Elements(key, shape.seq, p, e)
    BY <1>7 DEF Canonical
  <2>2. ASSUME NEW i \in To(n), NEW t \in To(b), NEW h \in To(p), NEW d \in To(e)
        PROVE  TokenOf(key, i * b + t, h, d) = Token(shape, i * b + t, h, d)
    <3> PICK s : s = i * b + t
      OBVIOUS
    <3>1. s \in Nat
      BY <1>1, SMTT(30) DEF To, Positive
    <3>2. s < shape.seq => s \in To(shape.seq)
      BY <1>1, <3>1, SMTT(30) DEF To, Positive
    <3>3. s < shape.seq => At3(key, s, h, d) = <<s, h, d>>
      BY <2>1, <3>2 DEF Elements
    <3> QED BY <1>2, <3>3 DEF TokenOf, Token
  <2> QED BY <1>4, <1>5, <2>1, <2>2 DEF TokensIn, KeysOf, ValuesOf
<1> QED BY <1>1, <1>3, <1>4, <1>5, <1>6, <1>7 DEF Blocked

(* The data that the client streams, under the shape of the header. *)
SlicedAs(t, dims, n) == [shape |-> dims, data |-> [o \in To(n) |-> t.data[o]]]

LEMMA SlicesAgree ==
    ASSUME NEW a \in Positive, NEW b \in Positive, NEW c \in Positive, NEW d \in Positive,
           NEW t, Shaped4(t, a, b, c, d), NEW n, n = a * b * c * d,
           NEW i \in To(a), NEW j \in To(b), NEW k \in To(c), NEW l \in To(d)
    PROVE  At4(SlicedAs(t, <<a, b, c, d>>, n), i, j, k, l) = At4(t, i, j, k, l)
<1> PICK o : o = ((i * b + j) * c + k) * d + l
  OBVIOUS
<1> PICK u : u = SlicedAs(t, <<a, b, c, d>>, n)
  OBVIOUS
<1>1. o \in To(n)
  BY Offset4
<1>2. At4(t, i, j, k, l) = t.data[o]
  BY DEF At4, Shaped4
<1>3. u.shape = <<a, b, c, d>> /\ u.data = [x \in To(n) |-> t.data[x]]
  BY DEF SlicedAs
<1>4. At4(u, i, j, k, l) = u.data[o]
  BY <1>3 DEF At4
<1> QED BY <1>1, <1>2, <1>3, <1>4

LEMMA Streamed ==
    ASSUME Dimensions, Blocked(shape, key, value), StreamBlocks
    PROVE  \/ stage' = "prepared" /\ Blocked(shape, key', value')
           \/ stage' = "failed" /\ ~Clear(shape)
<1> PICK n : n = BlockCount(shape)
  OBVIOUS
<1> PICK p : p = key.shape[2]
  OBVIOUS
<1> PICK q : q = shape.heads
  OBVIOUS
<1> PICK b : b = shape.block
  OBVIOUS
<1> PICK e : e = shape.dim
  OBVIOUS
<1> PICK f : f = n * q * e * b
  OBVIOUS
<1>1. /\ n \in Positive /\ p \in Positive /\ q \in Positive /\ b \in Positive /\ e \in Positive
      /\ Shaped4(key, n, p, e, b) /\ Shaped4(value, n, p, b, e)
  BY SomeBlocks DEF Dimensions, Blocked
<1>2. f = n * q * b * e
  BY <1>1, SMTT(30) DEF Positive
<1>3. CASE ~(To(f) \subseteq DOMAIN key.data)
  <2>1. stage' = "failed"
    BY <1>3 DEF StreamBlocks, BlockCount, Fail
  <2>2. ~Clear(shape)
    BY <1>1, <1>3 DEF Blocked, Shaped4
  <2> QED BY <2>1, <2>2
<1>4. CASE To(f) \subseteq DOMAIN key.data
  <2> PICK k : k = SlicedAs(key, <<n, q, e, b>>, f)
    OBVIOUS
  <2> PICK v : v = SlicedAs(value, <<n, q, b, e>>, f)
    OBVIOUS
  <2>1. key' = k /\ value' = v /\ stage' = "prepared"
    BY <1>4 DEF StreamBlocks, BlockCount, SlicedAs
  <2>2. Shaped4(k, n, q, e, b) /\ Shaped4(v, n, q, b, e) /\ k.shape[2] = q
    BY <1>2 DEF Shaped4, SlicedAs
  <2>3. ASSUME Clear(shape) PROVE TokensIn(shape, k, v)
    <3>1. p = q /\ TokensIn(shape, key, value)
      BY <2>3 DEF Blocked
    <3>2. ASSUME NEW i \in To(n), NEW t \in To(b), NEW h \in To(q), NEW d \in To(e)
          PROVE  At4(k, i, h, d, t) = At4(key, i, h, d, t) /\ At4(v, i, h, t, d) = At4(value, i, h, t, d)
      <4>1. At4(k, i, h, d, t) = At4(key, i, h, d, t)
        BY <1>1, <3>1, SlicesAgree
      <4>2. At4(v, i, h, t, d) = At4(value, i, h, t, d)
        BY <1>1, <1>2, <3>1, SlicesAgree
      <4> QED BY <4>1, <4>2
    <3> QED BY <3>1, <3>2 DEF TokensIn
  <2> QED BY <1>1, <2>1, <2>2, <2>3 DEF Blocked
<1> QED BY <1>3, <1>4

-----------------------------------------------------------------------------
(* Cells of the target's cache: a source block is per target blocks of tok *)
(* tokens, and there are n source blocks.                                  *)
BlockAt(per, tok, n, b, k) == n * per - 1 - (b * per + (k \div tok))

CellAt(first, per, tok, n, b, k, h, d) ==
    IF first = "token" THEN <<BlockAt(per, tok, n, b, k), k % tok, h, d>>
                       ELSE <<BlockAt(per, tok, n, b, k), h, k % tok, d>>

LEMMA BlockIs ==
    ASSUME NEW per \in Positive, NEW tok \in Positive, NEW n \in Positive,
           NEW b \in To(n), NEW k \in To(per * tok)
    PROVE  /\ k \div tok \in To(per) /\ k % tok \in To(tok)
           /\ k = (k \div tok) * tok + (k % tok)
           /\ b * per + (k \div tok) \in To(n * per)
           /\ BlockAt(per, tok, n, b, k) \in To(n * per)
<1>1. k \div tok \in To(per) /\ k % tok \in To(tok) /\ k = (k \div tok) * tok + (k % tok)
  BY Quotient
<1> PICK q : q = k \div tok
  OBVIOUS
<1>2. b * per + q \in To(n * per) /\ n * per \in Positive
  BY <1>1, Within
<1>3. n * per - 1 - (b * per + q) \in To(n * per)
  BY <1>2, SMTT(30) DEF To, Positive
<1> QED BY <1>1, <1>2, <1>3 DEF BlockAt

LEMMA BlockInRange ==
    ASSUME NEW per \in Positive, NEW tok \in Positive, NEW n \in Positive,
           NEW b \in To(n), NEW k \in To(per * tok)
    PROVE  BlockAt(per, tok, n, b, k) \in To(n * per)
BY BlockIs

LEMMA SameBlock ==
    ASSUME NEW per \in Positive, NEW tok \in Positive, NEW n \in Positive,
           NEW b \in To(n), NEW k \in To(per * tok), NEW c \in To(n), NEW l \in To(per * tok),
           BlockAt(per, tok, n, b, k) = BlockAt(per, tok, n, c, l), k % tok = l % tok
    PROVE  b = c /\ k = l
<1> PICK q : q = k \div tok
  OBVIOUS
<1> PICK r : r = l \div tok
  OBVIOUS
<1> PICK m : m = n * per
  OBVIOUS
<1> PICK x : x = b * per + q
  OBVIOUS
<1> PICK y : y = c * per + r
  OBVIOUS
<1>1. /\ q \in To(per) /\ r \in To(per) /\ x \in To(m) /\ y \in To(m)
      /\ k = q * tok + (k % tok) /\ l = r * tok + (l % tok)
  BY BlockIs
<1>2. m \in Positive
  BY SMTT(30) DEF Positive
<1>3. m - 1 - x = m - 1 - y
  BY DEF BlockAt
<1>4. x = y
  BY <1>1, <1>2, <1>3, SMTT(30) DEF To, Positive
<1>5. b \in Nat /\ c \in Nat
  BY SMTT(30) DEF To, Positive
<1>6. x \div per = b /\ x % per = q /\ y \div per = c /\ y % per = r
  BY <1>1, <1>5, Composed
<1>7. b = c /\ q = r
  BY <1>4, <1>6
<1> QED BY <1>1, <1>7

LEMMA EveryBlock ==
    ASSUME NEW per \in Positive, NEW tok \in Positive, NEW n \in Positive, NEW x \in To(n * per)
    PROVE  \E b \in To(n), k \in To(per * tok) : BlockAt(per, tok, n, b, k) = x
<1> PICK m : m = n * per
  OBVIOUS
<1> PICK y : y = m - 1 - x
  OBVIOUS
<1> PICK b : b = y \div per
  OBVIOUS
<1> PICK r : r = y % per
  OBVIOUS
<1> PICK k : k = r * tok + 0
  OBVIOUS
<1>1. m \in Positive /\ m \in Int /\ 0 \in To(tok)
  BY SMTT(30) DEF Positive, To
<1>2. y \in To(m) /\ m - 1 - y = x
  BY <1>1, SMTT(30) DEF To
<1>3. b \in To(n) /\ r \in To(per) /\ y = b * per + r
  BY <1>2, Quotient
<1>4. k \in To(per * tok)
  BY <1>1, <1>3, Within
<1>5. r \in Nat
  BY <1>3, SMTT(30) DEF To, Positive
<1>6. k \div tok = r
  BY <1>1, <1>5, Composed
<1>7. BlockAt(per, tok, n, b, k) = x
  BY <1>2, <1>3, <1>6 DEF BlockAt
<1> QED BY <1>3, <1>4, <1>7

LEMMA Regrouped ==
    ASSUME NEW b \in Nat, NEW per \in Nat, NEW q \in Nat, NEW tok \in Nat, NEW r \in Nat
    PROVE  (b * per + q) * tok + r = b * (per * tok) + (q * tok + r)
BY SMTT(30)

(* The reader's arithmetic: token s of all, and token k of block b. *)
LEMMA ReaderFinds ==
    ASSUME NEW per \in Positive, NEW tok \in Positive, NEW n \in Positive,
           NEW s \in To(n * (per * tok))
    PROVE  \E b \in To(n), k \in To(per * tok) :
              /\ s = b * (per * tok) + k
              /\ s \div tok = b * per + (k \div tok) /\ s % tok = k % tok
<1> PICK c : c = per * tok
  OBVIOUS
<1> PICK b : b = s \div c
  OBVIOUS
<1> PICK k : k = s % c
  OBVIOUS
<1>1. c \in Positive
  BY SMTT(30) DEF Positive
<1>2. b \in To(n) /\ k \in To(c) /\ s = b * c + k
  BY <1>1, Quotient
<1> PICK q : q = k \div tok
  OBVIOUS
<1> PICK r : r = k % tok
  OBVIOUS
<1>3. q \in To(per) /\ r \in To(tok) /\ k = q * tok + r
  BY <1>2, BlockIs
<1>4. b \in Nat /\ q \in Nat /\ r \in Nat /\ b * per + q \in Nat
  BY <1>2, <1>3, SMTT(30) DEF To, Positive
<1>5. s = (b * per + q) * tok + r
  <2>1. per \in Nat /\ tok \in Nat
    BY DEF Positive
  <2>2. (b * per + q) * tok + r = b * (per * tok) + (q * tok + r)
    BY <1>4, <2>1, Regrouped
  <2>3. s = b * (per * tok) + (q * tok + r)
    BY <1>2, <1>3, ZenonT(60)
  <2> QED BY <2>2, <2>3, ZenonT(60)
<1> PICK x : x = b * per + q
  OBVIOUS
<1>6. s \div tok = x /\ s % tok = r
  <2>1. x \in Nat /\ s = x * tok + r
    BY <1>4, <1>5, ZenonT(60)
  <2>2. (x * tok + r) \div tok = x /\ (x * tok + r) % tok = r
    BY <1>3, <2>1, Composed, ZenonT(30)
  <2> QED BY <2>1, <2>2, ZenonT(60)
<1> QED BY <1>2, <1>6

LayoutOf(sh, p) ==
    CombinedLayout(IF sh.order = "token" THEN <<sh.tokens, sh.heads>> ELSE <<sh.heads, sh.tokens>>,
                   sh.block, p)

(* A layout that is not refused splits a block evenly. *)
LEMMA LayoutSplits ==
    ASSUME NEW x \in Positive, NEW y \in Positive, NEW size \in Positive, NEW p \in Positive,
           NEW l, l = CombinedLayout(<<x, y>>, size, p), l.first # "unsupported"
    PROVE  /\ l.first \in {"token", "head"} /\ l.per \in Positive /\ l.tokens \in Positive
           /\ l.per * l.tokens = size
<1>1. ASSUME NEW z \in Positive, size % z = 0
      PROVE  size \div z \in Positive /\ (size \div z) * z = size
  <2> PICK q : q = size \div z
    OBVIOUS
  <2>1. size \in Nat
    BY DEF Positive
  <2>2. q \in Nat /\ size = q * z + 0
    BY <1>1, <2>1, Divided
  <2>3. q # 0
    BY <2>1, <2>2, SMTT(30) DEF Positive
  <2>4. q * z = size
    BY <2>1, <2>2, SMTT(30) DEF Positive
  <2> QED BY <2>2, <2>3, <2>4 DEF Positive
<1>2. 1 \in Positive /\ 1 * size = size
  BY SMTT(30) DEF Positive
<1>3. CASE <<x, y>> = <<size, p>>
  <2>1. l = [first |-> "token", tokens |-> size, per |-> 1]
    BY <1>3 DEF CombinedLayout
  <2> QED BY <1>2, <2>1
<1>4. CASE <<x, y>> # <<size, p>> /\ <<x, y>> = <<p, size>>
  <2>1. l = [first |-> "head", tokens |-> size, per |-> 1]
    BY <1>4 DEF CombinedLayout
  <2> QED BY <1>2, <2>1
<1>5. CASE <<x, y>> # <<size, p>> /\ <<x, y>> # <<p, size>> /\ y = p /\ size % x = 0
  <2>1. l = [first |-> "token", tokens |-> x, per |-> size \div x]
    BY <1>5 DEF CombinedLayout
  <2> QED BY <1>1, <1>5, <2>1
<1>6. CASE <<x, y>> # <<size, p>> /\ <<x, y>> # <<p, size>> /\ ~(y = p /\ size % x = 0)
  <2>1. x = p /\ size % y = 0 /\ l = [first |-> "head", tokens |-> y, per |-> size \div y]
    BY <1>6 DEF CombinedLayout
  <2> QED BY <1>1, <2>1
<1> QED BY <1>3, <1>4, <1>5, <1>6

LEMMA WholeBlock ==
    ASSUME NEW n \in Positive, NEW b \in To(n), NEW size \in Positive, NEW k \in To(size)
    PROVE  /\ BlockAt(1, size, n, b, k) = n * 1 - 1 - b
           /\ k % size = k
<1>1. k = 0 * size + k /\ k \in Nat /\ b \in Nat
  BY SMTT(30) DEF To, Positive
<1>2. k \div size = 0 /\ k % size = k
  BY <1>1, Composed
<1>3. b * 1 + 0 = b
  BY <1>1, SMTT(30)
<1> QED BY <1>2, <1>3 DEF BlockAt

(* The writer and the probe compute the same cell. *)
LEMMA CellIs ==
    ASSUME Dimensions, NEW p \in Positive, p = PayloadHeads, NEW n \in Positive, n = NumBlocks,
           NEW l, l = Layout, l.first # "unsupported",
           NEW b \in To(n), NEW k \in To(shape.block), NEW h, NEW d
    PROVE  /\ WriteIndex(b, k, h, d) = CellAt(l.first, l.per, l.tokens, n, b, k, h, d)
           /\ CombinedTargetIndices(b, k, h, d) = CellAt(l.first, l.per, l.tokens, n, b, k, h, d)
<1>1. CombinedTargetIndices(b, k, h, d) = CellAt(l.first, l.per, l.tokens, n, b, k, h, d)
  BY DEF CombinedTargetIndices, CellAt, BlockAt, TargetBlockIdOf, TargetBlockCount
<1> PICK size : size = shape.block
  OBVIOUS
<1>2. \E x \in Positive, y \in Positive : CacheDims = <<x, y>>
  BY DEF CacheDims, Dimensions
<1> PICK x \in Positive, y \in Positive : CacheDims = <<x, y>>
  BY <1>2
<1>3. size \in Positive
  BY DEF Dimensions
<1>4. l = CombinedLayout(<<x, y>>, size, p)
  BY DEF Layout
<1>5. \A i : TargetBlockIdOf(i) = n * l.per - 1 - i
  BY DEF TargetBlockIdOf, TargetBlockCount
<1>6. BlockAt(1, size, n, b, k) = n * 1 - 1 - b /\ k % size = k
  BY <1>3, WholeBlock
<1>7. CASE <<x, y>> = <<size, p>>
  <2>1. l = [first |-> "token", tokens |-> size, per |-> 1]
    BY <1>4, <1>7 DEF CombinedLayout
  <2>2. WriteIndex(b, k, h, d) = <<n * 1 - 1 - b, k, h, d>>
    BY <1>5, <1>7, <2>1 DEF WriteIndex
  <2> QED BY <1>1, <1>6, <2>1, <2>2 DEF CellAt
<1>8. CASE <<x, y>> # <<size, p>> /\ <<x, y>> = <<p, size>>
  <2>1. l = [first |-> "head", tokens |-> size, per |-> 1]
    BY <1>4, <1>8 DEF CombinedLayout
  <2>2. WriteIndex(b, k, h, d) = <<n * 1 - 1 - b, h, k, d>>
    BY <1>5, <1>8, <2>1 DEF WriteIndex
  <2> QED BY <1>1, <1>6, <2>1, <2>2 DEF CellAt
<1>9. CASE <<x, y>> # <<size, p>> /\ <<x, y>> # <<p, size>> /\ y = p /\ size % x = 0
  <2>1. l = [first |-> "token", tokens |-> x, per |-> size \div x]
    BY <1>4, <1>9 DEF CombinedLayout
  <2>2. WriteIndex(b, k, h, d) = <<n * l.per - 1 - (b * (size \div x) + k \div x), k % x, h, d>>
    BY <1>5, <1>9 DEF WriteIndex
  <2> QED BY <1>1, <2>1, <2>2 DEF CellAt, BlockAt
<1>10. CASE <<x, y>> # <<size, p>> /\ <<x, y>> # <<p, size>> /\ ~(y = p /\ size % x = 0)
  <2>1. l = [first |-> "head", tokens |-> y, per |-> size \div y]
    BY <1>4, <1>10 DEF CombinedLayout
  <2>2. WriteIndex(b, k, h, d) = <<n * l.per - 1 - (b * (size \div y) + k \div y), h, k % y, d>>
    BY <1>5, <1>10 DEF WriteIndex
  <2> QED BY <1>1, <2>1, <2>2 DEF CellAt, BlockAt
<1> QED BY <1>7, <1>8, <1>9, <1>10

-----------------------------------------------------------------------------
(* The cache that is written. *)
CellOf(l, n, b, t, h, d) == CellAt(l.first, l.per, l.tokens, n, b, t, h, d)

Placed(c, cell, k, v) == cell \in DOMAIN c.key /\ c.key[cell] = k /\ c.value[cell] = v

(* Every element is in its cell, and the cells are those of the allocated  *)
(* blocks.                                                                 *)
StoredBy(l, n, sh, k, v, c) ==
    /\ l.first # "unsupported"
    /\ \A b \in To(n), t \in To(sh.block), h \in To(k.shape[2]), d \in To(sh.dim) :
          Placed(c, CellOf(l, n, b, t, h, d), At4(k, b, h, d, t), At4(v, b, h, t, d))
    /\ {x[1] : x \in DOMAIN c.key} = To(n * l.per)

Stored(sh, k, v, c) == StoredBy(LayoutOf(sh, k.shape[2]), BlockCount(sh), sh, k, v, c)

LEMMA OriginIs ==
    ASSUME NEW by, \A x, y \in DOMAIN by : by[x] = by[y] => x = y, NEW y \in DOMAIN by
    PROVE  Origin(by, by[y]) = y
<1> PICK z : z = CHOOSE x \in DOMAIN by : by[x] = by[y]
  OBVIOUS
<1>1. z \in DOMAIN by /\ by[z] = by[y]
  BY ZenonT(60)
<1> QED BY <1>1, ZenonT(60) DEF Origin

LEMMA Quadruple ==
    ASSUME NEW A, NEW B, NEW C, NEW D, NEW x \in A \X B \X C \X D
    PROVE  x[1] \in A /\ x[2] \in B /\ x[3] \in C /\ x[4] \in D /\ x = <<x[1], x[2], x[3], x[4]>>
OBVIOUS

LEMMA CellsDiffer ==
    ASSUME Dimensions, Blocked(shape, key, value), Layout.first # "unsupported"
    PROVE  \A x, y \in Tokens : Cells[x] = Cells[y] => x = y
<1> PICK p : p = PayloadHeads
  OBVIOUS
<1> PICK n : n = NumBlocks
  OBVIOUS
<1> PICK l : l = Layout
  OBVIOUS
<1>1. p \in Positive /\ n \in Positive /\ n = BlockCount(shape) /\ p = key.shape[2]
  BY SomeBlocks DEF Blocked, Shaped4, PayloadHeads, NumBlocks
<1>2. l.per \in Positive /\ l.tokens \in Positive /\ l.per * l.tokens = shape.block
  <2>1. \E x \in Positive, y \in Positive : CacheDims = <<x, y>>
    BY DEF CacheDims, Dimensions
  <2>2. PICK x \in Positive, y \in Positive : CacheDims = <<x, y>>
    BY <2>1
  <2>3. shape.block \in Positive /\ l = CombinedLayout(<<x, y>>, shape.block, p)
    BY <2>2 DEF Layout, Dimensions
  <2> QED BY <1>1, <2>3, LayoutSplits
<1>3. SUFFICES ASSUME NEW x \in Tokens, NEW y \in Tokens, Cells[x] = Cells[y]
               PROVE  x = y
  OBVIOUS
<1>4. /\ x[1] \in To(n) /\ x[2] \in To(shape.block) /\ x = <<x[1], x[2], x[3], x[4]>>
      /\ y[1] \in To(n) /\ y[2] \in To(shape.block) /\ y = <<y[1], y[2], y[3], y[4]>>
  BY Quadruple DEF Tokens
<1>5. Cells[x] = CellAt(l.first, l.per, l.tokens, n, x[1], x[2], x[3], x[4])
  BY <1>1, <1>4, CellIs DEF Cells
<1>6. Cells[y] = CellAt(l.first, l.per, l.tokens, n, y[1], y[2], y[3], y[4])
  BY <1>1, <1>4, CellIs DEF Cells
<1>7. x[1] = y[1] /\ x[2] = y[2] /\ x[3] = y[3] /\ x[4] = y[4]
  <2> PICK per : per = l.per
    OBVIOUS
  <2> PICK tok : tok = l.tokens
    OBVIOUS
  <2>1. /\ x[2] \in To(per * tok) /\ y[2] \in To(per * tok)
        /\ per \in Positive /\ tok \in Positive
    BY <1>2, <1>4
  <2>2. CellAt(l.first, per, tok, n, x[1], x[2], x[3], x[4])
          = CellAt(l.first, per, tok, n, y[1], y[2], y[3], y[4])
    BY <1>3, <1>5, <1>6
  <2>3. /\ BlockAt(per, tok, n, x[1], x[2]) = BlockAt(per, tok, n, y[1], y[2])
        /\ x[2] % tok = y[2] % tok /\ x[3] = y[3] /\ x[4] = y[4]
    BY <2>2 DEF CellAt
  <2>4. x[1] = y[1] /\ x[2] = y[2]
    BY <1>1, <1>4, <2>1, <2>3, SameBlock
  <2> QED BY <2>3, <2>4
<1> QED BY <1>4, <1>7

LEMMA Writing ==
    ASSUME Dimensions, Blocked(shape, key, value), Layout.first # "unsupported", WriteCombinedCache
    PROVE  stage' = "written" /\ Stored(shape, key, value, cache')
<1> PICK p : p = PayloadHeads
  OBVIOUS
<1> PICK n : n = NumBlocks
  OBVIOUS
<1> PICK l : l = Layout
  OBVIOUS
<1> PICK T : T = Tokens
  OBVIOUS
<1> PICK by : by = Cells
  OBVIOUS
<1> PICK c : c = cache'
  OBVIOUS
<1>1. /\ p \in Positive /\ n \in Positive /\ n = BlockCount(shape) /\ p = key.shape[2]
      /\ l = LayoutOf(shape, p)
  BY SomeBlocks DEF Blocked, Shaped4, PayloadHeads, NumBlocks, Layout, LayoutOf, CacheDims
<1>2. /\ T = To(n) \X To(shape.block) \X To(p) \X To(shape.dim)
      /\ by = [x \in T |-> WriteIndex(x[1], x[2], x[3], x[4])]
  BY DEF Tokens, Cells
<1>3. /\ stage' = "written"
      /\ c = [key |-> [y \in {by[x] : x \in T} |->
                 At4(key, Origin(by, y)[1], Origin(by, y)[3], Origin(by, y)[4], Origin(by, y)[2])],
              value |-> [y \in {by[x] : x \in T} |->
                 At4(value, Origin(by, y)[1], Origin(by, y)[3], Origin(by, y)[2], Origin(by, y)[4])]]
  BY DEF WriteCombinedCache
<1>4. DOMAIN c.key = {by[x] : x \in T} /\ DOMAIN by = T
  BY <1>2, <1>3
<1>5. ASSUME NEW x \in T
      PROVE  Placed(c, by[x], At4(key, x[1], x[3], x[4], x[2]), At4(value, x[1], x[3], x[2], x[4]))
  <2>1. PICK y : y = by[x]
    OBVIOUS
  <2>2. y \in {by[z] : z \in T}
    BY <2>1
  <2>3. \A z, w \in DOMAIN by : by[z] = by[w] => z = w
    BY <1>4, CellsDiffer, ZenonT(60)
  <2>4. Origin(by, y) = x
    BY <1>4, <2>1, <2>3, OriginIs, ZenonT(60)
  <2>5. c.key[y] = At4(key, x[1], x[3], x[4], x[2])
    BY <1>3, <2>2, <2>4
  <2>6. c.value[y] = At4(value, x[1], x[3], x[2], x[4])
    BY <1>3, <2>2, <2>4
  <2> QED BY <1>4, <2>1, <2>2, <2>5, <2>6, ZenonT(60) DEF Placed
<1>6. ASSUME NEW b \in To(n), NEW t \in To(shape.block), NEW h \in To(p), NEW d \in To(shape.dim)
      PROVE  <<b, t, h, d>> \in T /\ by[<<b, t, h, d>>] = CellOf(l, n, b, t, h, d)
  <2>1. <<b, t, h, d>> \in T
    BY <1>2
  <2>2. by[<<b, t, h, d>>] = WriteIndex(b, t, h, d)
    BY <1>2, <2>1
  <2> QED BY <1>1, <2>1, <2>2, CellIs DEF CellOf
<1>7. ASSUME NEW b \in To(n), NEW t \in To(shape.block), NEW h \in To(p), NEW d \in To(shape.dim)
      PROVE  Placed(c, CellOf(l, n, b, t, h, d), At4(key, b, h, d, t), At4(value, b, h, t, d))
  <2>1. PICK x : x = <<b, t, h, d>>
    OBVIOUS
  <2>2. x \in T /\ by[x] = CellOf(l, n, b, t, h, d)
    BY <1>6, <2>1
  <2>3. x[1] = b /\ x[2] = t /\ x[3] = h /\ x[4] = d
    BY <2>1
  <2>4. Placed(c, by[x], At4(key, x[1], x[3], x[4], x[2]), At4(value, x[1], x[3], x[2], x[4]))
    BY <1>5, <2>2, ZenonT(60)
  <2> QED BY <2>2, <2>3, <2>4, ZenonT(60)
<1>8. {x[1] : x \in DOMAIN c.key} = To(n * l.per)
  <2> PICK per : per = l.per
    OBVIOUS
  <2> PICK tok : tok = l.tokens
    OBVIOUS
  <2>1. per \in Positive /\ tok \in Positive /\ per * tok = shape.block
    <3>1. \E x \in Positive, y \in Positive : CacheDims = <<x, y>>
      BY DEF CacheDims, Dimensions
    <3>2. PICK x \in Positive, y \in Positive : CacheDims = <<x, y>>
      BY <3>1
    <3>3. shape.block \in Positive /\ l = CombinedLayout(<<x, y>>, shape.block, p)
      BY <3>2 DEF Layout, Dimensions
    <3> QED BY <1>1, <3>3, LayoutSplits
  <2>2. ASSUME NEW b, NEW t, NEW h, NEW d PROVE CellOf(l, n, b, t, h, d)[1] = BlockAt(per, tok, n, b, t)
    BY DEF CellOf, CellAt
  <2>3. ASSUME NEW y \in DOMAIN c.key PROVE y[1] \in To(n * per)
    <3>1. PICK x \in T : y = by[x]
      BY <1>4
    <3>2. /\ x[1] \in To(n) /\ x[2] \in To(shape.block) /\ x[3] \in To(p) /\ x[4] \in To(shape.dim)
          /\ x = <<x[1], x[2], x[3], x[4]>>
      BY <1>2, Quadruple
    <3>3. y = CellOf(l, n, x[1], x[2], x[3], x[4])
      BY <1>6, <3>1, <3>2
    <3>4. x[2] \in To(per * tok)
      BY <2>1, <3>2
    <3>5. BlockAt(per, tok, n, x[1], x[2]) \in To(n * per)
      <4>1. PICK b : b = x[1]
        OBVIOUS
      <4>2. PICK k : k = x[2]
        OBVIOUS
      <4>3. b \in To(n) /\ k \in To(per * tok) /\ n \in Positive
        BY <1>1, <3>2, <3>4, <4>1, <4>2, ZenonT(60)
      <4>4. per \in Positive /\ tok \in Positive
        BY <2>1
      <4>5. BlockAt(per, tok, n, b, k) \in To(n * per)
        BY <4>3, <4>4, BlockInRange, ZenonT(60)
      <4> QED BY <4>1, <4>2, <4>5, ZenonT(60)
    <3>6. y[1] = BlockAt(per, tok, n, x[1], x[2])
      BY <3>3 DEF CellOf, CellAt
    <3> QED BY <3>5, <3>6, ZenonT(60)
  <2>4. ASSUME NEW z \in To(n * per) PROVE \E y \in DOMAIN c.key : y[1] = z
    <3>1. PICK b \in To(n), t \in To(shape.block) : BlockAt(per, tok, n, b, t) = z
      BY <1>1, <2>1, EveryBlock
    <3>2. 0 \in To(p) /\ 0 \in To(shape.dim)
      BY <1>1, SMTT(30) DEF To, Positive, Dimensions
    <3>3. CellOf(l, n, b, t, 0, 0) \in DOMAIN c.key
      BY <1>7, <3>1, <3>2 DEF Placed
    <3> QED BY <2>2, <3>1, <3>3
  <2> QED BY <2>3, <2>4
<1>9. StoredBy(l, n, shape, key, value, c)
  BY <1>1, <1>7, <1>8 DEF StoredBy
<1> QED BY <1>1, <1>3, <1>9 DEF Stored

(* The probe computes its indices on its own and finds what was written. *)
LEMMA Sampling ==
    ASSUME Dimensions, Blocked(shape, key, value), Stored(shape, key, value, cache),
           CombinedSlotSamples
    PROVE  sampled'
<1> PICK p : p = PayloadHeads
  OBVIOUS
<1> PICK n : n = NumBlocks
  OBVIOUS
<1> PICK l : l = Layout
  OBVIOUS
<1>1. /\ p \in Positive /\ n \in Positive /\ n = BlockCount(shape) /\ p = key.shape[2]
      /\ l = LayoutOf(shape, p)
  BY SomeBlocks DEF Blocked, Shaped4, PayloadHeads, NumBlocks, Layout, LayoutOf, CacheDims
<1>2. StoredBy(l, n, shape, key, value, cache)
  BY <1>1 DEF Stored
<1>3. ASSUME NEW a \in Positive
      PROVE  0 \in To(a) /\ (IF a > 1 THEN 1 ELSE 0) \in To(a) /\ a - 1 \in To(a)
  BY SMTT(30) DEF To, Positive
<1>4. shape.block \in Positive /\ shape.dim \in Positive
  BY DEF Dimensions
<1>5. ASSUME NEW x \in SamplePoints
      PROVE  /\ x[1] \in To(n) /\ x[2] \in To(shape.block)
             /\ x[3] \in To(p) /\ x[4] \in To(shape.dim)
  BY <1>1, <1>3, <1>4 DEF SamplePoints
<1>6. ASSUME NEW x \in SamplePoints
      PROVE  LET c == CombinedTargetIndices(x[1], x[2], x[3], x[4])
             IN Placed(cache, c, At4(key, x[1], x[3], x[4], x[2]), At4(value, x[1], x[3], x[2], x[4]))
  <2>1. PICK b : b = x[1]
    OBVIOUS
  <2>2. PICK k : k = x[2]
    OBVIOUS
  <2>3. PICK h : h = x[3]
    OBVIOUS
  <2>4. PICK d : d = x[4]
    OBVIOUS
  <2>5. b \in To(n) /\ k \in To(shape.block) /\ h \in To(p) /\ d \in To(shape.dim)
    BY <1>5, <2>1, <2>2, <2>3, <2>4
  <2>6. l.first # "unsupported"
    BY <1>2 DEF StoredBy
  <2>7. CombinedTargetIndices(b, k, h, d) = CellOf(l, n, b, k, h, d)
    BY <1>1, <2>5, <2>6, CellIs DEF CellOf
  <2>8. Placed(cache, CellOf(l, n, b, k, h, d), At4(key, b, h, d, k), At4(value, b, h, k, d))
    BY <1>1, <1>2, <2>5 DEF StoredBy
  <2> QED BY <2>1, <2>2, <2>3, <2>4, <2>7, <2>8, ZenonT(60)
<1> QED BY <1>6 DEF CombinedSlotSamples, Placed

LEMMA RefusedLayout ==
    ASSUME Dimensions, Blocked(shape, key, value), Layout.first = "unsupported", Clear(shape)
    PROVE  shape.block % shape.tokens # 0
<1>1. SUFFICES ASSUME shape.block % shape.tokens = 0 PROVE FALSE
  OBVIOUS
<1>2. PayloadHeads = shape.heads
  BY DEF Blocked, PayloadHeads
<1>3. CASE shape.order = "token"
  BY <1>1, <1>2, <1>3 DEF Layout, CombinedLayout, CacheDims
<1>4. CASE shape.order = "head"
  BY <1>1, <1>2, <1>4 DEF Layout, CombinedLayout, CacheDims
<1> QED BY <1>3, <1>4 DEF Dimensions

-----------------------------------------------------------------------------
(* What holds at every stage. *)
StageInv(sh, st, k, v, c, ok) ==
    /\ st \in {"source", "canonical", "transpiled", "prepared", "written", "accepted", "failed"}
    /\ st = "canonical" => Canonical(sh, k, v)
    /\ st = "transpiled" => Blocked(sh, k, v) /\ sh.route = "blocks"
    /\ st = "prepared" => Blocked(sh, k, v) /\ (sh.target = "vllm" \/ sh.route = "blocks")
    /\ st = "written" => Blocked(sh, k, v) /\ Stored(sh, k, v, c) /\ sh.target = "vllm"
    /\ st = "accepted" => \/ sh.target = "vllm" /\ Blocked(sh, k, v) /\ Stored(sh, k, v, c) /\ ok
                          \/ sh.target = "reference" /\ (Canonical(sh, k, v) \/ Blocked(sh, k, v))
    /\ st = "failed" /\ Clear(sh) => Cause(sh)

LayoutInv == shape \in Shapes /\ Dimensions /\ StageInv(shape, stage, key, value, cache, sampled)

LEMMA LayoutStarts == LayoutInit => LayoutInv
<1> SUFFICES ASSUME LayoutInit PROVE LayoutInv
  OBVIOUS
<1>1. /\ shape.seq \in SeqLens /\ shape.spare \in Spare /\ shape.heads \in HeadCounts
      /\ shape.dim \in Dims /\ shape.block \in BlockSizes /\ shape.tokens \in TargetTokens
      /\ shape.source \in Sources
      /\ shape.route \in {"blocks", "canonical"} /\ shape.order \in {"token", "head"}
      /\ shape.target \in {"vllm", "reference"}
  BY DEF LayoutInit, Shapes
<1>2. shape.seq \in Positive /\ shape.spare \in Int /\ shape.seq + shape.spare > 0
  BY <1>1, LayoutAssumption DEF LayoutInit, Positive
<1>3. Held \in Positive
  BY <1>2, SMTT(30) DEF Held, Positive
<1>4. Dimensions
  BY <1>1, <1>2, <1>3, LayoutAssumption DEF Dimensions, LayoutInit, Positive
<1> QED BY <1>4 DEF LayoutInit, LayoutInv, StageInv

LEMMA Registering ==
    ASSUME LayoutInv, RegisterReference
    PROVE  StageInv(shape, stage', key', value', cache', sampled')
<1>1. /\ shape.target = "reference" /\ Dimensions
      /\ \/ stage = "canonical" /\ shape.route = "canonical" /\ Canonical(shape, key, value)
         \/ stage = "prepared" /\ shape.route = "blocks" /\ Blocked(shape, key, value)
  BY DEF RegisterReference, LayoutInv, StageInv
<1>2. CASE TakenAsCanonical(key) = TakenAsCanonical(value)
  <2>1. stage' = "accepted" /\ key' = key /\ value' = value
    BY <1>2 DEF RegisterReference
  <2> QED BY <1>1, <2>1 DEF StageInv
<1>3. CASE TakenAsCanonical(key) # TakenAsCanonical(value)
  <2>1. stage' = "failed"
    BY <1>3 DEF RegisterReference, Fail
  <2>2. key # value
    BY <1>3
  <2>3. shape.route = "blocks" /\ Blocked(shape, key, value)
    BY <1>1, <2>2 DEF Canonical
  <2>4. shape.dim # shape.block
    <3>1. SUFFICES ASSUME shape.dim = shape.block PROVE FALSE
      OBVIOUS
    <3>2. key.shape = value.shape
      BY <2>3, <3>1 DEF Blocked, Shaped4
    <3> QED BY <1>3, <3>2 DEF TakenAsCanonical
  <2> QED BY <1>1, <2>1, <2>3, <2>4 DEF StageInv, Cause
<1> QED BY <1>2, <1>3

LEMMA LayoutStep == LayoutInv /\ [LayoutNext]_layoutVars => LayoutInv'
<1> SUFFICES ASSUME LayoutInv, [LayoutNext]_layoutVars PROVE LayoutInv'
  OBVIOUS
<1>1. Dimensions /\ shape \in Shapes /\ StageInv(shape, stage, key, value, cache, sampled)
  BY DEF LayoutInv
<1>2. SUFFICES ASSUME LayoutNext PROVE LayoutInv'
  <2>1. CASE UNCHANGED layoutVars
    <3>1. /\ shape' = shape /\ stage' = stage /\ key' = key /\ value' = value
          /\ cache' = cache /\ sampled' = sampled
      BY <2>1 DEF layoutVars
    <3>2. Dimensions'
      BY <1>1, <3>1 DEF Dimensions, Held
    <3> QED BY <1>1, <3>1, <3>2, ZenonT(60) DEF LayoutInv
  <2> QED BY <1>2, <2>1
<1>3. shape' = shape
  BY <1>2 DEF LayoutNext, Extract, ToBlocks, StreamBlocks, RegisterReference,
              WriteCombinedCache, CombinedSlotSamples
<1>4. Dimensions'
  BY <1>1, <1>3 DEF Dimensions, Held
<1>5. SUFFICES StageInv(shape, stage', key', value', cache', sampled')
  BY <1>1, <1>3, <1>4 DEF LayoutInv
<1>6. CASE Extract
  <2>1. \/ stage' = "canonical" /\ Canonical(shape, key', value')
        \/ stage' = "failed" /\ (Clear(shape) => Cause(shape))
    BY <1>1, <1>6, Extracted
  <2> QED BY <2>1 DEF StageInv
<1>7. CASE ToBlocks
  <2>1. stage = "canonical" /\ Canonical(shape, key, value)
    BY <1>1, <1>7 DEF ToBlocks, StageInv
  <2>2. Blocked(shape, key', value')
    BY <1>1, <1>7, <2>1, Blocking
  <2>3. \/ stage' = "transpiled" /\ shape.route = "blocks"
        \/ stage' = "prepared" /\ (shape.target = "vllm" \/ shape.route = "blocks")
    BY <1>7 DEF ToBlocks
  <2> QED BY <2>2, <2>3 DEF StageInv
<1>8. CASE StreamBlocks
  <2>1. Blocked(shape, key, value) /\ shape.route = "blocks"
    BY <1>1, <1>8 DEF StreamBlocks, StageInv
  <2>2. \/ stage' = "prepared" /\ Blocked(shape, key', value')
        \/ stage' = "failed" /\ ~Clear(shape)
    BY <1>1, <1>8, <2>1, Streamed
  <2> QED BY <2>1, <2>2 DEF StageInv
<1>9. CASE RegisterReference
  BY <1>9, Registering
<1>10. CASE WriteCombinedCache
  <2>1. Blocked(shape, key, value) /\ shape.target = "vllm"
    BY <1>1, <1>10 DEF WriteCombinedCache, StageInv
  <2>2. CASE Layout.first = "unsupported"
    <3>1. stage' = "failed"
      BY <1>10, <2>2 DEF WriteCombinedCache, Fail
    <3>2. Clear(shape) => shape.block % shape.tokens # 0
      BY <1>1, <2>1, <2>2, RefusedLayout
    <3> QED BY <2>1, <3>1, <3>2 DEF StageInv, Cause
  <2>3. CASE Layout.first # "unsupported"
    <3>1. stage' = "written" /\ Stored(shape, key, value, cache')
      BY <1>1, <1>10, <2>1, <2>3, Writing
    <3>2. key' = key /\ value' = value
      BY <1>10, <2>3 DEF WriteCombinedCache
    <3> QED BY <2>1, <3>1, <3>2 DEF StageInv
  <2> QED BY <2>2, <2>3
<1>11. CASE CombinedSlotSamples
  <2>1. Blocked(shape, key, value) /\ Stored(shape, key, value, cache) /\ shape.target = "vllm"
    BY <1>1, <1>11 DEF CombinedSlotSamples, StageInv
  <2>2. sampled'
    BY <1>1, <1>11, <2>1, Sampling
  <2>3. stage' = "accepted" /\ key' = key /\ value' = value /\ cache' = cache
    BY <1>11 DEF CombinedSlotSamples
  <2> QED BY <2>1, <2>2, <2>3 DEF StageInv
<1> QED BY <1>2, <1>6, <1>7, <1>8, <1>9, <1>10, <1>11 DEF LayoutNext

(* At every stage of a transfer of any shape the tensors are where the     *)
(* next stage takes them from.                                             *)
THEOREM LayoutInvHolds == LayoutSpec => []LayoutInv
BY LayoutStarts, LayoutStep, PTL DEF LayoutSpec

LEMMA TensorsAreSized == LayoutInv => LayoutTypeOK
<1> SUFFICES ASSUME LayoutInv PROVE LayoutTypeOK
  OBVIOUS
<1>1. Dimensions /\ shape \in Shapes /\ StageInv(shape, stage, key, value, cache, sampled)
  BY DEF LayoutInv
<1>2. ASSUME stage \notin {"source", "failed"}, NEW t \in {key, value}
      PROVE  DOMAIN t.data = To(t.shape[1] * t.shape[2] * t.shape[3] *
                                (IF Len(t.shape) = 4 THEN t.shape[4] ELSE 1))
  <2>1. Canonical(shape, key, value) \/ Blocked(shape, key, value)
    BY <1>1, <1>2 DEF StageInv
  <2>2. CASE Canonical(shape, key, value)
    <3>1. PICK a \in Positive, b \in Positive, c \in Positive : Shaped3(t, a, b, c)
      BY <1>1, <2>2 DEF Canonical, Dimensions
    <3>2. Len(t.shape) = 3 /\ t.shape[1] = a /\ t.shape[2] = b /\ t.shape[3] = c
      BY <3>1 DEF Shaped3
    <3>3. a * b * c * 1 = a * b * c
      BY SMTT(30) DEF Positive
    <3> QED BY <3>1, <3>2, <3>3 DEF Shaped3
  <2>3. CASE Blocked(shape, key, value)
    <3>1. PICK a, b, c, d : Shaped4(t, a, b, c, d)
      BY <2>3 DEF Blocked
    <3>2. /\ Len(t.shape) = 4 /\ t.shape[1] = a /\ t.shape[2] = b
          /\ t.shape[3] = c /\ t.shape[4] = d
      BY <3>1 DEF Shaped4
    <3> QED BY <3>1, <3>2 DEF Shaped4
  <2> QED BY <2>1, <2>2, <2>3
<1>3. stage \in {"source", "canonical", "transpiled", "prepared", "written", "accepted", "failed"}
  BY <1>1 DEF StageInv
<1> QED BY <1>1, <1>2, <1>3 DEF LayoutTypeOK

(* A tensor has as much data as its shape says, whatever is transposed,    *)
(* trimmed, relabelled, padded or sliced on the way.                       *)
THEOREM TensorsStaySized == LayoutSpec => []LayoutTypeOK
BY LayoutInvHolds, TensorsAreSized, PTL

LEMMA ReaderReads ==
    ASSUME LayoutInv
    PROVE  TargetReadsTheSource
<1> SUFFICES ASSUME stage = "accepted", shape.target = "vllm", SourceIsClear, TargetIsClear,
                    NEW s \in To(NumBlocks * shape.block), NEW h \in To(shape.heads), NEW d \in To(shape.dim)
             PROVE  LET block == TargetBlockIdOf(s \div shape.tokens)
                        cell == IF shape.order = "token" THEN <<block, s % shape.tokens, h, d>>
                                                         ELSE <<block, h, s % shape.tokens, d>>
                        element == IF s < shape.seq THEN <<s, h, d>> ELSE Zero
                    IN cache.key[cell] = element /\ cache.value[cell] = element
  BY DEF TargetReadsTheSource
<1> PICK n : n = NumBlocks
  OBVIOUS
<1> PICK p : p = shape.heads
  OBVIOUS
<1> PICK l : l = Layout
  OBVIOUS
<1> PICK tok : tok = shape.tokens
  OBVIOUS
<1> PICK per : per = l.per
  OBVIOUS
<1>1. Dimensions /\ Blocked(shape, key, value) /\ Stored(shape, key, value, cache)
  BY DEF LayoutInv, StageInv
<1>2. Clear(shape)
  BY DEF Clear, SourceIsClear
<1>3. /\ key.shape[2] = p /\ TokensIn(shape, key, value) /\ PayloadHeads = p
      /\ p \in Positive /\ n \in Positive /\ n = BlockCount(shape)
      /\ l = LayoutOf(shape, p)
  BY <1>1, <1>2, SomeBlocks
     DEF Blocked, Shaped4, PayloadHeads, NumBlocks, Layout, LayoutOf, CacheDims, Dimensions
<1>4. StoredBy(l, n, shape, key, value, cache)
  BY <1>1, <1>3 DEF Stored
<1>5. l.first = shape.order /\ l.tokens = tok
  <2>1. l.first # "unsupported"
    BY <1>4 DEF StoredBy
  <2>2. CASE shape.order = "token"
    <3>1. l = CombinedLayout(<<tok, p>>, shape.block, p)
      BY <1>3, <2>2 DEF LayoutOf
    <3> QED BY <2>1, <2>2, <3>1 DEF CombinedLayout
  <2>3. CASE shape.order = "head"
    <3>1. l = CombinedLayout(<<p, tok>>, shape.block, p) /\ tok # p
      BY <1>3, <2>3 DEF LayoutOf, TargetIsClear
    <3> QED BY <2>1, <2>3, <3>1 DEF CombinedLayout
  <2> QED BY <1>1, <2>2, <2>3 DEF Dimensions
<1>6. per \in Positive /\ tok \in Positive /\ per * tok = shape.block
  <2>1. PICK x \in Positive, y \in Positive : l = CombinedLayout(<<x, y>>, shape.block, p)
    BY <1>1, <1>3 DEF LayoutOf, Dimensions
  <2>2. l.first # "unsupported" /\ shape.block \in Positive
    BY <1>1, <1>4 DEF StoredBy, Dimensions
  <2> QED BY <1>3, <1>5, <2>1, <2>2, LayoutSplits
<1>7. PICK b \in To(n), k \in To(shape.block) :
        /\ s = b * shape.block + k
        /\ s \div tok = b * per + (k \div tok) /\ s % tok = k % tok
  <2>1. s \in To(n * (per * tok))
    BY <1>6
  <2>2. \E b \in To(n), k \in To(per * tok) :
          /\ s = b * (per * tok) + k
          /\ s \div tok = b * per + (k \div tok) /\ s % tok = k % tok
    BY <1>3, <1>6, <2>1, ReaderFinds
  <2>3. PICK b \in To(n), k \in To(per * tok) :
          /\ s = b * (per * tok) + k
          /\ s \div tok = b * per + (k \div tok) /\ s % tok = k % tok
    BY <2>2, ZenonT(60)
  <2>4. k \in To(shape.block) /\ s = b * shape.block + k
    BY <1>6, <2>3, ZenonT(60)
  <2> QED BY <2>3, <2>4, ZenonT(60)
<1>8. TargetBlockIdOf(s \div tok) = BlockAt(per, tok, n, b, k)
  BY <1>7 DEF TargetBlockIdOf, TargetBlockCount, BlockAt
<1>9. (IF shape.order = "token" THEN <<TargetBlockIdOf(s \div tok), s % tok, h, d>>
                                ELSE <<TargetBlockIdOf(s \div tok), h, s % tok, d>>)
        = CellOf(l, n, b, k, h, d)
  BY <1>5, <1>7, <1>8 DEF CellOf, CellAt
<1>10. Placed(cache, CellOf(l, n, b, k, h, d), At4(key, b, h, d, k), At4(value, b, h, k, d))
  BY <1>3, <1>4, <1>7 DEF StoredBy
<1>11. At4(key, b, h, d, k) = Token(shape, s, h, d) /\ At4(value, b, h, k, d) = Token(shape, s, h, d)
  BY <1>3, <1>7 DEF TokensIn
<1> QED BY <1>9, <1>10, <1>11 DEF Placed, Token

LEMMA TransferFollows == LayoutInv => TransferIsRight
<1> SUFFICES ASSUME LayoutInv PROVE TransferIsRight
  OBVIOUS
<1>1. Dimensions /\ StageInv(shape, stage, key, value, cache, sampled)
  BY DEF LayoutInv
<1>2. Clear(shape) <=> SourceIsClear
  BY DEF Clear, SourceIsClear
<1>3. CanonicalIsTheCache
  BY <1>1, <1>2 DEF CanonicalIsTheCache, StageInv, Canonical, Elements
<1>4. SamplesMatch
  BY <1>1 DEF SamplesMatch, StageInv
<1>5. AllocationIsExact
  <2> SUFFICES ASSUME stage = "written" PROVE {c[1] : c \in DOMAIN cache.key} = To(TargetBlockCount)
    BY DEF AllocationIsExact
  <2>1. Blocked(shape, key, value) /\ Stored(shape, key, value, cache)
    BY <1>1 DEF StageInv
  <2>2. NumBlocks = BlockCount(shape) /\ Layout = LayoutOf(shape, key.shape[2])
    BY <2>1 DEF Blocked, Shaped4, NumBlocks, PayloadHeads, Layout, LayoutOf, CacheDims
  <2> QED BY <2>1, <2>2 DEF Stored, StoredBy, TargetBlockCount
<1>6. RefusedForCause
  BY <1>1, <1>2 DEF RefusedForCause, StageInv, Cause
<1> QED BY <1>3, <1>4, <1>5, <1>6, ReaderReads DEF TransferIsRight

(* From the source's cache to the target's, for every number of tokens,    *)
(* heads and dimensions and all block sizes, layouts and routes: every     *)
(* element is where the reader of each stage looks for it, the slot probe  *)
(* agrees with the writer, exactly the allocated blocks are filled, and    *)
(* what can be moved is not refused.                                       *)
THEOREM TransfersAreRight == LayoutSpec => []TransferIsRight
BY LayoutInvHolds, TransferFollows, PTL
=============================================================================
