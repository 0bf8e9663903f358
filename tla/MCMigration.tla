---- MODULE MCMigration ----
(* Small instances of Migration for TLC. *)
EXTENDS Migration, TLC

CONSTANTS a, b, c, d, e, f, g

Span(first, end, ok) == [token_start |-> first, token_end |-> end, tokenizer_ok |-> ok]
Graph(ev, spans) == [evidence |-> ev, spans |-> spans]
JobOf(seq, bs, layers, gr) ==
    [seq_len |-> seq, block_size |-> bs, n_layers |-> layers, graph |-> gr]

(* a: one block, no graph.                                                 *)
(* b: two blocks of different lengths, the first with the hash of a's, two *)
(* layers, a graph that binds.                                             *)
(* c: a graph whose span reaches past the sequence: refused by the daemon. *)
(* d: a context over the limit.  e: an empty context, whose header is      *)
(* invalid.  f: a graph manifest that does not load.                       *)
(* g: two blocks of equal tokens.                                          *)
MCJob ==
    (a :> JobOf(2, 2, 1, NoGraph)) @@
    (b :> JobOf(3, 2, 2, Graph(TRUE, {Span(0, 2, TRUE)}))) @@
    (c :> JobOf(1, 2, 1, Graph(TRUE, {Span(0, 2, TRUE)}))) @@
    (d :> JobOf(5, 2, 1, NoGraph)) @@
    (e :> JobOf(0, 2, 1, NoGraph)) @@
    (f :> JobOf(1, 1, 1, Graph(TRUE, {Span(1, 1, TRUE)}))) @@
    (g :> JobOf(4, 2, 1, NoGraph))

MCFrames == UNION {ClientFrames(x) : x \in Conns}
====
