----------------------------- MODULE MlxSource ------------------------------
(***************************************************************************)
(* The live source: adapters/mlx_live_runtime.py behind the HTTP server of *)
(* adapters/mlx_runtime_exporter.py, and the span metadata                 *)
(* (adapters/agent_graph_span_metadata.py) with which the target's import  *)
(* worker compares its own prompt.                                         *)
(*                                                                         *)
(* The exporter serves one request after the other; a step is a request,   *)
(* as far as it comes.  A text is the sequence of its tokens, hashes are   *)
(* injective, and the cache of a prompt has a position for every token.    *)
(* PERMEANT_SOURCE_CONTINUATION_USE_PREFILL_PROMPT is 1, as the planned    *)
(* benchmarks set it.                                                      *)
(* MLX itself (load, batch_generate, the tokenizer) is external.           *)
(***************************************************************************)
EXTENDS Naturals, Sequences, StateFile

CONSTANTS
    SeedLen,     \* tokens of PERMEANT_MLX_BASE_PROMPT
    TargetLen,   \* PERMEANT_MLX_TARGET_SEQ_LEN
    Wanted,      \* the lengths that are asked for, 0 if the request has none
    Generated,   \* what a target may have generated (<<>>: nothing)
    SourceAsks   \* bound: requests and restarts of a behaviour

ASSUME SourceAssumption ==
    /\ SeedLen \in Nat \ {0} /\ TargetLen \in Nat \ {0} /\ Wanted \subseteq Nat
    /\ Generated \subseteq Seq(Nat)
    /\ None \notin Seq(Nat)
    /\ None \notin [text : Seq(Nat), tokens : Seq(Nat), kv : Seq(Nat)]

VARIABLES
    decodes,       \* whether the tokenizer can decode (does not change)
    source,        \* _RUNTIME
    continuation,  \* the prompt of PERMEANT_SOURCE_CONTINUATION_FILE
    reply,         \* the answer to the last request
    imported,      \* history: the prompt imported last, as long as it must be there
    asksLeft

sourceVars == <<decodes, source, continuation, reply, imported, asksLeft>>

Base(n) == [i \in 1 .. n |-> i]
Failed == [kind |-> "failed"]
Tokenizer == "tokenizer"

\* LiveRuntime, after _prefill_prompt.
Prefilled(text, tokens) == [text |-> text, tokens |-> tokens, kv |-> tokens]

\* Mutant of BuildPromptText: the text is the one that was encoded.
BuildPromptTextWhole(n) ==
    LET seeds == IF n <= SeedLen THEN 1 ELSE (n + SeedLen - 1) \div SeedLen
    IN [text |-> Base(seeds * SeedLen), tokens |-> Base(n)]

\* _build_prompt_text: the seed as often as needed, cut to n tokens; the text
\* is cut too if the tokenizer can decode.
BuildPromptText(n) ==
    LET seeds == IF n <= SeedLen THEN 1 ELSE (n + SeedLen - 1) \div SeedLen
    IN [text |-> Base(IF decodes THEN n ELSE seeds * SeedLen), tokens |-> Base(n)]

\* Mutant of Ensured: a longer prompt is prefilled, the cache is not replaced.
EnsuredStaleCache(n) ==
    LET p == BuildPromptText(n)
    IN IF source = None THEN Prefilled(p.text, p.tokens)
       ELSE IF Len(source.tokens) < n THEN [source EXCEPT !.text = p.text, !.tokens = p.tokens]
       ELSE source

\* Mutant of Ensured: a prompt that is just long enough is replaced.
EnsuredLonger(n) ==
    LET p == BuildPromptText(n)
    IN IF source # None /\ Len(source.tokens) > n THEN source ELSE Prefilled(p.text, p.tokens)

\* _ensure_runtime: a prompt that is too short is replaced, whatever it was.
Ensured(n) ==
    LET p == BuildPromptText(n)
    IN IF source # None /\ Len(source.tokens) >= n THEN source ELSE Prefilled(p.text, p.tokens)

\* What was imported is given up when more is asked for than it has.
StillImported(n) == IF imported # None /\ Len(imported) >= n THEN imported ELSE None

\* build_prompt_span_metadata
SpanMetadata(text, tokens) ==
    [byte_hash |-> text, token_hash |-> tokens, token_count |-> Len(tokens),
     tokenizer_hash |-> Tokenizer,
     spans |-> {[token_start |-> 0, token_end |-> Len(tokens), tokenizer_hash |-> Tokenizer,
                 block_hashes |-> <<tokens>>]}]

Asks == asksLeft > 0 /\ asksLeft' = asksLeft - 1 /\ UNCHANGED decodes

(***************************************************************************)
(* provider, as far as it comes: loading or prefilling raises; writing the *)
(* source continuation raises; the answer.                                 *)
(***************************************************************************)
RequestFails == reply' = Failed /\ UNCHANGED <<source, continuation, imported>>

\* Mutant of Provide: the continuation is written for a new prompt only.
ProvideOnce(seq_len) ==
    LET n == IF seq_len = 0 THEN TargetLen ELSE seq_len
        runtime == Ensured(n)
    IN /\ Asks
       /\ source' = runtime /\ imported' = StillImported(n)
       /\ continuation' = IF runtime = source THEN continuation ELSE runtime.text
       /\ reply' = [kind |-> "extract", tensors |-> SubSeq(runtime.kv, 1, n),
                    whole |-> n = Len(runtime.tokens),
                    metadata |-> SpanMetadata(runtime.text, SubSeq(runtime.tokens, 1, n))]

Provide(seq_len) ==
    LET n == IF seq_len = 0 THEN TargetLen ELSE seq_len
        runtime == Ensured(n)
    IN /\ Asks
       /\ \/ RequestFails
          \/ /\ source' = runtime /\ imported' = StillImported(n)
             /\ \/ reply' = Failed /\ continuation' \in {continuation, runtime.text}
                \/ /\ continuation' = runtime.text
                   /\ reply' = [kind |-> "extract", tensors |-> SubSeq(runtime.kv, 1, n),
                                whole |-> n = Len(runtime.tokens),
                                metadata |-> SpanMetadata(runtime.text, SubSeq(runtime.tokens, 1, n))]

\* _materialize_reverse_runtime_state.  The runtime is fetched, and made long
\* enough, before the request is looked at; the continuation and the report
\* come after _RUNTIME is replaced.
ImportReverse(prompt, generated) ==
    LET runtime == Ensured(TargetLen)
        advanced == prompt \o generated
        written == IF runtime = source THEN continuation ELSE runtime.text
    IN /\ Asks
       /\ \/ RequestFails
          \/ \* the continuation is not written, generated_text is missing,
             \* or prefilling raises
             /\ source' = runtime /\ imported' = StillImported(TargetLen)
             /\ continuation' \in {continuation, written} /\ reply' = Failed
          \/ /\ generated # <<>>
             /\ source' = Prefilled(advanced, advanced)
             /\ continuation' = written
             /\ \/ reply' = Failed /\ imported' = None
                \/ reply' = [kind |-> "import"] /\ imported' = advanced

\* The exporter's process ends and is started again.
RestartSource ==
    /\ Asks
    /\ source' = None /\ imported' = None
    /\ UNCHANGED <<continuation, reply>>

SourceInit ==
    /\ decodes \in BOOLEAN
    /\ source = None /\ continuation = None /\ reply = Failed /\ imported = None
    /\ asksLeft = SourceAsks

\* A target continues the prompt it was given, now or before.
Continued ==
    {Base(n) : n \in Wanted \ {0}} \cup (IF source = None THEN {} ELSE {source.text})

SourceNext ==
    \/ \E n \in Wanted : Provide(n)
    \/ \E p \in Continued, g \in Generated : ImportReverse(p, g)
    \/ RestartSource

SourceSpec == SourceInit /\ [][SourceNext]_sourceVars

(***************************************************************************)
(* The target's side: _target_prompt_view gives what the payload says of   *)
(* the target's prompt, None where it says nothing, and                    *)
(* validate_prompt_span_metadata compares.                                 *)
(***************************************************************************)
TargetPromptView(text, token_ids, token_count, tokenizer) ==
    [prompt |-> text, token_ids |-> token_ids, tokenizer_hash |-> tokenizer,
     token_count |-> IF token_count = None /\ token_ids # None THEN Len(token_ids)
                     ELSE token_count]

\* Mutant of SpanValid: token ids are compared by their number.
SpanValidByCount(m, view) ==
    /\ view.prompt # None => view.prompt = m.byte_hash
    /\ view.token_count # None => view.token_count = m.token_count
    /\ view.token_ids # None => Len(view.token_ids) = m.token_count
    /\ view.tokenizer_hash # None => view.tokenizer_hash = m.tokenizer_hash
    /\ \A span \in m.spans : span.token_start = 0 /\ span.token_end = m.token_count

SpanValid(m, view) ==
    /\ m.token_count > 0
    /\ view.prompt # None => view.prompt = m.byte_hash
    /\ view.token_count # None => view.token_count = m.token_count
    /\ view.token_ids # None =>
          Len(view.token_ids) = m.token_count /\ view.token_ids = m.token_hash
    /\ view.tokenizer_hash # None => view.tokenizer_hash = m.tokenizer_hash
    /\ m.spans # {}
    /\ \A span \in m.spans :
          /\ span.token_start = 0 /\ span.token_end = m.token_count
          /\ span.tokenizer_hash = m.tokenizer_hash
          /\ span.block_hashes # <<>>

(***************************************************************************)
(* Properties.                                                             *)
(***************************************************************************)
Prompts ==
    LET base == {Base(n) : n \in (Wanted \ {0}) \cup {TargetLen}}
    IN base \cup (UNION {{b \o g : g \in Generated} : b \in base})
            \cup (IF source = None THEN {} ELSE {source.tokens, source.text})

\* Types: a runtime has a prompt and a cache of the same length, the file the
\* text of a prompt.
SourceTypeOK ==
    /\ source # None => source.tokens # <<>> /\ Len(source.kv) = Len(source.tokens)
    /\ reply.kind \in {"failed", "extract", "import"}
    /\ imported # None => source # None

\* A target whose token ids pass validate_prompt_span_metadata has the tokens
\* the extracted tensors were computed from, whatever the source has prefilled,
\* imported or failed to do before.
ValidatedIsTheSame ==
    reply.kind = "extract" =>
        \A ids \in Prompts, text \in {None, reply.metadata.byte_hash} :
            SpanValid(reply.metadata, TargetPromptView(text, ids, None, Tokenizer)) =>
                reply.tensors = ids

\* A target that has the same prompt is not refused: if the tokenizer can
\* decode and all of the source's prompt was asked for.
SamePromptIsAccepted ==
    reply.kind = "extract" /\ reply.whole /\ decodes =>
        LET ids == reply.tensors
        IN /\ SpanValid(reply.metadata, TargetPromptView(ids, ids, Len(ids), Tokenizer))
           /\ SpanValid(reply.metadata, TargetPromptView(ids, None, None, None))

\* The source continuation with which the target compares its own belongs to
\* the prompt of the extraction it was answered with.
ContinuationIsOfTheReply ==
    reply.kind = "extract" => continuation = reply.metadata.byte_hash

\* Tensors, metadata and continuation of an answer belong together, and the
\* target's comparison with its own prompt decides rightly.
ReplyBelongsTogether ==
    ValidatedIsTheSame /\ SamePromptIsAccepted /\ ContinuationIsOfTheReply

\* What a target generated, once imported with success, stays the source's
\* prompt and is what the next extraction gives, unless more is asked for than
\* there is, a later import fails or the exporter is restarted.
ImportedIsServed ==
    imported # None =>
        /\ source.tokens = imported /\ source.text = imported
        /\ reply.kind = "extract" => reply.tensors = SubSeq(imported, 1, Len(reply.tensors))
=============================================================================
