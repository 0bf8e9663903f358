----------------------------- MODULE MCRuntimes -----------------------------
(***************************************************************************)
(* The runtimes: the live source, the live vLLM target, the targets with a *)
(* state file, and the layout of the tensors on their way to them.  part   *)
(* says which of them runs; the others stay as they are.                   *)
(***************************************************************************)
EXTENDS VllmRuntime, ReferenceRuntime, KvLayout, MlxSource, TLC

VARIABLE part

vars == <<vllmVars, refVars, layoutVars, sourceVars, part>>

\* Block 0 is never given out, the others from the last to the first.
MCPools == [n \in SlotCounts |-> {[i \in 1 .. n - 1 |-> n - i]}]

MCSpare == {-1, 0, 1}

MCGenerated == {<<>>, <<101>>, <<101, 102>>}

Swaps(S) == Permutations(S) \ {[x \in S |-> x]}
Sym == Swaps(Threads) \cup Swaps(Blocks \ Foreign) \cup Swaps(Procs) \cup Swaps(Hashes \ Malformed)

AVllm == conf = (CHOOSE c \in Deployments : TRUE) /\ VllmInit
AReference == setup = (CHOOSE s \in Setups : TRUE) /\ RefInit
ALayout == /\ shape = CHOOSE s \in Shapes : s.source = "seq" /\ s.spare = 0 /\ s.target = "vllm"
           /\ LayoutInit
ASource == decodes = TRUE /\ SourceInit

Init ==
    \/ part = "vllm" /\ AReference /\ ALayout /\ ASource /\ VllmInit
    \/ part = "reference" /\ AVllm /\ ALayout /\ ASource /\ RefInit
    \/ part = "layout" /\ AVllm /\ AReference /\ ASource /\ LayoutInit
    \/ part = "source" /\ AVllm /\ AReference /\ ALayout /\ SourceInit

Next ==
    /\ \/ part = "vllm" /\ VllmNext /\ UNCHANGED <<refVars, layoutVars, sourceVars>>
       \/ part = "reference" /\ RefNext /\ UNCHANGED <<vllmVars, layoutVars, sourceVars>>
       \/ part = "layout" /\ LayoutNext /\ UNCHANGED <<vllmVars, refVars, sourceVars>>
       \/ part = "source" /\ SourceNext /\ UNCHANGED <<vllmVars, refVars, layoutVars>>
    /\ UNCHANGED part

Spec == Init /\ [][Next]_vars

\* The types of all four.
RuntimesTypeOK == VllmTypeOK /\ RefTypeOK /\ LayoutTypeOK /\ SourceTypeOK
=============================================================================
