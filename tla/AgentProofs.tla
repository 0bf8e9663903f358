---------------------------- MODULE AgentProofs -----------------------------
(***************************************************************************)
(* Proofs about AgentPackage, for every set of offered sessions, every     *)
(* list of further artifacts and every number of commands and faults: the  *)
(* five safety properties of the portable agent package.                   *)
(*                                                                         *)
(* The first part is about the graphs.  The replay audit is analysed, the  *)
(* graphs that the exporters, the resume and the return build are shown to *)
(* be closed and to pass it, the adapters' graphs to conform, and the      *)
(* manifest that build_manifest writes to pass every check of              *)
(* import_session.                                                         *)
(*                                                                         *)
(* The second part is about the commands.  AgentInv says what is in the    *)
(* package, what the restore report and the resume report may say, and     *)
(* what a command has established when it is at each of its steps; one     *)
(* lemma per action shows that the action keeps it.                        *)
(***************************************************************************)
EXTENDS AgentPackage, Integers, TLAPS

(* Most leaves are first-order: Zenon is tried before SMT. *)
USE ZenonT(2), SMTT(30), ZenonT(60)

-----------------------------------------------------------------------------
(* The replay audit. *)
(* What the audit does not reject is not a write that is repeated. *)
LEMMA AuditGates ==
    ASSUME NEW call, Audit(call) # "reject"
    PROVE  LET refused == call.approval_state \in {"denied", "expired"}
           IN /\ Audit(call) = "retry_allowed" => ~Writes(call) /\ ~refused
              /\ Writes(call) /\ call.status \in Pending =>
                    call.resume_policy \in Manual /\ ~refused
              /\ Writes(call) => call.resume_policy # "retry_safe"
<1>1. CASE call.status \in Pending
  BY <1>1 DEF Audit, Manual
<1>2. CASE call.status \notin Pending
  BY <1>2 DEF Audit
<1> QED
  BY <1>1, <1>2

(* A call that is done and may not be repeated is left alone, and one that *)
(* waits for the user keeps waiting.                                       *)
LEMMA AuditOfDone ==
    ASSUME NEW call, call.status \notin Pending,
           ~Writes(call) \/ call.resume_policy # "retry_safe"
    PROVE  Audit(call) = "no_replay"
BY DEF Audit

LEMMA AuditOfWaiting ==
    ASSUME NEW call, call.status \in Pending, Writes(call), call.resume_policy \in Manual,
           call.approval_state \notin {"denied", "expired"}
    PROVE  Audit(call) = call.resume_policy
BY DEF Audit

-----------------------------------------------------------------------------
(* Merge and the graphs. *)
LEMMA MergeIs ==
    ASSUME NEW f, NEW g
    PROVE  /\ DOMAIN Merge(f, g) = DOMAIN f \cup DOMAIN g
           /\ \A i \in DOMAIN g : Merge(f, g)[i] = g[i]
           /\ \A i \in (DOMAIN f) \ DOMAIN g : Merge(f, g)[i] = f[i]
BY DEF Merge

LEMMA MergeRange ==
    ASSUME NEW f, NEW g, NEW S,
           \A i \in DOMAIN f : f[i] \in S, \A i \in DOMAIN g : g[i] \in S
    PROVE  \A i \in DOMAIN Merge(f, g) : Merge(f, g)[i] \in S
BY DEF Merge

(* The fields of the graphs the proofs look at. *)
Over(r, D) == r = [x \in D |-> r[x]]
GraphFields == {"agent", "runtime", "participants", "nodes", "edges", "tools", "memories",
                "retrievals", "artifact_paths", "credentials", "secrets"}
IsGraph(g) == Over(g, GraphFields)

GraphWith(g, a, p, n, e, t, m, r, f) ==
    [g EXCEPT !.agent = a, !.participants = p, !.nodes = n, !.edges = e, !.tools = t,
              !.memories = m, !.retrievals = r, !.artifact_paths = f]

LEMMA GraphWithIs ==
    ASSUME NEW g, IsGraph(g), NEW a, NEW p, NEW n, NEW e, NEW t, NEW m, NEW r, NEW f
    PROVE  LET c == GraphWith(g, a, p, n, e, t, m, r, f)
           IN /\ IsGraph(c) /\ c.participants = p /\ c.nodes = n /\ c.edges = e
              /\ c.tools = t /\ c.memories = m /\ c.retrievals = r /\ c.artifact_paths = f
              /\ c.credentials = g.credentials /\ c.secrets = g.secrets
BY DEF GraphWith, IsGraph, Over, GraphFields

LEMMA ReferenceGraphFields ==
    ASSUME NEW s \in {"reference", "complex", "foreign"}
    PROVE  LET g == ReferenceGraph[s]
           IN /\ IsGraph(g)
              /\ g.participants = {Agent, User, Tool, "runtime:local-reference"}
              /\ g.nodes = ReferenceNodes(s) /\ g.edges = ReferenceEdges(s)
              /\ g.tools = [t \in {"write-report"} |->
                              Call("fs.write_file", "external_write", "completed",
                                   "never_retry", "approved")]
              /\ g.memories = {<<"memory", "report-fact">>}
              /\ g.retrievals = [r \in {"report-memory"} |-> {<<"memory", "report-fact">>}]
              /\ g.artifact_paths = {"result"}
              /\ g.credentials = {[redaction_state |-> "external_only",
                                   required |-> TRUE, binding |-> TRUE]}
              /\ g.secrets = {}
BY DEF ReferenceGraph, IsGraph, Over, GraphFields

ExtraFiles == {ExtraPaths("complex")[i] : i \in DOMAIN ExtraPaths("complex")}

ComplexNew ==
    Merge(By("operator:release-manager", {<<"event", "pending-release">>}),
    Merge(By(Agent, {<<"tool:call", "write-plan">>,
                     <<"tool:call", "read-aws-quota">>,
                     <<"tool:call", "publish-release">>,
                     <<"memory", "complex-fidelity">>,
                     <<"retrieval", "complex-evidence">>}),
          By(Tool, {<<"artifact", p>> : p \in ExtraFiles})))

ComplexNewEdges ==
    {<<<<"tool:call", "write-plan">>, <<"artifact", p>>>> : p \in ExtraFiles}
    \cup
    {<<<<"turn:", "assistant", 5>>, <<"tool:call", "write-plan">>>>,
     <<<<"artifact", "plan">>, <<"memory", "complex-fidelity">>>>,
     <<<<"retrieval", "complex-evidence">>,
       <<"memory", "complex-fidelity">>>>,
     <<<<"event", "pending-release">>,
       <<"tool:call", "publish-release">>>>,
     <<<<"tool:call", "read-aws-quota">>,
       <<"memory", "complex-fidelity">>>>}

LEMMA ComplexGraphFields ==
    LET g == ReferenceGraph["complex"]
        c == ComplexGraph
        memories == g.memories \cup {<<"memory", "complex-fidelity">>}
    IN /\ IsGraph(c)
       /\ c.participants = g.participants \cup {"operator:release-manager"}
       /\ c.nodes = Merge(g.nodes, ComplexNew)
       /\ c.edges = g.edges \cup ComplexNewEdges
       /\ c.tools = Merge(g.tools, ComplexCalls)
       /\ c.memories = memories
       /\ c.retrievals = [r \in {"report-memory", "complex-evidence"} |-> memories]
       /\ c.artifact_paths = g.artifact_paths \cup ExtraFiles
       /\ c.credentials = g.credentials
       /\ c.secrets = g.secrets
<1> DEFINE g == ReferenceGraph["complex"]
           memories == g.memories \cup {<<"memory", "complex-fidelity">>}
<1>1. IsGraph(g)
  BY ReferenceGraphFields
<1> DEFINE participants == g.participants \cup {"operator:release-manager"}
           nodes == Merge(g.nodes, ComplexNew)
           edges == g.edges \cup ComplexNewEdges
           tools == Merge(g.tools, ComplexCalls)
           retrievals == [r \in {"report-memory", "complex-evidence"} |-> memories]
           paths == g.artifact_paths \cup ExtraFiles
<1>2. ComplexGraph = GraphWith(g, "agent:complex-continuity", participants, nodes, edges,
                               tools, memories, retrievals, paths)
  BY ZenonT(60) DEF ComplexGraph, ComplexNew, ComplexNewEdges, ExtraFiles, GraphWith
<1> HIDE DEF g, memories, participants, nodes, edges, tools, retrievals, paths
<1>3. LET c == ComplexGraph
      IN /\ IsGraph(c) /\ c.participants = participants /\ c.nodes = nodes
         /\ c.edges = edges /\ c.tools = tools /\ c.memories = memories
         /\ c.retrievals = retrievals /\ c.artifact_paths = paths
         /\ c.credentials = g.credentials /\ c.secrets = g.secrets
  BY <1>1, <1>2, GraphWithIs
<1> QED
  BY <1>3, ZenonT(60) DEF g, memories, participants, nodes, edges, tools, retrievals, paths

(* The same for the graphs of the later stages. *)
Retry(g, t, n, e) == [g EXCEPT !.tools["read-aws-quota"] = t, !.nodes = n, !.edges = e]

Publishing(g, t, n, e, m, f) ==
    [g EXCEPT !.tools["publish-release"] = t, !.nodes = n, !.edges = e, !.memories = m,
              !.artifact_paths = f]

Returning(g, n, e, m, f) ==
    [g EXCEPT !.nodes = n, !.edges = e, !.memories = m, !.artifact_paths = f]

LEMMA RetryIs ==
    ASSUME NEW g, IsGraph(g), NEW t, NEW n, NEW e
    PROVE  LET c == Retry(g, t, n, e)
           IN /\ IsGraph(c) /\ c.participants = g.participants /\ c.nodes = n /\ c.edges = e
              /\ c.tools = [g.tools EXCEPT !["read-aws-quota"] = t]
BY DEF Retry, IsGraph, Over, GraphFields

LEMMA PublishingIs ==
    ASSUME NEW g, IsGraph(g), NEW t, NEW n, NEW e, NEW m, NEW f
    PROVE  LET c == Publishing(g, t, n, e, m, f)
           IN /\ IsGraph(c) /\ c.participants = g.participants /\ c.nodes = n /\ c.edges = e
              /\ c.tools = [g.tools EXCEPT !["publish-release"] = t]
BY DEF Publishing, IsGraph, Over, GraphFields

LEMMA ReturningIs ==
    ASSUME NEW g, IsGraph(g), NEW n, NEW e, NEW m, NEW f
    PROVE  LET c == Returning(g, n, e, m, f)
           IN /\ IsGraph(c) /\ c.participants = g.participants /\ c.nodes = n /\ c.edges = e
              /\ c.tools = g.tools
BY DEF Returning, IsGraph, Over, GraphFields

RetriedNew ==
    Merge(By(Tool, {<<"tool:result", "read-aws-quota:post-import">>}),
          By(Agent, {<<"event", "post-migration-agent-resume">>}))
RetriedNewEdges ==
    {<<<<"tool:call", "read-aws-quota">>, <<"tool:result", "read-aws-quota:post-import">>>>}

LEMMA RetriedGraphFields ==
    LET c == ComplexGraph
        r == RetriedGraph
    IN /\ IsGraph(r) /\ r.participants = c.participants
       /\ r.nodes = Merge(c.nodes, RetriedNew) /\ r.edges = c.edges \cup RetriedNewEdges
       /\ r.tools = [c.tools EXCEPT !["read-aws-quota"] =
                        Completed(c.tools["read-aws-quota"], "not_required")]
<1> DEFINE c == ComplexGraph
           t == Completed(c.tools["read-aws-quota"], "not_required")
           n == Merge(c.nodes, RetriedNew)
           e == c.edges \cup RetriedNewEdges
<1>1. RetriedGraph = Retry(c, t, n, e)
  BY ZenonT(60) DEF RetriedGraph, Retry, RetriedNew, RetriedNewEdges
<1>2. IsGraph(c)
  BY ComplexGraphFields
<1> HIDE DEF c, t, n, e
<1>3. LET r == RetriedGraph
      IN /\ IsGraph(r) /\ r.participants = c.participants /\ r.nodes = n /\ r.edges = e
         /\ r.tools = [c.tools EXCEPT !["read-aws-quota"] = t]
  BY <1>1, <1>2, RetryIs
<1> QED
  BY <1>3, ZenonT(60) DEF c, t, n, e

Announced == <<"artifact", "publish-announcement:post-import">>
Continues == <<"memory", "agent-activity-continued:post-import">>
Published == {<<"tool:result", "publish-release:post-import">>, Announced}

LEMMA ResumedGraphFields ==
    LET c == RetriedGraph
        r == ResumedGraph[TRUE]
    IN /\ IsGraph(r) /\ r.participants = c.participants
       /\ r.nodes = Merge(c.nodes, Merge(By(Tool, Published), By(Agent, {Continues})))
       /\ r.edges = c.edges \cup {<<<<"tool:call", "publish-release">>, n>> : n \in Published}
                            \cup {<<Announced, Continues>>}
       /\ r.tools = [c.tools EXCEPT !["publish-release"] =
                        Completed(c.tools["publish-release"], "approved")]
<1> DEFINE c == RetriedGraph
           t == Completed(c.tools["publish-release"], "approved")
           n == Merge(c.nodes, Merge(By(Tool, Published), By(Agent, {Continues})))
           e == c.edges \cup {<<<<"tool:call", "publish-release">>, x>> : x \in Published}
                        \cup {<<Announced, Continues>>}
           m == c.memories \cup {Continues}
           f == c.artifact_paths \cup {"announcement"}
<1>1. ResumedGraph[TRUE] = Publishing(c, t, n, e, m, f)
  BY ZenonT(60) DEF ResumedGraph, Publishing, Announced, Continues, Published
<1>2. IsGraph(c)
  BY RetriedGraphFields
<1> HIDE DEF c, t, n, e, m, f
<1>3. LET r == ResumedGraph[TRUE]
      IN /\ IsGraph(r) /\ r.participants = c.participants /\ r.nodes = n /\ r.edges = e
         /\ r.tools = [c.tools EXCEPT !["publish-release"] = t]
  BY <1>1, <1>2, PublishingIs
<1> QED
  BY <1>3, ZenonT(60) DEF c, t, n, e

LEMMA UnapprovedGraph == ResumedGraph[FALSE] = RetriedGraph
BY DEF ResumedGraph

ReturnArtifact == <<"artifact", "origin-roundtrip-continuation">>
ReturnMemory == <<"memory", "agent-roundtrip-returned-home">>
ReturnEvent == <<"event", "roundtrip-origin-return">>

LEMMA ReturnedGraphFields ==
    LET c == ResumedGraph[TRUE]
        r == ReturnedGraph[TRUE]
    IN /\ r.participants = c.participants
       /\ r.nodes = Merge(c.nodes, Merge(By(Tool, {ReturnArtifact}),
                                         By(Agent, {ReturnMemory, ReturnEvent})))
       /\ r.edges = c.edges \cup
             {<<Continues, ReturnMemory>>, <<Announced, ReturnArtifact>>,
              <<ReturnArtifact, ReturnMemory>>, <<ReturnMemory, ReturnEvent>>}
       /\ r.tools = c.tools
<1> DEFINE c == ResumedGraph[TRUE]
           n == Merge(c.nodes, Merge(By(Tool, {ReturnArtifact}),
                                     By(Agent, {ReturnMemory, ReturnEvent})))
           e == c.edges \cup
                  {<<Continues, ReturnMemory>>, <<Announced, ReturnArtifact>>,
                   <<ReturnArtifact, ReturnMemory>>, <<ReturnMemory, ReturnEvent>>}
           m == c.memories \cup {ReturnMemory}
           f == c.artifact_paths \cup {"continuation"}
<1>1. ReturnedGraph[TRUE] = Returning(c, n, e, m, f)
  BY ZenonT(60) DEF ReturnedGraph, Returning, Announced, Continues, ReturnArtifact,
               ReturnMemory, ReturnEvent
<1>2. IsGraph(c)
  BY ResumedGraphFields
<1> HIDE DEF c, n, e, m, f
<1>3. LET r == ReturnedGraph[TRUE]
      IN /\ r.participants = c.participants /\ r.nodes = n /\ r.edges = e /\ r.tools = c.tools
  BY <1>1, <1>2, ReturningIs
<1> QED
  BY <1>3, ZenonT(60) DEF c, n, e

-----------------------------------------------------------------------------
(* Tool calls of the graphs. *)
Written == Call("fs.write_file", "external_write", "completed", "never_retry", "approved")
Quota(status) == Call("aws.ec2.describe_instances", "read_only", status, "retry_safe",
                      "not_required")
Release(status, approval) ==
    Call("fs.write_file", "external_write", status, "ask_user", approval)

CallFields == {"name", "side_effect", "status", "resume_policy", "approval_state"}

LEMMA CallIs ==
    ASSUME NEW n, NEW s, NEW st, NEW r, NEW a
    PROVE  LET c == Call(n, s, st, r, a)
           IN /\ c.name = n /\ c.side_effect = s /\ c.status = st /\ c.resume_policy = r
              /\ c.approval_state = a
              /\ Over(c, CallFields)
BY DEF Call, CallFields, Over

LEMMA SameRecord ==
    ASSUME NEW D, NEW r, NEW s, Over(r, D), Over(s, D), \A x \in D : r[x] = s[x]
    PROVE  r = s
<1>1. [x \in D |-> r[x]] = [x \in D |-> s[x]]
  OBVIOUS
<1> QED
  BY <1>1 DEF Over

LEMMA CompletedIs ==
    ASSUME NEW n, NEW s, NEW st, NEW r, NEW a, NEW b
    PROVE  Completed(Call(n, s, st, r, a), b) = Call(n, s, "completed", r, b)
<1> PICK c : c = Call(n, s, st, r, a)
  OBVIOUS
<1> PICK d : d = Call(n, s, "completed", r, b)
  OBVIOUS
<1>1. /\ Over(c, CallFields) /\ Over(d, CallFields)
      /\ c.name = n /\ c.side_effect = s /\ c.resume_policy = r
      /\ d.name = n /\ d.side_effect = s /\ d.resume_policy = r
      /\ d.status = "completed" /\ d.approval_state = b
  BY CallIs
<1> PICK e : e = Completed(c, b)
  OBVIOUS
<1>2. /\ Over(e, CallFields) /\ e.name = n /\ e.side_effect = s /\ e.resume_policy = r
      /\ e.status = "completed" /\ e.approval_state = b
  BY <1>1 DEF Completed, Over, CallFields
<1>3. \A x \in CallFields : e[x] = d[x]
  BY <1>1, <1>2 DEF CallFields
<1> QED
  BY <1>1, <1>2, <1>3, SameRecord

LEMMA ComplexTools ==
    LET tools == ComplexGraph.tools
    IN /\ tools = [t \in {"write-report", "write-plan", "read-aws-quota", "publish-release"} |->
                     tools[t]]
       /\ tools["write-report"] = Written /\ tools["write-plan"] = Written
       /\ tools["read-aws-quota"] = Quota("not_started")
       /\ tools["publish-release"] = Release("needs_user", "pending")
<1> DEFINE old == [t \in {"write-report"} |-> Written]
<1>1. ComplexGraph.tools = Merge(old, ComplexCalls)
  BY ComplexGraphFields, ReferenceGraphFields DEF Written
<1>2. /\ DOMAIN ComplexCalls = {"write-plan", "read-aws-quota", "publish-release"}
      /\ ComplexCalls["write-plan"] = Written
      /\ ComplexCalls["read-aws-quota"] = Quota("not_started")
      /\ ComplexCalls["publish-release"] = Release("needs_user", "pending")
  BY DEF ComplexCalls, Written, Quota, Release
<1>3. DOMAIN old = {"write-report"} /\ old["write-report"] = Written
  OBVIOUS
<1> PICK new : new = ComplexCalls
  OBVIOUS
<1> PICK both : both = Merge(old, new)
  OBVIOUS
<1>4. both = [t \in DOMAIN both |-> both[t]]
  BY DEF Merge
<1> HIDE DEF old
<1>5. /\ DOMAIN both = DOMAIN old \cup DOMAIN new
      /\ \A i \in DOMAIN new : both[i] = new[i]
      /\ \A i \in (DOMAIN old) \ DOMAIN new : both[i] = old[i]
  BY DEF Merge
<1>6. DOMAIN both = {"write-report", "write-plan", "read-aws-quota", "publish-release"}
  BY <1>2, <1>3, <1>5
<1>7. /\ both["write-report"] = Written /\ both["write-plan"] = Written
      /\ both["read-aws-quota"] = Quota("not_started")
      /\ both["publish-release"] = Release("needs_user", "pending")
  <2>1. both["write-report"] = Written
    <3>1. "write-report" \in (DOMAIN old) \ DOMAIN new
      BY <1>2, <1>3
    <3> QED
      BY <1>3, <1>5, <3>1
  <2>2. \A i \in {"write-plan", "read-aws-quota", "publish-release"} : both[i] = new[i]
    BY <1>2, <1>5
  <2> QED
    BY <1>2, <2>1, <2>2
<1> QED
  BY <1>1, <1>4, <1>6, <1>7

LEMMA RetriedTools ==
    LET tools == RetriedGraph.tools
    IN /\ tools = [t \in {"write-report", "write-plan", "read-aws-quota", "publish-release"} |->
                     tools[t]]
       /\ tools["write-report"] = Written /\ tools["write-plan"] = Written
       /\ tools["read-aws-quota"] = Quota("completed")
       /\ tools["publish-release"] = Release("needs_user", "pending")
<1> PICK old : old = ComplexGraph.tools
  OBVIOUS
<1>1. RetriedGraph.tools = [old EXCEPT !["read-aws-quota"] = Quota("completed")]
  <2>1. Completed(old["read-aws-quota"], "not_required") = Quota("completed")
    BY ComplexTools, CompletedIs DEF Quota
  <2> QED
    BY <2>1, RetriedGraphFields
<1> QED
  BY <1>1, ComplexTools

LEMMA ResumedTools ==
    LET tools == ResumedGraph[TRUE].tools
    IN /\ tools = [t \in {"write-report", "write-plan", "read-aws-quota", "publish-release"} |->
                     tools[t]]
       /\ tools["write-report"] = Written /\ tools["write-plan"] = Written
       /\ tools["read-aws-quota"] = Quota("completed")
       /\ tools["publish-release"] = Release("completed", "approved")
<1> PICK old : old = RetriedGraph.tools
  OBVIOUS
<1>1. ResumedGraph[TRUE].tools = [old EXCEPT !["publish-release"] = Release("completed", "approved")]
  <2>1. Completed(old["publish-release"], "approved") = Release("completed", "approved")
    BY RetriedTools, CompletedIs DEF Release
  <2> QED
    BY <2>1, ResumedGraphFields
<1> QED
  BY <1>1, RetriedTools

(* Nothing that a resumed graph has is run again. *)
LEMMA ResumedAudits ==
    ASSUME NEW approved \in BOOLEAN
    PROVE  LET tools == ResumedGraph[approved].tools
           IN /\ \A t \in DOMAIN tools : Audit(tools[t]) \notin {"reject", "retry_allowed"}
              /\ approved => Audit(tools["publish-release"]) = "no_replay"
<1>1. Audit(Written) = "no_replay"
  BY CallIs, AuditOfDone DEF Written, Pending
<1>2. Audit(Quota("completed")) = "no_replay"
  BY CallIs, AuditOfDone DEF Quota, Pending, Writes
<1>3. Audit(Release("completed", "approved")) = "no_replay"
  BY CallIs, AuditOfDone DEF Release, Pending
<1>4. Audit(Release("needs_user", "pending")) = "ask_user"
  BY CallIs, AuditOfWaiting DEF Release, Pending, Writes, Manual
<1>5. CASE approved = TRUE
  BY <1>1, <1>2, <1>3, <1>5, ResumedTools
<1>6. CASE approved = FALSE
  BY <1>1, <1>2, <1>4, <1>6, RetriedTools, UnapprovedGraph
<1> QED
  BY <1>5, <1>6

-----------------------------------------------------------------------------
(* Graphs without an edge into the void and without an unknown actor. *)
LEMMA ClosedGrows ==
    ASSUME NEW g, NEW c, NEW new, NEW edges, Closed(g),
           c.nodes = Merge(g.nodes, new), c.edges = g.edges \cup edges,
           g.participants \subseteq c.participants,
           \A n \in DOMAIN new : new[n] \in c.participants,
           \A e \in edges : /\ e[1] \in (DOMAIN g.nodes) \cup DOMAIN new
                            /\ e[2] \in (DOMAIN g.nodes) \cup DOMAIN new
    PROVE  Closed(c)
<1>1. DOMAIN c.nodes = (DOMAIN g.nodes) \cup DOMAIN new
  BY MergeIs
<1>2. \A n \in DOMAIN c.nodes : c.nodes[n] \in c.participants
  <2>1. \A n \in DOMAIN g.nodes : g.nodes[n] \in c.participants
    BY DEF Closed
  <2> QED
    BY <2>1, MergeRange
<1>3. \A e \in c.edges : {e[1], e[2]} \subseteq DOMAIN c.nodes
  <2>1. \A e \in g.edges : {e[1], e[2]} \subseteq DOMAIN c.nodes
    BY <1>1 DEF Closed
  <2>2. \A e \in edges : {e[1], e[2]} \subseteq DOMAIN c.nodes
    BY <1>1
  <2> QED
    BY <2>1, <2>2
<1> QED
  BY <1>2, <1>3 DEF Closed

LEMMA ThreeBy ==
    ASSUME NEW a, NEW A, NEW b, NEW B, NEW c, NEW C, NEW m,
           m = Merge(By(a, A), Merge(By(b, B), By(c, C)))
    PROVE  DOMAIN m = A \cup B \cup C /\ \A n \in DOMAIN m : m[n] \in {a, b, c}
BY DEF Merge, By

LEMMA ReferenceNodesOf ==
    ASSUME NEW s
    PROVE  LET nodes == ReferenceNodes(s)
           IN /\ \A i \in DOMAIN Roles(s) : Turn(s, i) \in DOMAIN nodes
              /\ {<<"event", "start">>, <<"tool:call", "write-report">>,
                  <<"memory", "report-fact">>, <<"checkpoint", "prompt">>,
                  <<"retrieval", "report-memory">>, <<"kv", "prompt">>,
                  <<"tool:result", "write-report">>, <<"artifact", "result">>,
                  <<"credential", "local-filesystem">>} \subseteq DOMAIN nodes
              /\ \A n \in DOMAIN nodes : nodes[n] \in {Agent, User, Tool}
<1> DEFINE turns == [n \in {Turn(s, i) : i \in DOMAIN Roles(s)} |-> TurnActor(n[2])]
           A == {<<"event", "start">>}
           B == {<<"tool:call", "write-report">>, <<"memory", "report-fact">>,
                 <<"checkpoint", "prompt">>, <<"retrieval", "report-memory">>,
                 <<"kv", "prompt">>}
           C == {<<"tool:result", "write-report">>, <<"artifact", "result">>,
                 <<"credential", "local-filesystem">>}
           rest == Merge(By(User, A), Merge(By(Agent, B), By(Tool, C)))
<1>1. ReferenceNodes(s) = Merge(turns, rest)
  BY DEF ReferenceNodes
<1>2. DOMAIN rest = A \cup B \cup C /\ \A n \in DOMAIN rest : rest[n] \in {Agent, User, Tool}
  <2> HIDE DEF A, B, C
  <2>1. DOMAIN rest = A \cup B \cup C /\ \A n \in DOMAIN rest : rest[n] \in {User, Agent, Tool}
    BY ThreeBy, ZenonT(60)
  <2> HIDE DEF rest
  <2> QED
    BY <2>1
<1>3. \A r : TurnActor(r) \in {Agent, User, Tool}
  BY DEF TurnActor
<1>4. /\ DOMAIN turns = {Turn(s, i) : i \in DOMAIN Roles(s)}
      /\ \A n \in DOMAIN turns : turns[n] \in {Agent, User, Tool}
  <2> HIDE DEF A, B, C, rest
  <2> QED
    BY <1>3
<1> HIDE DEF turns, rest
<1>5. DOMAIN Merge(turns, rest) = (DOMAIN turns) \cup DOMAIN rest
  BY MergeIs
<1>6. \A n \in DOMAIN Merge(turns, rest) : Merge(turns, rest)[n] \in {Agent, User, Tool}
  BY <1>2, <1>4, MergeRange
<1>7. \A i \in DOMAIN Roles(s) : Turn(s, i) \in DOMAIN turns
  BY <1>4
<1>8. A \cup B \cup C \subseteq DOMAIN Merge(turns, rest)
  BY <1>2, <1>5
<1> QED
  BY <1>1, <1>5, <1>6, <1>7, <1>8

LEMMA TurnsOf ==
    ASSUME NEW s
    PROVE  /\ DOMAIN Roles(s) = 1 .. Len(Roles(s)) /\ Len(Roles(s)) \in {5, 9}
           /\ Turn(s, 2) = <<"turn:", "user", 2>> /\ Turn(s, 3) = <<"turn:", "assistant", 3>>
           /\ Turn(s, 5) = <<"turn:", "assistant", 5>>
<1>1. CASE s = "complex"
  BY <1>1 DEF Roles, Turn
<1>2. CASE s # "complex"
  BY <1>2 DEF Roles, Turn
<1> QED
  BY <1>1, <1>2

LEMMA ReferenceClosed ==
    ASSUME NEW s \in {"reference", "complex", "foreign"}
    PROVE  Closed(ReferenceGraph[s])
<1> PICK g : g = ReferenceGraph[s]
  OBVIOUS
<1> PICK nodes : nodes = ReferenceNodes(s)
  OBVIOUS
<1>1. /\ g.nodes = nodes /\ g.edges = ReferenceEdges(s)
      /\ g.participants = {Agent, User, Tool, "runtime:local-reference"}
  BY ReferenceGraphFields
<1>2. \A n \in DOMAIN nodes : nodes[n] \in g.participants
  BY <1>1, ReferenceNodesOf
<1> DEFINE start == <<"event", "start">>
           call == <<"tool:call", "write-report">>
           result == <<"tool:result", "write-report">>
           fact == <<"memory", "report-fact">>
           checkpoint == <<"checkpoint", "prompt">>
           artifact == <<"artifact", "result">>
           retrieval == <<"retrieval", "report-memory">>
           kv == <<"kv", "prompt">>
           credential == <<"credential", "local-filesystem">>
           user == <<"turn:", "user", 2>>
           assistant == <<"turn:", "assistant", 3>>
           turns == {<<IF i = 1 THEN start ELSE Turn(s, i - 1), Turn(s, i)>> :
                        i \in DOMAIN Roles(s)}
           others == {<<assistant, call>>, <<call, result>>, <<call, artifact>>,
                      <<result, fact>>, <<retrieval, fact>>, <<checkpoint, user>>,
                      <<kv, checkpoint>>, <<credential, call>>}
<1>3. g.edges = turns \cup others
  BY <1>1, ZenonT(60) DEF ReferenceEdges
<1>4. /\ start \in DOMAIN nodes /\ call \in DOMAIN nodes /\ result \in DOMAIN nodes
      /\ fact \in DOMAIN nodes /\ checkpoint \in DOMAIN nodes /\ artifact \in DOMAIN nodes
      /\ retrieval \in DOMAIN nodes /\ kv \in DOMAIN nodes /\ credential \in DOMAIN nodes
  BY ReferenceNodesOf
<1>5. \A i \in DOMAIN Roles(s) : Turn(s, i) \in DOMAIN nodes
  BY ReferenceNodesOf
<1>6. user \in DOMAIN nodes /\ assistant \in DOMAIN nodes
  <2>1. 2 \in DOMAIN Roles(s) /\ 3 \in DOMAIN Roles(s)
    BY TurnsOf
  <2> QED
    BY <1>5, <2>1, TurnsOf
<1> HIDE DEF start, call, result, fact, checkpoint, artifact, retrieval, kv, credential, user,
             assistant
<1>7. \A e \in others : {e[1], e[2]} \subseteq DOMAIN nodes
  BY <1>4, <1>6
<1>8. \A e \in turns : {e[1], e[2]} \subseteq DOMAIN nodes
  <2> TAKE e \in turns
  <2>1. PICK i \in DOMAIN Roles(s) : e = <<IF i = 1 THEN start ELSE Turn(s, i - 1), Turn(s, i)>>
    OBVIOUS
  <2>2. i # 1 => i - 1 \in DOMAIN Roles(s)
    BY TurnsOf
  <2>3. e[1] \in DOMAIN nodes
    BY <1>4, <1>5, <2>1, <2>2
  <2>4. e[2] \in DOMAIN nodes
    BY <1>5, <2>1
  <2> QED
    BY <2>3, <2>4
<1> HIDE DEF turns, others
<1> QED
  BY <1>1, <1>2, <1>3, <1>7, <1>8 DEF Closed

LEMMA ExtraFilesOf == "plan" \in ExtraFiles /\ "elsewhere" \notin ExtraFiles
BY AgentAssumption DEF ExtraFiles, ExtraPaths

LEMMA ComplexNewIs ==
    LET files == {<<"artifact", p>> : p \in ExtraFiles}
        new == ComplexNew
    IN /\ DOMAIN new = {<<"event", "pending-release">>} \cup
             {<<"tool:call", "write-plan">>, <<"tool:call", "read-aws-quota">>,
              <<"tool:call", "publish-release">>, <<"memory", "complex-fidelity">>,
              <<"retrieval", "complex-evidence">>} \cup files
       /\ \A n \in DOMAIN new : new[n] \in {"operator:release-manager", Agent, Tool}
<1> DEFINE A == {<<"event", "pending-release">>}
           B == {<<"tool:call", "write-plan">>, <<"tool:call", "read-aws-quota">>,
                 <<"tool:call", "publish-release">>, <<"memory", "complex-fidelity">>,
                 <<"retrieval", "complex-evidence">>}
           files == {<<"artifact", p>> : p \in ExtraFiles}
<1>1. ComplexNew = Merge(By("operator:release-manager", A), Merge(By(Agent, B), By(Tool, files)))
  BY DEF ComplexNew
<1> HIDE DEF A, B, files
<1> PICK operator : operator = "operator:release-manager"
  OBVIOUS
<1>2. ComplexNew = Merge(By(operator, A), Merge(By(Agent, B), By(Tool, files)))
  BY <1>1
<1>3. /\ DOMAIN ComplexNew = A \cup B \cup files
      /\ \A n \in DOMAIN ComplexNew : ComplexNew[n] \in {operator, Agent, Tool}
  BY <1>2 DEF Merge, By
<1> QED
  BY <1>3 DEF A, B, files

LEMMA ComplexClosed ==
    /\ Closed(ComplexGraph)
    /\ {<<"tool:call", "read-aws-quota">>, <<"tool:call", "publish-release">>}
          \subseteq DOMAIN ComplexGraph.nodes
    /\ {Agent, Tool} \subseteq ComplexGraph.participants
<1> PICK g : g = ReferenceGraph["complex"]
  OBVIOUS
<1> PICK c : c = ComplexGraph
  OBVIOUS
<1> PICK new : new = ComplexNew
  OBVIOUS
<1>1. Closed(g) /\ g.participants = {Agent, User, Tool, "runtime:local-reference"}
  BY ReferenceClosed, ReferenceGraphFields
<1>2. /\ c.participants = g.participants \cup {"operator:release-manager"}
      /\ c.nodes = Merge(g.nodes, new) /\ c.edges = g.edges \cup ComplexNewEdges
  BY ComplexGraphFields
<1> DEFINE pending == <<"event", "pending-release">>
           plan == <<"tool:call", "write-plan">>
           quota == <<"tool:call", "read-aws-quota">>
           release == <<"tool:call", "publish-release">>
           fidelity == <<"memory", "complex-fidelity">>
           evidence == <<"retrieval", "complex-evidence">>
           files == {<<"artifact", p>> : p \in ExtraFiles}
           turn == <<"turn:", "assistant", 5>>
           file == <<"artifact", "plan">>
<1>3. /\ DOMAIN new = {pending} \cup {plan, quota, release, fidelity, evidence} \cup files
      /\ \A n \in DOMAIN new : new[n] \in {"operator:release-manager", Agent, Tool}
  BY ComplexNewIs, ZenonT(60)
<1>4. file \in files
  BY ExtraFilesOf
<1>5. turn \in DOMAIN g.nodes
  <2>1. g.nodes = ReferenceNodes("complex")
    BY ReferenceGraphFields
  <2>2. 5 \in DOMAIN Roles("complex") /\ Turn("complex", 5) = turn
    BY TurnsOf
  <2> QED
    BY <2>1, <2>2, ReferenceNodesOf
<1>6. ComplexNewEdges =
         {<<plan, <<"artifact", p>>>> : p \in ExtraFiles}
         \cup {<<turn, plan>>, <<file, fidelity>>, <<evidence, fidelity>>,
               <<pending, release>>, <<quota, fidelity>>}
  BY DEF ComplexNewEdges
<1> HIDE DEF pending, plan, quota, release, fidelity, evidence, files, turn, file
<1>7. ASSUME NEW e \in ComplexNewEdges
      PROVE  /\ e[1] \in (DOMAIN g.nodes) \cup DOMAIN new
             /\ e[2] \in (DOMAIN g.nodes) \cup DOMAIN new
  <2>1. CASE e \in {<<plan, <<"artifact", p>>>> : p \in ExtraFiles}
    <3>1. PICK p \in ExtraFiles : e = <<plan, <<"artifact", p>>>>
      BY <2>1
    <3>2. <<"artifact", p>> \in files
      BY DEF files
    <3> QED
      BY <1>3, <3>1, <3>2
  <2>2. CASE e \in {<<turn, plan>>, <<file, fidelity>>, <<evidence, fidelity>>,
                    <<pending, release>>, <<quota, fidelity>>}
    BY <1>3, <1>4, <1>5, <2>2
  <2> QED
    BY <1>6, <2>1, <2>2
<1>8. \A n \in DOMAIN new : new[n] \in c.participants
  BY <1>1, <1>2, <1>3
<1>9. Closed(c)
  BY <1>1, <1>2, <1>7, <1>8, ClosedGrows
<1>10. quota \in DOMAIN c.nodes /\ release \in DOMAIN c.nodes
  BY <1>2, <1>3 DEF Merge
<1>11. {Agent, Tool} \subseteq c.participants
  BY <1>1, <1>2
<1> QED
  BY <1>9, <1>10, <1>11 DEF quota, release

LEMMA RetriedClosed ==
    /\ Closed(RetriedGraph)
    /\ <<"tool:call", "publish-release">> \in DOMAIN RetriedGraph.nodes
    /\ {Agent, Tool} \subseteq RetriedGraph.participants
<1> DEFINE g == ComplexGraph
           c == RetriedGraph
           new == RetriedNew
           quota == <<"tool:call", "read-aws-quota">>
           release == <<"tool:call", "publish-release">>
           result == <<"tool:result", "read-aws-quota:post-import">>
           event == <<"event", "post-migration-agent-resume">>
           edges == {<<quota, result>>}
<1>1. /\ Closed(g) /\ quota \in DOMAIN g.nodes /\ release \in DOMAIN g.nodes
      /\ Agent \in g.participants /\ Tool \in g.participants
  BY ComplexClosed
<1>2. /\ c.participants = g.participants /\ c.nodes = Merge(g.nodes, new)
      /\ c.edges = g.edges \cup edges
  BY RetriedGraphFields DEF RetriedNewEdges
<1>3. new = Merge(By(Tool, {result}), By(Agent, {event}))
  BY DEF RetriedNew
<1> HIDE DEF g, c, new, quota, release, result, event
<1>4. DOMAIN new = {result, event} /\ \A n \in DOMAIN new : new[n] \in {Tool, Agent}
  BY <1>3 DEF Merge, By
<1>5. \A e \in edges : /\ e[1] \in (DOMAIN g.nodes) \cup DOMAIN new
                       /\ e[2] \in (DOMAIN g.nodes) \cup DOMAIN new
  BY <1>1, <1>4
<1> HIDE DEF edges
<1>6. \A n \in DOMAIN new : new[n] \in c.participants
  BY <1>1, <1>2, <1>4
<1>7. Closed(c)
  BY <1>1, <1>2, <1>5, <1>6, ClosedGrows
<1>8. release \in DOMAIN c.nodes
  BY <1>1, <1>2 DEF Merge
<1> QED
  BY <1>1, <1>2, <1>7, <1>8 DEF c, release

LEMMA ResumedClosed ==
    /\ Closed(ResumedGraph[TRUE])
    /\ {Announced, Continues} \subseteq DOMAIN ResumedGraph[TRUE].nodes
    /\ {Agent, Tool} \subseteq ResumedGraph[TRUE].participants
<1> DEFINE g == RetriedGraph
           c == ResumedGraph[TRUE]
           release == <<"tool:call", "publish-release">>
           result == <<"tool:result", "publish-release:post-import">>
           new == Merge(By(Tool, Published), By(Agent, {Continues}))
           edges == {<<release, n>> : n \in Published} \cup {<<Announced, Continues>>}
<1>1. /\ Closed(g) /\ release \in DOMAIN g.nodes
      /\ Agent \in g.participants /\ Tool \in g.participants
  BY RetriedClosed
<1>2. /\ c.participants = g.participants /\ c.nodes = Merge(g.nodes, new)
      /\ c.edges = g.edges \cup edges
  BY ResumedGraphFields
<1>3. Published = {result, Announced}
  BY DEF Published
<1> HIDE DEF g, c, release, result
<1>4. DOMAIN new = {result, Announced, Continues} /\ \A n \in DOMAIN new : new[n] \in {Tool, Agent}
  BY <1>3 DEF Merge, By
<1> HIDE DEF new
<1>5. \A e \in edges : /\ e[1] \in (DOMAIN g.nodes) \cup DOMAIN new
                       /\ e[2] \in (DOMAIN g.nodes) \cup DOMAIN new
  BY <1>1, <1>3, <1>4
<1> HIDE DEF edges
<1>6. \A n \in DOMAIN new : new[n] \in c.participants
  BY <1>1, <1>2, <1>4
<1>7. Closed(c)
  BY <1>1, <1>2, <1>5, <1>6, ClosedGrows
<1>8. Announced \in DOMAIN c.nodes /\ Continues \in DOMAIN c.nodes
  BY <1>2, <1>4 DEF Merge
<1> QED
  BY <1>1, <1>2, <1>7, <1>8 DEF c

(* The graph that comes home after an approved resume. *)
LEMMA ReturnedClosed ==
    /\ Closed(ReturnedGraph[TRUE])
    /\ \A t \in DOMAIN ReturnedGraph[TRUE].tools :
          ReturnedGraph[TRUE].tools[t].status \notin Pending
<1> DEFINE g == ResumedGraph[TRUE]
           c == ReturnedGraph[TRUE]
           new == Merge(By(Tool, {ReturnArtifact}), By(Agent, {ReturnMemory, ReturnEvent}))
           edges == {<<Continues, ReturnMemory>>, <<Announced, ReturnArtifact>>,
                     <<ReturnArtifact, ReturnMemory>>, <<ReturnMemory, ReturnEvent>>}
<1>1. /\ Closed(g) /\ Announced \in DOMAIN g.nodes /\ Continues \in DOMAIN g.nodes
      /\ Agent \in g.participants /\ Tool \in g.participants
  BY ResumedClosed
<1>2. /\ c.participants = g.participants /\ c.nodes = Merge(g.nodes, new)
      /\ c.edges = g.edges \cup edges
  BY ReturnedGraphFields
<1>3. \A t \in DOMAIN c.tools : c.tools[t].status \notin Pending
  <2>1. c.tools = g.tools
    BY ReturnedGraphFields
  <2>2. \A call \in {Written, Quota("completed"), Release("completed", "approved")} :
           call.status \notin Pending
    BY CallIs DEF Written, Quota, Release, Pending
  <2>3. \A t \in DOMAIN g.tools :
           g.tools[t] \in {Written, Quota("completed"), Release("completed", "approved")}
    BY ResumedTools
  <2> HIDE DEF g, c
  <2> QED
    BY <2>1, <2>2, <2>3
<1> HIDE DEF g, c
<1>4. /\ DOMAIN new = {ReturnArtifact, ReturnMemory, ReturnEvent}
      /\ \A n \in DOMAIN new : new[n] \in {Tool, Agent}
  BY DEF Merge, By
<1> HIDE DEF new
<1>5. \A e \in edges : /\ e[1] \in (DOMAIN g.nodes) \cup DOMAIN new
                       /\ e[2] \in (DOMAIN g.nodes) \cup DOMAIN new
  BY <1>1, <1>4
<1> HIDE DEF edges
<1>6. \A n \in DOMAIN new : new[n] \in c.participants
  BY <1>1, <1>2, <1>4
<1>7. Closed(c)
  BY <1>1, <1>2, <1>5, <1>6, ClosedGrows
<1> QED
  BY <1>3, <1>7 DEF c

-----------------------------------------------------------------------------
(* The framework adapters' graphs conform. *)
LEMMA EnvelopeConforms ==
    ASSUME NEW name, NEW adapter \in Adapters, NEW agent, NEW participants, NEW nodes,
           NEW edges, NEW tools,
           GraphOf(name) = Envelope(adapter, agent, participants, nodes, edges, tools),
           \A e \in edges : e[1] \in DOMAIN nodes /\ e[2] \in DOMAIN nodes,
           \A n \in DOMAIN nodes : nodes[n] \in participants \cup {agent}
    PROVE  Conforms(name, Adapters)
<1> PICK g : g = GraphOf(name)
  OBVIOUS
<1>1. /\ g.adapter = adapter /\ g.runtime = AdapterRuntime(adapter) /\ g.agent = agent
      /\ g.participants = participants \cup {agent} /\ g.nodes = nodes /\ g.edges = edges
  BY DEF Envelope
<1>2. Closed(g)
  BY <1>1 DEF Closed
<1> QED
  BY <1>1, <1>2 DEF Conforms

LEMMA LanggraphConforms ==
    ASSUME NEW name, name.session = "langgraph_durable_state"
    PROVE  Conforms(name, Adapters)
<1> DEFINE agent == "agent:langgraph-reference"
           operator == "user:operator"
           store == "runtime:langgraph-store"
           turn == [r \in {"user", "assistant"} |-> <<"turn", r>>]
           user == turn["user"]
           assistant == turn["assistant"]
           task == <<"task", "open-checklist">>
           memory == <<"memory", "user-preference">>
           retrieval == <<"retrieval", "memory">>
           start == <<"event", "start">>
           checkpoint == <<"checkpoint", "thread">>
           trace == <<"trace", "node">>
           nodes == Merge(By(operator, {user}),
                    Merge(By(agent, {assistant, task, memory, retrieval}),
                          By(store, {start, checkpoint, trace})))
           edges == {<<start, user>>, <<user, assistant>>, <<assistant, task>>,
                     <<retrieval, memory>>, <<checkpoint, task>>, <<trace, checkpoint>>}
           tools == [t \in {} |-> NoTool]
           participants == {operator, store}
           adapter == "langgraph_durable_state"
<1>1. GraphOf(name) = LanggraphGraph
  BY DEF GraphOf
<1>2. LanggraphGraph = Envelope(adapter, agent, participants, nodes, edges, tools)
  BY ZenonT(60) DEF LanggraphGraph
<1>3. adapter \in Adapters
  BY DEF Adapters
<1> HIDE DEF agent, operator, store, user, assistant, task, memory, retrieval, start,
             checkpoint, trace, tools, adapter
<1>4. /\ DOMAIN nodes = {user, assistant, task, memory, retrieval, start, checkpoint, trace}
      /\ \A n \in DOMAIN nodes : nodes[n] \in {operator, agent, store}
  BY DEF Merge, By
<1> HIDE DEF nodes
<1>5. \A e \in edges : e[1] \in DOMAIN nodes /\ e[2] \in DOMAIN nodes
  BY <1>4
<1>6. \A n \in DOMAIN nodes : nodes[n] \in participants \cup {agent}
  BY <1>4
<1> HIDE DEF edges, participants
<1> QED
  BY <1>1, <1>2, <1>3, <1>5, <1>6, EnvelopeConforms

LEMMA McpConforms ==
    ASSUME NEW name, name.session = "mcp_resource_session"
    PROVE  Conforms(name, Adapters)
<1> DEFINE agent == "agent:mcp-reference"
           operator == "user:operator"
           files == "tool:mcp-files"
           session == "runtime:mcp-session"
           turn == <<"turn", "user">>
           call == <<"tool:call", "mcp-list">>
           result == <<"tool:result", "mcp-list">>
           artifact == <<"artifact", "mcp-cargo-manifest">>
           credential == <<"credential", "mcp-filesystem">>
           checkpoint == <<"checkpoint", "mcp-session">>
           trace == <<"trace", "mcp-tool-call">>
           A == {result, artifact}
           B == {credential, checkpoint, trace}
           rest == Merge(By(files, A), By(session, B))
           nodes == Merge(By(operator, {turn}), Merge(By(agent, {call}), rest))
           edges == {<<turn, call>>, <<call, result>>, <<result, artifact>>,
                     <<credential, call>>, <<checkpoint, call>>, <<trace, call>>}
           tools == [t \in {"mcp-list"} |-> Call("resources/read", "read_only", "completed",
                                                 "never_retry", "not_required")]
           participants == {operator, files, session}
           adapter == "mcp_resource_session"
<1>1. GraphOf(name) = McpGraph
  BY DEF GraphOf
<1>2. McpGraph = Envelope(adapter, agent, participants, nodes, edges, tools)
  BY ZenonT(60) DEF McpGraph
<1>3. adapter \in Adapters
  BY DEF Adapters
<1> HIDE DEF agent, operator, files, session, turn, call, result, artifact, credential,
             checkpoint, trace, tools, adapter
<1>4. DOMAIN rest = A \cup B /\ \A n \in DOMAIN rest : rest[n] \in {files, session}
  BY DEF Merge, By
<1> HIDE DEF rest
<1>5. /\ DOMAIN nodes = {turn, call} \cup A \cup B
      /\ \A n \in DOMAIN nodes : nodes[n] \in {operator, agent, files, session}
  BY <1>4 DEF Merge, By
<1> HIDE DEF nodes
<1>6. \A e \in edges : e[1] \in DOMAIN nodes /\ e[2] \in DOMAIN nodes
  BY <1>5
<1>7. \A n \in DOMAIN nodes : nodes[n] \in participants \cup {agent}
  BY <1>5
<1> HIDE DEF edges, participants
<1> QED
  BY <1>1, <1>2, <1>3, <1>6, <1>7, EnvelopeConforms

-----------------------------------------------------------------------------
(* A package as the harness writes it passes every check of import_session. *)
LocalName(n) == n.session \in {"reference", "complex"} /\ n = Name(n.session, n.policy)

NameFields == {"session", "policy", "stage", "approved", "tool", "defect"}

LEMMA LocalNameIs ==
    ASSUME NEW n, LocalName(n)
    PROVE  /\ Over(n, NameFields) /\ n.stage = "exported" /\ n.approved = FALSE
           /\ n.defect = "none" /\ n.session \notin Adapters
BY DEF LocalName, Name, Over, NameFields, Adapters

LEMMA LocalGraph ==
    ASSUME NEW n, LocalName(n)
    PROVE  GraphOf(n) = IF n.session = "complex" THEN ComplexGraph ELSE ReferenceGraph["reference"]
BY LocalNameIs DEF LocalName, GraphOf

LEMMA ManifestIs ==
    ASSUME NEW n, LocalName(n)
    PROVE  LET m == Manifest(n)
           IN /\ m.graph_hash = n /\ m.signature = <<n, Trusted>> /\ m.provenance = n
              /\ m.signer = Trusted /\ m.trusted = {Trusted}
              /\ m.runtimes = {Runtime} /\ m.tools = AllowedTools
              /\ m.vector.mode = "snapshot" /\ m.vector.results = VectorResults(GraphOf(n))
              /\ m.byte_hash = Prompt(n) /\ m.token_hash = Prompt(n) /\ m.kv_hash = Prompt(n)
              /\ m.response = <<Prompt(n), Bytes(n.session, "result")>>
              /\ m.artifacts = [i \in DOMAIN Paths(n.session) |->
                                  ArtifactRecord(n.session, n.policy, Paths(n.session)[i])]
<1>1. n.defect = "none"
  BY LocalNameIs
<1> PICK vector : vector = [mode |-> "snapshot", rebind_required |-> FALSE,
                            results |-> VectorResults(GraphOf(n))]
  OBVIOUS
<1> PICK artifacts : artifacts = [i \in DOMAIN Paths(n.session) |->
                                  ArtifactRecord(n.session, n.policy, Paths(n.session)[i])]
  OBVIOUS
<1>2. ArtifactRecord(n.session, n.policy, "result").sha256 = Bytes(n.session, "result")
  BY DEF ArtifactRecord
<1>3. Manifest(n) =
        [graph_hash |-> n, signature |-> <<n, Trusted>>, provenance |-> n,
         signer |-> Trusted, trusted |-> {Trusted}, runtimes |-> {Runtime},
         tools |-> AllowedTools, vector |-> vector,
         byte_hash |-> Prompt(n), token_hash |-> Prompt(n), kv_hash |-> Prompt(n),
         response |-> <<Prompt(n), Bytes(n.session, "result")>>, artifacts |-> artifacts]
  BY <1>1, <1>2 DEF Manifest
<1> QED
  BY <1>3

LEMMA ReferenceIsSafe ==
    LET g == ReferenceGraph["reference"]
    IN /\ \A t \in DOMAIN g.tools : /\ g.tools[t].name \in AllowedTools
                                    /\ Audit(g.tools[t]) # "reject"
       /\ "elsewhere" \notin g.artifact_paths /\ g.secrets = {}
       /\ g.credentials = {[redaction_state |-> "external_only", required |-> TRUE,
                            binding |-> TRUE]}
       /\ \A r \in DOMAIN g.retrievals : g.retrievals[r] = VectorResults(g)
<1> PICK g : g = ReferenceGraph["reference"]
  OBVIOUS
<1>1. /\ g.tools = [t \in {"write-report"} |-> Written]
      /\ g.memories = {<<"memory", "report-fact">>}
      /\ g.retrievals = [r \in {"report-memory"} |-> {<<"memory", "report-fact">>}]
      /\ g.artifact_paths = {"result"} /\ g.secrets = {}
      /\ g.credentials = {[redaction_state |-> "external_only", required |-> TRUE,
                           binding |-> TRUE]}
  BY ReferenceGraphFields DEF Written
<1>2. Written.name \in AllowedTools /\ Audit(Written) # "reject"
  BY CallIs, AuditOfDone DEF Written, AllowedTools, Pending
<1>3. \A t \in DOMAIN g.tools : g.tools[t] = Written
  BY <1>1
<1>4. \A r \in DOMAIN g.retrievals : g.retrievals[r] = VectorResults(g)
  BY <1>1 DEF VectorResults
<1>5. "elsewhere" \notin g.artifact_paths
  BY <1>1
<1> QED
  BY <1>1, <1>2, <1>3, <1>4, <1>5

LEMMA ComplexIsSafe ==
    LET g == ComplexGraph
    IN /\ \A t \in DOMAIN g.tools : /\ g.tools[t].name \in AllowedTools
                                    /\ Audit(g.tools[t]) # "reject"
       /\ "elsewhere" \notin g.artifact_paths /\ g.secrets = {}
       /\ g.credentials = {[redaction_state |-> "external_only", required |-> TRUE,
                            binding |-> TRUE]}
       /\ \A r \in DOMAIN g.retrievals : g.retrievals[r] = VectorResults(g)
<1> PICK g : g = ComplexGraph
  OBVIOUS
<1>1. /\ g.retrievals = [r \in {"report-memory", "complex-evidence"} |-> g.memories]
      /\ g.artifact_paths = {"result"} \cup ExtraFiles /\ g.secrets = {}
      /\ g.credentials = {[redaction_state |-> "external_only", required |-> TRUE,
                           binding |-> TRUE]}
  BY ComplexGraphFields, ReferenceGraphFields
<1> DEFINE calls == {Written, Quota("not_started"), Release("needs_user", "pending")}
<1>2. \A call \in calls : call.name \in AllowedTools
  BY CallIs DEF Written, Quota, Release, AllowedTools
<1>3. Audit(Written) # "reject"
  BY CallIs, AuditOfDone DEF Written, Pending
<1>4. Audit(Quota("not_started")) # "reject"
  BY CallIs DEF Quota, Audit, Pending, Writes
<1>5. Audit(Release("needs_user", "pending")) # "reject"
  BY CallIs, AuditOfWaiting DEF Release, Pending, Writes, Manual
<1>6. \A t \in DOMAIN g.tools : g.tools[t] \in calls
  BY ComplexTools
<1>7. \A t \in DOMAIN g.tools : /\ g.tools[t].name \in AllowedTools
                                /\ Audit(g.tools[t]) # "reject"
  BY <1>2, <1>3, <1>4, <1>5, <1>6
<1>8. \A r \in DOMAIN g.retrievals : g.retrievals[r] = VectorResults(g)
  BY <1>1 DEF VectorResults
<1>9. "elsewhere" \notin g.artifact_paths
  BY <1>1, ExtraFilesOf
<1> QED
  BY <1>1, <1>7, <1>8, <1>9

LEMMA LocalIsSafe ==
    ASSUME NEW n, LocalName(n)
    PROVE  LET g == GraphOf(n)
           IN /\ \A t \in DOMAIN g.tools : /\ g.tools[t].name \in AllowedTools
                                           /\ Audit(g.tools[t]) # "reject"
              /\ "elsewhere" \notin g.artifact_paths /\ g.secrets = {}
              /\ g.credentials = {[redaction_state |-> "external_only", required |-> TRUE,
                                   binding |-> TRUE]}
              /\ \A r \in DOMAIN g.retrievals : g.retrievals[r] = VectorResults(g)
<1>1. CASE n.session = "complex"
  <2>1. GraphOf(n) = ComplexGraph
    BY <1>1, LocalGraph
  <2> QED
    BY <2>1, ComplexIsSafe
<1>2. CASE n.session # "complex"
  <2>1. GraphOf(n) = ReferenceGraph["reference"]
    BY <1>2, LocalGraph
  <2> QED
    BY <2>1, ReferenceIsSafe
<1> QED
  BY <1>1, <1>2

LEMMA Prepended ==
    ASSUME NEW S, NEW x, NEW q \in Seq(S)
    PROVE  LET p == <<x>> \o q
           IN Len(p) \in Nat /\ p[1] = x /\ DOMAIN p = 1 .. Len(p) /\ 1 \in DOMAIN p
OBVIOUS

LEMMA PathsOf ==
    ASSUME NEW s
    PROVE  /\ Len(Paths(s)) \in Nat /\ Paths(s)[1] = "result"
           /\ DOMAIN Paths(s) = 1 .. Len(Paths(s)) /\ 1 \in DOMAIN Paths(s)
<1>1. ExtraPaths(s) \in Seq(STRING)
  <2>1. Extras \in Seq(STRING)
    BY AgentAssumption, ZenonT(60)
  <2>2. <<>> \in Seq(STRING)
    OBVIOUS
  <2> QED
    BY <2>1, <2>2, ZenonT(60) DEF ExtraPaths
<1> PICK result : result = "result"
  OBVIOUS
<1>2. Paths(s) = <<result>> \o ExtraPaths(s)
  BY DEF Paths
<1> QED
  BY <1>1, <1>2, Prepended

LEMMA PathsAreInside ==
    ASSUME NEW s
    PROVE  \A i \in DOMAIN Paths(s) : Paths(s)[i] # "elsewhere"
<1>1. /\ ExtraPaths(s) \in Seq(STRING)
      /\ \A i \in DOMAIN ExtraPaths(s) : ExtraPaths(s)[i] # "elsewhere"
  <2>1. Extras \in Seq(STRING) /\ \A i \in DOMAIN Extras : Extras[i] # "elsewhere"
    BY AgentAssumption, ZenonT(60)
  <2> PICK none : none = <<>>
    OBVIOUS
  <2>2. none \in Seq(STRING) /\ \A i \in DOMAIN none : none[i] # "elsewhere"
    OBVIOUS
  <2>3. ExtraPaths(s) = Extras \/ ExtraPaths(s) = none
    BY DEF ExtraPaths
  <2> QED
    BY <2>1, <2>2, <2>3
<1> PICK result : result = "result"
  OBVIOUS
<1>2. Paths(s) = <<result>> \o ExtraPaths(s)
  BY DEF Paths
<1> QED
  BY <1>1, <1>2

LEMMA IntactIsVerified ==
    ASSUME NEW n, LocalName(n)
    PROVE  LET g == [body |-> n, graph_hash |-> n]
               m == Manifest(n)
           IN /\ GraphVerified(g, m) /\ SecurityVerified(g, m) /\ ReplayVerified(g)
              /\ VectorVerified(g, m) /\ PromptVerified(g, m)
<1> PICK m : m = Manifest(n)
  OBVIOUS
<1> PICK g : g = [body |-> n, graph_hash |-> n]
  OBVIOUS
<1> PICK graph : graph = GraphOf(n)
  OBVIOUS
<1>1. g.body = n /\ g.graph_hash = n
  OBVIOUS
<1>2. /\ m.graph_hash = n /\ m.signature = <<n, Trusted>> /\ m.provenance = n
      /\ m.signer = Trusted /\ m.trusted = {Trusted}
      /\ m.runtimes = {Runtime} /\ m.tools = AllowedTools
      /\ m.vector.mode = "snapshot" /\ m.vector.results = VectorResults(graph)
      /\ m.byte_hash = Prompt(n) /\ m.token_hash = Prompt(n) /\ m.kv_hash = Prompt(n)
      /\ m.response = <<Prompt(n), Bytes(n.session, "result")>>
      /\ m.artifacts = [i \in DOMAIN Paths(n.session) |->
                          ArtifactRecord(n.session, n.policy, Paths(n.session)[i])]
  BY ManifestIs
<1>3. /\ \A t \in DOMAIN graph.tools : /\ graph.tools[t].name \in AllowedTools
                                       /\ Audit(graph.tools[t]) # "reject"
      /\ "elsewhere" \notin graph.artifact_paths /\ graph.secrets = {}
      /\ graph.credentials = {[redaction_state |-> "external_only", required |-> TRUE,
                               binding |-> TRUE]}
      /\ \A r \in DOMAIN graph.retrievals : graph.retrievals[r] = VectorResults(graph)
  BY LocalIsSafe
<1>4. GraphVerified(g, m)
  BY <1>1, <1>2 DEF GraphVerified
<1>5. SecurityVerified(g, m)
  <2>1. \A i \in DOMAIN m.artifacts : m.artifacts[i].path # "elsewhere"
    <3> TAKE i \in DOMAIN m.artifacts
    <3>1. /\ i \in DOMAIN Paths(n.session)
          /\ m.artifacts[i] = ArtifactRecord(n.session, n.policy, Paths(n.session)[i])
      BY <1>2
    <3>2. m.artifacts[i].path = Paths(n.session)[i]
      BY <3>1 DEF ArtifactRecord
    <3> QED
      BY <3>1, <3>2, PathsAreInside
  <2>2. m.signature = <<g.graph_hash, m.signer>>
    BY <1>1, <1>2
  <2>3. m.signer \in m.trusted /\ Runtime \in m.runtimes /\ m.provenance = g.graph_hash
    BY <1>1, <1>2
  <2>4. \A t \in DOMAIN GraphOf(g.body).tools : GraphOf(g.body).tools[t].name \in m.tools
    BY <1>1, <1>2, <1>3
  <2> QED
    BY <1>1, <1>3, <2>1, <2>2, <2>3, <2>4 DEF SecurityVerified
<1>6. ReplayVerified(g)
  BY <1>1, <1>3 DEF ReplayVerified
<1>7. VectorVerified(g, m)
  BY <1>1, <1>2, <1>3 DEF VectorVerified
<1>8. PromptVerified(g, m)
  <2>1. m.artifacts[1] = ArtifactRecord(n.session, n.policy, "result")
    BY <1>2, PathsOf
  <2>2. m.artifacts[1].sha256 = Bytes(n.session, "result")
    BY <2>1 DEF ArtifactRecord
  <2> QED
    BY <1>1, <1>2, <2>2 DEF PromptVerified
<1> QED
  BY <1>4, <1>5, <1>6, <1>7, <1>8

-----------------------------------------------------------------------------
(* The inductive invariant.  It is stated of values: of the names O that   *)
(* may be exported, of a package p, and of where (l), with which locals    *)
(* (j) and in which workspace (w) a host is.                               *)
PkgFields == {"blobs", "graph", "manifest"}
JobFields == {"cmd", "name", "manifest", "graph", "report", "approve", "todo", "restored",
              "quiet"}
WorkFields == {"files", "quarantine", "announcement", "graph", "report", "inside"}
FileFields == {"body", "graph_hash"}
ReportFields == {"pre", "post", "written", "proved"}

Offered == LocalOffers \cup {AdapterNames} \cup {{f} : f \in ForeignNames}
LocalIn(O) == \A n \in O : n.session \notin Adapters
File(n) == [body |-> n, graph_hash |-> n]

(* The names of the session that can be resumed, and what a resume makes of *)
(* one.                                                                     *)
Resumable(O) == {n \in O : LocalName(n) /\ n.session = "complex"}
ResumedName(n, a) == [n EXCEPT !.stage = "resumed", !.approved = a]

Shape ==
    /\ offers \in Offered
    /\ Over(pkg, PkgFields) /\ Over(pc, Hosts) /\ Over(job, Hosts) /\ Over(work, Hosts)
    /\ \A h \in Hosts : Over(job[h], JobFields) /\ Over(work[h], WorkFields)

(* A blob is what its name says or damaged. *)
BlobsOK(p) == \A b \in DOMAIN p.blobs : p.blobs[b] \in {b, Damaged}

(* Up to here a command has not accepted a graph. *)
Before == {"idle", "done", "failed", "blobs", "graph", "manifest", "read_manifest",
           "activate", "read_graph", "conform"}

(* graph.json is missing, or as an export wrote it, or visibly damaged and  *)
(* not accepted by any command.                                             *)
GraphOK(O, p, l1, l2) ==
    \/ p.graph = Missing
    \/ \E n \in O : p.graph = File(n)
    \/ LocalIn(O) /\ p.graph.body # p.graph.graph_hash /\ l1 \in Before /\ l2 \in Before

(* The restore report, see RestoreReportIsTrue.  place is where p should be *)
(* with the hash x.                                                         *)
Holds(j, w, place, p, x) ==
    IF p \in DOMAIN place THEN place[p] = x ELSE w.inside /\ ~j.quiet

RestoredOK(j, w) ==
    \A p \in DOMAIN j.restored :
        LET r == j.restored[p]
        IN /\ r.status = "restored" => Holds(j, w, w.files, p, r.sha256)
           /\ r.status = "quarantined" => Holds(j, w, w.quarantine, p, r.sha256)

(* The target's report is of one resume. *)
ReportOK(O, r) ==
    \/ r = Missing
    \/ /\ Over(r, ReportFields)
       /\ \E n \in Resumable(O), a \in BOOLEAN :
             r.pre = n /\ r.post = ResumedName(n, a) /\ (r.written # {} => a = TRUE)

(* What a command has made sure of when it is at l. *)
CommandOK(O, l, j, w) ==
    /\ j.approve \in BOOLEAN
    /\ l \in {"blobs", "graph", "manifest"} => j.name \in O
    /\ l = "verify" => ReplayVerified(j.graph)
    /\ l \in {"publish", "resumed", "report"} => \E n \in Resumable(O) : j.graph = File(n)
    /\ l = "report" /\ w.graph # Missing =>
          Over(w.graph, FileFields) /\ w.graph.body \in {Resumed(j), Damaged}
    /\ l \in {"continue", "returned", "roundtrip"} =>
          \E n \in Resumable(O) :
             j.graph.body = ResumedName(n, TRUE) /\ j.manifest.graph_hash = n
    /\ l = "roundtrip" => w.graph.body = [j.graph.body EXCEPT !.stage = "returned"]

(* Intact and ArtifactVerified, of values. *)
ArtifactIn(p, a) ==
    IF a.restore_policy = "external_rebind" THEN ~a.blob /\ a.rebind_required
    ELSE a.blob /\ a.sha256 \in DOMAIN p.blobs /\ p.blobs[a.sha256] = a.sha256

IntactAs(O, p, n) ==
    /\ n \in O /\ p.graph = File(n)
    /\ LocalIn(O) => /\ p.manifest = Manifest(n)
                     /\ \A i \in DOMAIN p.manifest.artifacts :
                           ArtifactIn(p, p.manifest.artifacts[i])
    /\ ~LocalIn(O) => p.manifest = Adapters

ArtifactsOf(p) == {p.manifest.artifacts[i] : i \in DOMAIN p.manifest.artifacts}

(* A command of the target that runs alone on an intact package works with  *)
(* what is in the package, and has failed only for want of pending calls.   *)
Alone(O, j) ==
    j.quiet /\ j.cmd \in {"import", "resume"} /\ O \cap ForeignNames = {}

AcceptedAs(O, p, l, j, n) ==
    /\ l \in {"read_manifest", "activate", "verify", "restore", "copy", "reread"} => LocalIn(O)
    /\ l \in {"read_graph", "conform"} => ~LocalIn(O)
    /\ l \in {"activate", "verify", "restore", "copy"} => j.manifest = p.manifest
    /\ l \in {"verify", "restore", "copy", "conform"} => j.graph = p.graph
    /\ l \in {"restore", "copy"} => j.todo \in Seq(ArtifactsOf(p))
    /\ l # "quarantine"
    /\ l = "copy" => j.todo # <<>> /\ Head(j.todo).restore_policy # "external_rebind"
    /\ l = "reread" => j.cmd = "resume"
    /\ l = "failed" => j.cmd = "resume" /\ n.session = "reference"

AcceptOK(O, p, l, j) ==
    Alone(O, j) => \A n : IntactAs(O, p, n) => AcceptedAs(O, p, l, j, n)

AgentInv ==
    /\ Shape
    /\ job["origin"].cmd \notin {"import", "resume"} /\ pc["target"] # "roundtrip"
    /\ BlobsOK(pkg)
    /\ GraphOK(offers, pkg, pc["origin"], pc["target"])
    /\ \A h \in Hosts : RestoredOK(job[h], work[h])
    /\ ReportOK(offers, work["target"].report)
    /\ \A h \in Hosts : CommandOK(offers, pc[h], job[h], work[h])
    /\ AcceptOK(offers, pkg, pc["target"], job["target"])

-----------------------------------------------------------------------------
(* A command that something else disturbs. *)
LEMMA Disturbs ==
    ASSUME NEW j, Over(j, JobFields)
    PROVE  LET i == [j EXCEPT !.quiet = FALSE]
           IN /\ Over(i, JobFields) /\ i.quiet = FALSE
              /\ i.cmd = j.cmd /\ i.name = j.name /\ i.manifest = j.manifest /\ i.graph = j.graph
              /\ i.approve = j.approve /\ i.restored = j.restored
BY DEF Over, JobFields

(* What a disturbed command has made sure of is as before. *)
LEMMA DisturbedOK ==
    ASSUME NEW O, NEW l, NEW j, NEW w, NEW i, Over(j, JobFields), i = [j EXCEPT !.quiet = FALSE]
    PROVE  /\ CommandOK(O, l, j, w) => CommandOK(O, l, i, w)
           /\ RestoredOK(j, w) => RestoredOK(i, w)
           /\ \A p : AcceptOK(O, p, l, i)
<1>1. /\ i.quiet = FALSE /\ i.name = j.name /\ i.manifest = j.manifest /\ i.graph = j.graph
      /\ i.approve = j.approve /\ i.restored = j.restored
  BY Disturbs
<1>2. Resumed(i) = Resumed(j)
  BY <1>1 DEF Resumed
<1>3. CommandOK(O, l, j, w) => CommandOK(O, l, i, w)
  BY <1>1, <1>2 DEF CommandOK
<1>4. RestoredOK(j, w) => RestoredOK(i, w)
  BY <1>1 DEF RestoredOK, Holds
<1>5. \A p : AcceptOK(O, p, l, i)
  BY <1>1 DEF AcceptOK, Alone
<1> QED
  BY <1>3, <1>4, <1>5

LEMMA RemovedShape ==
    ASSUME NEW w, Over(w, WorkFields)
    PROVE  Over(AfterRemoval(w), WorkFields)
BY DEF AfterRemoval, NoWork, Over, WorkFields

(* The same when an export has removed its workspace. *)
LEMMA RemovedOK ==
    ASSUME NEW O, NEW l, NEW j, NEW w, NEW i, NEW v, Over(j, JobFields), Over(w, WorkFields),
           i = [j EXCEPT !.quiet = FALSE], v = AfterRemoval(w)
    PROVE  /\ Over(v, WorkFields)
           /\ l # "roundtrip" /\ CommandOK(O, l, j, w) => CommandOK(O, l, i, v)
           /\ RestoredOK(j, w) => RestoredOK(i, v)
           /\ ReportOK(O, w.report) => ReportOK(O, v.report)
<1>1. CASE ~w.inside
  <2>1. v = w
    BY <1>1 DEF AfterRemoval
  <2> QED
    BY <2>1, DisturbedOK
<1>2. CASE w.inside
  <2>1. v = [NoWork EXCEPT !.inside = TRUE]
    BY <1>2 DEF AfterRemoval
  <2>2. /\ Over(v, WorkFields) /\ v.files = <<>> /\ v.quarantine = <<>>
        /\ v.graph = Missing /\ v.report = Missing /\ v.inside = TRUE
    BY <2>1 DEF NoWork, Over, WorkFields
  <2>3. i.quiet = FALSE
    BY Disturbs
  <2>4. l # "roundtrip" /\ CommandOK(O, l, j, w) => CommandOK(O, l, i, v)
    <3>1. CommandOK(O, l, j, w) => CommandOK(O, l, i, w)
      BY DisturbedOK
    <3> QED
      BY <2>2, <3>1 DEF CommandOK
  <2>5. RestoredOK(i, v)
    <3>1. \A p, x : Holds(i, v, <<>>, p, x)
      BY <2>2, <2>3 DEF Holds
    <3> QED
      BY <2>2, <3>1 DEF RestoredOK
  <2>6. ReportOK(O, v.report)
    BY <2>2 DEF ReportOK
  <2> QED
    BY <2>2, <2>4, <2>5, <2>6
<1> QED
  BY <1>1, <1>2

-----------------------------------------------------------------------------
(* The kinds of steps. *)
(* A step of the command of h that leaves the package and the other host   *)
(* alone.                                                                  *)
Only(h) ==
    /\ offers' = offers /\ pkg' = pkg
    /\ Over(pc', Hosts) /\ Over(job', Hosts) /\ Over(work', Hosts)
    /\ \A k \in Hosts \ {h} : pc'[k] = pc[k] /\ job'[k] = job[k] /\ work'[k] = work[k]

LEMMA OnlyKeeps ==
    ASSUME AgentInv, NEW h \in Hosts, Only(h),
           Over(job'[h], JobFields), Over(work'[h], WorkFields),
           RestoredOK(job'[h], work'[h]),
           CommandOK(offers, pc'[h], job'[h], work'[h]),
           h = "origin" => job'[h].cmd \notin {"import", "resume"},
           h = "target" => ReportOK(offers, work'[h].report) /\ pc'[h] # "roundtrip",
           h = "target" => AcceptOK(offers, pkg, pc'[h], job'[h]),
           \/ pc'[h] \in Before
           \/ pc[h] \notin Before
           \/ pkg.graph.body = pkg.graph.graph_hash
    PROVE  AgentInv'
<1> USE DEF AgentInv
<1>0. \A k \in Hosts : k = h \/ k \in Hosts \ {h}
  OBVIOUS
<1>1. Shape'
  <2>1. \A k \in Hosts : Over(job'[k], JobFields) /\ Over(work'[k], WorkFields)
    BY <1>0 DEF Only, Shape
  <2> QED
    BY <2>1 DEF Only, Shape
<1>2. \A k \in Hosts : RestoredOK(job'[k], work'[k]) /\ CommandOK(offers, pc'[k], job'[k], work'[k])
  BY <1>0 DEF Only
<1>h. "origin" \in Hosts /\ "target" \in Hosts /\ "origin" # "target"
  BY DEF Hosts
<1>3. /\ job'["origin"].cmd \notin {"import", "resume"} /\ pc'["target"] # "roundtrip"
      /\ ReportOK(offers, work'["target"].report)
      /\ AcceptOK(offers, pkg, pc'["target"], job'["target"])
  BY <1>0, <1>h DEF Only
<1>4. GraphOK(offers, pkg, pc'["origin"], pc'["target"])
  <2>1. CASE LocalIn(offers) /\ pkg.graph.body # pkg.graph.graph_hash
             /\ pc["origin"] \in Before /\ pc["target"] \in Before
    <3>1. pc[h] \in Before
      BY <2>1, <1>h DEF Hosts
    <3>2. pc'[h] \in Before
      BY <2>1, <3>1
    <3>3. \A k \in Hosts : pc'[k] \in Before
      BY <1>0, <2>1, <3>2 DEF Only, Hosts
    <3> QED
      BY <2>1, <3>3, <1>h DEF GraphOK
  <2> QED
    BY <2>1 DEF GraphOK
<1>5. offers' = offers /\ pkg' = pkg
  BY DEF Only
<1> QED
  BY <1>1, <1>2, <1>3, <1>4, <1>5

(* A step of the export: the command of the target, if any, is disturbed. *)
LEMMA ExportKeeps ==
    ASSUME AgentInv, offers' = offers, Over(pkg', PkgFields),
           Over(work', Hosts), Over(work'["origin"], WorkFields),
           work'["target"] = work["target"] \/ work'["target"] = AfterRemoval(work["target"]),
           Over(pc', Hosts), Over(job', Hosts),
           BlobsOK(pkg'), GraphOK(offers, pkg', pc'["origin"], pc["target"]),
           pc'["target"] = pc["target"],
           job'["target"] = [job["target"] EXCEPT !.quiet = FALSE],
           Over(job'["origin"], JobFields),
           job'["origin"].cmd \notin {"import", "resume"},
           RestoredOK(job'["origin"], work'["origin"]),
           CommandOK(offers, pc'["origin"], job'["origin"], work'["origin"])
    PROVE  AgentInv'
<1>h. "origin" \in Hosts /\ "target" \in Hosts /\ \A h \in Hosts : h = "origin" \/ h = "target"
  BY DEF Hosts
<1>1. /\ Over(job["target"], JobFields) /\ Over(work["target"], WorkFields)
      /\ CommandOK(offers, pc["target"], job["target"], work["target"])
      /\ RestoredOK(job["target"], work["target"])
      /\ ReportOK(offers, work["target"].report) /\ pc["target"] # "roundtrip"
  BY <1>h DEF AgentInv, Shape
<1>2. Over(job'["target"], JobFields)
  BY <1>1, Disturbs
<1>3. /\ Over(work'["target"], WorkFields)
      /\ CommandOK(offers, pc["target"], job'["target"], work'["target"])
      /\ RestoredOK(job'["target"], work'["target"])
      /\ ReportOK(offers, work'["target"].report)
  <2>1. CASE work'["target"] = work["target"]
    BY <1>1, <2>1, DisturbedOK
  <2>2. CASE work'["target"] = AfterRemoval(work["target"])
    BY <1>1, <2>2, RemovedOK
  <2> QED
    BY <2>1, <2>2
<1>a. AcceptOK(offers, pkg', pc["target"], job'["target"])
  BY <1>1, DisturbedOK
<1>4. Shape'
  <2>1. \A h \in Hosts : Over(job'[h], JobFields) /\ Over(work'[h], WorkFields)
    BY <1>2, <1>3, <1>h
  <2>2. offers \in Offered
    BY DEF AgentInv, Shape
  <2> QED
    BY <2>1, <2>2 DEF Shape
<1>5. \A h \in Hosts : RestoredOK(job'[h], work'[h]) /\ CommandOK(offers, pc'[h], job'[h], work'[h])
  BY <1>3, <1>h
<1> QED
  BY <1>1, <1>3, <1>a, <1>4, <1>5 DEF AgentInv

(* A fault between the steps: every command is disturbed. *)
LEMMA FaultKeeps ==
    ASSUME AgentInv, offers' = offers, pc' = pc, job' = Disturbed, Over(pkg', PkgFields),
           BlobsOK(pkg'), GraphOK(offers, pkg', pc["origin"], pc["target"]),
           Over(work', Hosts),
           \A h \in Hosts : /\ Over(work'[h], WorkFields)
                            /\ RestoredOK(job[h], work'[h])
                            /\ CommandOK(offers, pc[h], job[h], work'[h]),
           ReportOK(offers, work'["target"].report)
    PROVE  AgentInv'
<1> USE DEF AgentInv
<1>h. "origin" \in Hosts /\ "target" \in Hosts
  BY DEF Hosts
<1>1. \A h \in Hosts : Over(job[h], JobFields) /\ job'[h] = [job[h] EXCEPT !.quiet = FALSE]
  BY DEF Disturbed, Shape
<1>2. \A h \in Hosts : Over(job'[h], JobFields) /\ job'[h].cmd = job[h].cmd
  <2> TAKE h \in Hosts
  <2>1. Over(job[h], JobFields) /\ job'[h] = [job[h] EXCEPT !.quiet = FALSE]
    BY <1>1
  <2> HIDE <1>1
  <2> HIDE DEF AgentInv
  <2> QED
    BY <2>1, Disturbs
<1>3. \A h \in Hosts : /\ CommandOK(offers, pc[h], job'[h], work'[h])
                       /\ RestoredOK(job'[h], work'[h])
                       /\ AcceptOK(offers, pkg', pc[h], job'[h])
  BY <1>1, DisturbedOK
<1>4. Over(job', Hosts)
  BY DEF Disturbed, Over
<1>5. Shape'
  BY <1>2, <1>4 DEF Shape
<1>6. job'["origin"].cmd \notin {"import", "resume"}
  BY <1>2, <1>h
<1> QED
  BY <1>3, <1>5, <1>6, <1>h

-----------------------------------------------------------------------------
(* Commands that end. *)
EndedJob(j) == [NoJob EXCEPT !.cmd = j.cmd, !.quiet = j.quiet]

LEMMA NoJobIs ==
    /\ Over(NoJob, JobFields) /\ NoJob.cmd = "none" /\ NoJob.approve = FALSE
    /\ NoJob.restored = <<>>
BY DEF NoJob, Over, JobFields

LEMMA EndedJobIs ==
    ASSUME NEW j
    PROVE  LET i == EndedJob(j)
           IN /\ Over(i, JobFields) /\ i.cmd = j.cmd /\ i.quiet = j.quiet /\ i.approve = FALSE
              /\ i.restored = <<>>
BY DEF EndedJob, NoJob, Over, JobFields

LEMMA NothingRestored ==
    ASSUME NEW j, NEW w, j.restored = <<>>
    PROVE  RestoredOK(j, w)
BY DEF RestoredOK

LEMMA RestingCommand ==
    ASSUME NEW O, NEW l \in {"idle", "done", "failed"}, NEW j, NEW w, j.approve = FALSE
    PROVE  CommandOK(O, l, j, w) /\ l \in Before
BY DEF CommandOK, Before

LEMMA PcSet ==
    ASSUME AgentInv, NEW h \in Hosts, NEW l, pc' = [pc EXCEPT ![h] = l]
    PROVE  Over(pc', Hosts) /\ pc'[h] = l /\ \A k \in Hosts \ {h} : pc'[k] = pc[k]
<1>1. Over(pc, Hosts)
  BY DEF AgentInv, Shape
<1> QED
  BY <1>1 DEF Over

LEMMA JobSet ==
    ASSUME AgentInv, NEW h \in Hosts, NEW j, job' = [job EXCEPT ![h] = j]
    PROVE  Over(job', Hosts) /\ job'[h] = j /\ \A k \in Hosts \ {h} : job'[k] = job[k]
<1>1. Over(job, Hosts)
  BY DEF AgentInv, Shape
<1> QED
  BY <1>1 DEF Over

LEMMA WorkSet ==
    ASSUME AgentInv, NEW h \in Hosts, NEW w, work' = [work EXCEPT ![h] = w]
    PROVE  Over(work', Hosts) /\ work'[h] = w /\ \A k \in Hosts \ {h} : work'[k] = work[k]
<1>1. Over(work, Hosts)
  BY DEF AgentInv, Shape
<1> QED
  BY <1>1 DEF Over

(* The command of h ends, well or badly. *)
LEMMA EndKeeps ==
    ASSUME AgentInv, NEW h \in Hosts, NEW l \in {"done", "failed"}, End(h, l),
           offers' = offers, pkg' = pkg, Over(work', Hosts),
           \A k \in Hosts \ {h} : work'[k] = work[k],
           Over(work'[h], WorkFields),
           h = "target" => ReportOK(offers, work'[h].report),
           h = "target" /\ l = "failed" /\ Alone(offers, job[h]) =>
              \A n : IntactAs(offers, pkg, n) => job[h].cmd = "resume" /\ n.session = "reference"
    PROVE  AgentInv'
<1> PICK i : i = EndedJob(job[h])
  OBVIOUS
<1>1. /\ Over(i, JobFields) /\ i.cmd = job[h].cmd /\ i.quiet = job[h].quiet /\ i.approve = FALSE
      /\ i.restored = <<>>
  BY EndedJobIs
<1>2. job' = [job EXCEPT ![h] = i] /\ pc' = [pc EXCEPT ![h] = l]
  BY DEF End, Goto, EndedJob
<1>3. Over(job, Hosts) /\ Over(pc, Hosts)
  BY DEF AgentInv, Shape
<1>4. /\ Over(job', Hosts) /\ job'[h] = i /\ \A k \in Hosts \ {h} : job'[k] = job[k]
      /\ Over(pc', Hosts) /\ pc'[h] = l /\ \A k \in Hosts \ {h} : pc'[k] = pc[k]
  BY <1>2, JobSet, PcSet
<1>5. Only(h)
  BY <1>4 DEF Only
<1>6. RestoredOK(job'[h], work'[h])
  BY <1>1, <1>4, NothingRestored
<1>7. CommandOK(offers, pc'[h], job'[h], work'[h]) /\ pc'[h] \in Before
  BY <1>1, <1>4, RestingCommand, ZenonT(60)
<1>8. h = "origin" => job'[h].cmd \notin {"import", "resume"}
  BY <1>1, <1>4 DEF AgentInv
<1>9. h = "target" => AcceptOK(offers, pkg, pc'[h], job'[h])
  <2>1. Alone(offers, i) => Alone(offers, job[h])
    BY <1>1 DEF Alone
  <2> QED
    BY <2>1, <1>1, <1>4 DEF AcceptOK, AcceptedAs
<1> QED
  BY <1>1, <1>4, <1>5, <1>6, <1>7, <1>8, <1>9, OnlyKeeps

LEMMA FailKeeps ==
    ASSUME AgentInv, NEW h \in Hosts, Fail(h),
           h = "target" /\ Alone(offers, job[h]) =>
              \A n : IntactAs(offers, pkg, n) => job[h].cmd = "resume" /\ n.session = "reference"
    PROVE  AgentInv'
<1>1. End(h, "failed") /\ offers' = offers /\ pkg' = pkg /\ work' = work
  BY DEF Fail
<1>2. Over(work', Hosts) /\ Over(work'[h], WorkFields)
  BY <1>1 DEF AgentInv, Shape
<1>3. h = "target" => ReportOK(offers, work'[h].report)
  BY <1>1 DEF AgentInv
<1> QED
  BY <1>1, <1>2, <1>3, EndKeeps

LEMMA DoneKeeps ==
    ASSUME AgentInv, NEW h \in Hosts, End(h, "done"), UNCHANGED <<left, offers, pkg, work>>
    PROVE  AgentInv'
<1>1. offers' = offers /\ pkg' = pkg /\ work' = work
  OBVIOUS
<1>2. Over(work', Hosts) /\ Over(work'[h], WorkFields)
  BY <1>1 DEF AgentInv, Shape
<1>3. h = "target" => ReportOK(offers, work'[h].report)
  BY <1>1 DEF AgentInv
<1> QED
  BY <1>1, <1>2, <1>3, EndKeeps

LEMMA KillKeeps ==
    ASSUME AgentInv, NEW h \in Hosts, Kill(h)
    PROVE  AgentInv'
<1>1. /\ job' = [job EXCEPT ![h] = NoJob] /\ pc' = [pc EXCEPT ![h] = "idle"]
      /\ offers' = offers /\ pkg' = pkg /\ work' = work
  BY DEF Kill, Goto
<1>2. Over(job, Hosts) /\ Over(pc, Hosts) /\ Over(work, Hosts) /\ Over(work[h], WorkFields)
  BY DEF AgentInv, Shape
<1>3. /\ Over(job', Hosts) /\ job'[h] = NoJob /\ \A k \in Hosts \ {h} : job'[k] = job[k]
      /\ Over(pc', Hosts) /\ pc'[h] = "idle" /\ \A k \in Hosts \ {h} : pc'[k] = pc[k]
  BY <1>1, JobSet, PcSet
<1>4. Only(h)
  BY <1>1, <1>2, <1>3 DEF Only
<1>5. Over(NoJob, JobFields) /\ NoJob.cmd = "none" /\ NoJob.approve = FALSE /\ NoJob.restored = <<>>
  BY NoJobIs
<1>6. RestoredOK(job'[h], work'[h])
  BY <1>3, <1>5, NothingRestored
<1>7. CommandOK(offers, pc'[h], job'[h], work'[h]) /\ pc'[h] \in Before
  BY <1>3, <1>5, RestingCommand
<1>8. job'[h].cmd \notin {"import", "resume"}
  BY <1>3, <1>5
<1>9. AcceptOK(offers, pkg, pc'[h], job'[h])
  BY <1>8 DEF AcceptOK, Alone
<1>10. h = "target" => ReportOK(offers, work'[h].report)
  BY <1>1 DEF AgentInv
<1> QED
  BY <1>1, <1>2, <1>3, <1>4, <1>5, <1>6, <1>7, <1>8, <1>9, <1>10, OnlyKeeps

-----------------------------------------------------------------------------
(* The names that may be exported. *)
LEMMA OfferedNames ==
    ASSUME NEW O \in Offered, NEW n \in O
    PROVE  n \in UNION LocalOffers \/ n \in AdapterNames \/ n \in ForeignNames
BY DEF Offered

LEMMA OfferedIs ==
    ASSUME NEW O \in Offered, NEW n \in O
    PROVE  n # Damaged /\ File(n) # Missing
<1>1. \A m \in (UNION LocalOffers) \cup AdapterNames \cup ForeignNames :
          m # Damaged /\ Missing # [body |-> m, graph_hash |-> m]
  BY AgentAssumption, ZenonT(60)
<1> QED
  BY <1>1, OfferedNames DEF File

LEMMA LocalOffer ==
    ASSUME NEW n \in UNION LocalOffers
    PROVE  LocalName(n) /\ Manifest(n) # Missing
<1>1. \A m \in UNION LocalOffers :
          m.session \in {"reference", "complex"} /\ m = Name(m.session, m.policy)
  BY AgentAssumption, ZenonT(60)
<1>2. \A m \in UNION LocalOffers : Missing # Manifest(m)
  BY AgentAssumption, ZenonT(60)
<1> QED
  BY <1>1, <1>2 DEF LocalName

LEMMA ForeignSession ==
    ASSUME NEW n \in ForeignNames
    PROVE  n.session = "foreign" /\ n.session \notin Adapters
<1>1. \A m \in ForeignNames : m.session = "foreign"
  BY AgentAssumption, ZenonT(60)
<1> QED
  BY <1>1 DEF Adapters

LEMMA AdapterSession ==
    ASSUME NEW n \in AdapterNames
    PROVE  n.session \in Adapters
BY DEF AdapterNames, Name

(* A package of the harness is one of its own sessions unless it is        *)
(* another exporter's.                                                     *)
LEMMA LocalOffered ==
    ASSUME NEW O \in Offered, NEW n \in O, LocalIn(O)
    PROVE  /\ n \in ForeignNames \/ LocalName(n)
           /\ O \cap ForeignNames = {} => LocalName(n) /\ Manifest(n) # Missing
<1>1. n \notin AdapterNames
  BY AdapterSession DEF LocalIn
<1>2. n \in UNION LocalOffers \/ n \in ForeignNames
  BY <1>1, OfferedNames
<1> QED
  BY <1>2, LocalOffer

LEMMA AdapterOffered ==
    ASSUME NEW O \in Offered, NEW n \in O, ~LocalIn(O)
    PROVE  n.session \in Adapters
<1>1. PICK m \in O : m.session \in Adapters
  BY DEF LocalIn
<1>2. CASE O \in LocalOffers
  <2>1. m \in UNION LocalOffers
    BY <1>2
  <2> QED
    BY <1>1, <2>1, LocalOffer, LocalNameIs
<1>3. CASE \E f \in ForeignNames : O = {f}
  BY <1>1, <1>3, ForeignSession
<1>4. CASE O = AdapterNames
  BY <1>4, AdapterSession
<1> QED
  BY <1>2, <1>3, <1>4 DEF Offered

LEMMA AdapterConforms ==
    ASSUME NEW n, n.session \in Adapters
    PROVE  Conforms(n, Adapters)
BY LanggraphConforms, McpConforms DEF Adapters

Outside(g, t, s, f, c) ==
    [g EXCEPT !.tools = t, !.secrets = s, !.artifact_paths = f, !.credentials = c]

LEMMA OutsideIs ==
    ASSUME NEW g, IsGraph(g), NEW t, NEW s, NEW f, NEW c
    PROVE  Outside(g, t, s, f, c).tools = t
BY DEF Outside, IsGraph, Over, GraphFields

LEMMA ForeignTools ==
    ASSUME NEW n
    PROVE  "read-aws-quota" \notin DOMAIN ForeignGraph(n).tools
<1> PICK g : g = ReferenceGraph["foreign"]
  OBVIOUS
<1>1. IsGraph(g) /\ g.tools = [t \in {"write-report"} |-> Written]
  BY ReferenceGraphFields DEF Written
<1> DEFINE tools == IF n.tool = NoTool THEN g.tools
                    ELSE Merge(g.tools, [t \in {"foreign"} |-> n.tool])
<1>2. "read-aws-quota" \notin DOMAIN tools
  BY <1>1 DEF Merge
<1> HIDE DEF tools
<1>3. PICK s, f, c : ForeignGraph(n) = Outside(g, tools, s, f, c)
  BY ZenonT(60) DEF ForeignGraph, Outside, tools
<1> QED
  BY <1>1, <1>2, <1>3, OutsideIs

LEMMA AdapterTools ==
    ASSUME NEW n, n.session \in Adapters
    PROVE  "read-aws-quota" \notin DOMAIN GraphOf(n).tools
<1>1. CASE n.session = "langgraph_durable_state"
  <2>1. PICK a, b, c, d, e : LanggraphGraph = Envelope(a, b, c, d, e, [t \in {} |-> NoTool])
    BY ZenonT(60) DEF LanggraphGraph
  <2>2. GraphOf(n) = LanggraphGraph
    BY <1>1 DEF GraphOf
  <2> QED
    BY <2>1, <2>2 DEF Envelope
<1>2. CASE n.session = "mcp_resource_session"
  <2>1. PICK a, b, c, d, e, f : McpGraph = Envelope(a, b, c, d, e, [t \in {"mcp-list"} |-> f])
    BY ZenonT(60) DEF McpGraph
  <2>2. GraphOf(n) = McpGraph
    BY <1>2 DEF GraphOf
  <2> QED
    BY <2>1, <2>2 DEF Envelope
<1> QED
  BY <1>1, <1>2 DEF Adapters

(* Only the complex session has the calls that a resume runs. *)
LEMMA ResumableIs ==
    ASSUME NEW O \in Offered, NEW n \in O,
           {"read-aws-quota", "publish-release"} \subseteq DOMAIN GraphOf(n).tools
    PROVE  n \in Resumable(O)
<1>1. n \notin ForeignNames
  <2> SUFFICES ASSUME n \in ForeignNames PROVE FALSE
    OBVIOUS
  <2>1. GraphOf(n) = ForeignGraph(n)
    BY ForeignSession DEF GraphOf
  <2>2. "read-aws-quota" \notin DOMAIN ForeignGraph(n).tools
    BY ForeignTools
  <2> QED
    BY <2>1, <2>2
<1>2. LocalName(n)
  <2>1. n \notin AdapterNames
    BY AdapterSession, AdapterTools
  <2> QED
    BY <1>1, <2>1, OfferedNames, LocalOffer
<1>3. n.session = "complex"
  <2> SUFFICES ASSUME n.session # "complex" PROVE FALSE
    OBVIOUS
  <2>1. GraphOf(n).tools = [t \in {"write-report"} |-> Written]
    BY <1>2, LocalGraph, ReferenceGraphFields DEF Written
  <2> QED
    BY <2>1
<1> QED
  BY <1>2, <1>3 DEF Resumable

-----------------------------------------------------------------------------
(* The steps of an export. *)
LEMMA HostsAre == "origin" \in Hosts /\ "target" \in Hosts /\ Hosts = {"origin", "target"}
BY DEF Hosts

LEMMA EmptyPackage ==
    ASSUME NEW O, NEW p, NEW l1, NEW l2,
           p = [blobs |-> <<>>, graph |-> Missing, manifest |-> Missing]
    PROVE  Over(p, PkgFields) /\ BlobsOK(p) /\ GraphOK(O, p, l1, l2)
BY DEF Over, PkgFields, BlobsOK, GraphOK

ExportJob(name, todo) == [NoJob EXCEPT !.cmd = "export", !.name = name, !.todo = todo]

LEMMA ExportJobIs ==
    ASSUME NEW name, NEW todo
    PROVE  LET j == ExportJob(name, todo)
           IN /\ Over(j, JobFields) /\ j.cmd = "export" /\ j.name = name /\ j.approve = FALSE
              /\ j.restored = <<>>
BY DEF ExportJob, NoJob, Over, JobFields

LEMMA StartExportKeeps ==
    ASSUME AgentInv, NEW name \in offers, StartExport(name)
    PROVE  AgentInv'
<1>1. PICK todo : job' = [origin |-> ExportJob(name, todo),
                          target |-> [job["target"] EXCEPT !.quiet = FALSE]]
  BY ZenonT(60) DEF StartExport, ExportJob
<1>2. /\ pkg' = [blobs |-> <<>>, graph |-> Missing, manifest |-> Missing]
      /\ pc' = [pc EXCEPT !["origin"] = "blobs"] /\ offers' = offers
      /\ work' = [h \in Hosts |-> AfterRemoval(work[h])]
  BY DEF StartExport, Goto
<1>3. Over(pc', Hosts) /\ pc'["origin"] = "blobs" /\ pc'["target"] = pc["target"]
  BY <1>2, HostsAre, PcSet
<1> PICK j : j = ExportJob(name, todo)
  OBVIOUS
<1> PICK k : k = [job["target"] EXCEPT !.quiet = FALSE]
  OBVIOUS
<1>4. job' = [origin |-> j, target |-> k]
  BY <1>1
<1>5. Over(job', Hosts) /\ job'["origin"] = j /\ job'["target"] = k
  BY <1>4 DEF Over, Hosts
<1>6. /\ Over(j, JobFields) /\ j.cmd = "export" /\ j.name = name /\ j.approve = FALSE
      /\ j.restored = <<>>
  BY ExportJobIs
<1>7. Over(pkg', PkgFields) /\ BlobsOK(pkg') /\ GraphOK(offers, pkg', pc'["origin"], pc["target"])
  BY <1>2, EmptyPackage
<1>w. /\ Over(work', Hosts) /\ work'["origin"] = AfterRemoval(work["origin"])
      /\ work'["target"] = AfterRemoval(work["target"])
  BY <1>2, HostsAre DEF Over
<1>o. Over(work'["origin"], WorkFields)
  <2>1. Over(work["origin"], WorkFields)
    BY HostsAre DEF AgentInv, Shape
  <2> QED
    BY <1>w, <2>1, RemovedShape
<1>8. RestoredOK(j, work'["origin"])
  BY <1>6, NothingRestored
<1>9. CommandOK(offers, "blobs", j, work'["origin"])
  <2>1. j.approve \in BOOLEAN /\ j.name \in offers
    BY <1>6
  <2> QED
    BY <2>1 DEF CommandOK, Before
<1> QED
  BY <1>2, <1>3, <1>5, <1>6, <1>7, <1>w, <1>o, <1>8, <1>9, ExportKeeps

LEMMA StartAdapterExportKeeps ==
    ASSUME AgentInv, NEW name \in offers, StartAdapterExport(name)
    PROVE  AgentInv'
<1> PICK j : j = [NoJob EXCEPT !.cmd = "export", !.name = name]
  OBVIOUS
<1>1. /\ job' = [job EXCEPT !["origin"] = j] /\ pc' = [pc EXCEPT !["origin"] = "graph"]
      /\ offers' = offers /\ pkg' = pkg /\ work' = work
  BY DEF StartAdapterExport, Goto
<1>2. /\ Over(job', Hosts) /\ job'["origin"] = j
      /\ \A k \in Hosts \ {"origin"} : job'[k] = job[k]
  BY <1>1, HostsAre, JobSet
<1>3. /\ Over(pc', Hosts) /\ pc'["origin"] = "graph"
      /\ \A k \in Hosts \ {"origin"} : pc'[k] = pc[k]
  BY <1>1, HostsAre, PcSet
<1>4. /\ Over(j, JobFields) /\ j.cmd = "export" /\ j.name = name /\ j.approve = FALSE
      /\ j.restored = <<>>
  BY DEF NoJob, Over, JobFields
<1>5. RestoredOK(j, work'["origin"])
  BY <1>4, NothingRestored
<1>6. CommandOK(offers, "graph", j, work'["origin"]) /\ "graph" \in Before
  <2>1. j.approve \in BOOLEAN /\ j.name \in offers
    BY <1>4
  <2> QED
    BY <2>1 DEF CommandOK, Before
<1>7. Over(work', Hosts) /\ Over(work'["origin"], WorkFields)
  BY <1>1, HostsAre DEF AgentInv, Shape
<1>8. Only("origin")
  BY <1>1, <1>2, <1>3, <1>7 DEF Only
<1> QED
  BY <1>2, <1>3, <1>4, <1>5, <1>6, <1>7, <1>8, HostsAre, OnlyKeeps

(* What a command has made sure of does not depend on what it has to do. *)
LEMMA TodoIs ==
    ASSUME NEW j, Over(j, JobFields), NEW t, NEW i, i = [j EXCEPT !.todo = t]
    PROVE  /\ Over(i, JobFields) /\ i.todo = t
           /\ i.cmd = j.cmd /\ i.name = j.name /\ i.manifest = j.manifest /\ i.graph = j.graph
           /\ i.approve = j.approve /\ i.restored = j.restored /\ i.quiet = j.quiet
BY DEF Over, JobFields

LEMMA OriginIs ==
    ASSUME AgentInv
    PROVE  /\ Over(job["origin"], JobFields) /\ job["origin"].cmd \notin {"import", "resume"}
           /\ RestoredOK(job["origin"], work["origin"]) /\ job["origin"].approve \in BOOLEAN
           /\ pc["origin"] \in {"blobs", "graph", "manifest"} => job["origin"].name \in offers
           /\ Over(pkg, PkgFields) /\ Over(work, Hosts) /\ Over(work["origin"], WorkFields)
<1>1. CommandOK(offers, pc["origin"], job["origin"], work["origin"])
  BY HostsAre DEF AgentInv
<1> QED
  BY <1>1, HostsAre DEF AgentInv, Shape, CommandOK

LEMMA WriteBlobKeeps ==
    ASSUME AgentInv, WriteBlob
    PROVE  AgentInv'
<1> PICK o : o = job["origin"]
  OBVIOUS
<1> PICK t : t = Tail(o.todo)
  OBVIOUS
<1> PICK i : i = [o EXCEPT !.todo = t]
  OBVIOUS
<1> PICK k : k = [job["target"] EXCEPT !.quiet = FALSE]
  OBVIOUS
<1>1. PICK b : pkg' = [pkg EXCEPT !.blobs = Merge(pkg.blobs, [c \in {b} |-> b])]
  BY DEF WriteBlob
<1>2. /\ pc["origin"] = "blobs" /\ job' = [origin |-> i, target |-> k]
      /\ offers' = offers /\ work' = work /\ pc' = pc
  BY DEF WriteBlob, At
<1>3. Over(job', Hosts) /\ job'["origin"] = i /\ job'["target"] = k
  BY <1>2 DEF Over, Hosts
<1>4. /\ Over(i, JobFields) /\ i.cmd = job["origin"].cmd /\ i.name = job["origin"].name
      /\ i.approve = job["origin"].approve /\ i.restored = job["origin"].restored
      /\ i.quiet = job["origin"].quiet
  <2>1. Over(o, JobFields)
    BY OriginIs
  <2>2. /\ Over(i, JobFields) /\ i.cmd = o.cmd /\ i.name = o.name
        /\ i.approve = o.approve /\ i.restored = o.restored /\ i.quiet = o.quiet
    BY <2>1, TodoIs
  <2> QED
    BY <2>1, <2>2
<1>5. RestoredOK(i, work["origin"])
  BY <1>4, OriginIs DEF RestoredOK, Holds
<1>6. CommandOK(offers, "blobs", i, work["origin"])
  BY <1>2, <1>4, OriginIs DEF CommandOK
<1> PICK f : f = Merge(pkg.blobs, [c \in {b} |-> b])
  OBVIOUS
<1>7. Over(pkg', PkgFields) /\ pkg'.blobs = f /\ pkg'.graph = pkg.graph
  BY <1>1, OriginIs DEF Over, PkgFields
<1>8. BlobsOK(pkg')
  <2>1. \A c \in DOMAIN pkg.blobs : pkg.blobs[c] \in {c, Damaged}
    BY DEF AgentInv, BlobsOK
  <2>2. \A c \in DOMAIN f : f[c] \in {c, Damaged}
    BY <2>1 DEF Merge
  <2> QED
    BY <2>2, <1>7 DEF BlobsOK
<1>9. GraphOK(offers, pkg', pc["origin"], pc["target"])
  BY <1>7 DEF AgentInv, GraphOK
<1>10. Over(pc, Hosts)
  BY DEF AgentInv, Shape
<1> QED
  BY <1>2, <1>3, <1>4, <1>5, <1>6, <1>7, <1>8, <1>9, <1>10, OriginIs, ExportKeeps

(* A write to the package that leaves the blobs alone. *)
LEMMA WriteKeeps ==
    ASSUME AgentInv, NEW p, NEW l \in {"manifest", "done"}, Write("origin", p), Goto("origin", l),
           pc["origin"] \in {"blobs", "graph", "manifest"},
           Over(p, PkgFields), p.blobs = pkg.blobs,
           GraphOK(offers, p, l, pc["target"])
    PROVE  AgentInv'
<1>1. /\ pkg' = p /\ offers' = offers /\ work' = work /\ pc' = [pc EXCEPT !["origin"] = l]
      /\ job' = [k \in Hosts |-> IF k = "origin" THEN job[k] ELSE [job[k] EXCEPT !.quiet = FALSE]]
  BY DEF Write, Goto
<1>2. /\ Over(pc', Hosts) /\ pc'["origin"] = l /\ pc'["target"] = pc["target"]
  BY <1>1, HostsAre, PcSet
<1>3. /\ Over(job', Hosts) /\ job'["origin"] = job["origin"]
      /\ job'["target"] = [job["target"] EXCEPT !.quiet = FALSE]
  BY <1>1 DEF Over, Hosts
<1>4. BlobsOK(pkg')
  BY <1>1 DEF AgentInv, BlobsOK
<1>5. CommandOK(offers, l, job["origin"], work["origin"])
  BY OriginIs DEF CommandOK
<1> QED
  BY <1>1, <1>2, <1>3, <1>4, <1>5, OriginIs, ExportKeeps

LEMMA WriteGraphKeeps ==
    ASSUME AgentInv, WriteGraph
    PROVE  AgentInv'
<1> PICK g : g = File(job["origin"].name)
  OBVIOUS
<1> PICK p : p = [pkg EXCEPT !.graph = g]
  OBVIOUS
<1>1. /\ Write("origin", p) /\ Goto("origin", "manifest")
      /\ pc["origin"] \in {"blobs", "graph", "manifest"}
  BY DEF WriteGraph, File, At
<1>2. Over(p, PkgFields) /\ p.graph = g /\ p.blobs = pkg.blobs
  BY OriginIs DEF Over, PkgFields
<1>3. GraphOK(offers, p, "manifest", pc["target"])
  BY <1>1, <1>2, OriginIs DEF GraphOK
<1> QED
  BY <1>1, <1>2, <1>3, WriteKeeps

LEMMA WriteManifestKeeps ==
    ASSUME AgentInv, WriteManifest
    PROVE  AgentInv'
<1> PICK m : m = IF Local THEN Manifest(job["origin"].name) ELSE Adapters
  OBVIOUS
<1> PICK p : p = [pkg EXCEPT !.manifest = m]
  OBVIOUS
<1>1. Write("origin", p) /\ Goto("origin", "done") /\ pc["origin"] = "manifest"
  BY DEF WriteManifest, At
<1>2. Over(p, PkgFields) /\ p.graph = pkg.graph /\ p.blobs = pkg.blobs
  BY OriginIs DEF Over, PkgFields
<1>3. GraphOK(offers, p, "done", pc["target"])
  BY <1>2 DEF AgentInv, GraphOK, Before
<1> QED
  BY <1>1, <1>2, <1>3, WriteKeeps

-----------------------------------------------------------------------------
(* The faults. *)
LEMMA DamageBlobKeeps ==
    ASSUME AgentInv, DamageBlob
    PROVE  AgentInv'
<1>1. offers' = offers /\ work' = work /\ pc' = pc /\ job' = Disturbed
  BY DEF DamageBlob
<1>2. \E f : /\ pkg' = [pkg EXCEPT !.blobs = f]
             /\ \A c \in DOMAIN f : c \in DOMAIN pkg.blobs /\ f[c] \in {pkg.blobs[c], Damaged}
  <2>1. PICK b \in DOMAIN pkg.blobs :
           \/ pkg' = [pkg EXCEPT !.blobs[b] = Damaged]
           \/ pkg' = [pkg EXCEPT !.blobs = [c \in DOMAIN @ \ {b} |-> @[c]]]
    BY DEF DamageBlob
  <2>2. CASE pkg' = [pkg EXCEPT !.blobs[b] = Damaged]
    <3> PICK f : f = [pkg.blobs EXCEPT ![b] = Damaged]
      OBVIOUS
    <3>1. pkg' = [pkg EXCEPT !.blobs = f]
      BY <2>2
    <3>2. \A c \in DOMAIN f : c \in DOMAIN pkg.blobs /\ f[c] \in {pkg.blobs[c], Damaged}
      OBVIOUS
    <3> QED
      BY <3>1, <3>2
  <2>3. CASE pkg' = [pkg EXCEPT !.blobs = [c \in DOMAIN @ \ {b} |-> @[c]]]
    <3> PICK f : f = [c \in (DOMAIN pkg.blobs) \ {b} |-> pkg.blobs[c]]
      OBVIOUS
    <3>1. pkg' = [pkg EXCEPT !.blobs = f]
      BY <2>3
    <3>2. \A c \in DOMAIN f : c \in DOMAIN pkg.blobs /\ f[c] \in {pkg.blobs[c], Damaged}
      OBVIOUS
    <3> QED
      BY <3>1, <3>2
  <2> QED
    BY <2>1, <2>2, <2>3
<1>3. PICK f : /\ pkg' = [pkg EXCEPT !.blobs = f]
               /\ \A c \in DOMAIN f : c \in DOMAIN pkg.blobs /\ f[c] \in {pkg.blobs[c], Damaged}
  BY <1>2
<1>4. Over(pkg', PkgFields) /\ pkg'.blobs = f /\ pkg'.graph = pkg.graph
  BY <1>3, OriginIs DEF Over, PkgFields
<1>5. BlobsOK(pkg')
  BY <1>3, <1>4 DEF AgentInv, BlobsOK
<1>6. GraphOK(offers, pkg', pc["origin"], pc["target"])
  BY <1>4 DEF AgentInv, GraphOK
<1>7. \A h \in Hosts : /\ Over(work'[h], WorkFields)
                       /\ RestoredOK(job[h], work'[h])
                       /\ CommandOK(offers, pc[h], job[h], work'[h])
  BY <1>1 DEF AgentInv, Shape
<1>8. Over(work', Hosts) /\ ReportOK(offers, work'["target"].report)
  BY <1>1 DEF AgentInv, Shape
<1> QED
  BY <1>1, <1>4, <1>5, <1>6, <1>7, <1>8, FaultKeeps

(* The graph file with one of its two names damaged. *)
LEMMA DamagedFile ==
    ASSUME NEW n, NEW g,
           \/ g = [File(n) EXCEPT !.body = Damaged]
           \/ g = [File(n) EXCEPT !.graph_hash = Damaged]
    PROVE  g = File(n) \/ g.body # g.graph_hash
<1>1. CASE n = Damaged
  BY <1>1 DEF File
<1>2. CASE n # Damaged
  BY <1>2 DEF File
<1> QED
  BY <1>1, <1>2

LEMMA DamagePackageKeeps ==
    ASSUME AgentInv, DamagePackage
    PROVE  AgentInv'
<1>1. /\ offers' = offers /\ work' = work /\ pc' = pc /\ job' = Disturbed /\ Local
      /\ \A h \in Hosts : Ended(h)
  BY DEF DamagePackage
<1> PICK n : n = pkg.manifest.graph_hash
  OBVIOUS
<1>2. pkg.graph = File(n)
  BY DEF DamagePackage, File
<1>3. \/ \E m : pkg' = [pkg EXCEPT !.manifest = m]
      \/ pkg' = [pkg EXCEPT !.graph.body = Damaged]
      \/ pkg' = [pkg EXCEPT !.graph.graph_hash = Damaged]
  BY DEF DamagePackage
<1>4. \E e \in {"manifest", "graph"} : \E v :
        /\ pkg' = [pkg EXCEPT ![e] = v]
        /\ e = "graph" => v = pkg.graph \/ v.body # v.graph_hash
  <2>1. CASE \E m : pkg' = [pkg EXCEPT !.manifest = m]
    BY <2>1
  <2>2. CASE \/ pkg' = [pkg EXCEPT !.graph.body = Damaged]
             \/ pkg' = [pkg EXCEPT !.graph.graph_hash = Damaged]
    <3>1. PICK g : /\ \/ g = [File(n) EXCEPT !.body = Damaged]
                      \/ g = [File(n) EXCEPT !.graph_hash = Damaged]
                   /\ pkg' = [pkg EXCEPT !.graph = g]
      BY <1>2, <2>2
    <3>2. g = File(n) \/ g.body # g.graph_hash
      BY <3>1, DamagedFile
    <3> QED
      BY <3>1, <3>2, <1>2
  <2> QED
    BY <1>3, <2>1, <2>2
<1>5. /\ Over(pkg', PkgFields) /\ pkg'.blobs = pkg.blobs
      /\ pkg'.graph = pkg.graph \/ pkg'.graph.body # pkg'.graph.graph_hash
  BY <1>4, OriginIs DEF Over, PkgFields
<1>6. BlobsOK(pkg')
  BY <1>5 DEF AgentInv, BlobsOK
<1>7. GraphOK(offers, pkg', pc["origin"], pc["target"])
  <2>1. LocalIn(offers) /\ \A h \in Hosts : pc[h] \in Before
    BY <1>1 DEF Local, LocalIn, Ended, Before
  <2>2. pc["origin"] \in Before /\ pc["target"] \in Before
    BY <2>1, HostsAre
  <2> QED
    BY <1>5, <2>1, <2>2 DEF AgentInv, GraphOK
<1>8. \A h \in Hosts : /\ Over(work'[h], WorkFields)
                       /\ RestoredOK(job[h], work'[h])
                       /\ CommandOK(offers, pc[h], job[h], work'[h])
  BY <1>1 DEF AgentInv, Shape
<1>9. Over(work', Hosts) /\ ReportOK(offers, work'["target"].report)
  BY <1>1 DEF AgentInv, Shape
<1> QED
  BY <1>1, <1>5, <1>6, <1>7, <1>8, <1>9, FaultKeeps

LEMMA DamageEvidenceKeeps ==
    ASSUME AgentInv, DamageEvidence
    PROVE  AgentInv'
<1>1. offers' = offers /\ pkg' = pkg /\ pc' = pc /\ job' = Disturbed
  BY DEF DamageEvidence
<1>2. /\ Over(pkg', PkgFields) /\ BlobsOK(pkg') /\ GraphOK(offers, pkg', pc["origin"], pc["target"])
      /\ Over(work, Hosts) /\ ReportOK(offers, work["target"].report)
      /\ \A h \in Hosts : /\ Over(work[h], WorkFields)
                          /\ RestoredOK(job[h], work[h])
                          /\ CommandOK(offers, pc[h], job[h], work[h])
  BY <1>1 DEF AgentInv, Shape
<1> PICK w : w = work["target"]
  OBVIOUS
<1>3. PICK v : /\ work' = [work EXCEPT !["target"] = v]
               /\ \/ /\ w.graph # Missing
                     /\ v = [w EXCEPT !.graph = [w.graph EXCEPT !.body = Damaged]]
                  \/ /\ w.report # Missing
                     /\ v = [w EXCEPT !.report = [w.report EXCEPT !.proved = FALSE]]
  <2> SUFFICES \E v : /\ work' = [work EXCEPT !["target"] = v]
                      /\ \/ /\ w.graph # Missing
                            /\ v = [w EXCEPT !.graph = [w.graph EXCEPT !.body = Damaged]]
                         \/ /\ w.report # Missing
                            /\ v = [w EXCEPT !.report = [w.report EXCEPT !.proved = FALSE]]
    OBVIOUS
  <2>1. CASE w.graph # Missing /\ work' = [work EXCEPT !["target"].graph.body = Damaged]
    BY <2>1
  <2>2. CASE w.report # Missing /\ work' = [work EXCEPT !["target"].report.proved = FALSE]
    BY <2>2
  <2> QED
    BY <2>1, <2>2 DEF DamageEvidence
<1>4. Over(work', Hosts) /\ work'["target"] = v /\ \A k \in Hosts \ {"target"} : work'[k] = work[k]
  BY <1>3, HostsAre, WorkSet
<1>5. Over(w, WorkFields) /\ w = work["target"] /\ ReportOK(offers, w.report)
  BY <1>2, HostsAre
<1>6. /\ Over(v, WorkFields) /\ v.files = w.files /\ v.quarantine = w.quarantine
      /\ v.inside = w.inside
      /\ \/ v.graph = w.graph
         \/ w.graph # Missing /\ v.graph = [w.graph EXCEPT !.body = Damaged]
      /\ \/ v.report = w.report
         \/ w.report # Missing /\ v.report = [w.report EXCEPT !.proved = FALSE]
  BY <1>3, <1>5 DEF Over, WorkFields
<1>7. RestoredOK(job["target"], v)
  BY <1>2, <1>5, <1>6, HostsAre DEF RestoredOK, Holds
<1>8. CommandOK(offers, pc["target"], job["target"], v)
  <2>1. CommandOK(offers, pc["target"], job["target"], w)
    BY <1>2, <1>5, HostsAre
  <2>2. pc["target"] # "roundtrip"
    BY DEF AgentInv
  <2>3. pc["target"] = "report" /\ v.graph # Missing =>
           Over(v.graph, FileFields) /\ v.graph.body \in {Resumed(job["target"]), Damaged}
    <3> SUFFICES ASSUME pc["target"] = "report", w.graph # Missing
                 PROVE  /\ Over(v.graph, FileFields)
                        /\ v.graph.body \in {Resumed(job["target"]), Damaged}
      BY <1>6
    <3>1. Over(w.graph, FileFields) /\ w.graph.body \in {Resumed(job["target"]), Damaged}
      BY <2>1 DEF CommandOK
    <3> PICK g : g = [w.graph EXCEPT !.body = Damaged]
      OBVIOUS
    <3>2. Over(g, FileFields) /\ g.body = Damaged
      BY <3>1 DEF Over, FileFields
    <3> QED
      BY <3>1, <3>2, <1>6
  <2> QED
    BY <2>1, <2>2, <2>3 DEF CommandOK
<1>9. ReportOK(offers, v.report)
  <2>1. CASE v.report = w.report
    BY <2>1, <1>5
  <2>2. CASE w.report # Missing /\ v.report = [w.report EXCEPT !.proved = FALSE]
    <3> PICK r : r = [w.report EXCEPT !.proved = FALSE]
      OBVIOUS
    <3>1. /\ Over(w.report, ReportFields)
          /\ \E n \in Resumable(offers), a \in BOOLEAN :
               /\ w.report.pre = n /\ w.report.post = ResumedName(n, a)
               /\ w.report.written # {} => a = TRUE
      BY <2>2, <1>5 DEF ReportOK
    <3>2. /\ Over(r, ReportFields) /\ r.pre = w.report.pre /\ r.post = w.report.post
          /\ r.written = w.report.written
      BY <3>1 DEF Over, ReportFields
    <3> QED
      BY <3>1, <3>2, <2>2 DEF ReportOK
  <2> QED
    BY <2>1, <2>2, <1>6
<1>10. \A h \in Hosts : /\ Over(work'[h], WorkFields)
                        /\ RestoredOK(job[h], work'[h])
                        /\ CommandOK(offers, pc[h], job[h], work'[h])
  BY <1>2, <1>4, <1>6, <1>7, <1>8, HostsAre
<1> QED
  BY <1>1, <1>2, <1>4, <1>9, <1>10, FaultKeeps

-----------------------------------------------------------------------------
(* The steps of an import. *)
LEMMA HostIs ==
    ASSUME AgentInv, NEW h \in Hosts
    PROVE  /\ offers \in Offered /\ Over(pkg, PkgFields)
           /\ Over(job[h], JobFields) /\ Over(work[h], WorkFields) /\ Over(work, Hosts)
           /\ RestoredOK(job[h], work[h]) /\ CommandOK(offers, pc[h], job[h], work[h])
           /\ job[h].approve \in BOOLEAN
           /\ h = "target" => /\ ReportOK(offers, work[h].report)
                              /\ AcceptOK(offers, pkg, pc[h], job[h])
           /\ h = "origin" => job[h].cmd \notin {"import", "resume"}
BY DEF AgentInv, Shape, CommandOK

(* A step that only changes the locals, and not the restore report. *)
LEMMA LocalStep ==
    ASSUME AgentInv, NEW h \in Hosts, NEW j, NEW l,
           job' = [job EXCEPT ![h] = j], Goto(h, l), UNCHANGED <<left, offers, pkg, work>>,
           Over(j, JobFields), j.cmd = job[h].cmd, j.restored = job[h].restored,
           j.quiet = job[h].quiet,
           l # "roundtrip",
           l \in Before \/ pc[h] \notin Before \/ pkg.graph.body = pkg.graph.graph_hash,
           CommandOK(offers, l, j, work[h]),
           h = "target" => AcceptOK(offers, pkg, l, j)
    PROVE  AgentInv'
<1>1. offers' = offers /\ pkg' = pkg /\ work' = work
  OBVIOUS
<1>2. Over(pc', Hosts) /\ pc'[h] = l /\ \A k \in Hosts \ {h} : pc'[k] = pc[k]
  BY PcSet DEF Goto
<1>3. Over(job', Hosts) /\ job'[h] = j /\ \A k \in Hosts \ {h} : job'[k] = job[k]
  BY JobSet
<1>4. RestoredOK(j, work'[h])
  BY <1>1, HostIs DEF RestoredOK, Holds
<1>5. Only(h)
  BY <1>1, <1>2, <1>3, HostIs DEF Only
<1>6. Over(work'[h], WorkFields) /\ (h = "target" => ReportOK(offers, work'[h].report))
  BY <1>1, HostIs
<1>7. h = "origin" => j.cmd \notin {"import", "resume"}
  BY HostIs
<1> QED
  BY <1>1, <1>2, <1>3, <1>4, <1>5, <1>6, <1>7, OnlyKeeps

(* An intact package of the harness. *)
LEMMA IntactIs ==
    ASSUME NEW O \in Offered, NEW p, NEW n, IntactAs(O, p, n), LocalIn(O), O \cap ForeignNames = {}
    PROVE  /\ n \in O /\ LocalName(n) /\ p.graph = File(n) /\ p.graph # Missing
           /\ p.manifest = Manifest(n) /\ p.manifest # Missing
           /\ \A a \in ArtifactsOf(p) : ArtifactIn(p, a)
<1>1. n \in O /\ p.graph = File(n) /\ p.manifest = Manifest(n)
  BY DEF IntactAs
<1>2. LocalName(n) /\ Manifest(n) # Missing /\ File(n) # Missing
  BY <1>1, LocalOffered, OfferedIs
<1>3. \A a \in ArtifactsOf(p) : ArtifactIn(p, a)
  BY DEF IntactAs, ArtifactsOf
<1> QED
  BY <1>1, <1>2, <1>3

LEMMA StartImportKeeps ==
    ASSUME AgentInv, NEW h \in Hosts, NEW cmd, NEW approve \in BOOLEAN, StartImport(h, cmd, approve)
    PROVE  AgentInv'
<1> PICK j : j = [NoJob EXCEPT !.cmd = cmd, !.approve = approve]
  OBVIOUS
<1> PICK l : l = IF Local THEN "read_manifest" ELSE "read_graph"
  OBVIOUS
<1>1. /\ job' = [job EXCEPT ![h] = j] /\ pc' = [pc EXCEPT ![h] = l]
      /\ offers' = offers /\ pkg' = pkg /\ work' = work
  BY DEF StartImport, Goto
<1>2. Over(pc', Hosts) /\ pc'[h] = l /\ \A k \in Hosts \ {h} : pc'[k] = pc[k]
  BY <1>1, PcSet
<1>3. Over(job', Hosts) /\ job'[h] = j /\ \A k \in Hosts \ {h} : job'[k] = job[k]
  BY <1>1, JobSet
<1>4. Over(j, JobFields) /\ j.cmd = cmd /\ j.approve = approve /\ j.restored = <<>>
  BY DEF NoJob, Over, JobFields
<1>5. RestoredOK(j, work'[h])
  BY <1>4, NothingRestored
<1>6. CommandOK(offers, l, j, work'[h]) /\ l \in Before /\ l # "roundtrip"
  BY <1>4 DEF CommandOK, Before
<1>7. h = "origin" => j.cmd \notin {"import", "resume"}
  BY <1>4 DEF StartImport
<1>8. AcceptOK(offers, pkg, l, j)
  <2>1. Local = LocalIn(offers)
    BY DEF Local, LocalIn
  <2> QED
    BY <2>1 DEF AcceptOK, AcceptedAs
<1>9. Only(h)
  BY <1>1, <1>2, <1>3, HostIs DEF Only
<1>10. Over(work'[h], WorkFields) /\ (h = "target" => ReportOK(offers, work'[h].report))
  BY <1>1, HostIs
<1> QED
  BY <1>2, <1>3, <1>4, <1>5, <1>6, <1>7, <1>8, <1>9, <1>10, OnlyKeeps

LEMMA ReadManifestKeeps ==
    ASSUME AgentInv, NEW h \in Hosts, ReadManifest(h)
    PROVE  AgentInv'
<1>1. CASE pkg.manifest = Missing /\ Fail(h)
  <2>1. ASSUME h = "target", Alone(offers, job[h]), NEW n, IntactAs(offers, pkg, n)
        PROVE  FALSE
    <3>1. LocalIn(offers)
      BY <2>1, HostIs DEF AcceptOK, AcceptedAs, ReadManifest, At
    <3> QED
      BY <1>1, <2>1, <3>1, HostIs, IntactIs DEF Alone
  <2> QED
    BY <1>1, <2>1, FailKeeps
<1>2. CASE /\ job' = [job EXCEPT ![h].manifest = pkg.manifest]
           /\ Goto(h, "activate")
           /\ UNCHANGED <<left, offers, pkg, work>>
  <2> PICK j : j = [job[h] EXCEPT !.manifest = pkg.manifest]
    OBVIOUS
  <2>1. job' = [job EXCEPT ![h] = j]
    BY <1>2
  <2>2. /\ Over(j, JobFields) /\ j.restored = job[h].restored /\ j.manifest = pkg.manifest
        /\ j.cmd = job[h].cmd /\ j.approve = job[h].approve
        /\ j.quiet = job[h].quiet
    BY HostIs, ZenonT(60) DEF Over, JobFields
  <2>3. CommandOK(offers, "activate", j, work[h])
    BY <2>2, HostIs DEF CommandOK
  <2>4. ASSUME h = "target" PROVE AcceptOK(offers, pkg, "activate", j)
    <3> SUFFICES ASSUME Alone(offers, j), NEW n, IntactAs(offers, pkg, n)
                 PROVE  AcceptedAs(offers, pkg, "activate", j, n)
      BY DEF AcceptOK
    <3>1. Alone(offers, job[h])
      BY <2>2 DEF Alone
    <3>2. AcceptedAs(offers, pkg, "read_manifest", job[h], n)
      BY <2>4, <3>1, HostIs DEF AcceptOK, ReadManifest, At
    <3> QED
      BY <2>2, <3>2 DEF AcceptedAs
  <2>5. "activate" \in Before
    BY DEF Before
  <2> QED
    BY <1>2, <2>1, <2>2, <2>3, <2>4, <2>5, LocalStep
<1> QED
  BY <1>1, <1>2 DEF ReadManifest

LEMMA ActivateKeeps ==
    ASSUME AgentInv, NEW h \in Hosts, Activate(h)
    PROVE  AgentInv'
<1> DEFINE accepted == /\ pkg.graph # Missing
                       /\ GraphVerified(pkg.graph, job[h].manifest)
                       /\ SecurityVerified(pkg.graph, job[h].manifest)
                       /\ ReplayVerified(pkg.graph)
                       /\ VectorVerified(pkg.graph, job[h].manifest)
<1>0. pc[h] = "activate"
  BY DEF Activate, At
<1>1. CASE ~accepted /\ Fail(h)
  <2>1. ASSUME h = "target", Alone(offers, job[h]), NEW n, IntactAs(offers, pkg, n)
        PROVE  FALSE
    <3>1. LocalIn(offers) /\ job[h].manifest = pkg.manifest
      BY <1>0, <2>1, HostIs DEF AcceptOK, AcceptedAs
    <3>2. LocalName(n) /\ pkg.graph = File(n) /\ pkg.graph # Missing /\ pkg.manifest = Manifest(n)
      BY <2>1, <3>1, HostIs, IntactIs DEF Alone
    <3>3. accepted
      BY <3>1, <3>2, IntactIsVerified DEF File
    <3> QED
      BY <1>1, <3>3
  <2> QED
    BY <1>1, <2>1, FailKeeps
<1>2. CASE /\ accepted
           /\ job' = [job EXCEPT ![h].graph = pkg.graph]
           /\ Goto(h, "verify")
           /\ UNCHANGED <<left, offers, pkg, work>>
  <2> PICK j : j = [job[h] EXCEPT !.graph = pkg.graph]
    OBVIOUS
  <2>1. job' = [job EXCEPT ![h] = j]
    BY <1>2
  <2>2. /\ Over(j, JobFields) /\ j.restored = job[h].restored /\ j.graph = pkg.graph
        /\ j.cmd = job[h].cmd /\ j.approve = job[h].approve
        /\ j.quiet = job[h].quiet /\ j.manifest = job[h].manifest
    BY HostIs, ZenonT(60) DEF Over, JobFields
  <2>3. CommandOK(offers, "verify", j, work[h])
    BY <1>2, <2>1, <2>2, HostIs DEF CommandOK
  <2>4. ASSUME h = "target" PROVE AcceptOK(offers, pkg, "verify", j)
    <3> SUFFICES ASSUME Alone(offers, j), NEW n, IntactAs(offers, pkg, n)
                 PROVE  AcceptedAs(offers, pkg, "verify", j, n)
      BY DEF AcceptOK
    <3>1. Alone(offers, job[h])
      BY <2>2 DEF Alone
    <3>2. AcceptedAs(offers, pkg, "activate", job[h], n)
      BY <1>0, <2>4, <3>1, HostIs DEF AcceptOK
    <3> QED
      BY <2>2, <3>2 DEF AcceptedAs
  <2>5. pkg.graph.body = pkg.graph.graph_hash
    BY <1>2 DEF GraphVerified
  <2> QED
    BY <1>2, <2>1, <2>2, <2>3, <2>4, <2>5, LocalStep
<1> QED
  BY <1>1, <1>2 DEF Activate

LEMMA ManifestArtifacts ==
    ASSUME NEW p, NEW n, LocalName(n), p.manifest = Manifest(n)
    PROVE  p.manifest.artifacts \in Seq(ArtifactsOf(p))
<1> PICK a : a = p.manifest.artifacts
  OBVIOUS
<1> PICK q : q = Paths(n.session)
  OBVIOUS
<1> PICK S : S = ArtifactsOf(p)
  OBVIOUS
<1>1. DOMAIN q = 1 .. Len(q) /\ Len(q) \in Nat
  BY PathsOf
<1>2. a = [i \in DOMAIN q |-> ArtifactRecord(n.session, n.policy, q[i])]
  BY ManifestIs
<1>3. \A i \in DOMAIN q : a[i] \in S
  <2>1. DOMAIN a = DOMAIN q
    BY <1>2
  <2> QED
    BY <2>1 DEF ArtifactsOf
<1>4. a \in [DOMAIN q -> S]
  BY <1>2, <1>3
<1>5. a \in Seq(S)
  BY <1>1, <1>4
<1> QED
  BY <1>5

LEMMA VerifyArtifactsKeeps ==
    ASSUME AgentInv, NEW h \in Hosts, VerifyArtifacts(h)
    PROVE  AgentInv'
<1> DEFINE accepted == \A i \in DOMAIN job[h].manifest.artifacts :
                          ArtifactVerified(job[h].manifest.artifacts[i])
<1>0. pc[h] = "verify"
  BY DEF VerifyArtifacts, At
<1>1. CASE ~accepted /\ Fail(h)
  <2>1. ASSUME h = "target", Alone(offers, job[h]), NEW n, IntactAs(offers, pkg, n)
        PROVE  FALSE
    <3>1. LocalIn(offers) /\ job[h].manifest = pkg.manifest
      BY <1>0, <2>1, HostIs DEF AcceptOK, AcceptedAs
    <3>2. \A i \in DOMAIN pkg.manifest.artifacts : ArtifactIn(pkg, pkg.manifest.artifacts[i])
      BY <2>1, <3>1 DEF IntactAs
    <3>3. accepted
      BY <3>1, <3>2 DEF ArtifactIn, ArtifactVerified
    <3> QED
      BY <1>1, <3>3
  <2> QED
    BY <1>1, <2>1, FailKeeps
<1>2. CASE /\ accepted
           /\ job' = [job EXCEPT ![h].todo = job[h].manifest.artifacts]
           /\ Goto(h, "restore")
           /\ UNCHANGED <<left, offers, pkg, work>>
  <2> PICK j : j = [job[h] EXCEPT !.todo = job[h].manifest.artifacts]
    OBVIOUS
  <2>1. job' = [job EXCEPT ![h] = j]
    BY <1>2
  <2>2. /\ Over(j, JobFields) /\ j.restored = job[h].restored /\ j.todo = job[h].manifest.artifacts
        /\ j.cmd = job[h].cmd /\ j.approve = job[h].approve
        /\ j.quiet = job[h].quiet /\ j.manifest = job[h].manifest
        /\ j.graph = job[h].graph
    BY HostIs, ZenonT(60) DEF Over, JobFields
  <2>3. CommandOK(offers, "restore", j, work[h])
    BY <2>2, HostIs DEF CommandOK
  <2>4. ASSUME h = "target" PROVE AcceptOK(offers, pkg, "restore", j)
    <3> SUFFICES ASSUME Alone(offers, j), NEW n, IntactAs(offers, pkg, n)
                 PROVE  AcceptedAs(offers, pkg, "restore", j, n)
      BY DEF AcceptOK
    <3>1. Alone(offers, job[h])
      BY <2>2 DEF Alone
    <3>2. AcceptedAs(offers, pkg, "verify", job[h], n)
      BY <1>0, <2>4, <3>1, HostIs DEF AcceptOK
    <3>3. LocalIn(offers) /\ job[h].manifest = pkg.manifest
      BY <3>2 DEF AcceptedAs
    <3>4. LocalName(n) /\ pkg.manifest = Manifest(n)
      BY <3>1, <3>3, HostIs, IntactIs DEF Alone
    <3>5. j.todo \in Seq(ArtifactsOf(pkg))
      BY <2>2, <3>3, <3>4, ManifestArtifacts
    <3> QED
      BY <2>2, <3>2, <3>5 DEF AcceptedAs
  <2>5. pc[h] \notin Before
    BY <1>0 DEF Before
  <2> QED
    BY <1>2, <2>1, <2>2, <2>3, <2>4, <2>5, LocalStep
<1> QED
  BY <1>1, <1>2 DEF VerifyArtifacts

(* One more entry of the restore report, and what has to be in the          *)
(* workspace v, before it w, for it to be true.                             *)
Entry(path, s, x) == [p \in {path} |-> [status |-> s, sha256 |-> x]]
ReportedJob(j, t, f) == [j EXCEPT !.todo = t, !.restored = f]
Extends(f, g, path) == \A p \in DOMAIN f : p # path => p \in DOMAIN g /\ g[p] = f[p]
Restores(w, v, path, s, x) ==
    /\ v.inside = w.inside
    /\ Extends(w.files, v.files, path) /\ DOMAIN v.files \subseteq DOMAIN w.files \cup {path}
    /\ Extends(w.quarantine, v.quarantine, path)
    /\ DOMAIN v.quarantine \subseteq DOMAIN w.quarantine \cup {path}
    /\ s = "restored" => path \in DOMAIN v.files /\ v.files[path] = x
    /\ s = "quarantined" => path \in DOMAIN v.quarantine /\ v.quarantine[path] = x

LEMMA HoldsStill ==
    ASSUME NEW j, NEW w, NEW i, NEW v, NEW f, NEW g, NEW path, NEW p, NEW x, p # path,
           i.quiet = j.quiet, v.inside = w.inside, Extends(f, g, path),
           DOMAIN g \subseteq DOMAIN f \cup {path}, Holds(j, w, f, p, x)
    PROVE  Holds(i, v, g, p, x)
BY DEF Holds, Extends

LEMMA RestoredGrows ==
    ASSUME NEW j, NEW w, NEW i, NEW v, NEW path, NEW s, NEW x, RestoredOK(j, w),
           i.restored = Merge(j.restored, Entry(path, s, x)), i.quiet = j.quiet,
           Restores(w, v, path, s, x)
    PROVE  RestoredOK(i, v)
<1> PICK e : e = [status |-> s, sha256 |-> x]
  OBVIOUS
<1>1. e.status = s /\ e.sha256 = x
  OBVIOUS
<1> PICK f : f = [p \in {path} |-> e]
  OBVIOUS
<1>2. i.restored = Merge(j.restored, f)
  BY DEF Entry
<1>3. DOMAIN i.restored = DOMAIN j.restored \cup {path} /\ i.restored[path] = e
  BY <1>2 DEF Merge
<1>4. \A p \in (DOMAIN j.restored) \ {path} : i.restored[p] = j.restored[p]
  BY <1>2 DEF Merge
<1>5. ASSUME NEW p \in DOMAIN i.restored
      PROVE  LET r == i.restored[p]
             IN /\ r.status = "restored" => Holds(i, v, v.files, p, r.sha256)
                /\ r.status = "quarantined" => Holds(i, v, v.quarantine, p, r.sha256)
  <2>1. CASE p = path
    BY <1>1, <1>3, <2>1 DEF Restores, Holds
  <2>2. CASE p # path
    <3> PICK r : r = j.restored[p]
      OBVIOUS
    <3>1. p \in DOMAIN j.restored /\ i.restored[p] = r
      BY <1>3, <1>4, <2>2
    <3>2. /\ r.status = "restored" => Holds(j, w, w.files, p, r.sha256)
          /\ r.status = "quarantined" => Holds(j, w, w.quarantine, p, r.sha256)
      BY <3>1 DEF RestoredOK
    <3>3. Holds(j, w, w.files, p, r.sha256) => Holds(i, v, v.files, p, r.sha256)
      BY <2>2, HoldsStill DEF Restores
    <3>4. Holds(j, w, w.quarantine, p, r.sha256) => Holds(i, v, v.quarantine, p, r.sha256)
      BY <2>2, HoldsStill DEF Restores
    <3> QED
      BY <3>1, <3>2, <3>3, <3>4
  <2> QED
    BY <2>1, <2>2
<1> QED
  BY <1>5 DEF RestoredOK

LEMMA ReportedJobIs ==
    ASSUME NEW j, Over(j, JobFields), NEW t, NEW f
    PROVE  LET i == ReportedJob(j, t, f)
           IN /\ Over(i, JobFields) /\ i.restored = f /\ i.todo = t
              /\ i.cmd = j.cmd /\ i.approve = j.approve /\ i.quiet = j.quiet
              /\ i.manifest = j.manifest /\ i.graph = j.graph
BY DEF Over, JobFields, ReportedJob

LEMMA ReportKeeps ==
    ASSUME AgentInv, NEW h \in Hosts, NEW a, NEW s, NEW x, NEW w, Report(h, a, s, x),
           pc[h] \in {"restore", "copy", "quarantine"}, pc[h] = "restore" => job[h].todo # <<>>,
           offers' = offers, pkg' = pkg, Over(pc', Hosts), pc'[h] = "restore",
           \A k \in Hosts \ {h} : pc'[k] = pc[k],
           work' = [work EXCEPT ![h] = w],
           Over(w, WorkFields), w.report = work[h].report,
           Restores(work[h], w, a.path, s, x)
    PROVE  AgentInv'
<1> DEFINE f == Merge(job[h].restored, Entry(a.path, s, x))
           t == Tail(job[h].todo)
           j == ReportedJob(job[h], t, f)
<1>1. job' = [job EXCEPT ![h] = j]
  BY DEF Report, ReportedJob, Entry
<1> HIDE DEF f, t
<1>2. /\ Over(j, JobFields) /\ j.restored = f /\ j.todo = t
      /\ j.cmd = job[h].cmd /\ j.approve = job[h].approve /\ j.quiet = job[h].quiet
      /\ j.manifest = job[h].manifest /\ j.graph = job[h].graph
  BY HostIs, ReportedJobIs
<1> HIDE DEF j
<1>3. Over(job', Hosts) /\ job'[h] = j /\ \A k \in Hosts \ {h} : job'[k] = job[k]
  BY <1>1, JobSet
<1>4. Over(work', Hosts) /\ work'[h] = w /\ \A k \in Hosts \ {h} : work'[k] = work[k]
  BY WorkSet
<1>5. RestoredOK(j, work'[h])
  BY <1>2, <1>4, HostIs, RestoredGrows DEF f
<1>6. CommandOK(offers, "restore", j, work'[h])
  BY <1>2, HostIs DEF CommandOK
<1>7. ASSUME h = "target" PROVE AcceptOK(offers, pkg, "restore", j)
  <2> SUFFICES ASSUME Alone(offers, j), NEW n, IntactAs(offers, pkg, n)
               PROVE  AcceptedAs(offers, pkg, "restore", j, n)
    BY DEF AcceptOK
  <2>1. Alone(offers, job[h])
    BY <1>2 DEF Alone
  <2>2. AcceptedAs(offers, pkg, pc[h], job[h], n)
    BY <1>7, <2>1, HostIs DEF AcceptOK
  <2>3. job[h].todo \in Seq(ArtifactsOf(pkg)) /\ job[h].todo # <<>>
    BY <2>2 DEF AcceptedAs
  <2>4. j.todo \in Seq(ArtifactsOf(pkg))
    BY <1>2, <2>3 DEF t
  <2> QED
    BY <1>2, <2>2, <2>4 DEF AcceptedAs
<1>8. Only(h)
  BY <1>3, <1>4 DEF Only
<1>9. h = "origin" => j.cmd \notin {"import", "resume"}
  BY <1>2, HostIs
<1>10. h = "target" => ReportOK(offers, work'[h].report) /\ pc'[h] # "roundtrip"
  BY <1>4, HostIs
<1>11. pc[h] \notin Before
  BY DEF Before
<1> QED
  BY <1>3, <1>2, <1>5, <1>6, <1>7, <1>8, <1>9, <1>10, <1>11, <1>4, OnlyKeeps

LEMMA RestoreArtifactKeeps ==
    ASSUME AgentInv, NEW h \in Hosts, RestoreArtifact(h)
    PROVE  AgentInv'
<1> PICK a : a = Head(job[h].todo)
  OBVIOUS
<1>0. pc[h] = "restore" /\ job[h].todo # <<>>
  BY DEF RestoreArtifact, At
<1>p. Over(pc, Hosts)
  BY DEF AgentInv, Shape
<1>1. CASE Report(h, a, "rebind_required", a.sha256) /\ UNCHANGED <<left, offers, pkg, work, pc>>
  <2>1. work' = [work EXCEPT ![h] = work[h]] /\ offers' = offers /\ pkg' = pkg /\ pc' = pc
    BY <1>1, HostIs DEF Over
  <2>2. Restores(work[h], work[h], a.path, "rebind_required", a.sha256)
    BY DEF Restores, Extends
  <2> QED
    BY <1>0, <1>p, <1>1, <2>1, <2>2, HostIs, ReportKeeps
<1>2. CASE /\ a.restore_policy # "external_rebind"
           /\ Goto(h, "copy") /\ UNCHANGED <<left, offers, pkg, work, job>>
  <2>1. job' = [job EXCEPT ![h] = job[h]]
    BY <1>2 DEF AgentInv, Shape, Over
  <2>2. CommandOK(offers, "copy", job[h], work[h])
    BY HostIs DEF CommandOK
  <2>3. ASSUME h = "target" PROVE AcceptOK(offers, pkg, "copy", job[h])
    <3> SUFFICES ASSUME Alone(offers, job[h]), NEW n, IntactAs(offers, pkg, n)
                 PROVE  AcceptedAs(offers, pkg, "copy", job[h], n)
      BY DEF AcceptOK
    <3>1. AcceptedAs(offers, pkg, "restore", job[h], n)
      BY <1>0, <2>3, HostIs DEF AcceptOK
    <3> QED
      BY <1>0, <1>2, <3>1 DEF AcceptedAs
  <2>4. pc[h] \notin Before
    BY <1>0 DEF Before
  <2> QED
    BY <1>2, <2>1, <2>2, <2>3, <2>4, HostIs, LocalStep
<1>i. ASSUME h = "target", Alone(offers, job[h]), NEW n, IntactAs(offers, pkg, n)
      PROVE  ArtifactIn(pkg, a)
  <2>1. LocalIn(offers) /\ job[h].todo \in Seq(ArtifactsOf(pkg))
    BY <1>0, <1>i, HostIs DEF AcceptOK, AcceptedAs
  <2>2. a \in ArtifactsOf(pkg)
    BY <1>0, <2>1
  <2> QED
    BY <1>i, <2>1, <2>2, HostIs, IntactIs DEF Alone
<1>3. CASE /\ a.restore_policy # "external_rebind"
           /\ a.sha256 \in DOMAIN pkg.blobs /\ pkg.blobs[a.sha256] # a.sha256
           /\ Goto(h, "quarantine") /\ UNCHANGED <<left, offers, pkg, work, job>>
  <2>1. job' = [job EXCEPT ![h] = job[h]]
    BY <1>3 DEF AgentInv, Shape, Over
  <2>2. CommandOK(offers, "quarantine", job[h], work[h])
    BY HostIs DEF CommandOK
  <2>3. ASSUME h = "target" PROVE AcceptOK(offers, pkg, "quarantine", job[h])
    BY <1>3, <1>i, <2>3 DEF AcceptOK, ArtifactIn
  <2>4. pc[h] \notin Before
    BY <1>0 DEF Before
  <2> QED
    BY <1>3, <2>1, <2>2, <2>3, <2>4, HostIs, LocalStep
<1>4. CASE /\ Fail(h)
           /\ a.restore_policy # "external_rebind"
           /\ a.sha256 \notin DOMAIN pkg.blobs \/ pkg.blobs[a.sha256] # a.sha256
  <2>1. ASSUME h = "target", Alone(offers, job[h]), NEW n, IntactAs(offers, pkg, n)
        PROVE  FALSE
    BY <1>4, <1>i, <2>1 DEF ArtifactIn
  <2> QED
    BY <1>4, <2>1, FailKeeps
<1> QED
  BY <1>1, <1>2, <1>3, <1>4 DEF RestoreArtifact

LEMMA CopyArtifactKeeps ==
    ASSUME AgentInv, NEW h \in Hosts, CopyArtifact(h)
    PROVE  AgentInv'
<1> PICK a : a = Head(job[h].todo)
  OBVIOUS
<1>0. pc[h] = "copy"
  BY DEF CopyArtifact, At
<1>1. CASE a.sha256 \notin DOMAIN pkg.blobs /\ Fail(h)
  <2>1. ASSUME h = "target", Alone(offers, job[h]), NEW n, IntactAs(offers, pkg, n)
        PROVE  FALSE
    <3>1. /\ LocalIn(offers) /\ job[h].todo \in Seq(ArtifactsOf(pkg)) /\ job[h].todo # <<>>
          /\ a.restore_policy # "external_rebind"
      BY <1>0, <2>1, HostIs DEF AcceptOK, AcceptedAs
    <3>2. a \in ArtifactsOf(pkg)
      BY <3>1
    <3>3. ArtifactIn(pkg, a)
      BY <2>1, <3>1, <3>2, HostIs, IntactIs DEF Alone
    <3> QED
      BY <1>1, <3>1, <3>3 DEF ArtifactIn
  <2> QED
    BY <1>1, <2>1, FailKeeps
<1>2. CASE /\ work' = [work EXCEPT ![h].files = Merge(@, [p \in {a.path} |-> pkg.blobs[a.sha256]])]
           /\ Report(h, a, "restored", pkg.blobs[a.sha256])
           /\ Goto(h, "restore")
           /\ UNCHANGED <<left, offers, pkg>>
  <2> PICK x : x = pkg.blobs[a.sha256]
    OBVIOUS
  <2> PICK f : f = Merge(work[h].files, [p \in {a.path} |-> x])
    OBVIOUS
  <2> PICK w : w = [work[h] EXCEPT !.files = f]
    OBVIOUS
  <2>1. work' = [work EXCEPT ![h] = w]
    BY <1>2
  <2>3. /\ Over(w, WorkFields) /\ w.files = f /\ w.report = work[h].report
        /\ w.quarantine = work[h].quarantine /\ w.inside = work[h].inside
    BY HostIs DEF Over, WorkFields
  <2>4. Over(pc', Hosts) /\ pc'[h] = "restore" /\ \A k \in Hosts \ {h} : pc'[k] = pc[k]
    BY <1>2, PcSet DEF Goto
  <2>5. /\ a.path \in DOMAIN f /\ f[a.path] = x /\ Extends(work[h].files, f, a.path)
        /\ DOMAIN f \subseteq DOMAIN work[h].files \cup {a.path}
    BY DEF Merge, Extends
  <2>6. Report(h, a, "restored", x) /\ offers' = offers /\ pkg' = pkg
    BY <1>2
  <2>7. Restores(work[h], w, a.path, "restored", x)
    BY <2>3, <2>5 DEF Restores, Extends
  <2> QED
    BY <1>0, <2>1, <2>3, <2>4, <2>6, <2>7, ReportKeeps
<1> QED
  BY <1>1, <1>2 DEF CopyArtifact

LEMMA QuarantineArtifactKeeps ==
    ASSUME AgentInv, NEW h \in Hosts, QuarantineArtifact(h)
    PROVE  AgentInv'
<1> PICK a : a = Head(job[h].todo)
  OBVIOUS
<1>0. pc[h] = "quarantine"
  BY DEF QuarantineArtifact, At
<1>1. CASE a.sha256 \notin DOMAIN pkg.blobs /\ Fail(h)
  <2>1. ASSUME h = "target", Alone(offers, job[h]), NEW n, IntactAs(offers, pkg, n)
        PROVE  FALSE
    BY <1>0, <2>1, HostIs DEF AcceptOK, AcceptedAs
  <2> QED
    BY <1>1, <2>1, FailKeeps
<1>2. CASE /\ work' = [work EXCEPT ![h].quarantine =
                         Merge(@, [p \in {a.path} |-> pkg.blobs[a.sha256]])]
           /\ Report(h, a, "quarantined", pkg.blobs[a.sha256])
           /\ Goto(h, "restore")
           /\ UNCHANGED <<left, offers, pkg>>
  <2> PICK x : x = pkg.blobs[a.sha256]
    OBVIOUS
  <2> PICK f : f = Merge(work[h].quarantine, [p \in {a.path} |-> x])
    OBVIOUS
  <2> PICK w : w = [work[h] EXCEPT !.quarantine = f]
    OBVIOUS
  <2>1. work' = [work EXCEPT ![h] = w]
    BY <1>2
  <2>3. /\ Over(w, WorkFields) /\ w.quarantine = f /\ w.report = work[h].report
        /\ w.files = work[h].files /\ w.inside = work[h].inside
    BY HostIs DEF Over, WorkFields
  <2>4. Over(pc', Hosts) /\ pc'[h] = "restore" /\ \A k \in Hosts \ {h} : pc'[k] = pc[k]
    BY <1>2, PcSet DEF Goto
  <2>5. /\ a.path \in DOMAIN f /\ f[a.path] = x /\ Extends(work[h].quarantine, f, a.path)
        /\ DOMAIN f \subseteq DOMAIN work[h].quarantine \cup {a.path}
    BY DEF Merge, Extends
  <2>6. Report(h, a, "quarantined", x) /\ offers' = offers /\ pkg' = pkg
    BY <1>2
  <2>7. Restores(work[h], w, a.path, "quarantined", x)
    BY <2>3, <2>5 DEF Restores, Extends
  <2> QED
    BY <1>0, <2>1, <2>3, <2>4, <2>6, <2>7, ReportKeeps
<1> QED
  BY <1>1, <1>2 DEF QuarantineArtifact

LEMMA FinishImportKeeps ==
    ASSUME AgentInv, NEW h \in Hosts, FinishImport(h)
    PROVE  AgentInv'
<1>0. pc[h] = "restore" /\ pc[h] \notin Before
  BY DEF FinishImport, At, Before
<1>1. CASE ~PromptVerified(job[h].graph, job[h].manifest) /\ Fail(h)
  <2>1. ASSUME h = "target", Alone(offers, job[h]), NEW n, IntactAs(offers, pkg, n)
        PROVE  FALSE
    <3>1. LocalIn(offers) /\ job[h].manifest = pkg.manifest /\ job[h].graph = pkg.graph
      BY <1>0, <2>1, HostIs DEF AcceptOK, AcceptedAs
    <3>2. LocalName(n) /\ pkg.graph = File(n) /\ pkg.manifest = Manifest(n)
      BY <2>1, <3>1, HostIs, IntactIs DEF Alone
    <3>3. PromptVerified(job[h].graph, job[h].manifest)
      BY <3>1, <3>2, IntactIsVerified DEF File
    <3> QED
      BY <1>1, <3>3
  <2> QED
    BY <1>1, <2>1, FailKeeps
<1>2. CASE End(h, "done") /\ UNCHANGED <<left, offers, pkg, work>>
  BY <1>2, DoneKeeps
<1>3. ASSUME NEW l \in {"reread", "evidence"}, Goto(h, l),
             UNCHANGED <<left, offers, pkg, work, job>>,
             job[h].cmd = IF l = "reread" THEN "resume" ELSE "return"
      PROVE  AgentInv'
  <2>1. job' = [job EXCEPT ![h] = job[h]]
    BY <1>3 DEF AgentInv, Shape, Over
  <2>2. CommandOK(offers, l, job[h], work[h])
    BY HostIs DEF CommandOK
  <2>3. ASSUME h = "target" PROVE AcceptOK(offers, pkg, l, job[h])
    <3> SUFFICES ASSUME Alone(offers, job[h]), NEW n, IntactAs(offers, pkg, n)
                 PROVE  AcceptedAs(offers, pkg, l, job[h], n)
      BY DEF AcceptOK
    <3>1. AcceptedAs(offers, pkg, "restore", job[h], n)
      BY <1>0, <2>3, HostIs DEF AcceptOK
    <3> QED
      BY <1>3, <3>1 DEF AcceptedAs
  <2>4. UNCHANGED <<left, offers, pkg, work>> /\ l # "roundtrip"
    BY <1>3
  <2> QED
    BY <1>0, <1>3, <2>1, <2>2, <2>3, <2>4, HostIs, LocalStep
<1> QED
  BY <1>1, <1>2, <1>3 DEF FinishImport

LEMMA ReadAdapterGraphKeeps ==
    ASSUME AgentInv, NEW h \in Hosts, ReadAdapterGraph(h)
    PROVE  AgentInv'
<1>0. pc[h] = "read_graph"
  BY DEF ReadAdapterGraph, At
<1>1. CASE pkg.graph = Missing /\ Fail(h)
  <2>1. ASSUME NEW n, IntactAs(offers, pkg, n)
        PROVE  FALSE
    <3>1. n \in offers /\ pkg.graph = File(n)
      BY <2>1 DEF IntactAs
    <3> QED
      BY <1>1, <3>1, HostIs, OfferedIs
  <2> QED
    BY <1>1, <2>1, FailKeeps
<1>2. CASE /\ job' = [job EXCEPT ![h].graph = pkg.graph]
           /\ Goto(h, "conform")
           /\ UNCHANGED <<left, offers, pkg, work>>
  <2> PICK j : j = [job[h] EXCEPT !.graph = pkg.graph]
    OBVIOUS
  <2>1. job' = [job EXCEPT ![h] = j]
    BY <1>2
  <2>2. /\ Over(j, JobFields) /\ j.restored = job[h].restored /\ j.graph = pkg.graph
        /\ j.cmd = job[h].cmd /\ j.approve = job[h].approve
        /\ j.quiet = job[h].quiet
    BY HostIs, ZenonT(60) DEF Over, JobFields
  <2>3. CommandOK(offers, "conform", j, work[h])
    BY <2>2, HostIs DEF CommandOK
  <2>4. ASSUME h = "target" PROVE AcceptOK(offers, pkg, "conform", j)
    <3> SUFFICES ASSUME Alone(offers, j), NEW n, IntactAs(offers, pkg, n)
                 PROVE  AcceptedAs(offers, pkg, "conform", j, n)
      BY DEF AcceptOK
    <3>1. Alone(offers, job[h])
      BY <2>2 DEF Alone
    <3>2. AcceptedAs(offers, pkg, "read_graph", job[h], n)
      BY <1>0, <2>4, <3>1, HostIs DEF AcceptOK
    <3> QED
      BY <2>2, <3>2 DEF AcceptedAs
  <2>5. "conform" \in Before
    BY DEF Before
  <2> QED
    BY <1>2, <2>1, <2>2, <2>3, <2>4, <2>5, LocalStep
<1> QED
  BY <1>1, <1>2 DEF ReadAdapterGraph

LEMMA CheckConformanceKeeps ==
    ASSUME AgentInv, NEW h \in Hosts, CheckConformance(h)
    PROVE  AgentInv'
<1> DEFINE accepted == /\ pkg.manifest # Missing
                       /\ job[h].graph.graph_hash = job[h].graph.body
                       /\ Conforms(job[h].graph.body, pkg.manifest)
<1>1. CASE ~accepted /\ Fail(h)
  <2>1. ASSUME h = "target", Alone(offers, job[h]), NEW n, IntactAs(offers, pkg, n)
        PROVE  FALSE
    <3>1. ~LocalIn(offers) /\ job[h].graph = pkg.graph
      BY <2>1, HostIs DEF AcceptOK, AcceptedAs, CheckConformance, At
    <3>2. n \in offers /\ pkg.graph = File(n) /\ pkg.manifest = Adapters
      BY <2>1, <3>1 DEF IntactAs
    <3>3. Conforms(n, Adapters)
      BY <3>1, <3>2, HostIs, AdapterOffered, AdapterConforms
    <3>4. Missing # Adapters
      BY AgentAssumption, ZenonT(60)
    <3>5. File(n).body = n /\ File(n).graph_hash = n
      BY DEF File
    <3> QED
      BY <1>1, <3>1, <3>2, <3>3, <3>4, <3>5
  <2> QED
    BY <1>1, <2>1, FailKeeps
<1>2. CASE End(h, "done") /\ UNCHANGED <<left, offers, pkg, work>>
  BY <1>2, DoneKeeps
<1> QED
  BY <1>1, <1>2 DEF CheckConformance

-----------------------------------------------------------------------------
(* The steps of a resume. *)
(* The calls of the complex session are as the resume requires. *)
LEMMA PendingCallsAre ==
    ASSUME NEW n, LocalName(n), n.session = "complex"
    PROVE  LET tools == GraphOf(n).tools
           IN /\ {"read-aws-quota", "publish-release"} \subseteq DOMAIN tools
              /\ tools["read-aws-quota"].side_effect = "read_only"
              /\ tools["read-aws-quota"].resume_policy = "retry_safe"
              /\ tools["publish-release"].side_effect = "external_write"
              /\ tools["publish-release"].resume_policy = "ask_user"
<1> PICK tools : tools = ComplexGraph.tools
  OBVIOUS
<1>1. GraphOf(n).tools = tools
  BY LocalGraph
<1>2. /\ {"read-aws-quota", "publish-release"} \subseteq DOMAIN tools
      /\ tools["read-aws-quota"] = Quota("not_started")
      /\ tools["publish-release"] = Release("needs_user", "pending")
  BY ComplexTools
<1>3. /\ Quota("not_started").side_effect = "read_only"
      /\ Quota("not_started").resume_policy = "retry_safe"
  BY CallIs DEF Quota
<1>4. /\ Release("needs_user", "pending").side_effect = "external_write"
      /\ Release("needs_user", "pending").resume_policy = "ask_user"
  BY CallIs DEF Release
<1> QED
  BY <1>1, <1>2, <1>3, <1>4

LEMMA RereadGraphKeeps ==
    ASSUME AgentInv, RereadGraph
    PROVE  AgentInv'
<1> DEFINE tools == GraphOf(pkg.graph.body).tools
           accepted == /\ pkg.graph # Missing /\ pkg.manifest # Missing
                       /\ {"read-aws-quota", "publish-release"} \subseteq DOMAIN tools
                       /\ tools["read-aws-quota"].side_effect = "read_only"
                       /\ tools["read-aws-quota"].resume_policy = "retry_safe"
                       /\ job["target"].approve =>
                             /\ tools["publish-release"].side_effect = "external_write"
                             /\ tools["publish-release"].resume_policy = "ask_user"
           l == IF job["target"].approve THEN "publish" ELSE "resumed"
<1>0. pc["target"] = "reread" /\ pc["target"] \notin Before
  BY DEF RereadGraph, At, Before
<1>1. CASE ~accepted /\ Fail("target")
  <2>1. ASSUME Alone(offers, job["target"]), NEW n, IntactAs(offers, pkg, n)
        PROVE  job["target"].cmd = "resume" /\ n.session = "reference"
    <3>1. LocalIn(offers) /\ job["target"].cmd = "resume"
      BY <1>0, <2>1, HostsAre, HostIs DEF AcceptOK, AcceptedAs
    <3>2. LocalName(n) /\ pkg.graph = File(n) /\ pkg.graph # Missing /\ pkg.manifest # Missing
      BY <2>1, <3>1, HostsAre, HostIs, IntactIs DEF Alone
    <3>3. ASSUME n.session = "complex" PROVE accepted
      <4>1. pkg.graph.body = n
        BY <3>2 DEF File
      <4> QED
        BY <3>2, <3>3, <4>1, PendingCallsAre
    <3> QED
      BY <1>1, <3>1, <3>2, <3>3 DEF LocalName
  <2> QED
    BY <1>1, <2>1, HostsAre, FailKeeps
<1>2. CASE /\ accepted
           /\ job' = [job EXCEPT !["target"].graph = pkg.graph]
           /\ Goto("target", l)
           /\ UNCHANGED <<left, offers, pkg, work>>
  <2> PICK j : j = [job["target"] EXCEPT !.graph = pkg.graph]
    OBVIOUS
  <2>1. job' = [job EXCEPT !["target"] = j]
    BY <1>2
  <2>2. /\ Over(j, JobFields) /\ j.restored = job["target"].restored /\ j.graph = pkg.graph
        /\ j.cmd = job["target"].cmd /\ j.approve = job["target"].approve
        /\ j.quiet = job["target"].quiet
    BY HostsAre, HostIs DEF Over, JobFields
  <2>3. PICK n \in offers : pkg.graph = File(n)
    BY <1>0, <1>2 DEF AgentInv, GraphOK
  <2>4. n \in Resumable(offers)
    <3>1. pkg.graph.body = n
      BY <2>3 DEF File
    <3> QED
      BY <1>2, <3>1, HostsAre, HostIs, ResumableIs
  <2>5. l \in {"publish", "resumed"}
    OBVIOUS
  <2>6. job["target"].approve \in BOOLEAN
    BY HostsAre, HostIs
  <2> HIDE DEF accepted, l
  <2>7. CommandOK(offers, l, j, work["target"])
    BY <2>2, <2>3, <2>4, <2>5, <2>6 DEF CommandOK
  <2>8. AcceptOK(offers, pkg, l, j)
    BY <2>5 DEF AcceptOK, AcceptedAs
  <2> QED
    BY <1>0, <1>2, <2>1, <2>2, <2>5, <2>7, <2>8, HostsAre, LocalStep
<1> QED
  BY <1>1, <1>2 DEF RereadGraph

(* One file of the workspace is written, and nothing else. *)
LEMMA FileStep ==
    ASSUME AgentInv, NEW h \in Hosts, NEW w, NEW l,
           work' = [work EXCEPT ![h] = w], Goto(h, l), UNCHANGED <<left, offers, pkg, job>>,
           Over(w, WorkFields), w.files = work[h].files, w.quarantine = work[h].quarantine,
           w.inside = work[h].inside, w.report = work[h].report, pc[h] \notin Before, h = "target" => l # "roundtrip",
           CommandOK(offers, l, job[h], w),
           l \in {"resumed", "report", "returned", "roundtrip"}
    PROVE  AgentInv'
<1>1. offers' = offers /\ pkg' = pkg /\ job' = job
  OBVIOUS
<1>2. Over(pc', Hosts) /\ pc'[h] = l /\ \A k \in Hosts \ {h} : pc'[k] = pc[k]
  BY PcSet DEF Goto
<1>3. Over(work', Hosts) /\ work'[h] = w /\ \A k \in Hosts \ {h} : work'[k] = work[k]
  BY WorkSet
<1>4. RestoredOK(job'[h], w)
  BY <1>1, HostIs DEF RestoredOK, Holds
<1>5. Over(job', Hosts)
  BY <1>1 DEF AgentInv, Shape
<1>6. Only(h)
  BY <1>1, <1>2, <1>3, <1>5 DEF Only
<1>7. AcceptOK(offers, pkg, l, job[h])
  BY DEF AcceptOK, AcceptedAs
<1>8. /\ Over(job'[h], JobFields)
      /\ h = "target" => ReportOK(offers, w.report)
      /\ h = "origin" => job'[h].cmd \notin {"import", "resume"}
  BY <1>1, HostIs
<1> QED
  BY <1>1, <1>2, <1>3, <1>4, <1>6, <1>7, <1>8, OnlyKeeps

LEMMA PublishKeeps ==
    ASSUME AgentInv, Publish
    PROVE  AgentInv'
<1> PICK w : w = [work["target"] EXCEPT
                    !.announcement = Announcement(job["target"].graph.graph_hash)]
  OBVIOUS
<1>1. /\ work' = [work EXCEPT !["target"] = w] /\ Goto("target", "resumed")
      /\ UNCHANGED <<left, offers, pkg, job>> /\ pc["target"] = "publish"
      /\ pc["target"] \notin Before
  BY DEF Publish, At, Before
<1>2. /\ Over(w, WorkFields) /\ w.files = work["target"].files
      /\ w.quarantine = work["target"].quarantine /\ w.report = work["target"].report
      /\ w.inside = work["target"].inside
  BY HostsAre, HostIs DEF Over, WorkFields
<1>3. CommandOK(offers, "publish", job["target"], work["target"])
  BY <1>1, HostsAre, HostIs
<1>4. CommandOK(offers, "resumed", job["target"], w)
  BY <1>3 DEF CommandOK
<1> QED
  BY <1>1, <1>2, <1>4, HostsAre, FileStep

LEMMA WriteResumedGraphKeeps ==
    ASSUME AgentInv, WriteResumedGraph
    PROVE  AgentInv'
<1> PICK g : g = File(Resumed(job["target"]))
  OBVIOUS
<1> PICK w : w = [work["target"] EXCEPT !.graph = g]
  OBVIOUS
<1>1. /\ work' = [work EXCEPT !["target"] = w] /\ Goto("target", "report")
      /\ UNCHANGED <<left, offers, pkg, job>> /\ pc["target"] = "resumed"
      /\ pc["target"] \notin Before
  BY DEF WriteResumedGraph, At, Before, File
<1>2. /\ Over(w, WorkFields) /\ w.files = work["target"].files /\ w.graph = g
      /\ w.quarantine = work["target"].quarantine /\ w.report = work["target"].report
      /\ w.inside = work["target"].inside
  BY HostsAre, HostIs DEF Over, WorkFields
<1>3. CommandOK(offers, "resumed", job["target"], work["target"])
  BY <1>1, HostsAre, HostIs
<1>4. Over(g, FileFields) /\ g.body = Resumed(job["target"])
  BY DEF File, FileFields, Over
<1>5. CommandOK(offers, "report", job["target"], w)
  BY <1>2, <1>3, <1>4 DEF CommandOK
<1> QED
  BY <1>1, <1>2, <1>5, HostsAre, FileStep

LEMMA WriteResumeReportKeeps ==
    ASSUME AgentInv, WriteResumeReport
    PROVE  AgentInv'
<1> DEFINE j == job["target"]
<1> PICK r : r = [pre |-> j.graph.graph_hash, post |-> Resumed(j),
                  written |-> IF j.approve THEN {Announcement(j.graph.graph_hash)} ELSE {},
                  proved |-> TRUE]
  OBVIOUS
<1> PICK w : w = [work["target"] EXCEPT !.report = r]
  OBVIOUS
<1>1. /\ work' = [work EXCEPT !["target"] = w] /\ End("target", "done")
      /\ offers' = offers /\ pkg' = pkg /\ pc["target"] = "report"
  BY DEF WriteResumeReport, At
<1>2. Over(w, WorkFields) /\ w.report = r
  BY HostsAre, HostIs DEF Over, WorkFields
<1>3. /\ Over(r, ReportFields) /\ r.pre = j.graph.graph_hash /\ r.post = Resumed(j)
      /\ r.written # {} => j.approve
  BY DEF Over, ReportFields
<1>4. PICK n \in Resumable(offers) : j.graph = File(n)
  BY <1>1, HostsAre, HostIs DEF CommandOK
<1>5. j.graph.body = n /\ j.graph.graph_hash = n
  BY <1>4 DEF File
<1>6. Resumed(j) = ResumedName(n, j.approve)
  BY <1>5 DEF Resumed, ResumedName
<1>7. j.approve \in BOOLEAN
  BY HostsAre, HostIs
<1>8. ReportOK(offers, r)
  <2>1. r.written # {} => j.approve = TRUE
    BY <1>3, <1>7
  <2> QED
    BY <2>1, <1>3, <1>4, <1>5, <1>6, <1>7 DEF ReportOK
<1>9. /\ Over(work', Hosts) /\ work'["target"] = w
      /\ \A k \in Hosts \ {"target"} : work'[k] = work[k]
  BY <1>1, HostsAre, WorkSet
<1> QED
  BY <1>1, <1>2, <1>8, <1>9, HostsAre, EndKeeps

-----------------------------------------------------------------------------
(* The steps of a return. *)
LEMMA ReadTargetGraphKeeps ==
    ASSUME AgentInv, ReadTargetGraph
    PROVE  AgentInv'
<1>0. pc["origin"] = "evidence" /\ pc["origin"] \notin Before /\ "origin" # "target"
  BY DEF ReadTargetGraph, At, Before
<1>1. CASE Fail("origin")
  BY <1>0, <1>1, HostsAre, FailKeeps
<1>2. CASE /\ job' = [job EXCEPT !["origin"] =
                         [job["origin"] EXCEPT !.manifest = pkg.manifest,
                                               !.graph = work["target"].graph]]
           /\ Goto("origin", "evidence_report")
           /\ UNCHANGED <<left, offers, pkg, work>>
  <2> PICK j : j = [job["origin"] EXCEPT !.manifest = pkg.manifest,
                                         !.graph = work["target"].graph]
    OBVIOUS
  <2>1. job' = [job EXCEPT !["origin"] = j]
    BY <1>2
  <2>2. /\ Over(j, JobFields) /\ j.restored = job["origin"].restored
        /\ j.cmd = job["origin"].cmd /\ j.approve = job["origin"].approve
        /\ j.quiet = job["origin"].quiet
    BY OriginIs DEF Over, JobFields
  <2>3. CommandOK(offers, "evidence_report", j, work["origin"])
    BY <2>2, OriginIs DEF CommandOK
  <2> QED
    BY <1>0, <1>2, <2>1, <2>2, <2>3, HostsAre, LocalStep
<1> QED
  BY <1>1, <1>2 DEF ReadTargetGraph

LEMMA ReadTargetReportKeeps ==
    ASSUME AgentInv, ReadTargetReport
    PROVE  AgentInv'
<1> DEFINE r == work["target"].report
<1>0. pc["origin"] = "evidence_report" /\ pc["origin"] \notin Before /\ "origin" # "target"
  BY DEF ReadTargetReport, At, Before
<1>1. CASE Fail("origin")
  BY <1>0, <1>1, HostsAre, FailKeeps
<1>2. CASE /\ r # Missing
           /\ EvidenceVerified(job["origin"].graph, r, job["origin"].manifest)
           /\ job' = [job EXCEPT !["origin"].report = r]
           /\ Goto("origin", "continue")
           /\ UNCHANGED <<left, offers, pkg, work>>
  <2> PICK j : j = [job["origin"] EXCEPT !.report = r]
    OBVIOUS
  <2>1. job' = [job EXCEPT !["origin"] = j]
    BY <1>2
  <2>2. /\ Over(j, JobFields) /\ j.restored = job["origin"].restored
        /\ j.cmd = job["origin"].cmd /\ j.approve = job["origin"].approve
        /\ j.quiet = job["origin"].quiet
        /\ j.graph = job["origin"].graph /\ j.manifest = job["origin"].manifest
    BY OriginIs DEF Over, JobFields
  <2>3. PICK n \in Resumable(offers), a \in BOOLEAN :
           r.pre = n /\ r.post = ResumedName(n, a) /\ (r.written # {} => a = TRUE)
    BY <1>2, HostsAre, HostIs DEF ReportOK
  <2>4. j.graph.body = ResumedName(n, TRUE) /\ j.manifest.graph_hash = n
    BY <1>2, <2>2, <2>3 DEF EvidenceVerified
  <2>5. CommandOK(offers, "continue", j, work["origin"])
    BY <2>2, <2>3, <2>4, OriginIs DEF CommandOK
  <2> QED
    BY <1>0, <1>2, <2>1, <2>2, <2>5, HostsAre, LocalStep
<1> QED
  BY <1>1, <1>2 DEF ReadTargetReport

LEMMA WriteContinuationKeeps ==
    ASSUME AgentInv, WriteContinuation
    PROVE  AgentInv'
<1> PICK w : w = [work["origin"] EXCEPT !.announcement =
                    <<"continuation", job["origin"].report.post>>]
  OBVIOUS
<1>1. /\ work' = [work EXCEPT !["origin"] = w] /\ Goto("origin", "returned")
      /\ UNCHANGED <<left, offers, pkg, job>> /\ pc["origin"] = "continue"
      /\ pc["origin"] \notin Before /\ "origin" # "target"
  BY DEF WriteContinuation, At, Before
<1>2. /\ Over(w, WorkFields) /\ w.files = work["origin"].files
      /\ w.quarantine = work["origin"].quarantine /\ w.report = work["origin"].report
      /\ w.inside = work["origin"].inside
  BY HostsAre, HostIs DEF Over, WorkFields
<1>3. CommandOK(offers, "continue", job["origin"], work["origin"])
  BY <1>1, HostsAre, HostIs
<1>4. CommandOK(offers, "returned", job["origin"], w)
  BY <1>3 DEF CommandOK
<1> QED
  BY <1>1, <1>2, <1>4, HostsAre, FileStep

LEMMA WriteReturnedGraphKeeps ==
    ASSUME AgentInv, WriteReturnedGraph
    PROVE  AgentInv'
<1> PICK b : b = [job["origin"].graph.body EXCEPT !.stage = "returned"]
  OBVIOUS
<1> PICK g : g = File(b)
  OBVIOUS
<1> PICK w : w = [work["origin"] EXCEPT !.graph = g]
  OBVIOUS
<1>1. /\ work' = [work EXCEPT !["origin"] = w] /\ Goto("origin", "roundtrip")
      /\ UNCHANGED <<left, offers, pkg, job>> /\ pc["origin"] = "returned"
      /\ pc["origin"] \notin Before /\ "origin" # "target"
  BY DEF WriteReturnedGraph, At, Before, File
<1>2. /\ Over(w, WorkFields) /\ w.files = work["origin"].files /\ w.graph = g
      /\ w.quarantine = work["origin"].quarantine /\ w.report = work["origin"].report
      /\ w.inside = work["origin"].inside
  BY HostsAre, HostIs DEF Over, WorkFields
<1>3. CommandOK(offers, "returned", job["origin"], work["origin"])
  BY <1>1, HostsAre, HostIs
<1>4. g.body = b
  BY DEF File
<1>5. CommandOK(offers, "roundtrip", job["origin"], w)
  BY <1>2, <1>3, <1>4 DEF CommandOK
<1> QED
  BY <1>1, <1>2, <1>5, HostsAre, FileStep

LEMMA WriteRoundtripReportKeeps ==
    ASSUME AgentInv, WriteRoundtripReport
    PROVE  AgentInv'
<1>1. PICK r : /\ work' = [work EXCEPT !["origin"].report = r]
               /\ End("origin", "done") /\ offers' = offers /\ pkg' = pkg
  BY DEF WriteRoundtripReport
<1> PICK w : w = [work["origin"] EXCEPT !.report = r]
  OBVIOUS
<1>2. work' = [work EXCEPT !["origin"] = w]
  BY <1>1
<1>3. Over(w, WorkFields)
  BY HostsAre, HostIs DEF Over, WorkFields
<1>4. /\ Over(work', Hosts) /\ work'["origin"] = w
      /\ \A k \in Hosts \ {"origin"} : work'[k] = work[k]
  BY <1>2, HostsAre, WorkSet
<1>5. "origin" # "target"
  OBVIOUS
<1> QED
  BY <1>1, <1>3, <1>4, <1>5, HostsAre, EndKeeps

-----------------------------------------------------------------------------
(* The invariant and the properties. *)
LEMMA AgentInvInit ==
    ASSUME Init
    PROVE  AgentInv
<1> PICK w : w = [NoWork EXCEPT !.inside = offers \in DefaultPlace]
  OBVIOUS
<1>1. /\ offers \in Offered
      /\ work = [h \in Hosts |-> w]
      /\ pc = [h \in Hosts |-> "idle"]
      /\ job = [h \in Hosts |-> NoJob]
  BY DEF Init, Offered
<1>2. Over(w, WorkFields) /\ w.report = Missing
  BY DEF NoWork, Over, WorkFields
<1>3. \A h \in Hosts : work[h] = w /\ pc[h] = "idle" /\ job[h] = NoJob
  BY <1>1
<1>4. Over(work, Hosts) /\ Over(pc, Hosts) /\ Over(job, Hosts)
  BY <1>1 DEF Over
<1>5. RestoredOK(NoJob, w) /\ CommandOK(offers, "idle", NoJob, w) /\ "idle" \in Before
  BY NoJobIs, NothingRestored, RestingCommand
<1>6. ReportOK(offers, w.report)
  BY <1>2 DEF ReportOK
<1>7. /\ AcceptOK(offers, pkg, "idle", NoJob) /\ NoJob.cmd \notin {"import", "resume"}
      /\ "idle" # "roundtrip"
  BY NoJobIs DEF AcceptOK, Alone
<1>8. Over(pkg, PkgFields) /\ BlobsOK(pkg) /\ GraphOK(offers, pkg, "idle", "idle")
  <2>1. CASE pkg = [blobs |-> <<>>, graph |-> Missing, manifest |-> Missing]
    BY <2>1, EmptyPackage
  <2>2. ASSUME NEW n \in offers, pkg = Exported(n)
        PROVE  Over(pkg, PkgFields) /\ BlobsOK(pkg) /\ GraphOK(offers, pkg, "idle", "idle")
    <3>1. PICK B : pkg = [blobs |-> [b \in B |-> b], graph |-> File(n), manifest |-> Manifest(n)]
      BY <2>2 DEF Exported, File
    <3>2. Over(pkg, PkgFields) /\ pkg.graph = File(n)
      BY <3>1 DEF Over, PkgFields
    <3>3. BlobsOK(pkg)
      BY <3>1 DEF BlobsOK
    <3>4. GraphOK(offers, pkg, "idle", "idle")
      BY <3>2 DEF GraphOK
    <3> QED
      BY <3>2, <3>3, <3>4
  <2> QED
    BY <2>1, <2>2 DEF Init
<1>9. Shape
  BY <1>1, <1>2, <1>3, <1>4, <1>8, NoJobIs DEF Shape
<1> QED
  BY <1>3, <1>5, <1>6, <1>7, <1>8, <1>9, HostsAre DEF AgentInv

LEMMA AgentInvNext ==
    ASSUME AgentInv, [Next]_vars
    PROVE  AgentInv'
<1>1. CASE \E n \in offers : StartExport(n) \/ StartAdapterExport(n)
  BY <1>1, StartExportKeeps, StartAdapterExportKeeps
<1>2. CASE WriteBlob \/ WriteGraph \/ WriteManifest
  BY <1>2, WriteBlobKeeps, WriteGraphKeeps, WriteManifestKeeps
<1>3. ASSUME NEW h \in Hosts, NEW cmd \in {"import", "resume", "return"}, NEW approve \in BOOLEAN,
             StartImport(h, cmd, approve)
      PROVE  AgentInv'
  BY <1>3, StartImportKeeps
<1>4. ASSUME NEW h \in Hosts,
             \/ ReadManifest(h) \/ Activate(h) \/ VerifyArtifacts(h)
             \/ RestoreArtifact(h) \/ CopyArtifact(h) \/ QuarantineArtifact(h)
             \/ FinishImport(h)
      PROVE  AgentInv'
  BY <1>4, ReadManifestKeeps, ActivateKeeps, VerifyArtifactsKeeps, RestoreArtifactKeeps,
     CopyArtifactKeeps, QuarantineArtifactKeeps, FinishImportKeeps
<1>5. ASSUME NEW h \in Hosts, ReadAdapterGraph(h) \/ CheckConformance(h) \/ Kill(h)
      PROVE  AgentInv'
  BY <1>5, ReadAdapterGraphKeeps, CheckConformanceKeeps, KillKeeps
<1>6. CASE RereadGraph \/ Publish \/ WriteResumedGraph \/ WriteResumeReport
  BY <1>6, RereadGraphKeeps, PublishKeeps, WriteResumedGraphKeeps, WriteResumeReportKeeps
<1>7. CASE \/ ReadTargetGraph \/ ReadTargetReport
           \/ WriteContinuation \/ WriteReturnedGraph \/ WriteRoundtripReport
  BY <1>7, ReadTargetGraphKeeps, ReadTargetReportKeeps, WriteContinuationKeeps,
     WriteReturnedGraphKeeps, WriteRoundtripReportKeeps
<1>8. CASE DamagePackage \/ DamageBlob \/ DamageEvidence
  BY <1>8, DamagePackageKeeps, DamageBlobKeeps, DamageEvidenceKeeps
<1>9. CASE UNCHANGED vars
  BY <1>9 DEF vars, AgentInv, Shape
<1> QED
  BY <1>1, <1>2, <1>3, <1>4, <1>5, <1>6, <1>7, <1>8, <1>9 DEF Next

(* A name after a resume, and after the return. *)
ReturnedName(m) == [m EXCEPT !.stage = "returned"]
OriginalName(r) == [r EXCEPT !.stage = "exported", !.approved = FALSE]

LEMMA ResumedNameIs ==
    ASSUME NEW n, LocalName(n), n.session = "complex", NEW a \in BOOLEAN
    PROVE  /\ GraphOf(ResumedName(n, a)) = ResumedGraph[a]
           /\ GraphOf(ReturnedName(ResumedName(n, a))) = ReturnedGraph[a]
           /\ OriginalName(ReturnedName(ResumedName(n, a))) = n
<1> PICK m : m = ResumedName(n, a)
  OBVIOUS
<1> PICK r : r = ReturnedName(m)
  OBVIOUS
<1> PICK e : e = OriginalName(r)
  OBVIOUS
<1>1. Over(n, NameFields) /\ n.stage = "exported" /\ n.approved = FALSE
  BY LocalNameIs
<1>2. /\ Over(m, NameFields) /\ m.session = n.session /\ m.policy = n.policy
      /\ m.stage = "resumed" /\ m.approved = a /\ m.tool = n.tool /\ m.defect = n.defect
  BY <1>1 DEF ResumedName, Over, NameFields
<1>3. /\ Over(r, NameFields) /\ r.session = n.session /\ r.policy = n.policy
      /\ r.stage = "returned" /\ r.approved = a /\ r.tool = n.tool /\ r.defect = n.defect
  BY <1>2 DEF ReturnedName, Over, NameFields
<1>4. /\ Over(e, NameFields) /\ e.session = n.session /\ e.policy = n.policy
      /\ e.stage = "exported" /\ e.approved = FALSE /\ e.tool = n.tool /\ e.defect = n.defect
  BY <1>3 DEF OriginalName, Over, NameFields
<1>5. \A x \in NameFields : e[x] = n[x]
  BY <1>1, <1>4 DEF NameFields
<1>6. e = n
  BY <1>1, <1>4, <1>5 DEF Over
<1>7. GraphOf(m) = ResumedGraph[a]
  BY <1>2 DEF GraphOf
<1>8. GraphOf(r) = ReturnedGraph[a]
  BY <1>3 DEF GraphOf
<1> QED
  BY <1>6, <1>7, <1>8

LEMMA ReplayGated ==
    ASSUME AgentInv
    PROVE  ReplayIsGated
<1> SUFFICES ASSUME NEW h \in Hosts, pc[h] = "verify",
                    NEW t \in DOMAIN GraphOf(job[h].graph.body).tools
             PROVE  LET call == GraphOf(job[h].graph.body).tools[t]
                        refused == call.approval_state \in {"denied", "expired"}
                    IN /\ Audit(call) = "retry_allowed" => ~Writes(call) /\ ~refused
                       /\ Writes(call) /\ call.status \in Pending =>
                             call.resume_policy \in Manual /\ ~refused
                       /\ Writes(call) => call.resume_policy # "retry_safe"
  BY ZenonT(60) DEF ReplayIsGated
<1> PICK call : call = GraphOf(job[h].graph.body).tools[t]
  OBVIOUS
<1>1. Audit(call) # "reject"
  BY HostIs DEF CommandOK, ReplayVerified
<1> QED
  BY <1>1, AuditGates

LEMMA IntactAccepted ==
    ASSUME AgentInv
    PROVE  IntactIsAccepted
<1> SUFFICES ASSUME NEW h \in Hosts, pc[h] = "failed", Alone(offers, job[h]), Intact
             PROVE  job[h].cmd = "resume" /\ pkg.graph.body.session = "reference"
  BY DEF IntactIsAccepted, Alone
<1>1. h = "target"
  BY HostsAre, HostIs DEF Alone
<1>2. PICK n \in offers :
        /\ pkg.graph = [body |-> n, graph_hash |-> n]
        /\ Local => /\ pkg.manifest = Manifest(n)
                    /\ \A i \in DOMAIN pkg.manifest.artifacts :
                          ArtifactVerified(pkg.manifest.artifacts[i])
        /\ ~Local => pkg.manifest = Adapters
  BY DEF Intact
<1>3. pkg.graph.body = n
  BY <1>2
<1>4. Local = LocalIn(offers)
  BY DEF Local, LocalIn
<1>5. IntactAs(offers, pkg, n)
  BY <1>2, <1>4 DEF IntactAs, File, ArtifactIn, ArtifactVerified
<1>6. AcceptedAs(offers, pkg, "failed", job[h], n)
  BY <1>1, <1>5, HostIs DEF AcceptOK
<1> QED
  BY <1>3, <1>6 DEF AcceptedAs

LEMMA ResumedNotReplayed ==
    ASSUME AgentInv
    PROVE  ResumedIsNotReplayed
<1> DEFINE j == job["target"]
           body == work["target"].graph.body
<1> SUFFICES ASSUME pc["target"] = "report", work["target"].graph # Missing, body # Damaged
             PROVE  LET tools == GraphOf(body).tools
                    IN /\ \A t \in DOMAIN tools : Audit(tools[t]) \notin {"reject", "retry_allowed"}
                       /\ j.approve => Audit(tools["publish-release"]) = "no_replay"
  BY DEF ResumedIsNotReplayed
<1>1. CommandOK(offers, "report", j, work["target"]) /\ j.approve \in BOOLEAN
  BY HostsAre, HostIs
<1>2. PICK n \in Resumable(offers) : j.graph = File(n)
  BY <1>1 DEF CommandOK
<1>3. body = Resumed(j)
  BY <1>1 DEF CommandOK
<1>4. Resumed(j) = ResumedName(n, j.approve)
  <2>1. j.graph.body = n
    BY <1>2 DEF File
  <2> QED
    BY <2>1 DEF Resumed, ResumedName
<1> PICK a : a = j.approve
  OBVIOUS
<1>5. LocalName(n) /\ n.session = "complex" /\ a \in BOOLEAN
  BY <1>1 DEF Resumable
<1>6. GraphOf(ResumedName(n, a)) = ResumedGraph[a]
  BY <1>5, ResumedNameIs
<1>7. GraphOf(body) = ResumedGraph[a]
  BY <1>3, <1>4, <1>6
<1> QED
  BY <1>5, <1>7, ResumedAudits

LEMMA ReturnedWhole ==
    ASSUME AgentInv
    PROVE  ReturnedGraphIsWhole
<1> DEFINE j == job["origin"]
           body == work["origin"].graph.body
<1> SUFFICES ASSUME pc["origin"] = "roundtrip"
             PROVE  /\ Closed(GraphOf(body))
                    /\ \A t \in DOMAIN GraphOf(body).tools : GraphOf(body).tools[t].status \notin Pending
                    /\ [body EXCEPT !.stage = "exported", !.approved = FALSE] = j.manifest.graph_hash
  BY DEF ReturnedGraphIsWhole
<1>1. CommandOK(offers, "roundtrip", j, work["origin"])
  BY HostsAre, HostIs
<1>2. body = [j.graph.body EXCEPT !.stage = "returned"]
  BY <1>1 DEF CommandOK
<1>3. PICK n \in Resumable(offers) :
        j.graph.body = ResumedName(n, TRUE) /\ j.manifest.graph_hash = n
  BY <1>1 DEF CommandOK
<1>4. LocalName(n) /\ n.session = "complex"
  BY DEF Resumable
<1>5. body = ReturnedName(ResumedName(n, TRUE))
  BY <1>2, <1>3 DEF ReturnedName
<1> PICK a : a = TRUE
  OBVIOUS
<1>6. /\ GraphOf(ReturnedName(ResumedName(n, a))) = ReturnedGraph[a]
      /\ OriginalName(ReturnedName(ResumedName(n, a))) = n
  <2>1. a \in BOOLEAN
    OBVIOUS
  <2> QED
    BY <2>1, <1>4, ResumedNameIs
<1>7. GraphOf(body) = ReturnedGraph[TRUE] /\ OriginalName(body) = n
  BY <1>5, <1>6
<1> QED
  BY <1>3, <1>7, ReturnedClosed DEF OriginalName

(* The inductive invariant: whatever the commands of the two hosts do, and *)
(* wherever they are killed or their files damaged, the package holds what *)
(* an export wrote or is visibly damaged, and each command knows what its  *)
(* earlier checks established (export_session, import_session,             *)
(* resume_imported_agent and return_home_after_target_resume).             *)
THEOREM AgentInvHolds == Spec => []AgentInv
<1>1. Init => AgentInv
  BY AgentInvInit
<1>2. AgentInv /\ [Next]_vars => AgentInv'
  BY AgentInvNext
<1> QED
  BY <1>1, <1>2, PTL DEF Spec

(* For every set of sessions, artifacts and faults the restore report of   *)
(* restore_artifacts tells what is in the workspace, although the blob is  *)
(* read again, and may have changed, between its check and its copy; what  *)
(* is not there has been removed by an export, with the package directory. *)
THEOREM RestoreReportsHold == Spec => []RestoreReportIsTrue
<1>1. AgentInv => RestoreReportIsTrue
  BY DEF AgentInv, RestoredOK, Holds, RestoreReportIsTrue
<1> QED
  BY <1>1, AgentInvHolds, PTL

(* What build_manifest and the adapters' exporters write, import_session   *)
(* and validate_graph_conformance accept, for every session, every         *)
(* artifact policy and every list of further artifacts; only a session     *)
(* without pending calls cannot be resumed.                                *)
THEOREM IntactStaysAccepted == Spec => []IntactIsAccepted
<1>1. AgentInv => IntactIsAccepted
  BY IntactAccepted
<1> QED
  BY <1>1, AgentInvHolds, PTL

(* No graph passes reject_unsafe_tool_replay that would make the target    *)
(* repeat a write, whoever exported it.                                    *)
THEOREM ReplayStaysGated == Spec => []ReplayIsGated
<1>1. AgentInv => ReplayIsGated
  BY ReplayGated
<1> QED
  BY <1>1, AgentInvHolds, PTL

(* The graph that resume_imported_agent leaves passes the same audit and   *)
(* asks for none of the calls that were run, approved or not.              *)
THEOREM ResumedStaysDone == Spec => []ResumedIsNotReplayed
<1>1. AgentInv => ResumedIsNotReplayed
  BY ResumedNotReplayed
<1> QED
  BY <1>1, AgentInvHolds, PTL

(* What return_home_after_target_resume writes is a closed graph without   *)
(* pending calls and continues the graph of the origin's own package,      *)
(* although graph and report of the target are read one after the other    *)
(* and the target may resume again in between.                             *)
THEOREM ReturnedStaysWhole == Spec => []ReturnedGraphIsWhole
<1>1. AgentInv => ReturnedGraphIsWhole
  BY ReturnedWhole
<1> QED
  BY <1>1, AgentInvHolds, PTL
=============================================================================
