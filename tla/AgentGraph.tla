----------------------------- MODULE AgentGraph -----------------------------
(***************************************************************************)
(* The Agent Memory Graph of the local harness and of the framework        *)
(* adapters, as operators: what the builders put into a graph and its      *)
(* manifest, and what the importer checks.                                 *)
(*                                                                         *)
(* A graph is named by what determines its content: the session, the       *)
(* export policy, how far the agent has come (stage) and whether the       *)
(* publish was approved.  GraphOf gives the content of a name.  Hashes are *)
(* injective, so the hash of a graph is its name and the hash of bytes the *)
(* bytes.                                                                  *)
(***************************************************************************)
EXTENDS Naturals, Sequences, FiniteSets

CONSTANTS
    Damaged,  \* content that is not what was written
    NoTool,   \* no further tool call in the graph
    Extras    \* the files of the complex session beside the report

(***************************************************************************)
(* Tool calls and the replay audit.                                        *)
(***************************************************************************)
SideEffects == {"none", "read_only", "external_write", "unknown"}
Pending == {"not_started", "in_progress", "failed", "needs_user"}
Statuses == Pending \cup {"completed", "cancelled"}
Manual == {"ask_user", "rebind", "compensate"}
ResumePolicies == Manual \cup {"retry_safe", "never_retry"}
Approvals == {"not_required", "pending", "approved", "denied", "expired"}
AllowedTools == {"fs.write_file", "aws.ec2.describe_instances",
                 "aws.ec2.run_instances"}

ToolCalls ==
    [name : {"fs.write_file", "resources/read"}, side_effect : SideEffects,
     status : Statuses, resume_policy : ResumePolicies,
     approval_state : Approvals]

Writes(t) == t.side_effect \in {"external_write", "unknown"}

\* Mutant of Audit: a denied or expired approval is not looked at.
AuditUnapproved(t) ==
    CASE t.status \notin Pending -> "no_replay"
      [] t.status \in Pending /\ Writes(t) ->
            IF t.resume_policy \in Manual THEN t.resume_policy ELSE "reject"
      [] t.status \in Pending /\ ~Writes(t) ->
            IF t.resume_policy = "retry_safe"
            THEN "retry_allowed" ELSE "manual_review"

\* The action audit_tool_replay_safety records for a tool call.
Audit(t) ==
    IF t.status \in Pending /\ t.approval_state \in {"denied", "expired"}
    THEN "reject"
    ELSE CASE t.status \notin Pending ->
                IF Writes(t) /\ t.resume_policy = "retry_safe"
                THEN "reject" ELSE "no_replay"
           [] t.status \in Pending /\ Writes(t) ->
                IF t.resume_policy \in Manual THEN t.resume_policy ELSE "reject"
           [] t.status \in Pending /\ ~Writes(t) ->
                IF t.resume_policy = "retry_safe"
                THEN "retry_allowed" ELSE "manual_review"

Call(name, side_effect, status, resume_policy, approval_state) ==
    [name |-> name, side_effect |-> side_effect, status |-> status,
     resume_policy |-> resume_policy, approval_state |-> approval_state]

(***************************************************************************)
(* Sessions, artifacts and the export policy.                              *)
(***************************************************************************)
Roles(session) ==
    IF session = "complex"
    THEN <<"system", "user", "assistant", "tool", "assistant", "tool",
           "assistant", "user", "assistant">>
    ELSE <<"system", "user", "assistant", "tool", "assistant">>

\* The files of a session; the first one is the report.
ExtraPaths(session) ==
    IF session = "complex" THEN Extras ELSE <<>>
Paths(session) == <<"result">> \o ExtraPaths(session)

Bytes(session, path) == <<session, path>>

DispositionFor(policy, path) ==
    CASE path \in policy.exclude -> "excluded"
      [] path \in policy.redact \ policy.exclude -> "redacted"
      [] OTHER -> "packaged"

\* build_artifact_record_from_bytes and manifest_artifact: what the manifest
\* says of a file.  blob is where its bytes are, if they are packaged.
ArtifactRecord(session, policy, path) ==
    LET packaged == DispositionFor(policy, path) = "packaged"
        bytes == Bytes(session, path)
    IN [path |-> path, sha256 |-> bytes, blob |-> packaged,
        restore_policy |-> IF packaged THEN "required" ELSE "external_rebind",
        rebind_required |-> ~packaged]

(***************************************************************************)
(* Graphs.  nodes maps a node id to its actor; messages, tool calls,       *)
(* artifacts, memories and vector retrievals are the parts the importer    *)
(* looks at.                                                               *)
(***************************************************************************)
Agent == "agent:local-reference"
User == "user:local-reference"
Tool == "tool:local-fs"

By(actor, ids) == [i \in ids |-> actor]

Merge(f, g) ==
    [i \in DOMAIN f \cup DOMAIN g |-> IF i \in DOMAIN g THEN g[i] ELSE f[i]]

Turn(session, i) == <<"turn:" , Roles(session)[i], i>>

TurnActor(role) ==
    CASE role = "user" -> User
      [] role = "tool" -> Tool
      [] OTHER -> Agent

\* build_graph: a conversation that wrote one report.
ReferenceNodes(session) ==
    Merge([n \in {Turn(session, i) : i \in DOMAIN Roles(session)} |-> TurnActor(n[2])],
    Merge(By(User, {<<"event", "start">>}),
    Merge(By(Agent, {<<"tool:call", "write-report">>, <<"memory", "report-fact">>,
                     <<"checkpoint", "prompt">>, <<"retrieval", "report-memory">>,
                     <<"kv", "prompt">>}),
          By(Tool, {<<"tool:result", "write-report">>, <<"artifact", "result">>,
                    <<"credential", "local-filesystem">>}))))

ReferenceEdges(session) ==
    LET call == <<"tool:call", "write-report">>
        result == <<"tool:result", "write-report">>
        fact == <<"memory", "report-fact">>
        checkpoint == <<"checkpoint", "prompt">>
    IN {<<IF i = 1 THEN <<"event", "start">> ELSE Turn(session, i - 1), Turn(session, i)>> :
          i \in DOMAIN Roles(session)}
       \cup
       {<<<<"turn:", "assistant", 3>>, call>>, <<call, result>>,
        <<call, <<"artifact", "result">>>>, <<result, fact>>,
        <<<<"retrieval", "report-memory">>, fact>>,
        <<checkpoint, <<"turn:", "user", 2>>>>, <<<<"kv", "prompt">>, checkpoint>>,
        <<<<"credential", "local-filesystem">>, call>>}

ReferenceGraph == [session \in {"reference", "complex", "foreign"} |->
    [agent |-> Agent,
     runtime |-> "examples/agent-memory-graph",
     participants |-> {Agent, User, Tool, "runtime:local-reference"},
     nodes |-> ReferenceNodes(session),
     edges |-> ReferenceEdges(session),
     tools |-> [t \in {"write-report"} |->
                  Call("fs.write_file", "external_write", "completed",
                       "never_retry", "approved")],
     memories |-> {<<"memory", "report-fact">>},
     retrievals |-> [r \in {"report-memory"} |-> {<<"memory", "report-fact">>}],
     artifact_paths |-> {"result"},
     credentials |-> {[redaction_state |-> "external_only",
                       required |-> TRUE, binding |-> TRUE]},
     secrets |-> {}]]

\* The memory nodes build_vector_snapshot ranks; the ranking is a function
\* of them, so the set stands for expected_results.
VectorResults(g) == g.memories

\* Mutant of ComplexGraph: the vector retrievals keep the results of the
\* query they were built for.
ComplexGraphStaleResults ==
    LET g == ReferenceGraph["complex"]
    IN [g EXCEPT !.memories = @ \cup {<<"memory", "complex-fidelity">>},
                 !.retrievals = Merge(@, [r \in {"complex-evidence"} |->
                                           {<<"memory", "complex-fidelity">>}])]

\* The tool calls of the complex session: one done, one that may be repeated,
\* one that waits for an approval.
ComplexCalls ==
    [t \in {"write-plan", "read-aws-quota", "publish-release"} |->
       CASE t = "write-plan" ->
              Call("fs.write_file", "external_write", "completed",
                   "never_retry", "approved")
         [] t = "read-aws-quota" ->
              Call("aws.ec2.describe_instances", "read_only",
                   "not_started", "retry_safe", "not_required")
         [] t = "publish-release" ->
              Call("fs.write_file", "external_write", "needs_user",
                   "ask_user", "pending")]

\* extend_graph_for_complex_agent.  The agent is renamed, its nodes keep the
\* actor; every vector retrieval is given the results of the snapshot.
ComplexGraph ==
    LET g == ReferenceGraph["complex"]
        extra == {ExtraPaths("complex")[i] : i \in DOMAIN ExtraPaths("complex")}
        memories == g.memories \cup {<<"memory", "complex-fidelity">>}
    IN [g EXCEPT
          !.agent = "agent:complex-continuity",
          !.participants = @ \cup {"operator:release-manager"},
          !.nodes =
            Merge(@,
            Merge(By("operator:release-manager", {<<"event", "pending-release">>}),
            Merge(By(Agent, {<<"tool:call", "write-plan">>,
                             <<"tool:call", "read-aws-quota">>,
                             <<"tool:call", "publish-release">>,
                             <<"memory", "complex-fidelity">>,
                             <<"retrieval", "complex-evidence">>}),
                  By(Tool, {<<"artifact", p>> : p \in extra})))),
          !.edges = @ \cup
            {<<<<"tool:call", "write-plan">>, <<"artifact", p>>>> : p \in extra}
            \cup
            {<<<<"turn:", "assistant", 5>>, <<"tool:call", "write-plan">>>>,
             <<<<"artifact", "plan">>, <<"memory", "complex-fidelity">>>>,
             <<<<"retrieval", "complex-evidence">>,
               <<"memory", "complex-fidelity">>>>,
             <<<<"event", "pending-release">>,
               <<"tool:call", "publish-release">>>>,
             <<<<"tool:call", "read-aws-quota">>,
               <<"memory", "complex-fidelity">>>>},
          !.tools = Merge(@, ComplexCalls),
          !.memories = memories,
          !.retrievals = [r \in {"report-memory", "complex-evidence"} |-> memories],
          !.artifact_paths = @ \cup extra]

\* The package of another exporter: the reference graph with one further
\* tool call, or with one thing the security policy is about.
ForeignGraph(name) ==
    LET g == ReferenceGraph["foreign"]
    IN [g EXCEPT
          !.tools = IF name.tool = NoTool THEN @
                    ELSE Merge(@, [t \in {"foreign"} |-> name.tool]),
          !.secrets = IF name.defect = "secret" THEN {"api_key"} ELSE {},
          !.artifact_paths = IF name.defect = "path" THEN @ \cup {"elsewhere"} ELSE @,
          !.credentials = {[redaction_state |-> IF name.defect = "embedded"
                                                THEN "none" ELSE "external_only",
                            required |-> name.defect # "optional",
                            binding |-> name.defect # "unbound"]}]

\* Mutant of Completed: only the approval is recorded.
CompletedByApproval(t, approval) == [t EXCEPT !.approval_state = approval]

\* mark_tool_call_completed
Completed(t, approval) ==
    [t EXCEPT !.status = "completed", !.approval_state = approval]

\* resume_imported_agent: the read is retried ...
RetriedGraph ==
    [ComplexGraph EXCEPT
       !.tools["read-aws-quota"] = Completed(@, "not_required"),
       !.nodes = Merge(@, Merge(
           By(Tool, {<<"tool:result", "read-aws-quota:post-import">>}),
           By(Agent, {<<"event", "post-migration-agent-resume">>}))),
       !.edges = @ \cup {<<<<"tool:call", "read-aws-quota">>,
                          <<"tool:result", "read-aws-quota:post-import">>>>}]

\* ... and, if approved, the publish done.
ResumedGraph == [approved \in BOOLEAN |->
    LET announcement == <<"artifact", "publish-announcement:post-import">>
        memory == <<"memory", "agent-activity-continued:post-import">>
        published == {<<"tool:result", "publish-release:post-import">>, announcement}
    IN IF ~approved THEN RetriedGraph
       ELSE [RetriedGraph EXCEPT
          !.tools["publish-release"] = Completed(@, "approved"),
          !.nodes = Merge(@, Merge(By(Tool, published), By(Agent, {memory}))),
          !.edges = @
              \cup {<<<<"tool:call", "publish-release">>, n>> : n \in published}
              \cup {<<announcement, memory>>},
          !.memories = @ \cup {memory},
          !.artifact_paths = @ \cup {"announcement"}]]

\* return_home_after_target_resume: the origin continues the target's graph.
ReturnedGraph == [approved \in BOOLEAN |->
    LET g == ResumedGraph[approved]
        artifact == <<"artifact", "origin-roundtrip-continuation">>
        memory == <<"memory", "agent-roundtrip-returned-home">>
        event == <<"event", "roundtrip-origin-return">>
    IN [g EXCEPT
          !.nodes = Merge(@, Merge(By(Tool, {artifact}), By(Agent, {memory, event}))),
          !.edges = @ \cup
            {<<<<"memory", "agent-activity-continued:post-import">>, memory>>,
             <<<<"artifact", "publish-announcement:post-import">>, artifact>>,
             <<artifact, memory>>, <<memory, event>>},
          !.memories = @ \cup {memory},
          !.artifact_paths = @ \cup {"continuation"}]]

(***************************************************************************)
(* The framework adapters: two mappings without runtime.                   *)
(***************************************************************************)
Adapters == {"langgraph_durable_state", "mcp_resource_session"}

AdapterRuntime(adapter) ==
    IF adapter = "langgraph_durable_state"
    THEN "langgraph-style-durable-state" ELSE "mcp-backed-tool-session"

\* build_graph_envelope
Envelope(adapter, agent, participants, nodes, edges, tools) ==
    [agent |-> agent, adapter |-> adapter, runtime |-> AdapterRuntime(adapter),
     participants |-> participants \cup {agent}, nodes |-> nodes,
     edges |-> edges, tools |-> tools]

LanggraphGraph ==
    LET agent == "agent:langgraph-reference"
        store == "runtime:langgraph-store"
        turn == [r \in {"user", "assistant"} |-> <<"turn", r>>]
        task == <<"task", "open-checklist">>
        memory == <<"memory", "user-preference">>
        retrieval == <<"retrieval", "memory">>
        start == <<"event", "start">>
        checkpoint == <<"checkpoint", "thread">>
        trace == <<"trace", "node">>
    IN Envelope("langgraph_durable_state", agent, {"user:operator", store},
         Merge(By("user:operator", {turn["user"]}),
         Merge(By(agent, {turn["assistant"], task, memory, retrieval}),
               By(store, {start, checkpoint, trace}))),
         {<<start, turn["user"]>>, <<turn["user"], turn["assistant"]>>,
          <<turn["assistant"], task>>, <<retrieval, memory>>,
          <<checkpoint, task>>, <<trace, checkpoint>>},
         [t \in {} |-> NoTool])

McpGraph ==
    LET agent == "agent:mcp-reference"
        files == "tool:mcp-files"
        session == "runtime:mcp-session"
        turn == <<"turn", "user">>
        call == <<"tool:call", "mcp-list">>
        result == <<"tool:result", "mcp-list">>
        artifact == <<"artifact", "mcp-cargo-manifest">>
        credential == <<"credential", "mcp-filesystem">>
        checkpoint == <<"checkpoint", "mcp-session">>
        trace == <<"trace", "mcp-tool-call">>
    IN Envelope("mcp_resource_session", agent, {"user:operator", files, session},
         Merge(By("user:operator", {turn}),
         Merge(By(agent, {call}),
         Merge(By(files, {result, artifact}),
               By(session, {credential, checkpoint, trace})))),
         {<<turn, call>>, <<call, result>>, <<result, artifact>>,
          <<credential, call>>, <<checkpoint, call>>, <<trace, call>>},
         [t \in {"mcp-list"} |-> Call("resources/read", "read_only", "completed",
                                      "never_retry", "not_required")])

GraphOf(name) ==
    CASE name.session = "langgraph_durable_state" -> LanggraphGraph
      [] name.session = "mcp_resource_session" -> McpGraph
      [] name.session = "reference" -> ReferenceGraph["reference"]
      [] name.session = "foreign" -> ForeignGraph(name)
      [] name.session = "complex" ->
           CASE name.stage = "exported" -> ComplexGraph
             [] name.stage = "resumed" -> ResumedGraph[name.approved]
             [] name.stage = "returned" -> ReturnedGraph[name.approved]

\* validate_graph_conformance: every edge joins nodes, every actor takes part.
Closed(g) ==
    /\ \A e \in g.edges : {e[1], e[2]} \subseteq DOMAIN g.nodes
    /\ \A n \in DOMAIN g.nodes : g.nodes[n] \in g.participants

\* manifest is the set of adapters the capability manifest lists.
Conforms(name, manifest) ==
    LET g == GraphOf(name)
    IN /\ g.adapter \in manifest
       /\ g.runtime = AdapterRuntime(g.adapter)
       /\ g.agent \in g.participants
       /\ Closed(g)
=============================================================================
