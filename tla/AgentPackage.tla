---------------------------- MODULE AgentPackage ----------------------------
(***************************************************************************)
(* The package of an agent and the commands that work on it: export,       *)
(* import, resume and return-home of the local harness, export and import  *)
(* of the framework adapters.                                              *)
(*                                                                         *)
(* The origin exports and later takes the agent back; the target imports   *)
(* and resumes it.  A step is one file operation of one command; the       *)
(* checks between two of them belong to the step before.  A command may be *)
(* killed at every step and run again.  The two hosts interleave: the      *)
(* origin may export again while the target imports, and fetch the         *)
(* evidence while the target resumes once more.                            *)
(***************************************************************************)
EXTENDS AgentGraph

CONSTANTS
    Missing,       \* no such file, or one that does not parse
    LocalOffers,   \* sets of local sessions and policies that are exported in turn
    DefaultPlace,  \* the ones of them whose workspaces are where they are by default
    ForeignNames,  \* packages of other exporters
    Commands,      \* bound: how many commands each host runs
    Faults         \* bound: how many kills and damages happen

VARIABLES
    offers,  \* the graphs that may be exported (does not change)
    pkg,     \* the package directory: blobs, graph.json and the manifest
    work,    \* the workspace of each host
    pc,      \* per host, where its command is
    job,     \* per host, the locals of its command
    left     \* what remains of the bounds

vars == <<offers, pkg, work, pc, job, left>>

Hosts == {"origin", "target"}
Trusted == "signer:local-reference"
Runtime == "examples/agent-memory-graph"

Name(session, policy) ==
    [session |-> session, policy |-> policy, stage |-> "exported",
     approved |-> FALSE, tool |-> NoTool, defect |-> "none"]

NoPolicy == [exclude |-> {}, redact |-> {}]
AdapterNames == {Name(a, NoPolicy) : a \in Adapters}

Prompt(name) == Roles(name.session)

\* build_manifest and build_security_attestation: the manifest also says whom to
\* trust and which tools are allowed.  The prompt, token and KV hashes are
\* functions of the prompt.
Manifest(name) ==
    LET artifact(path) == ArtifactRecord(name.session, name.policy, path)
        paths == Paths(name.session)
    IN [graph_hash |-> name, signature |-> <<name, Trusted>>, provenance |-> name,
        signer |-> Trusted, trusted |-> {Trusted},
        runtimes |-> {Runtime}, tools |-> AllowedTools,
        vector |-> [mode |-> IF name.defect \in {"hosted", "unrebound"}
                             THEN "external_rebind" ELSE "snapshot",
                    rebind_required |-> name.defect = "hosted",
                    results |-> VectorResults(GraphOf(name))],
        byte_hash |-> Prompt(name), token_hash |-> Prompt(name),
        kv_hash |-> Prompt(name),
        response |-> <<Prompt(name), artifact("result").sha256>>,
        artifacts |-> [i \in DOMAIN paths |->
            IF name.defect = "quarantine"
            THEN [artifact(paths[i]) EXCEPT !.restore_policy = "quarantine_on_mismatch"]
            ELSE artifact(paths[i])]]

\* The harness offers its own sessions, as they are before any resume; other
\* exporters' packages have a session of their own.
ASSUME AgentAssumption ==
    /\ Extras \in Seq(STRING)
    /\ \E i \in DOMAIN Extras : Extras[i] = "plan"
    /\ \A i \in DOMAIN Extras : Extras[i] # "elsewhere"
    /\ \A n \in UNION LocalOffers :
          n.session \in {"reference", "complex"} /\ n = Name(n.session, n.policy)
    /\ \A n \in ForeignNames : n.session = "foreign"
    /\ \A n \in (UNION LocalOffers) \cup AdapterNames \cup ForeignNames :
          n # Damaged /\ Missing # [body |-> n, graph_hash |-> n]
    /\ \A n \in UNION LocalOffers : Missing # Manifest(n)
    /\ Missing # Adapters

(***************************************************************************)
(* The checks of import_session; g is a graph file, m a manifest.          *)
(***************************************************************************)
\* verify_graph
GraphVerified(g, m) == g.body = m.graph_hash /\ g.graph_hash = m.graph_hash

\* validate_security_policy: signer and tools are held against the lists of the
\* manifest itself; forbidden keys stand for raw secret material.
SecurityVerified(g, m) ==
    LET graph == GraphOf(g.body)
    IN /\ m.signer \in m.trusted
       /\ m.signature = <<g.graph_hash, m.signer>>
       /\ Runtime \in m.runtimes
       /\ \A t \in DOMAIN graph.tools : graph.tools[t].name \in m.tools
       /\ \A i \in DOMAIN m.artifacts : m.artifacts[i].path # "elsewhere"
       /\ "elsewhere" \notin graph.artifact_paths
       /\ graph.secrets = {}
       /\ graph.credentials \subseteq
             {[redaction_state |-> "external_only", required |-> TRUE, binding |-> TRUE]}
       /\ m.provenance = g.graph_hash

\* reject_unsafe_tool_replay
ReplayVerified(g) ==
    LET tools == GraphOf(g.body).tools
    IN \A t \in DOMAIN tools : Audit(tools[t]) # "reject"

\* validate_vector_memory
VectorVerified(g, m) ==
    IF m.vector.mode = "external_rebind" THEN m.vector.rebind_required
    ELSE LET graph == GraphOf(g.body)
         IN /\ m.vector.results = VectorResults(graph)
            /\ \A r \in DOMAIN graph.retrievals : graph.retrievals[r] = VectorResults(graph)

\* validate_artifact_manifest_entry and verify_artifacts
ArtifactVerified(a) ==
    IF a.restore_policy = "external_rebind" THEN ~a.blob /\ a.rebind_required
    ELSE a.blob /\ a.sha256 \in DOMAIN pkg.blobs /\ pkg.blobs[a.sha256] = a.sha256

\* The checks import_session makes after it has restored the artifacts.
PromptVerified(g, m) ==
    LET prompt == Prompt(g.body)
    IN /\ m.byte_hash = prompt
       /\ m.token_hash = prompt
       /\ m.kv_hash = prompt
       /\ m.response = <<prompt, m.artifacts[1].sha256>>

(***************************************************************************)
(* Commands.                                                               *)
(***************************************************************************)
Local == \A n \in offers : n.session \notin Adapters

Ended(h) == pc[h] \in {"idle", "done", "failed"}

NoJob == [cmd |-> "none", name |-> Missing, manifest |-> Missing,
          graph |-> Missing, report |-> Missing, approve |-> FALSE,
          todo |-> <<>>, restored |-> <<>>, quiet |-> TRUE]

\* An empty workspace.
NoWork == [files |-> <<>>, quarantine |-> <<>>, announcement |-> Missing,
           graph |-> Missing, report |-> Missing, inside |-> FALSE]

At(h, label) == pc[h] = label
Goto(h, label) == pc' = [pc EXCEPT ![h] = label]
Spend(what) == left[what] > 0 /\ left' = [left EXCEPT ![what] = @ - 1]

\* A command that ends leaves nothing but files.
End(h, label) ==
    /\ Goto(h, label)
    /\ job' = [job EXCEPT ![h] = [NoJob EXCEPT !.cmd = job[h].cmd, !.quiet = job[h].quiet]]
Fail(h) == End(h, "failed") /\ UNCHANGED <<left, offers, pkg, work>>

\* A write to the package; a command of the other host is no longer alone.
Write(h, files) ==
    /\ pkg' = files
    /\ job' = [k \in Hosts |-> IF k = h THEN job[k] ELSE [job[k] EXCEPT !.quiet = FALSE]]
    /\ UNCHANGED <<left, offers, work>>

\* A workspace that is not in the package directory outlives an export.
AfterRemoval(w) == IF w.inside THEN [NoWork EXCEPT !.inside = TRUE] ELSE w

\* export_session, export_complex_session: what was there is removed first, with
\* the workspaces in it.
StartExport(name) ==
    /\ Spend("origin")
    /\ Local /\ Ended("origin")
    /\ pkg' = [blobs |-> <<>>, graph |-> Missing, manifest |-> Missing]
    /\ job' = [origin |-> [NoJob EXCEPT !.cmd = "export", !.name = name,
                  !.todo = SelectSeq(Paths(name.session),
                     LAMBDA p : DispositionFor(name.policy, p) = "packaged")],
               target |-> [job["target"] EXCEPT !.quiet = FALSE]]
    /\ work' = [h \in Hosts |-> AfterRemoval(work[h])]
    /\ Goto("origin", "blobs")
    /\ UNCHANGED offers

\* export_adapter_package: nothing is removed.
StartAdapterExport(name) ==
    /\ Spend("origin")
    /\ ~Local /\ Ended("origin")
    /\ job' = [job EXCEPT !["origin"] = [NoJob EXCEPT !.cmd = "export", !.name = name]]
    /\ Goto("origin", "graph")
    /\ UNCHANGED <<offers, pkg, work>>

WriteBlob ==
    LET j == job["origin"]
        bytes == Bytes(j.name.session, Head(j.todo))
    IN /\ At("origin", "blobs") /\ j.todo # <<>>
       /\ pkg' = [pkg EXCEPT !.blobs = Merge(@, [b \in {bytes} |-> bytes])]
       /\ job' = [origin |-> [j EXCEPT !.todo = Tail(@)],
                  target |-> [job["target"] EXCEPT !.quiet = FALSE]]
       /\ UNCHANGED <<left, offers, work, pc>>

WriteGraph ==
    /\ At("origin", "blobs") \/ At("origin", "graph")
    /\ job["origin"].todo = <<>>
    /\ Write("origin", [pkg EXCEPT !.graph = [body |-> job["origin"].name,
                                             graph_hash |-> job["origin"].name]])
    /\ Goto("origin", "manifest")

WriteManifest ==
    /\ At("origin", "manifest")
    /\ Write("origin", [pkg EXCEPT !.manifest =
                           IF Local THEN Manifest(job["origin"].name) ELSE Adapters])
    /\ Goto("origin", "done")

\* import, resume (with or without approval) and return-home (with or
\* without the artifact) begin with import_session.
StartImport(h, cmd, approve) ==
    /\ Spend(h)
    /\ Ended(h)
    /\ cmd \in (IF h = "target" THEN IF Local THEN {"import", "resume"} ELSE {"import"}
                                 ELSE IF Local THEN {"return"} ELSE {})
    /\ approve => cmd # "import"
    /\ job' = [job EXCEPT ![h] = [NoJob EXCEPT !.cmd = cmd, !.approve = approve]]
    /\ Goto(h, IF Local THEN "read_manifest" ELSE "read_graph")
    /\ UNCHANGED <<offers, pkg, work>>

ReadManifest(h) ==
    /\ At(h, "read_manifest")
    /\ \/ /\ pkg.manifest = Missing
          /\ Fail(h)
       \/ /\ pkg.manifest # Missing
          /\ job' = [job EXCEPT ![h].manifest = pkg.manifest]
          /\ Goto(h, "activate")
          /\ UNCHANGED <<left, offers, pkg, work>>

\* The graph is read and everything that needs no other file is checked.
Activate(h) ==
    /\ At(h, "activate")
    /\ IF pkg.graph # Missing
           /\ GraphVerified(pkg.graph, job[h].manifest)
           /\ SecurityVerified(pkg.graph, job[h].manifest)
           /\ ReplayVerified(pkg.graph)
           /\ VectorVerified(pkg.graph, job[h].manifest)
       THEN /\ job' = [job EXCEPT ![h].graph = pkg.graph]
            /\ Goto(h, "verify")
            /\ UNCHANGED <<left, offers, pkg, work>>
       ELSE Fail(h)

\* verify_artifacts reads one blob after the other; every one is read again below.
VerifyArtifacts(h) ==
    /\ At(h, "verify")
    /\ IF \A i \in DOMAIN job[h].manifest.artifacts :
             ArtifactVerified(job[h].manifest.artifacts[i])
       THEN /\ job' = [job EXCEPT ![h].todo = job[h].manifest.artifacts]
            /\ Goto(h, "restore")
            /\ UNCHANGED <<left, offers, pkg, work>>
       ELSE Fail(h)

\* One artifact is done: its entry goes to the restore report.
Report(h, a, status, sha256) ==
    job' = [job EXCEPT ![h] =
               [job[h] EXCEPT !.todo = Tail(job[h].todo),
                              !.restored = Merge(job[h].restored, [p \in {a.path} |->
                                              [status |-> status, sha256 |-> sha256]])]]

\* restore_artifacts up to the copy: the blob is hashed.
RestoreArtifact(h) ==
    LET a == Head(job[h].todo)
        found == a.sha256 \in DOMAIN pkg.blobs
    IN /\ At(h, "restore") /\ job[h].todo # <<>>
       /\ \/ /\ a.restore_policy = "external_rebind"
             /\ Report(h, a, "rebind_required", a.sha256)
             /\ UNCHANGED <<left, offers, pkg, work, pc>>
          \/ /\ a.restore_policy # "external_rebind" /\ found
             /\ pkg.blobs[a.sha256] = a.sha256
             /\ Goto(h, "copy")
             /\ UNCHANGED <<left, offers, pkg, work, job>>
          \/ /\ a.restore_policy = "quarantine_on_mismatch" /\ found
             /\ pkg.blobs[a.sha256] # a.sha256
             /\ Goto(h, "quarantine")
             /\ UNCHANGED <<left, offers, pkg, work, job>>
          \/ /\ \/ a.restore_policy # "external_rebind" /\ ~found
                \/ /\ a.restore_policy = "required" /\ found
                   /\ pkg.blobs[a.sha256] # a.sha256
             /\ Fail(h)

\* Mutant of CopyArtifact: the report repeats the manifest's hash.
CopyArtifactUnread(h) ==
    LET a == Head(job[h].todo)
    IN /\ At(h, "copy") /\ a.sha256 \in DOMAIN pkg.blobs
       /\ work' = [work EXCEPT ![h].files = Merge(@, [p \in {a.path} |-> pkg.blobs[a.sha256]])]
       /\ Report(h, a, "restored", a.sha256)
       /\ Goto(h, "restore")
       /\ UNCHANGED <<left, offers, pkg>>

\* copy_file_streaming_with_hash: the blob is read a second time and the
\* report has the hash of what was copied.
CopyArtifact(h) ==
    LET a == Head(job[h].todo)
    IN /\ At(h, "copy")
       /\ \/ /\ a.sha256 \notin DOMAIN pkg.blobs
             /\ Fail(h)
          \/ /\ a.sha256 \in DOMAIN pkg.blobs
             /\ work' = [work EXCEPT ![h].files =
                           Merge(@, [p \in {a.path} |-> pkg.blobs[a.sha256]])]
             /\ Report(h, a, "restored", pkg.blobs[a.sha256])
             /\ Goto(h, "restore")
             /\ UNCHANGED <<left, offers, pkg>>

\* The same copy, into the quarantine directory of the workspace.
QuarantineArtifact(h) ==
    LET a == Head(job[h].todo)
    IN /\ At(h, "quarantine")
       /\ \/ /\ a.sha256 \notin DOMAIN pkg.blobs
             /\ Fail(h)
          \/ /\ a.sha256 \in DOMAIN pkg.blobs
             /\ work' = [work EXCEPT ![h].quarantine =
                           Merge(@, [p \in {a.path} |-> pkg.blobs[a.sha256]])]
             /\ Report(h, a, "quarantined", pkg.blobs[a.sha256])
             /\ Goto(h, "restore")
             /\ UNCHANGED <<left, offers, pkg>>

FinishImport(h) ==
    /\ At(h, "restore") /\ job[h].todo = <<>>
    /\ IF PromptVerified(job[h].graph, job[h].manifest)
       THEN /\ \/ job[h].cmd = "import" /\ End(h, "done")
               \/ job[h].cmd = "resume" /\ Goto(h, "reread") /\ UNCHANGED job
               \/ job[h].cmd = "return" /\ Goto(h, "evidence") /\ UNCHANGED job
            /\ UNCHANGED <<left, offers, pkg, work>>
       ELSE Fail(h)

\* import_adapter_package
ReadAdapterGraph(h) ==
    /\ At(h, "read_graph")
    /\ IF pkg.graph = Missing THEN Fail(h)
       ELSE /\ job' = [job EXCEPT ![h].graph = pkg.graph]
            /\ Goto(h, "conform")
            /\ UNCHANGED <<left, offers, pkg, work>>

CheckConformance(h) ==
    /\ At(h, "conform")
    /\ IF /\ pkg.manifest # Missing
          /\ job[h].graph.graph_hash = job[h].graph.body
          /\ Conforms(job[h].graph.body, pkg.manifest)
       THEN End(h, "done") /\ UNCHANGED <<left, offers, pkg, work>>
       ELSE Fail(h)

(***************************************************************************)
(* resume_imported_agent, after the import.                                *)
(***************************************************************************)
\* The graph is read again, and not verified again.
RereadGraph ==
    LET tools == GraphOf(pkg.graph.body).tools
    IN /\ At("target", "reread")
       /\ IF /\ pkg.graph # Missing /\ pkg.manifest # Missing
             /\ {"read-aws-quota", "publish-release"} \subseteq DOMAIN tools
             /\ tools["read-aws-quota"].side_effect = "read_only"
             /\ tools["read-aws-quota"].resume_policy = "retry_safe"
             /\ job["target"].approve =>
                   /\ tools["publish-release"].side_effect = "external_write"
                   /\ tools["publish-release"].resume_policy = "ask_user"
          THEN /\ job' = [job EXCEPT !["target"].graph = pkg.graph]
               /\ Goto("target", IF job["target"].approve THEN "publish" ELSE "resumed")
               /\ UNCHANGED <<left, offers, pkg, work>>
          ELSE Fail("target")

Announcement(name) == <<"announcement", name>>

Publish ==
    /\ At("target", "publish")
    /\ work' = [work EXCEPT !["target"].announcement =
                   Announcement(job["target"].graph.graph_hash)]
    /\ Goto("target", "resumed")
    /\ UNCHANGED <<left, offers, pkg, job>>

Resumed(j) == [j.graph.body EXCEPT !.stage = "resumed", !.approved = j.approve]

WriteResumedGraph ==
    /\ At("target", "resumed")
    /\ work' = [work EXCEPT !["target"].graph =
                   [body |-> Resumed(job["target"]), graph_hash |-> Resumed(job["target"])]]
    /\ Goto("target", "report")
    /\ UNCHANGED <<left, offers, pkg, job>>

WriteResumeReport ==
    LET j == job["target"]
    IN /\ At("target", "report")
       /\ work' = [work EXCEPT !["target"].report =
                     [pre |-> j.graph.graph_hash, post |-> Resumed(j),
                      written |-> IF j.approve THEN {Announcement(j.graph.graph_hash)} ELSE {},
                      proved |-> TRUE]]
       /\ End("target", "done")
       /\ UNCHANGED <<left, offers, pkg>>

(***************************************************************************)
(* return_home_after_target_resume, after the import.                      *)
(***************************************************************************)
ReadTargetGraph ==
    /\ At("origin", "evidence")
    /\ IF pkg.manifest = Missing \/ work["target"].graph = Missing THEN Fail("origin")
       ELSE /\ job' = [job EXCEPT !["origin"] =
                          [job["origin"] EXCEPT !.manifest = pkg.manifest,
                                                !.graph = work["target"].graph]]
            /\ Goto("origin", "evidence_report")
            /\ UNCHANGED <<left, offers, pkg, work>>

\* Mutant of EvidenceVerified: the report need not belong to the graph.
EvidenceVerifiedApart(g, r, m) ==
    /\ r.proved
    /\ r.pre = m.graph_hash
    /\ g.graph_hash = g.body
    /\ r.written # {}

\* What the origin requires of the target's graph g and report r.
EvidenceVerified(g, r, m) ==
    /\ r.proved
    /\ r.pre = m.graph_hash
    /\ g.graph_hash = g.body
    /\ r.post = g.graph_hash
    /\ r.written # {}
    /\ <<"artifact", "publish-announcement:post-import">> \in DOMAIN GraphOf(g.body).nodes

ReadTargetReport ==
    LET j == job["origin"]
        r == work["target"].report
    IN /\ At("origin", "evidence_report")
       /\ IF /\ r # Missing
             /\ EvidenceVerified(j.graph, r, j.manifest)
             /\ j.approve => r.written = {work["target"].announcement}
          THEN /\ job' = [job EXCEPT !["origin"].report = r]
               /\ Goto("origin", "continue")
               /\ UNCHANGED <<left, offers, pkg, work>>
          ELSE Fail("origin")

WriteContinuation ==
    /\ At("origin", "continue")
    /\ work' = [work EXCEPT !["origin"].announcement =
                   <<"continuation", job["origin"].report.post>>]
    /\ Goto("origin", "returned")
    /\ UNCHANGED <<left, offers, pkg, job>>

WriteReturnedGraph ==
    LET returned == [job["origin"].graph.body EXCEPT !.stage = "returned"]
    IN /\ At("origin", "returned")
       /\ work' = [work EXCEPT !["origin"].graph =
                     [body |-> returned, graph_hash |-> returned]]
       /\ Goto("origin", "roundtrip")
       /\ UNCHANGED <<left, offers, pkg, job>>

WriteRoundtripReport ==
    LET j == job["origin"]
    IN /\ At("origin", "roundtrip")
       /\ work' = [work EXCEPT !["origin"].report =
                     [pre |-> j.manifest.graph_hash, post |-> work["origin"].graph.body,
                      written |-> {work["origin"].announcement}, proved |-> TRUE]]
       /\ End("origin", "done")
       /\ UNCHANGED <<left, offers, pkg>>

(***************************************************************************)
(* Faults.                                                                 *)
(***************************************************************************)
Kill(h) ==
    /\ Spend("faults")
    /\ ~Ended(h)
    /\ Goto(h, "idle")
    /\ job' = [job EXCEPT ![h] = NoJob]
    /\ UNCHANGED <<offers, pkg, work>>

Disturbed == [k \in Hosts |-> [job[k] EXCEPT !.quiet = FALSE]]

\* Between two commands one field of a complete package is no longer what
\* was written.
DamagePackage ==
    LET m == pkg.manifest
        fields == {"graph_hash", "signature", "provenance", "signer",
                   "byte_hash", "token_hash", "kv_hash", "response"}
    IN /\ Local /\ Spend("faults")
       /\ \A h \in Hosts : Ended(h)
       /\ m # Missing /\ pkg.graph = [body |-> m.graph_hash, graph_hash |-> m.graph_hash]
       /\ m = Manifest(m.graph_hash)
       /\ pkg' \in {[pkg EXCEPT !.manifest[f] = Damaged] : f \in fields}
                 \cup {[pkg EXCEPT !.manifest[f] = {}] : f \in {"trusted", "runtimes", "tools"}}
                 \cup {[pkg EXCEPT !.manifest.artifacts[1].path = "elsewhere"],
                       [pkg EXCEPT !.manifest.vector.results = Damaged],
                       [pkg EXCEPT !.manifest.artifacts[1].sha256 = Damaged],
                       [pkg EXCEPT !.graph.body = Damaged],
                       [pkg EXCEPT !.graph.graph_hash = Damaged]}
       /\ job' = Disturbed
       /\ UNCHANGED <<offers, work, pc>>

\* At any time a blob is damaged or lost.
DamageBlob ==
    /\ Spend("faults")
    /\ \E b \in DOMAIN pkg.blobs :
          \/ pkg' = [pkg EXCEPT !.blobs[b] = Damaged]
          \/ pkg' = [pkg EXCEPT !.blobs = [c \in DOMAIN @ \ {b} |-> @[c]]]
    /\ job' = Disturbed
    /\ UNCHANGED <<offers, work, pc>>

\* The evidence is damaged on its way to the origin.
DamageEvidence ==
    /\ Spend("faults")
    /\ \/ /\ work["target"].graph # Missing
          /\ work' = [work EXCEPT !["target"].graph.body = Damaged]
       \/ /\ work["target"].report # Missing
          /\ work' = [work EXCEPT !["target"].report.proved = FALSE]
    /\ job' = Disturbed
    /\ UNCHANGED <<offers, pkg, pc>>

(***************************************************************************)
(* Specification.                                                          *)
(***************************************************************************)
\* The package directory after an export that came to its end.
Exported(n) ==
    LET m == Manifest(n)
    IN [blobs |-> [b \in {m.artifacts[i].sha256 : i \in
                           {i \in DOMAIN m.artifacts : m.artifacts[i].blob}} |-> b],
        graph |-> [body |-> n, graph_hash |-> n],
        manifest |-> m]

\* An earlier export has left its package if the plain complex session is
\* offered.  By default the commands put a workspace into the package directory,
\* with --workspace somewhere else.
Init ==
    /\ offers \in LocalOffers \cup {AdapterNames} \cup {{f} : f \in ForeignNames}
    /\ pkg = IF Name("complex", NoPolicy) \in offers
             THEN Exported(Name("complex", NoPolicy))
             ELSE [blobs |-> <<>>, graph |-> Missing, manifest |-> Missing]
    /\ work = [h \in Hosts |-> [NoWork EXCEPT !.inside = offers \in DefaultPlace]]
    /\ pc = [h \in Hosts |-> "idle"]
    /\ job = [h \in Hosts |-> NoJob]
    /\ left = IF offers \cap ForeignNames = {}
              THEN [origin |-> Commands["origin"], target |-> Commands["target"],
                    faults |-> Faults]
              ELSE [origin |-> 1, target |-> 1, faults |-> Faults]

Next ==
    \/ \E n \in offers : StartExport(n) \/ StartAdapterExport(n)
    \/ WriteBlob \/ WriteGraph \/ WriteManifest
    \/ \E h \in Hosts :
          \/ \E cmd \in {"import", "resume", "return"}, approve \in BOOLEAN :
                StartImport(h, cmd, approve)
          \/ ReadManifest(h) \/ Activate(h) \/ VerifyArtifacts(h)
          \/ RestoreArtifact(h) \/ CopyArtifact(h) \/ QuarantineArtifact(h)
          \/ FinishImport(h)
          \/ ReadAdapterGraph(h) \/ CheckConformance(h)
          \/ Kill(h)
    \/ RereadGraph \/ Publish \/ WriteResumedGraph \/ WriteResumeReport
    \/ ReadTargetGraph \/ ReadTargetReport
    \/ WriteContinuation \/ WriteReturnedGraph \/ WriteRoundtripReport
    \/ DamagePackage \/ DamageBlob \/ DamageEvidence

Spec == Init /\ [][Next]_vars

(***************************************************************************)
(* Properties.                                                             *)
(***************************************************************************)
\* The restore report of import_session tells what is in the workspace, also
\* when a blob changes between the verification, the hash and the copy: what is
\* reported restored or quarantined is in its place with the reported hash.
\* Only an export that removes the package directory, and a workspace in it,
\* takes it away while the command runs.
RestoreReportIsTrue ==
    \A h \in Hosts : \A p \in DOMAIN job[h].restored :
        LET r == job[h].restored[p]
            Holds(place) == IF p \in DOMAIN place THEN place[p] = r.sha256
                            ELSE work[h].inside /\ ~job[h].quiet
        IN /\ r.status = "restored" => Holds(work[h].files)
           /\ r.status = "quarantined" => Holds(work[h].quarantine)

\* The package is as some export wrote it.
Intact ==
    \E n \in offers :
        /\ pkg.graph = [body |-> n, graph_hash |-> n]
        /\ Local => /\ pkg.manifest = Manifest(n)
                    /\ \A i \in DOMAIN pkg.manifest.artifacts :
                          ArtifactVerified(pkg.manifest.artifacts[i])
        /\ ~Local => pkg.manifest = Adapters

\* Builders and validators agree: a package of the harness or of an adapter
\* that is complete and that nobody touches meanwhile is never refused.
\* Only a session without the pending tool calls cannot be resumed.
IntactIsAccepted ==
    \A h \in Hosts :
        /\ pc[h] = "failed" /\ job[h].quiet
        /\ job[h].cmd \in {"import", "resume"}
        /\ offers \cap ForeignNames = {}
        => \/ ~Intact
           \/ job[h].cmd = "resume" /\ pkg.graph.body.session = "reference"

\* A graph past the checks of import_session does not make the target repeat
\* a side effect: what may run again without asking does not write and was
\* not refused, and a pending write has a manual policy and no refusal.
ReplayIsGated ==
    \A h \in Hosts : pc[h] = "verify" =>
        LET tools == GraphOf(job[h].graph.body).tools
        IN \A t \in DOMAIN tools :
            LET call == tools[t]
                refused == call.approval_state \in {"denied", "expired"}
            IN /\ Audit(call) = "retry_allowed" => ~Writes(call) /\ ~refused
               /\ Writes(call) /\ call.status \in Pending =>
                     call.resume_policy \in Manual /\ ~refused
               /\ Writes(call) => call.resume_policy # "retry_safe"

\* What a resume ran is not run again from the graph it left, and that graph
\* passes the replay audit, whether or not the publish was approved.
ResumedIsNotReplayed ==
    /\ pc["target"] = "report"
    /\ work["target"].graph # Missing /\ work["target"].graph.body # Damaged
    =>
        LET tools == GraphOf(work["target"].graph.body).tools
        IN /\ \A t \in DOMAIN tools : Audit(tools[t]) \notin {"reject", "retry_allowed"}
           /\ job["target"].approve => Audit(tools["publish-release"]) = "no_replay"

\* The graph that comes home has no edge into the void and no unknown actor,
\* nothing in it is pending, and it continues the graph of this package:
\* evidence of two different resumes, of an unapproved one or of another
\* package is never accepted.
ReturnedGraphIsWhole ==
    pc["origin"] = "roundtrip" =>
        LET body == work["origin"].graph.body
            g == GraphOf(body)
        IN /\ Closed(g)
           /\ \A t \in DOMAIN g.tools : g.tools[t].status \notin Pending
           /\ [body EXCEPT !.stage = "exported", !.approved = FALSE]
                = job["origin"].manifest.graph_hash
=============================================================================
