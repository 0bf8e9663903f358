# PermeantOS: TLA+ models, model checking and proofs

PermeantOS moves the KV cache of a running model, optionally bound to an
agent's memory graph, from a source host to a target host. This directory
holds TLA+ models of the parts of it that keep state and interact, the TLC
configurations that check them, and TLAPS proofs about them. Every definition
is translated from the source; `PROJECT.json` names the lines (`map`), the
runs, the theorems, the findings and the hazards.

## Inventory

| Part | Source | State | Operations | Interacts with | Hard behaviours |
|---|---|---|---|---|---|
| migration daemon | `crates/cli/src/main.rs` 151-462 | per connection: header, received chunks, staged blocks; across connections: injector, orchestrator | accept, capability, header, chunk, binding, inject, verify, commit | client, injector, orchestrator | one connection at a time, no timeouts, counted chunk loop, injection before validation |
| migrate client | same, 1329-1797 | position in the protocol, chunks sent, manifest | connect, send header, chunks, binding, commit request, write manifest | daemon, extractor | failures between commit and report |
| injector | `crates/injector` | block cache (mock) or an external command | inject block, verify continuation | daemon, target adapters | a command fails before or after it stored the block |
| USXF | `crates/usxf-core` | none | validate header, hash token blocks, seal/open | client, daemon | zero layers, equal tokens give equal hashes |
| transport | `crates/transport` | streams, frame validator | send/receive a message, negotiate streams, frame codec, CRC | client, daemon | reset, half-read streams |
| orchestrator | `crates/orchestrator` | active and failure counters, state machine | initiate, transition, record | callers | callers interleave, breaker, underflow, quota |
| target receiver and directory consumer | `adapters/vllm_runtime_receiver.py`, `vllm_directory_consumer.py` | files: payloads, `acked.json`, descriptors | inject, verify, reverse export | injector command, import worker | threads without locks, non-atomic writes, kills |
| import worker | `adapters/vllm_import_worker.py` | markers, its pass over the directory | scan, load, hook, mark | directory consumer, runtime | reads files that are being written, dies on any exception |
| live vLLM target | `adapters/vllm_live_runtime_registry.py`, `vllm_real_runtime_target.py` | runtime object, block slots, hashes, state file, prefix cache | create, allocate, write layers, verify, seed, continue, export | receiver threads, vLLM | no locks, partial writes, leaked slots, kills |
| runtimes with a state file | `adapters/llamacpp_runtime_bridge.py`, `llamacpp_live_state_hook.py`, `pytorch_runtime_bridge.py`, `vllm_injector.py`, `vllm_runtime_bridge.py` | one JSON file, one object in memory | register, verify, export | injector command, one process per request | read-merge-write without a lock, torn files, stale claims |
| Runpod bridge, transport proxy | `adapters/runpod_http_daemon_bridge.py`, `production_transport_proxy.py` | sessions, sockets, pipes | open, exchange, close, relay | client, daemon | timeouts that leave an answer behind, half-close, processes that end |
| Python SDK | `sdk/python/permeantos` | none between calls | `migrate_agent`, graph helpers | daemon | lock-step over a tunnel |
| live source | `adapters/mlx_live_runtime.py`, `mlx_runtime_exporter.py`, `agent_graph_span_metadata.py` | the prefilled prompt and its cache, the continuation file | extract, import reverse state | client, import worker | a prompt replaced between requests, imports that fail half-way |
| cache providers | `adapters/mlx_runtime_bridge.py`, `crates/extractor` | none | canonical tensors | client | layouts told apart by size |
| transpiler, QATQ | `crates/transpiler`, `crates/qatq-migration` | none | layout conversion, quantisation, artifact chunking | client, daemon | index arithmetic |
| agent package | `examples/agent-memory-graph/` | package directory, workspaces of two hosts | export, import, resume, return home | the two hosts share the package | files that change between check and use, repeated resumes |
| scripts | `scripts/` | – | release and evidence jobs | – | – |

## Modules

| Module | Models |
|---|---|
| `Usxf` | header, messages and the daemon's validation of them, as operators |
| `Link` | a TCP connection as `send_message`/`recv_message` see it: two streams and a status |
| `Orchestrator` | counters and checks of `MigrationOrchestrator` and `ResourcePolicy`, as operators |
| `Daemon` | `run_daemon` and `handle_migration_connection` with the injector |
| `DaemonPeer` | the daemon with peers that write arbitrary frames |
| `MigrateClient` | `run_sim_migrate` |
| `Migration` | clients and the daemon together over connections that may be reset |
| `MigrationStateMachine` | `transition_to`: the abstract specification of a migration |
| `OrchestratorService` | callers that share one orchestrator |
| `Receiver` | the threads of the receiver with the consumer hook they run |
| `ImportWorker` | the worker's loop |
| `TargetSpool` | receiver and worker on one import directory |
| `VllmRuntime` | the live vLLM target in the threads of the receiver |
| `ReferenceRuntime` | llama.cpp, PyTorch and offline vLLM runtimes around their state file |
| `StateFile` | what those files share: `None`, and a file cut by a crash |
| `KvLayout` | every element of a KV tensor from the source's cache to the target's |
| `MlxSource` | the live source, its metadata and the target's comparison with it |
| `TunnelEnds` | a client (command or SDK) and the daemon's end, as a tunnel sees them |
| `RunpodBridge` | the HTTP relay between them |
| `TransportProxy` | the pair of WebSocket proxies between them |
| `Tunnels` | what either tunnel has to provide |
| `AgentGraph` | graphs, sessions and the replay audit of the memory-graph example, as operators |
| `AgentPackage` | its commands on a package shared by two hosts |
| `DaemonProofs` | theorems about the daemon and the orchestrator |
| `MigrationProofs` | about clients and daemon together, and the refinement |
| `SpoolProofs`, `TunnelProofs` | about the spool, about each tunnel |
| `VllmProofs`, `ReferenceProofs`, `LayoutProofs` | about the runtimes, the live source and the layouts |
| `AgentProofs` | about the agent package |
| `MC*` | instances for TLC |

### Migration protocol

An action of `Daemon` is one await of the handler: receive a frame, act, answer
or return. `cur` and `phase` are the handler's place in the code; `header`,
`received`, `remaining`, `accumulated` are its locals of those names; `cache`
and `orchestrator` outlive it. `Return` is the end of the handler on every
path: the socket is dropped and the locals with it. A tensor is named by its
connection, block and name, so that the properties can say *whose* tensor is in
the cache. The injection loop visits one block per step (the map has no order);
the command backend may fail before or after the block was stored, and may
answer the verification as it likes. `cache` holds the blocks a backend has
registered: the adapters write a block layer by layer, and one that is left half
written is not registered (the layers are steps of `VllmRuntime` and
`ReferenceRuntime`). The number of chunks the handler waits for is a product in
`usize`; the models have it in the naturals, which differs from a build without
overflow checks only for layer counts beyond 2^60.

`MigrateClient` is the other end. The frames are those of `Usxf`; a block hash is
the length of the block, because the command hashes a prompt of equal tokens.
Manifest, extraction, encoding and manifest writing fail where `Faults` says.

`Migration` composes the two. `StateOf` maps its state to the documented state
machine and `ImplementsStateMachine` says that every behaviour is one of that
machine, although neither side uses the type `MigrationStateMachine`.

### Orchestrator

`OrchestratorService` is the library in the hands of callers that initiate,
drive their state machine and record the result once. The daemon uses the
library otherwise: it records results without ever initiating, which is why the
decrements are guarded (`Daemon` models that use). Nothing in the repository calls
`initiate_migration`: what `ActiveCountsLive` and `TrippedIsFinal` say, they say of
the library's interface.

### Target spool

A step of `Receiver` is one file operation of one thread. `write_text` is two
steps, truncate and write; what a reader sees in between does not parse
(`Torn`). For `acked.json` the loader turns that into the empty set, so `acked`
is what the loader would return. Two threads that write one file may leave the
tail of the longer text (`WriteOver`). `ImportWorker` takes one step per file it
reads; `Dies` is an exception that leaves `main`. Both processes may be killed
at any step; the receiver is up again at once, the worker may be started again
(`Restartable`), but nothing in the repository does so and nothing assumes it.

### Runtimes

`VllmRuntime`: a step is what one receiver thread does up to its next access to
something shared: one layer written, one attribute read or set, the file emptied
or written. `conf` is the deployment: a real runtime, one that only notes hashes
or an opaque one; a cache with a block pool, without one, or with separate key
and value tensors; a client that asks one thing at a time or several. A payload
is `Size` target blocks per layer, each cell `<<hash, index>>`, so that a block
that was overwritten shows. Creating the runtime continues the configured prompt
once (`CaptureBaseline`), which other threads may overtake because the singleton is
set before. A verification seeds the prefix cache with as many blocks of the payload
registered last as the prompt has full ones, possibly none; what the prompt is, and
so how many, is a choice (`SeedPrefixCache`). Which cached blocks vLLM then finds for
the prompt, those of the seeding or those of the baseline, is vLLM's business and
no property speaks of it. Failures inside vLLM's `generate` are left out.

`ReferenceRuntime`: `setup` chooses the runtime, whether each request is a
process of its own (as the daemon starts them) or the object lives on, and
whether the llama.cpp live hook is there. `disk` is the file, `ram` the object,
`raced` and `accepted` are history.

`KvLayout`: a tensor is its shape and row-major data, an element the position,
head and dimension it had in the source. The stages are those of the code:
canonical form, transpiled blocks, the daemon's payload, the runtime's cache, the
slot probe. Shapes are enumerated.

`MlxSource`: the exporter serves one request at a time, so an action is a request
as far as it comes; the order in which `_RUNTIME`, the continuation file and the
report are replaced decides what a failure leaves. The continuation uses the
prefill prompt, as the benchmark plans configure it.

### Tunnels

`TunnelEnds` has the client in lock step and the daemon's end; `near` and `far`
are the TCP sockets with a fin in each direction. In `RunpodBridge` a request or
its answer may be lost, or time out while the server's thread goes on;
`TransportProxy` has the four pipes, whose writes fail on a socket that is shut,
and the two accept loops, whose exceptions end a process with all its pipes. The
server answers the upgrade before it connects to the daemon, so the client's
process may already relay when that connection is made or fails. A frame that was
delivered is handled by the daemon even when the tunnel has shut the socket since;
what the daemon has not read is dropped only when its own end closes (`Close`).
Either end may be killed.

### Agent package

`AgentPackage` has one step per file operation of the commands of two hosts, with
kills. Artifacts and the evidence of a resume may be damaged between any two steps,
graph and manifest when no command runs; under a running command they change only
by another export, and it is there that a resume meets a graph it has not verified.
A quarantined artifact is read twice, to be hashed and to be copied, as a restored
one is. The default workspaces lie in the package directory, and an export removes
them with it (`AfterRemoval`; `DefaultPlace` says of which offers the workspaces are
there). The removal is one step: files that reappear while `rmtree` runs are not
modelled. `verify_artifacts` reads its files in one step, because each of them is
hashed again before it is used. The lists of trusted signers and allowed tools are
the manifest's own, as in the code: a package vouches for itself, and what the
checks establish is that its parts belong together. A graph is named by
session, policy, stage and approval; `AgentGraph!GraphOf` gives its content, so
builders and validators are compared on what they build. Packages of other
exporters enumerate all tool calls and one defect each.

## Runs

| Run | Instance | Checks | Result |
|---|---|---|---|
| `faults` | clients a, b, c; command backend; crashes, resets, failing manifests | `TypeOK`, `ManifestTellsTheTruth`, `RefusedIsNeverActive`, `CachedBlocksHaveAllLayers`, `LockStep`, `CommitInstallsAll` | holds |
| `clean` | clients b-f; mock; no faults | `CleanRunsCommit` (liveness) | holds |
| `ends` | clients b, c; command backend; all faults | `EveryClientEnds` (liveness), `ImplementsStateMachine` (refinement) | holds |
| `parts` | daemon with two peers and 19 frames; three callers of an orchestrator; a client through each tunnel | `DaemonTypeOK`, `CachedBlocksAreWhole`, `NothingIsMissing`, `CommitIsComplete`; `ActiveCountsLive`, `TrippedIsFinal`; `TunnelTypeOK`, `TunnelIsFaithful`, `CommitIsReported`, `TunnelsEnd` (liveness) | holds |
| `spool_faults` | three injects, two of one block, one check; directory consumer or live hook; kills | `SpoolTypeOK`, `AckedIsStaged`, `VerifiedWasConsumed`, `DescriptorHasPayload`, `MarkedWasDelivered`, `MarkedIsFinal` | holds |
| `spool_watching` | four requests, two injects of one block; hook that may raise; worker killed, perhaps restarted | `InjectedIsProcessed` (liveness) | holds |
| `package` | two commands per host, one kill or damage, workspaces in the package or elsewhere | `RestoreReportIsTrue`, `IntactIsAccepted`, `ReplayIsGated`, `ResumedIsNotReplayed`, `ReturnedGraphIsWhole` | holds |
| `runtimes` | vLLM, state-file runtimes, layouts and live source, each alone | `RuntimesTypeOK`; `VerifiedIsInPlace`, `RegistrationAnswersAreTrue`, `ReverseStateBelongsTogether`; `RegisteredIsKept`, `ExportTellsTheTruth`; `TransferIsRight`; `ReplyBelongsTogether`, `ImportedIsServed` | holds |
| `rollback` | client b, failing injector | `FailedLeavesNothing` | violated |
| `blocks` | client g, two equal blocks | `EveryBlockInstalled` | violated |
| `spool_acks` | two overlapping injects, no hook | `AcknowledgedPasses` | violated |
| `documented_shape` | tensors of the documented shape | `DocumentedShapeIsKept` | violated |

`parts` and `runtimes` check several specifications with disjoint variables at
once: the rigid variable `part` (and `tunnel`) says which of them moves.

**Bounds.** The clients are chosen so that the cases the properties tell apart
happen: `b` has two blocks, the last one shorter, and two layers; `a` has one
block with the hash of `b`'s first and one layer, so that each may replace the
other's; `c`'s graph reaches past its sequence; `d` exceeds the context limit; `e`
is empty; `f`'s manifest does not load; `g` has two equal blocks. Two layers and
two blocks are enough to cut or mix a block. Each client runs once and the daemon
does not restart (nothing of it is persistent); a repeated migration is another
client. One frame is in flight per peer (`Window`): the handler takes frames one
by one and cannot tell when they were written. In the spool two requests for one
block and one for another give every kind of overlap on a file; `calls` counts to
two, which stands for more.

In the tunnels a connection has five frames (capability, header, two chunks,
commit), two HTTP faults (one that leaves an answer, one after it) and two
failures of an accept loop. The vLLM runtime has two threads, three payloads of
two blocks (one with a foreign layer), one target block or five,
three requests and one kill; the pool gives out blocks from the last to the first
and never block 0, so two payloads fit and a third finds it exhausted. The
state-file runtimes have two processes, three payloads (one malformed), three
overlapping or four consecutive requests and one kill; the PyTorch cache has two
layers, of which a malformed payload replaces the first (`FillCache`), enough to
tell a cache of one payload from a mixed one. Layouts cover every
combination of up to five tokens, three heads, two dimensions, block sizes 2 and
4, up to four tokens per target block and a cache one longer, equal or one
shorter than asked for: lengths that divide and lengths that do not, more and
fewer tokens than heads. The source gets five requests of lengths below, at and
above the seed and the default, and continuations of up to two tokens. A package
sees an export, a second one, an import, a resume and a return in every order
with one fault between.

**Fairness.** `Migration!FairSpec`: weak fairness of the daemon's task and of
every client process; both run whenever they can. Crashes, resets and other
failures are never forced. `TargetSpool!FairSpec`: weak fairness of each receiver
thread and of the worker while it runs. A restart is never forced, so
`InjectedIsProcessed` has a premise: from some time on the worker is up
(`<>[](wpc # "dead")`), however often it ended before. The documents start it by
hand and have it watch the directory; whoever keeps it up gets every block marked
that was reported as injected, also when two injects of one block keep truncating
the file it reads. The tunnels:
weak fairness of every thread and process of the tunnel and of both ends; what
kills a process or loses a request is not forced. Deadlock is checked except where
a system may stop: in `parts` peers may fall silent and a tripped breaker stops
the orchestrator for good; in `package` and `runtimes` the bounded requests are
used up.

## Where code and documents disagree

With a run each (`findings` in `PROJECT.json` quotes the documents):

* **Rollback.** The staged blocks are injected before the frame is known to be a
  `CommitRequest` and before the verification, and nothing removes them.
* **Equal blocks.** The client's prompt gives all full blocks one hash; the
  target keeps the tensors of one of them and the client reports success.
* **Acknowledgements.** Overlapping injects lose one another's.
* **Canonical shape.** A tensor of the documented shape is relabelled, not
  transposed.

Seen while modelling, and where the exceptions in the properties come from:

* Migration: no receive has a timeout (`docs/implementation-plan.md:141` plans one
  per phase), so a client that is silent with its socket open holds the daemon;
  the fairness above excludes it. The memory check of `initiate_migration` takes
  the memory already allocated for 0 (`MayInitiate`). Only a rejected binding
  counts as a failure, and only if its answer could be sent.
* Spool: the worker ends on a descriptor that is being written
  (`docs/target-import-worker.md:14-16` has it watch the directory). With the
  directory consumer no continuation check passes (`HookAnswers`). A payload that
  does not validate, or a hook that raises, stops every pass at that file.
* vLLM: allocated blocks are never freed; when the pool is exhausted the
  registration falls back to slots from 0 on, over other blocks (`rt.shared`;
  `docs/aws-real-runtime-e2e-runner.md:432`). Two first requests may create two
  runtimes, and two threads may each set the hashes of a runtime, one losing the
  other's. After a kill inside the write of the state file every later
  registration fails. A noting or opaque runtime verifies from the file after a
  restart although its cache is empty. Separate tensors cut a payload they have no
  room for. The prefix cache is seeded from the payload registered last only,
  whatever hashes the verification asked for.
* State-file runtimes: overlapping commands lose blocks (`raced`); a file that
  does not parse is read as empty and written back; `_persist` erases the results
  of verifications; a long-lived llama.cpp runtime keeps the claim "proven" after
  further registrations; with the live hook a verification of two hashes is always
  refused; the PyTorch cache holds the last block though earlier hashes verify;
  the injector persists a block before its hook accepts it.
* Layouts: which axis is the sequence is undecidable for the code when there are
  no more tokens than heads (`SourceIsClear`), and with heads first when a target
  block has as many tokens as heads (`TargetIsClear`). The reference runtimes drop
  the leading 1 of the daemon's blocks and refuse them, or, when `block_size =
  head_dim`, accept them with another meaning.
* Source: a request for fewer tokens than the prompt has is answered with the
  hash of the whole text and the hash of the cut tokens, which no target passes
  together (`SamePromptIsAccepted` is about whole prompts). A request for more
  tokens than an imported prompt has replaces it by the base prompt, also when the
  request is an import that then fails. An import that fails after the runtime was
  replaced is answered with an error and has taken place.
* Tunnels: a failed `open_remote_session` leaves the local client's socket open
  until the next connection; a lost close, or a lost answer to an open, leaves the
  server's session behind (`leaked`); an exception in a proxy's accept loop ends
  all its connections; the accept loops do the TLS handshake without a timeout, so
  a peer that is silent there keeps every later connection waiting (outside the
  model, as a silent client is for the daemon); the SDK takes a short read of a length prefix for a closed
  socket and does not read the acknowledgements of chunks.
* Package: the restored copy is not compared again; a resume reads the graph
  again without verifying it; resuming twice publishes twice (`ResumedIsNotReplayed`
  is about the graph one resume leaves); an unapproved resume
  cannot return home; a re-export into the same directory removes the default
  workspace inside it.

## Proofs

All theorems hold for every value of the constants.

`DaemonProofs!TypeCorrect`: `PeerSpec => []DaemonTypeOK`, for any set of
connections, hashes and frames. `TypeInv` adds the types of the connections and
that the handler waits in a phase other than `accept` exactly when it serves a
connection. Assumed: `ContextAssumption`, `DaemonAssumption`, `FramesAssumption`.

Its safety against arbitrary peers:

* `CacheSafe`: `CachedBlocksAreWhole` is invariant.
* `VerificationSafe`: `NothingIsMissing` is invariant.
* `CommitSafe`: every step satisfies `CommitIsComplete`.

The handler only counts chunks. That the count implies completeness is the heart
of the argument: `Counting` says that the received chunks are distinct members of
the chunks the header announces and that `remaining` is the number of those still
missing, so at zero the two sets are equal (`CountAllChunks`, `AllReceived`, by
cardinality of finite sets). `Staging` ties each staged tensor to a received
chunk and each received chunk to a staged tensor; with it a completely received
stream stages whole blocks only (`StagedIsWhole`). `Injecting` says that the
blocks already visited are in the cache and those not visited are still staged.
`SafeInv` is the conjunction of these with `TypeInv` and
`CachedBlocksAreWhole`; it is inductive, the safety property alone is not.

`MigrationProofs`: clients and daemon together, for any number of clients, any
jobs, both backends, and connections, clients and injections that fail anywhere.
`MigrationInvariant` is `Spec => []MigrationInv`; from it follow `MigrationTypes`,
`TruthfulManifest`, `RefusedStaysOut`, `BlocksHaveAllLayers`, `InLockStep` and, for
every step, `CommitsInstallAll`. What a client knows it knows from the one frame
that is in flight, so the core is `Lock`: a connection is not made, queued, served
or over, and the frame in it is the one (`Expected`, `Answering`) that the phase of
the handler, the client's position, `sent` and `remaining` go with. A connection
that was reset may still hold a frame the daemon will read, which is why `Lock`
also speaks of clients that are done. With `Lock` the handler's header and binding
are its client's (`Handling`), what it injects is admissible, and a cached tensor
belongs to a migration that is being injected or is over (`Cached`): so an answer
`AgentGraphBindingAck(FALSE)` on its way means that nothing is in the cache. The
daemon's own invariant `SafeInv` is not proved again: `JobAssumption` (the frames
clients write are among `Frames`) makes the daemon's lemmas apply.

`MigrationProofs!FollowsStateMachine`: `Spec => ImplementsStateMachine`, that is,
`Migration` implements `MigrationStateMachine` under the mapping `States`. `StateIs`
says by cases what `StateOf` is; every action of a client leaves all states alone
or moves its own, every action of the daemon moves the served connection's, by a
transition `transition_to` allows. This and `CommitsInstallAll` are stated for
clients with `n_layers > 0`: `validate_header` accepts a header of no layers, the
injection loop then has nothing to visit, and the migration goes from streaming to
validating at once, with blocks it never installed.

The orchestrator, also in `DaemonProofs`: `CounterCorrect` (`ActiveCountsLive` is invariant, with the
types as its strengthening `CounterInv`) and `BreakerIsFinal`, which needs the
invariant to know that no holder is left to record a success. Assumed:
`PolicyAssumption`.

`SpoolProofs`: receiver and import worker, for any number of overlapping requests,
any deployment, kills and restarts. `SpoolInvariant` is `Spec => []SpoolInv`; from
it follow `SpoolTypes`, `AcknowledgedIsStaged`, `VerifiedConsumed`,
`PayloadIsThere`, `MarkerIsTrue` and, for every step, `MarkerIsFinal`. The
properties are not inductive: `Threads` adds where a thread inside `_inject` can be
and which files exist by then, `Acknowledged` that every hash in `acked.json` or in
a thread's copy of it belongs to a request that got past the hook, `Delivery` what
the worker has done with the block it is at. `StagedStays` is the reason why
interference does no harm here: no step of any thread takes a file away. Assumed:
`AskAssumption`.

`ReferenceProofs`: the runtimes with a state file, for any number of injector
commands, payloads, requests and kills. `RegistrationsAreKept` and
`ExportsAreTruthful` follow from `ReferenceInvariant`, `RefSpec => []RefInv`. `Kept`
extends "what was answered is in the file" to the moments when it is not: while the
file is empty, the one command that rewrites it has all of it in `new`; and a
registration between its two rewritings counts as `Promised` already. `Alone` says
what memory and file have in common when requests follow one another, `Sound` that
a proven continuation lies with the blocks it was about, in the file, in a rewriting
and in memory; `Export` what an export has read so far. Assumed: `RefAssumption`
(`None` and the torn file are not among the values; the bounds are numbers).

The live source, also in `ReferenceProofs`, for prompts, requests and continuations
of any length: `SourceTypesHold`, `RepliesBelongTogether` and `ImportedStaysServed`,
from `SourceInvHolds`. `SourceInv` relates three things that are replaced one after
the other: the cache is of the tokens in the runtime (`SoundRuntime`), the last
answer is of the text in the continuation file (`SoundReply`), and the last import
is the prompt of the runtime (`SoundImport`). Assumed: `SourceAssumption`.

`VllmProofs`: the live vLLM target, for any number of threads, payloads, layers,
blocks per payload, slots and kills, all deployments and every order of the pool.
`VerifiedStaysInPlace`, `RegistrationAnswersHold`, `ReverseStateHolds` and
`VllmTypesHold` follow from `VllmInvHolds`. No lock protects the runtime, so what
keeps payloads apart is the pool: a target block is free, or was given to one
payload, or belongs to one registration in flight (`PoolSound`, `SlotsSound`). A
registration therefore writes where nothing was placed, and one that has written
all its layers has its payload in place (`WriteSound`, `PlacesSound`). `rt.shared`
and `rt.pooled` are history: where a registration fell back to the slots from 0 on
the statements are weaker, as the properties say. `KnowsSound` and `HashesSound` say
that every hash in a runtime, in the state file or in a request comes from such a
registration; `SerialSound` and `JobAlone` what a request that has the runtime to
itself finds there. The two conjuncts of `VllmInv` that are not in `Core`,
`RegisterFailsForCause` and `ReverseStateBelongsTogether`, speak of answers already
given, so they are carried along rather than derived. Assumed: `VllmAssumption`.

`LayoutProofs`: every element of a KV tensor, for any number of tokens, heads and
dimensions, all block sizes, layouts of source and target, and both routes.
`TransfersAreRight` is `LayoutSpec => []TransferIsRight`, `TensorsStaySized` that
shape and amount of data agree. Offsets are sums of products and the indices come
back by division (`Offset3`, `Offset4`); no induction is needed, because each stage
says in one step what is at an index of its result. `Canonical` and `Blocked` state
that for the two forms of a tensor, `Stored` for the target's cache. The heart is
that writer and readers divide differently: the writer splits the position inside a
source block, the reader the position in the whole sequence, and they meet in one
cell because target blocks divide source blocks (`ReaderFinds`); two elements never
share a cell (`CellsDiffer`) and every allocated block is filled (`EveryBlock`).
`LayoutInv` joins these by stage. Assumed: `LayoutAssumption` (all sizes are
positive).

`AgentProofs`: the package, for every set of offered sessions, any further artifacts
and any number of commands and faults. `RestoreReportsHold`, `IntactStaysAccepted`,
`ReplayStaysGated`, `ResumedStaysDone` and `ReturnedStaysWhole` follow from
`AgentInvHolds`. One half is about graphs: what the exporters, a resume and a return
build is closed and passes the audit (`AuditGates` and the lemmas after it), what
`build_manifest` writes passes every check of `import_session`. The other half says
what may be in the package while commands of two hosts and damage interleave: a blob
is what its name says or damaged (`BlobsOK`); `graph.json` is as an export wrote it
or visibly damaged, and then no command has accepted it (`GraphOK`); reports describe
one restore and one resume (`RestoredOK`, `ReportOK`); a command has made sure of
what its position requires (`CommandOK`); and one that runs alone on an intact
package has refused nothing (`AcceptOK`). Assumed: `AgentAssumption`.

`TunnelProofs`: each tunnel, for migrations of any length and any number of faults.
`RunpodIsFaithful` and `ProxyIsFaithful` are `TunnelIsFaithful`, `RunpodReports` and
`ProxyReports` are `CommitIsReported`; `RunpodTypesHold` and `ProxyTypesHold` the
types. A client in lock step has one frame open, so the core of `RunpodInv` and
`ProxyInv` is the place of the one frame or answer that is under way
(`RunpodPlace`, `ProxyPlace`): in one of the sockets, in the bridge, with the last
of the server's threads, or lost, and then nothing else follows. An answer can only
be that of the frame sent last, because a bridge that gave up never posts again
while a thread may still hold the old exchange (`OneExchange`). What happens when
nothing is lost is in `RunpodCalm` and `ProxyCalm`: sockets are closed from the
daemon's end to the client's, each when it is empty, so a commit has its answer on
the way as long as the client runs, and a client that failed has left the daemon
nothing to commit. The part of `CommitIsReported` about the other tunnel is
vacuous in either theorem. Assumed: `LastAssumption`, `HttpAssumption`,
`AcceptAssumption`.

Assumptions on constants (`ContextAssumption`, `DaemonAssumption`,
`FramesAssumption`, `FaultsAssumption`, `JobAssumption`, `PolicyAssumption`,
`AskAssumption`, `RefAssumption`, `SourceAssumption`, `VllmAssumption`,
`LayoutAssumption`, `LastAssumption`, `HttpAssumption`, `AcceptAssumption`,
`AgentAssumption`) are evaluated by TLC in the runs that extend their module. The
strengthenings for daemon, migration, orchestrator, spool, state-file runtimes,
tunnels and layouts were checked by TLC on the instances of the runs as well.

Only model-checked is liveness (`CleanRunsCommit`, `EveryClientEnds`, `TunnelsEnd`,
`InjectedIsProcessed`): fairness and ENABLED are out of the prover's reach. Every
safety property, action property and refinement that a run finds to hold is proved.
`RuntimesTypeOK` and `TunnelTypeOK` join the types of specifications that run side
by side in one instance; each is proved for its own specification
(`VllmTypesHold`, `TensorsStaySized`, `SourceTypesHold`, `ReferenceInvariant`;
`RunpodTypesHold`, `ProxyTypesHold`).

## Not modelled

Cryptography (its success is the flag `meta_ok`), tensor contents and codecs
(flags `crc_ok` and `decodes`), quantisation and the migration decision (floating
point), QATQ artifacts and the binary frame codec with its validator (pure, and no
part of the migration calls them), how a vLLM engine is searched for its caches
(the constant `conf.cache`), the C++ helpers of llama.cpp (they succeed or fail),
where elements go in separate key and value tensors, authentication of the HTTP
servers, `memory_graph.py` (reads files into a dictionary), the inspection and
demo commands, the fidelity analysis and the release, planning and cloud scripts
(straight sequences that run once). `components` in `PROJECT.json` gives the
reason for each.

## Plan

1. Compose `VllmRuntime` with `Receiver` as its hook, and `MlxSource` with
   `MigrateClient`.
2. Transport: stream negotiation, frame validator and binary codec as operators
   with round-trip properties; QATQ chunking against a reference.
3. Proofs of the compositions of 1 from the invariants that are proved of their
   parts.
