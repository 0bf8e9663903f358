----------------------------- MODULE Migration -----------------------------
(***************************************************************************)
(* Clients and the daemon together, over connections that may be reset.    *)
(***************************************************************************)
EXTENDS Daemon, MigrateClient

vars == <<daemonVars, cpc, sent, outcome>>

Init == DaemonInit /\ ClientInit

(* The network resets a connection: what is in flight is lost. *)
Reset(c) ==
    /\ "reset" \in Faults
    /\ net[c].st \notin {"none", "dead"}
    /\ net' = [net EXCEPT ![c] = DeadLink]
    /\ UNCHANGED <<backlog, cur, handlerVars, cache, orchestrator, ended,
                   cpc, sent, outcome>>

DaemonActs == DaemonNext /\ UNCHANGED <<cpc, sent, outcome>>

ClientActs(c) ==
    /\ ClientStep(c)
    /\ UNCHANGED <<cur, handlerVars, cache, orchestrator, ended>>

ClientCrashes(c) ==
    /\ Crash(c)
    /\ UNCHANGED <<cur, handlerVars, cache, orchestrator, ended>>

Done == (\A c \in Conns : cpc[c] = "done") /\ cur = NoConn /\ backlog = <<>>
Terminated == Done /\ UNCHANGED vars

Next ==
    \/ DaemonActs
    \/ \E c \in Conns : ClientActs(c) \/ ClientCrashes(c) \/ Reset(c)
    \/ Terminated

Spec == Init /\ [][Next]_vars

(* The daemon's task runs whenever it can; so does every client process.   *)
(* Failures are never forced.                                              *)
FairSpec ==
    /\ Spec
    /\ WF_vars(DaemonActs)
    /\ \A c \in Conns : WF_vars(ClientActs(c))

-----------------------------------------------------------------------------
(* Types of all the variables. *)
TypeOK ==
    /\ \A c \in Conns : net[c].st \in LinkStates
    /\ backlog \in Seq(Conns)
    /\ DaemonTypeOK
    /\ cpc \in [Conns -> Awaited]
    /\ sent \in [Conns -> Nat]
    /\ outcome \in [Conns -> Outcomes]

CachedFrom(c) == {t \in UNION {cache[h] : h \in Hashes} : t.from = c}

(* The daemon sends a successful CommitResponse only when, for every block *)
(* hash of the header the client built and every layer, both tensors of    *)
(* that layer are in the target cache and were sent on this connection.    *)
CommitInstallsAll ==
    [][\A c \in Conns :
          ended[c] = "none" /\ ended'[c] = "committed" =>
              \A i \in DOMAIN HeaderOf(c).block_hashes :
                  Whole(cache'[HeaderOf(c).block_hashes[i]], c, Job[c].n_layers)]_vars

(* The client's manifest never claims more than the target did: phase      *)
(* "committed" only after the daemon committed this connection, and        *)
(* "graph_binding_failed" only after it dropped the connection with none   *)
(* of its tensors in the cache.                                            *)
ManifestTellsTheTruth ==
    \A c \in Conns :
        /\ outcome[c] = "committed" => ended[c] = "committed"
        /\ outcome[c] = "graph_binding_failed" =>
               ended[c] = "failed" /\ CachedFrom(c) = {}

Admissible(c) ==
    /\ Job[c].seq_len <= MaxContext
    /\ ValidateHeader(HeaderOf(c))
    /\ Job[c].graph # NoGraph => ValidateAgentGraphBinding(BindingOf(c), HeaderOf(c))

(* Nothing of a migration whose context, header or graph binding does not  *)
(* validate is ever active in the target cache.                            *)
RefusedIsNeverActive == \A c \in Conns : CachedFrom(c) # {} => Admissible(c)

(* A cached block has the layers of the client that sent it: none is cut   *)
(* short or mixed, no matter which migrations failed, were repeated or     *)
(* share the hash.                                                         *)
CachedBlocksHaveAllLayers ==
    \A h \in Hashes : cache[h] # {} =>
        \E c \in Conns : Whole(cache[h], c, Job[c].n_layers)

(* Client and daemon run in lock step: on an open connection whose client  *)
(* waits, exactly one frame is in flight, except while the daemon works on *)
(* the injection.  So they never wait for each other, and no frame is left *)
(* unread.                                                                 *)
LockStep ==
    \A c \in Conns :
        net[c].st = "open" /\ cpc[c] # "done" =>
            Len(net[c].toDaemon) + Len(net[c].toClient)
                = (IF cur = c /\ phase = "inject" THEN 0 ELSE 1)

(* The state of c's migration in the terms of the orchestrator's state     *)
(* machine: extraction precedes the connection, streaming lasts from the   *)
(* accepted header to the last frame before the injection.                 *)
StateOf(c) ==
    CASE ended[c] = "committed" -> "Committed"
      [] ended[c] \in {"failed", "rejected"} -> "RolledBack"
      [] ended[c] = "none" /\ cur = c ->
            (CASE phase \in {"capability", "header"} -> "Extracting"
               [] phase \in {"chunks", "streamed", "bound"} -> "Streaming"
               [] phase = "inject" /\ staged # {} -> "Injecting"
               [] OTHER -> "Validating")
      [] OTHER -> IF cpc[c] = "start" THEN "Idle"
                  ELSE IF net[c].st = "none" THEN "RolledBack" ELSE "Extracting"

States == [c \in Conns |-> StateOf(c)]

Machine == INSTANCE MigrationStateMachine WITH Migrations <- Conns, state <- States

(* Every migration, as the daemon and its client run it, follows the       *)
(* documented state machine IDLE, EXTRACTING, STREAMING, INJECTING,        *)
(* VALIDATING, COMMITTED or ROLLED_BACK, though neither uses the type.     *)
ImplementsStateMachine == Machine!MachineSpec

(* Whatever fails, every client that is not stalled comes to an end, since *)
(* the daemon leaves every handler.                                        *)
EveryClientEnds == \A c \in Conns : <>(cpc[c] = "done")

(* Without failures, an admissible migration commits on both sides and any *)
(* other one is refused.                                                   *)
CleanRunsCommit ==
    \A c \in Conns :
        <>(IF ManifestLoads(c) /\ Admissible(c)
           THEN outcome[c] = "committed" /\ ended[c] = "committed"
           ELSE outcome[c] \in {"failed", "graph_binding_failed"})

-----------------------------------------------------------------------------
(* What the documentation and the messages say, and the code does not do.  *)

(* A migration the daemon ended without commit has left no tensor in the   *)
(* target cache (docs/graph-attached-kv-migration-plan.md, Transaction     *)
(* Model).  The handler injects before it validates and never removes.     *)
FailedLeavesNothing == \A c \in Conns : ended[c] = "failed" => CachedFrom(c) = {}

(* When the client reports "All layers injected and verified", the tensors *)
(* of each of its blocks are in the target cache.  Blocks with equal       *)
(* tokens have one hash, and the last one replaces the others.             *)
EveryBlockInstalled ==
    \A c \in Conns : outcome[c] = "committed" =>
        \A blk \in 0 .. Len(HeaderOf(c).block_hashes) - 1, name \in LayerNames(Job[c].n_layers) :
            \E t \in CachedFrom(c) : t.blk = blk /\ t.name = name
=============================================================================
