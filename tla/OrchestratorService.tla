------------------------ MODULE OrchestratorService ------------------------
(***************************************************************************)
(* The orchestrator library in use: migrations that share one              *)
(* MigrationOrchestrator, each with the state machine initiate_migration   *)
(* returned.  The callers are external: a caller drives its machine with   *)
(* transition_to and, once the machine is terminal, records the result     *)
(* once.  Between the last transition and the recording other callers run. *)
(***************************************************************************)
EXTENDS Orchestrator, MigrationStateMachine, FiniteSets

CONSTANTS
    Policy,  \* ResourcePolicy: max_concurrent, quota, breaker
    Size     \* migration -> kv_cache_size_bytes of its decision

ASSUME PolicyAssumption ==
    /\ Policy \in [max_concurrent : Nat, quota : Nat, breaker : Nat]
    /\ Size \in [Migrations -> Nat]

VARIABLES
    orch,    \* the shared counters
    holder   \* migrations that hold a machine: "none", "open", "recorded"

serviceVars == <<state, orch, holder>>

ServiceInit ==
    /\ MachineInit
    /\ orch = NewOrchestrator
    /\ holder = [m \in Migrations |-> "none"]

InitiateMigration(m) ==
    /\ holder[m] = "none"
    /\ MayInitiate(Policy, orch, Size[m])
    /\ orch' = Initiated(orch)
    /\ holder' = [holder EXCEPT ![m] = "open"]
    /\ UNCHANGED state

Transition(m) ==
    /\ holder[m] = "open"
    /\ \E to \in MigrationState : TransitionTo(m, to)
    /\ UNCHANGED <<orch, holder>>

Record(m) ==
    /\ holder[m] = "open"
    /\ state[m] \in Terminal
    /\ orch' = IF state[m] = "Committed" THEN RecordSuccess(orch)
                                         ELSE RecordFailure(orch)
    /\ holder' = [holder EXCEPT ![m] = "recorded"]
    /\ UNCHANGED state

(* The caller asks again with a new machine. *)
Renew(m) ==
    /\ holder[m] = "recorded"
    /\ holder' = [holder EXCEPT ![m] = "none"]
    /\ state' = [state EXCEPT ![m] = "Idle"]
    /\ UNCHANGED orch

ServiceNext ==
    \E m \in Migrations : InitiateMigration(m) \/ Transition(m) \/ Record(m) \/ Renew(m)

ServiceSpec == ServiceInit /\ [][ServiceNext]_serviceVars

-----------------------------------------------------------------------------
Live == {m \in Migrations : holder[m] = "open"}
Tripped == ~CheckCircuitBreaker(Policy, orch)

(* active_migrations is the number of migrations initiated and not yet     *)
(* recorded, in every interleaving, and never exceeds the policy; so the   *)
(* decrements never meet zero.                                             *)
ActiveCountsLive ==
    /\ orch.active = Cardinality(Live)
    /\ orch.active <= Policy.max_concurrent

(* A tripped circuit breaker is re-armed only by a migration that was      *)
(* already running when it tripped: once it is tripped and nothing runs,   *)
(* no migration is admitted ever again.                                    *)
TrippedIsFinal == [][Tripped /\ Live = {} => Tripped' /\ Live' = {}]_serviceVars
=============================================================================
