----------------------- MODULE MigrationStateMachine -----------------------
(***************************************************************************)
(* crates/orchestrator/src/state.rs: the formal state machine of a         *)
(* migration, one per element of Migrations.  It is the abstract           *)
(* specification that the daemon and its clients implement (Migration).    *)
(***************************************************************************)
EXTENDS Integers

CONSTANT Migrations
VARIABLE state   \* current_state of every machine

MigrationState == {"Idle", "Extracting", "Streaming", "Injecting", "Validating",
                   "Committed", "RolledBack"}
Terminal == {"Committed", "RolledBack"}

(* The match of transition_to: a terminal state refuses even itself. *)
ValidTransition(from, to) ==
    \/ <<from, to>> \in {<<"Idle", "Extracting">>, <<"Extracting", "Streaming">>,
                         <<"Streaming", "Injecting">>, <<"Injecting", "Validating">>,
                         <<"Validating", "Committed">>}
    \/ from \notin Terminal /\ to \in {from, "RolledBack"}

MachineInit == state = [m \in Migrations |-> "Idle"]

TransitionTo(m, to) ==
    /\ ValidTransition(state[m], to)
    /\ state' = [state EXCEPT ![m] = to]

MachineNext == \E m \in Migrations, to \in MigrationState : TransitionTo(m, to)

MachineSpec == MachineInit /\ [][MachineNext]_state
=============================================================================
