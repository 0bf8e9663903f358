---------------------------- MODULE Orchestrator ----------------------------
(***************************************************************************)
(* crates/orchestrator: the MigrationOrchestrator's counters and the       *)
(* checks of its ResourcePolicy, as functions of their state.  The daemon  *)
(* keeps one orchestrator for all its connections.                         *)
(***************************************************************************)
EXTENDS Integers

NewOrchestrator == [active |-> 0, failures |-> 0]

CheckCircuitBreaker(policy, o) == o.failures < policy.breaker
CheckConcurrency(policy, o) == o.active < policy.max_concurrent
CheckMemoryAllocation(policy, requested, allocated) ==
    allocated + requested <= policy.quota

(* Mutant of MayInitiate: the circuit breaker is not consulted. *)
MayInitiateUnbroken(policy, o, size) ==
    /\ CheckConcurrency(policy, o)
    /\ CheckMemoryAllocation(policy, size, 0)

(* initiate_migration succeeds: breaker, concurrency, and the memory quota *)
(* with nothing counted as allocated.                                      *)
MayInitiate(policy, o, size) ==
    /\ CheckCircuitBreaker(policy, o)
    /\ CheckConcurrency(policy, o)
    /\ CheckMemoryAllocation(policy, size, 0)

Initiated(o) == [o EXCEPT !.active = @ + 1]

(* Mutants of RecordFailure and RecordSuccess: an unguarded decrement, and *)
(* none at all.                                                            *)
RecordFailureUnguarded(o) == [active |-> o.active - 1, failures |-> o.failures + 1]
RecordSuccessUnguarded(o) == [active |-> o.active - 1, failures |-> 0]
RecordFailureStillActive(o) == [o EXCEPT !.failures = @ + 1]

RecordFailure(o) ==
    [active   |-> IF o.active > 0 THEN o.active - 1 ELSE 0,
     failures |-> o.failures + 1]

RecordSuccess(o) ==
    [active   |-> IF o.active > 0 THEN o.active - 1 ELSE 0,
     failures |-> 0]
=============================================================================
