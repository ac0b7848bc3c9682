---------------------------- MODULE AttemptState ----------------------------
(***************************************************************************)
(* The seven independent dimensions of an attempt's state, the transition  *)
(* table of each dimension, the cross-dimension contradictions the domain  *)
(* refuses, and the two scheduler predicates over them.  Pure operators:   *)
(* every component that moves an attempt goes through ValidTransition.     *)
(***************************************************************************)

OrchestrationTerminal == {"succeeded", "failed", "cancelled", "timed_out"}

Orchestrations ==
    {"queued", "preparing", "dispatching", "submitted", "running",
     "collecting", "blocked", "reconciling", "cancelling", "needs_attention"}
    \cup OrchestrationTerminal

\* Targets every live orchestration state may reach.
Settling == {"failed", "cancelled", "timed_out"}

OrchestrationTransitions ==
    [o \in Orchestrations |->
       CASE o = "queued"      -> {"preparing", "blocked"} \cup Settling
         [] o = "preparing"   -> {"queued", "dispatching", "blocked", "reconciling",
                                  "cancelling", "needs_attention"} \cup Settling
         [] o = "dispatching" -> {"submitted", "running", "collecting", "reconciling",
                                  "cancelling", "needs_attention"} \cup Settling
         [] o = "submitted"   -> {"running", "collecting", "reconciling",
                                  "cancelling", "needs_attention"} \cup Settling
         [] o = "running"     -> {"collecting", "reconciling", "cancelling",
                                  "needs_attention"} \cup Settling
         [] o = "collecting"  -> {"succeeded", "blocked", "reconciling",
                                  "needs_attention"} \cup Settling
         [] o = "blocked"     -> {"queued", "preparing", "dispatching", "reconciling",
                                  "cancelling", "needs_attention"} \cup Settling
         [] o = "reconciling" -> {"preparing", "dispatching", "submitted", "running",
                                  "collecting", "blocked", "cancelling",
                                  "needs_attention"} \cup Settling
         [] o = "cancelling"  -> {"collecting", "reconciling", "needs_attention",
                                  "succeeded"} \cup Settling
         [] o = "needs_attention" -> {"submitted", "running", "collecting",
                                      "reconciling", "cancelling",
                                      "succeeded"} \cup Settling
         [] OTHER -> {}]

ExecutionTerminal == {"succeeded", "failed", "cancelled", "timed_out"}
ExecutionActive   == {"queued", "starting", "running"}
Executions == {"not_submitted", "unknown"} \cup ExecutionActive \cup ExecutionTerminal

ExecutionTransitions ==
    [e \in Executions |->
       CASE e = "not_submitted" -> {"unknown"} \cup ExecutionActive \cup ExecutionTerminal
         [] e = "unknown"  -> {"not_submitted"} \cup ExecutionActive \cup ExecutionTerminal
         [] e = "queued"   -> {"starting", "running"} \cup ExecutionTerminal
         [] e = "starting" -> {"running"} \cup ExecutionTerminal
         [] e = "running"  -> ExecutionTerminal
         [] OTHER -> {}]

Results == {"not_available", "collecting", "available", "incomplete", "invalid", "expired"}

ResultTransitions ==
    [r \in Results |->
       CASE r = "not_available" -> {"collecting", "expired"}
         [] r = "collecting" -> {"available", "incomplete", "invalid", "expired"}
         [] r = "available"  -> {"expired"}
         [] r \in {"incomplete", "invalid"} -> {"collecting", "expired"}
         [] OTHER -> {}]

Cancellations ==
    {"not_requested", "requested", "requesting", "accepted", "prevented",
     "confirmed", "too_late", "manual_required"}

CancellationTransitions ==
    [c \in Cancellations |->
       CASE c = "not_requested" -> {"requested", "prevented"}
         [] c = "requested"  -> {"requesting", "accepted", "prevented", "confirmed",
                                 "too_late", "manual_required"}
         [] c = "requesting" -> {"accepted", "confirmed", "too_late", "manual_required"}
         [] c = "accepted"   -> {"confirmed", "too_late", "manual_required"}
         [] c = "manual_required" -> {"requested", "confirmed", "too_late"}
         [] OTHER -> {}]

RemoteActivities == {"not_started", "unknown", "possible", "active", "inactive"}

RemoteActivityTransitions ==
    [r \in RemoteActivities |->
       CASE r = "not_started" -> {"unknown", "possible", "active", "inactive"}
         [] r = "unknown"  -> {"possible", "active", "inactive"}
         [] r = "possible" -> {"active", "inactive"}
         [] r = "active"   -> {"inactive"}
         [] OTHER -> {}]

ReleaseEvidences ==
    {"unknown", "not_applicable", "not_observable", "provider_reported", "confirmed"}

ReleaseEvidenceTransitions ==
    [r \in ReleaseEvidences |->
       CASE r = "unknown" -> ReleaseEvidences \ {"unknown"}
         [] r = "not_observable"    -> {"provider_reported", "confirmed"}
         [] r = "provider_reported" -> {"confirmed"}
         [] OTHER -> {}]

AttemptStates ==
    [orch : Orchestrations, exec : Executions, result : Results,
     cancel : Cancellations, remote : RemoteActivities,
     release : ReleaseEvidences, deadline : BOOLEAN]

InitialAttemptState ==
    [orch |-> "queued", exec |-> "not_submitted", result |-> "not_available",
     cancel |-> "not_requested", remote |-> "not_started", release |-> "unknown",
     deadline |-> FALSE]

-----------------------------------------------------------------------------
(* AttemptState.Validate, one conjunct per dimension it constrains.        *)

ExecutionConsistent(s) ==
    /\ s.exec \in ExecutionTerminal => s.remote = "inactive"
    /\ s.exec \in ExecutionActive => s.remote \notin {"not_started", "inactive"}
    /\ s.exec = "not_submitted" => s.remote \notin {"possible", "active"}

ResultConsistent(s) ==
    /\ s.result # "not_available" => s.exec \in ExecutionTerminal
    /\ s.result = "collecting" =>
         s.orch \in {"collecting", "reconciling", "needs_attention"}
    /\ s.result \in {"incomplete", "invalid"} =>
         s.orch \in {"collecting", "reconciling", "needs_attention", "failed"}

CancellationConsistent(s) ==
    /\ s.cancel = "prevented" =>
         s.exec = "not_submitted" /\ s.remote \in {"not_started", "inactive"}
    /\ s.cancel = "confirmed" => s.exec = "cancelled" /\ s.remote = "inactive"
    /\ s.cancel = "too_late" => s.exec \in ExecutionTerminal

ReleaseConsistent(s) ==
    /\ s.release = "not_applicable" =>
         s.exec = "not_submitted" /\ s.orch \in OrchestrationTerminal
    /\ s.release \in {"provider_reported", "confirmed"} => s.remote = "inactive"

OrchestrationConsistent(s) ==
    /\ s.orch = "submitted" =>
         s.exec # "not_submitted" /\ s.remote \notin {"not_started", "inactive"}
    /\ s.orch = "running" => s.exec \in {"starting", "running"}
    /\ s.orch = "collecting" => s.exec \in ExecutionTerminal
    /\ s.orch = "succeeded" =>
         /\ s.exec = "succeeded"
         /\ s.result \in {"available", "expired"}
         /\ s.cancel \in {"not_requested", "too_late"}
    /\ s.orch = "failed" =>
         /\ s.exec \in {"not_submitted", "succeeded", "failed"}
         /\ s.cancel \in {"not_requested", "too_late"}
    /\ s.orch = "cancelled" =>
         /\ s.cancel \in {"prevented", "confirmed"}
         /\ s.exec \in {"not_submitted", "cancelled"}
    /\ s.orch = "timed_out" =>
         /\ s.cancel \in {"not_requested", "too_late"}
         /\ s.deadline
         /\ s.exec \in {"not_submitted", "timed_out"}
    /\ s.orch \in OrchestrationTerminal => s.remote \in {"inactive", "not_started"}

ValidState(s) ==
    /\ ExecutionConsistent(s)
    /\ ResultConsistent(s)
    /\ CancellationConsistent(s)
    /\ ReleaseConsistent(s)
    /\ OrchestrationConsistent(s)

Moves(table, from, to) == from = to \/ to \in table[from]

\* Exact absence of the remote resource ends activity without an outcome.
ExactAbsence(s, t) ==
    /\ s.exec \in ExecutionActive
    /\ t.exec = "unknown"
    /\ t.orch = "needs_attention"
    /\ t.remote = "inactive"
    /\ t.release = "provider_reported"

ValidTransition(s, t) ==
    /\ ValidState(s)
    /\ ValidState(t)
    /\ Moves(OrchestrationTransitions, s.orch, t.orch)
    /\ Moves(ExecutionTransitions, s.exec, t.exec) \/ ExactAbsence(s, t)
    /\ Moves(ResultTransitions, s.result, t.result)
    /\ Moves(CancellationTransitions, s.cancel, t.cancel)
    /\ Moves(RemoteActivityTransitions, s.remote, t.remote)
    /\ Moves(ReleaseEvidenceTransitions, s.release, t.release)
    /\ s.deadline => t.deadline

-----------------------------------------------------------------------------
(* Predicates other packages take over the state.                          *)

\* Nothing remote can exist: safe to reclaim for preparation.
LocalOnly(s) ==
    /\ ValidState(s)
    /\ ~s.deadline
    /\ s.cancel = "not_requested"
    /\ s.exec = "not_submitted"
    /\ s.remote = "not_started"
    /\ s.result = "not_available"
    /\ s.orch \in {"queued", "preparing", "blocked"}

\* The attempt still counts against its account's capacity.
HoldsAccount(s, barrier) ==
    \/ ~ValidState(s)
    \/ /\ s.remote # "inactive"
       /\ ~ /\ s.orch \in OrchestrationTerminal
            /\ s.exec = "not_submitted"
            /\ s.remote = "not_started"
       /\ \/ barrier
          \/ s.remote # "not_started"
          \/ s.orch \in {"dispatching", "submitted", "running", "cancelling",
                         "reconciling", "needs_attention"}
          \/ s.exec # "not_submitted"

CancellationPending(s) == s.cancel \in {"requested", "requesting", "accepted"}

\* A new attempt may replace this one.
RetryAllowed(s) ==
    /\ ValidState(s)
    /\ s.remote \in {"inactive", "not_started"}
    /\ s.exec # "succeeded"
    /\ s.orch \in OrchestrationTerminal
    /\ s.exec \in {"not_submitted"} \cup ExecutionTerminal

\* FinalState: results never upgrade execution, cancellation or release evidence.
\* completed: the runner's own phase in the verified result.
FinalState(s, completed) ==
    LET ordinary == s.cancel \in {"not_requested", "too_late"}
        orch == CASE ordinary /\ s.exec = "succeeded" ->
                       IF completed THEN "succeeded" ELSE "failed"
                  [] ordinary /\ s.exec = "failed" -> "failed"
                  [] ordinary /\ s.exec = "timed_out" -> "timed_out"
                  [] s.exec = "cancelled" /\ s.cancel = "confirmed" -> "cancelled"
                  [] OTHER -> "needs_attention"
    IN  [s EXCEPT !.result = "available", !.orch = orch,
                  !.deadline = @ \/ orch = "timed_out"]
=============================================================================
