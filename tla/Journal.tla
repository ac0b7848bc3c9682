------------------------------ MODULE Journal -------------------------------
(***************************************************************************)
(* dispatch.Apply: the only journal state machine.  For every action kind  *)
(* there is a guard XAllowed(j, s), the code's ErrConflict conditions, and *)
(* an operator X(j, s) that returns the facts to commit as a record        *)
(* [j |-> journal, s |-> attempt state].  Commits(j, s, r) is the check    *)
(* Apply makes on what it computed before it returns it.                   *)
(*                                                                         *)
(* Timestamps of the journal are kept as windows: "unset", then "open"     *)
(* from the first time they are recorded, then "elapsed" once the budget   *)
(* measured from them has run out.  Plans, resources and remote references *)
(* are frozen per attempt, so only their presence is kept.  Versions are   *)
(* left to the caller, which compares them for equality only.              *)
(***************************************************************************)
EXTENDS AttemptState, Integers

CONSTANT MaxFailures     \* dispatch.MaxFailures, 5 in the code

ASSUME MaxFailuresAssumption == MaxFailures \in Nat \ {0}

Phases == {"local", "staging", "ready", "submitting", "submitted", "rejected",
           "collectible", "attention", "failed", "prevented"}

Windows == {"unset", "open", "elapsed"}

\* "permanent": identity mismatch or private staging unavailable;
\* "remote_absent": the exact remote resource was reported absent;
\* "open": any other recorded condition.
Problems == {"none", "open", "permanent", "remote_absent"}

Journals ==
    [phase : Phases, plan : BOOLEAN, prepared : {"none", "pending", "ready", "public"},
     prepWindow : Windows, submitStarted : BOOLEAN, named : BOOLEAN,
     absence : Windows, ownerPresent : BOOLEAN, remote : BOOLEAN,
     obs : {"none"} \cup Executions, problem : Problems, localWindow : Windows,
     failures : 0..MaxFailures]

InitialJournal ==
    [phase |-> "local", plan |-> FALSE, prepared |-> "none", prepWindow |-> "unset",
     submitStarted |-> FALSE, named |-> FALSE, absence |-> "unset",
     ownerPresent |-> FALSE, remote |-> FALSE, obs |-> "none", problem |-> "none",
     localWindow |-> "unset", failures |-> 0]

RecoverableButSubmitting(j) ==           \* mutant: a submission is not resumed
    j.phase \in {"staging", "ready", "submitted"}

Recoverable(j) == j.phase \in {"staging", "ready", "submitting", "submitted"}

UnconfirmedPreparation(j) ==
    j.phase = "staging" /\ j.plan /\ j.prepared = "none" /\ ~j.submitStarted

RemoteAbsence(j) == j.phase = "attention" /\ j.remote /\ j.problem = "remote_absent"

\* Journal.Valid
ValidJournal(j) ==
    /\ j.named => j.submitStarted
    /\ j.absence # "unset" => j.submitStarted /\ j.named
    /\ j.problem = "remote_absent" => RemoteAbsence(j)
    /\ j.prepWindow # "unset" => j.plan
    /\ j.failures \in 0..MaxFailures
    /\ j.phase = "prevented" => ~j.submitStarted
    /\ ~j.plan =>
         /\ j.phase \in {"local", "failed", "prevented"}
         /\ ~j.submitStarted
         /\ j.prepared = "none"
         /\ ~j.remote
         /\ j.obs = "none"
    /\ j.plan =>
         /\ j.phase \notin {"local", "failed"}
         /\ j.phase = "ready" \/ j.submitStarted => j.prepared = "ready"
         /\ j.phase \in {"staging", "ready"} => ~j.submitStarted
         /\ j.phase \in {"submitting", "rejected"} => ~j.remote /\ j.obs = "none"
         /\ j.prepared = "public" => j.phase \in {"attention", "prevented"}
         /\ j.phase = "collectible" => j.obs \in ExecutionTerminal
         /\ j.phase = "submitted" => j.obs \notin ExecutionTerminal
         /\ j.phase \in {"submitting", "submitted", "rejected", "collectible"} =>
              j.submitStarted
         /\ j.remote => j.submitStarted
         /\ j.phase \in {"submitted", "collectible"} => j.remote
         /\ j.obs # "none" => j.remote

\* The last check of Apply: what it computed must itself be admissible.
Commits(s, r) == ValidJournal(r.j) /\ ValidTransition(s, r.s)

Problem(j, kind) == [j EXCEPT !.problem = kind, !.localWindow = "unset"]

Cleared(j) == [Problem(j, "none") EXCEPT !.failures = 0]

-----------------------------------------------------------------------------
(* Before anything was submitted.                                          *)

RefuseNewWorkAllowed(j, s) ==
    /\ ~j.submitStarted
    /\ j.phase \in {"local", "ready"}
    /\ s.cancel = "not_requested"
    /\ s.exec = "not_submitted"
    /\ s.remote = "not_started"

\* A prepared hold keeps its reservation; unprepared work goes back to the queue.
RefuseNewWork(j, s) ==
    [j |-> Problem(j, "open"),
     s |-> IF j.plan THEN s ELSE [s EXCEPT !.orch = "queued"]]

PreventDispatchAllowed(j, s) ==
    /\ ~j.submitStarted
    /\ s.orch \notin OrchestrationTerminal
    /\ s.exec = "not_submitted"
    /\ s.remote \in {"not_started", "inactive"}

PreventDispatch(j, s) ==
    [j |-> [j EXCEPT !.phase = "prevented"],
     s |-> [s EXCEPT !.orch = "cancelled", !.cancel = "prevented",
                     !.release = "not_applicable"]]

ExpireDispatchAllowed(j, s) ==
    PreventDispatchAllowed(j, s) /\ s.cancel = "not_requested"

ExpireDispatch(j, s) ==
    [j |-> Problem([j EXCEPT !.phase = "prevented"], "open"),
     s |-> [s EXCEPT !.orch = "timed_out", !.deadline = TRUE,
                     !.release = "not_applicable"]]

BeginPreparationAllowed(j, s) == j.phase = "local" /\ ~j.plan /\ LocalOnly(s)

BeginPreparation(j, s) ==
    [j |-> Cleared([j EXCEPT !.phase = "staging", !.plan = TRUE]),
     s |-> [s EXCEPT !.orch = "preparing"]]

PreparationSeenAllowed(j, s) == j.phase = "staging" /\ ~j.submitStarted

\* p is the readiness the provider reported: "pending", "ready", or "public"
\* for a resource that is not private and must never be submitted.
PreparationSeen(j, s, p) ==
    IF p = "public"
    THEN [j |-> [Problem(j, "permanent") EXCEPT !.prepared = p, !.failures = 0,
                                                !.phase = "attention"],
          s |-> [s EXCEPT !.orch = "needs_attention"]]
    ELSE [j |-> [Cleared(j) EXCEPT !.prepared = p,
                                   !.phase = IF p = "ready" THEN "ready" ELSE j.phase],
          s |-> [s EXCEPT !.orch = "preparing"]]

EndUnconfirmedPreparationAllowed(j, s) ==
    /\ UnconfirmedPreparation(j)
    /\ s.orch \notin OrchestrationTerminal
    /\ s.exec = "not_submitted"
    /\ s.remote = "not_started"
    /\ s.cancel = "not_requested"

EndUnconfirmedPreparation(j, s) ==
    [j |-> Problem([j EXCEPT !.phase = "prevented"], "open"),
     s |-> [s EXCEPT !.orch = "failed", !.release = "not_applicable"]]

-----------------------------------------------------------------------------
(* The submission and its resolution.                                      *)

BeginSubmissionAllowed(j, s) ==
    /\ j.phase = "ready"
    /\ ~j.submitStarted
    /\ j.prepared = "ready"
    /\ LocalOnly(s)
    /\ s.cancel = "not_requested"

BeginSubmission(j, s) ==
    [j |-> Cleared([j EXCEPT !.phase = "submitting", !.submitStarted = TRUE]),
     s |-> [s EXCEPT !.orch = "dispatching", !.exec = "unknown", !.remote = "possible"]]

SubmissionSeenAllowed(j, s) == j.phase = "submitting" /\ j.submitStarted /\ ~j.remote

AcceptedAsOrdinary(j, s) ==              \* mutant: forgets a pending cancellation
    [j |-> Cleared([j EXCEPT !.phase = "submitted", !.remote = TRUE]),
     s |-> [s EXCEPT !.orch = "submitted"]]

SubmissionAccepted(j, s) ==
    [j |-> Cleared([j EXCEPT !.phase = "submitted", !.remote = TRUE]),
     s |-> [s EXCEPT !.orch = IF CancellationPending(s) THEN "cancelling"
                                                        ELSE "submitted"]]

\* expired: the provider's refusal was the execution deadline.
SubmissionRejected(j, s, expired) ==
    [j |-> Problem([j EXCEPT !.phase = "rejected"], "open"),
     s |-> [s EXCEPT
              !.orch = IF s.cancel # "not_requested" THEN "cancelled"
                       ELSE IF expired THEN "timed_out" ELSE "failed",
              !.exec = "not_submitted",
              !.cancel = IF s.cancel # "not_requested" THEN "prevented" ELSE @,
              !.remote = "inactive",
              !.release = "not_applicable",
              !.deadline = @ \/ expired]]

\* named: the provider's answer carried the exact resource name to look for.
SubmissionUnknown(j, s, named) ==
    [j |-> Problem([j EXCEPT !.named = named], "open"),
     s |-> [s EXCEPT !.orch = "reconciling"]]

AbsenceAllowed(j, s) ==
    /\ j.phase \in {"submitting", "attention"}
    /\ j.submitStarted
    /\ ~j.remote
    /\ s.exec = "unknown"
    /\ s.orch \notin OrchestrationTerminal

SubmissionAbsenceAllowed(j, s) ==
    /\ AbsenceAllowed(j, s)
    /\ ~j.ownerPresent
    /\ j.absence = "elapsed" => j.phase = "submitting"

HastyAbsence(j, s) ==                    \* mutant: the first absence resolves
    SubmissionRejected([j EXCEPT !.named = TRUE], s, FALSE)

\* A first complete inventory opens the grace; only one that ends it resolves.
SubmissionAbsenceSeen(j, s) ==
    LET k == [j EXCEPT !.named = TRUE]
    IN  IF j.absence = "elapsed"
        THEN SubmissionRejected(k, s, FALSE)
        ELSE [j |-> Problem([k EXCEPT !.absence = "open",
                                      !.phase = "submitting",
                                      !.failures = IF @ = 0 THEN 1 ELSE @], "open"),
              s |-> [s EXCEPT !.orch = "reconciling"]]

OwnerSubmissionAbsentAllowed(j, s) == AbsenceAllowed(j, s) /\ j.named

OwnerSubmissionAbsent(j, s) == SubmissionRejected(j, s, FALSE)

\* owner: the owner attests the named resource present.
RequestReconciliationAllowed(j, s, owner) ==
    /\ owner => /\ j.phase = "attention"
                /\ j.submitStarted
                /\ ~j.remote
                /\ s.exec = "unknown"
                /\ j.named
    /\ ~RemoteAbsence(j)
    /\ s.exec \notin ExecutionTerminal
    /\ s.orch \notin OrchestrationTerminal
    /\ j.problem # "permanent"
    /\ IF j.submitStarted
       THEN j.phase \in {"attention", "submitting", "submitted"}
       ELSE /\ j.phase \in {"attention", "staging", "ready"}
            /\ s.exec = "not_submitted"
            /\ s.remote = "not_started"
            /\ s.cancel = "not_requested"
            /\ ~s.deadline
            /\ s.orch \in {"needs_attention", "preparing", "reconciling"}

RequestReconciliation(j, s, owner) ==
    [j |-> [Cleared(j) EXCEPT
              !.phase = IF ~j.submitStarted THEN "staging"
                        ELSE IF j.remote THEN "submitted" ELSE "submitting",
              !.ownerPresent = @ \/ owner,
              !.absence = IF owner THEN "unset" ELSE @],
     s |-> [s EXCEPT !.orch = IF CancellationPending(s) THEN "cancelling"
                                                        ELSE "reconciling"]]

-----------------------------------------------------------------------------
(* Observation of an accepted execution.                                   *)

RemoteAbsenceSeenAllowed(j, s) == j.phase = "submitted" /\ j.remote

\* Manual intervention replaces a cancellation that can no longer be pursued.
ManualIfPending(s) == IF CancellationPending(s) THEN "manual_required" ELSE s.cancel

RemoteAbsenceSeen(j, s) ==
    [j |-> Problem([j EXCEPT !.phase = "attention"], "remote_absent"),
     s |-> [s EXCEPT !.orch = "needs_attention", !.exec = "unknown",
                     !.remote = "inactive", !.release = "provider_reported",
                     !.cancel = ManualIfPending(s)]]

ObservationSeenAllowed(j, s) == j.phase = "submitted" /\ j.remote

\* o = [exec, remote, release] as the provider reports it.
ObservedOrchestration(s, o) ==
    IF o.exec \in ExecutionTerminal THEN "collecting"
    ELSE IF s.cancel = "manual_required" THEN "needs_attention"
    ELSE IF CancellationPending(s) THEN "cancelling"
    ELSE IF o.exec = "unknown" THEN "reconciling"
    ELSE IF o.exec \in {"running", "starting"} THEN "running"
    ELSE "submitted"

ObservedState(s, o) ==
    IF o.exec = "unknown"
    THEN [s EXCEPT !.orch = ObservedOrchestration(s, o)]
    ELSE [s EXCEPT
            !.orch = ObservedOrchestration(s, o),
            !.exec = o.exec, !.remote = o.remote, !.release = o.release,
            !.deadline = @ \/ o.exec = "timed_out",
            !.cancel = IF o.exec \in ExecutionTerminal /\ @ # "not_requested"
                       THEN IF o.exec = "cancelled" THEN "confirmed" ELSE "too_late"
                       ELSE @]

\* A regressive observation is ErrStaleObservation: ignored, nothing is written.
StaleObservation(s, o) == ~ValidTransition(s, ObservedState(s, o))

ObservationSeen(j, s, o) ==
    LET t == ObservedState(s, o)
        failures == IF j.failures < MaxFailures THEN j.failures + 1 ELSE MaxFailures
        k == [Cleared(j) EXCEPT !.obs = o.exec]
    IN  CASE o.exec \in ExecutionTerminal ->
               [j |-> [k EXCEPT !.phase = "collectible"], s |-> t]
          [] o.exec = "unknown" /\ failures = MaxFailures ->
               [j |-> [k EXCEPT !.problem = "open", !.failures = failures,
                                !.phase = "attention"],
                s |-> [t EXCEPT !.orch = "needs_attention",
                                !.cancel = ManualIfPending(s)]]
          [] o.exec = "unknown" /\ failures < MaxFailures ->
               [j |-> [k EXCEPT !.problem = "open", !.failures = failures], s |-> t]
          [] OTHER -> [j |-> k, s |-> t]

-----------------------------------------------------------------------------
(* Failures of provider calls and of local preparation.                    *)

FaultAllowed(j, s) ==
    j.phase \notin {"rejected", "failed", "collectible", "attention", "prevented"}

\* Before a plan exists: back to the queue until the local budget has run out.
LocalFault(j, s, permanent) ==
    LET ended == permanent \/ j.localWindow = "elapsed"
    IN  [j |-> [j EXCEPT !.problem = IF permanent THEN "permanent" ELSE "open",
                         !.localWindow = IF @ = "unset" THEN "open" ELSE @,
                         !.failures = IF @ < MaxFailures THEN @ + 1 ELSE @,
                         !.phase = IF ended THEN "failed" ELSE @],
         s |-> IF ended
               THEN [s EXCEPT !.orch = "failed", !.release = "not_applicable"]
               ELSE [s EXCEPT !.orch = "queued"]]

\* permanent: identity mismatch or private staging unavailable.
RemoteFault(j, s, permanent) ==
    LET failures == IF j.failures < MaxFailures THEN j.failures + 1 ELSE MaxFailures
        ended == permanent \/ (failures = MaxFailures /\ ~UnconfirmedPreparation(j))
    IN  [j |-> [j EXCEPT !.problem = IF permanent THEN "permanent" ELSE "open",
                         !.prepWindow = IF UnconfirmedPreparation(j) /\ @ = "unset"
                                        THEN "open" ELSE @,
                         !.failures = failures,
                         !.phase = IF ended THEN "attention" ELSE @],
         s |-> IF ended
               THEN [s EXCEPT !.orch = "needs_attention", !.cancel = ManualIfPending(s)]
               ELSE [s EXCEPT !.orch = IF j.submitStarted THEN "reconciling"
                                                          ELSE "preparing"]]

\* named: the failure details carried the resource name to look for.
Fault(j, s, permanent, named) ==
    LET k == IF named /\ j.submitStarted /\ ~j.remote
             THEN [j EXCEPT !.named = TRUE] ELSE j
    IN  IF j.plan THEN RemoteFault(k, s, permanent) ELSE LocalFault(k, s, permanent)
=============================================================================
