------------------------- MODULE DispatchStopProofs -------------------------
(***************************************************************************)
(* When the engine stops, and what it can always record. Apply refuses the *)
(* facts a session computed, from the permits of a new mutation or from    *)
(* the answer of a provider, only if they are not an admissible            *)
(* transition. One lemma per kind of commit shows that they always are,    *)
(* given what the invariant of DispatchProofs says of the attempt and of   *)
(* the answer; the one exception is a submission that turns out absent     *)
(* after its cancellation went to the owner.                               *)
(*                                                                         *)
(* RelyInv adds what a session that still owns its attempt relies on: the  *)
(* phase, the evidence and the intent that the journal showed when the     *)
(* session was loaded are still there when its answer comes back, because  *)
(* whoever changes them takes the handle away. From it every answer can be *)
(* recorded.                                                               *)
(***************************************************************************)
EXTENDS DispatchProofs

-----------------------------------------------------------------------------
(* The transition tables.                                                  *)

\* The moves of the orchestration that answers make.
LEMMA OrchestrationMoves ==
    /\ \A o \in {"queued", "preparing", "blocked"} :
         /\ Moves(OrchestrationTransitions, o, "queued")
         /\ Moves(OrchestrationTransitions, o, "failed")
    /\ \A o \in {"preparing", "reconciling"} :
         /\ Moves(OrchestrationTransitions, o, "preparing")
         /\ Moves(OrchestrationTransitions, o, "needs_attention")
         /\ Moves(OrchestrationTransitions, o, "failed")
    /\ \A o \in {"dispatching", "submitted", "running", "reconciling", "cancelling", "needs_attention"} :
         /\ Moves(OrchestrationTransitions, o, "reconciling")
         /\ Moves(OrchestrationTransitions, o, "needs_attention")
    /\ \A o \in {"dispatching", "reconciling", "cancelling"} :
         \A t \in {"failed", "cancelled", "timed_out"} : Moves(OrchestrationTransitions, o, t)
    /\ \A o \in {"dispatching", "reconciling"} :
         /\ Moves(OrchestrationTransitions, o, "submitted")
         /\ Moves(OrchestrationTransitions, o, "cancelling")
    /\ \A o \in {"queued", "preparing", "blocked"} : Moves(OrchestrationTransitions, o, "preparing")
    /\ \A o \in {"queued", "preparing", "blocked", "reconciling", "needs_attention"} :
         Moves(OrchestrationTransitions, o, "timed_out")
    /\ Moves(OrchestrationTransitions, "preparing", "dispatching")
  <1>1. \A o \in {"queued", "preparing", "blocked", "reconciling", "dispatching", "submitted", "running",
                  "cancelling", "needs_attention"} : o \in Orchestrations
    BY DEF Orchestrations
  <1>. QED  BY <1>1 DEF Moves, OrchestrationTransitions, Settling

\* The moves of the other dimensions that answers make.
LEMMA EvidenceMoves ==
    /\ \A c \in {"requested", "requesting", "accepted"} : Moves(CancellationTransitions, c, "manual_required")
    /\ Moves(CancellationTransitions, "requested", "prevented")
    /\ Moves(ExecutionTransitions, "unknown", "not_submitted")
    /\ \A r \in {"possible", "active"} : Moves(RemoteActivityTransitions, r, "inactive")
    /\ Moves(ReleaseEvidenceTransitions, "unknown", "not_applicable")
    /\ \A r \in {"unknown", "not_observable"} : Moves(ReleaseEvidenceTransitions, r, "provider_reported")
    /\ Moves(ExecutionTransitions, "not_submitted", "unknown")
    /\ Moves(RemoteActivityTransitions, "not_started", "possible")
  <1>1. /\ {"requested", "requesting", "accepted"} \subseteq Cancellations /\ {"unknown", "not_submitted"} \subseteq Executions
        /\ {"possible", "active", "not_started"} \subseteq RemoteActivities
        /\ {"unknown", "not_observable", "not_applicable", "provider_reported"} \subseteq ReleaseEvidences
    BY DEF Cancellations, Executions, RemoteActivities, ReleaseEvidences
  <1>2. \A c \in {"requested", "requesting", "accepted"} : Moves(CancellationTransitions, c, "manual_required")
    BY <1>1 DEF Moves, CancellationTransitions
  <1>3. Moves(CancellationTransitions, "requested", "prevented")
    BY <1>1 DEF Moves, CancellationTransitions
  <1>4. Moves(ExecutionTransitions, "unknown", "not_submitted")
    BY <1>1 DEF Moves, ExecutionTransitions
  <1>5. \A r \in {"possible", "active"} : Moves(RemoteActivityTransitions, r, "inactive")
    BY <1>1 DEF Moves, RemoteActivityTransitions
  <1>6. /\ Moves(ReleaseEvidenceTransitions, "unknown", "not_applicable")
        /\ \A r \in {"unknown", "not_observable"} : Moves(ReleaseEvidenceTransitions, r, "provider_reported")
    BY <1>1 DEF Moves, ReleaseEvidenceTransitions
  <1>7. Moves(ExecutionTransitions, "not_submitted", "unknown")
    BY <1>1 DEF Moves, ExecutionTransitions
  <1>8. Moves(RemoteActivityTransitions, "not_started", "possible")
    BY <1>1 DEF Moves, RemoteActivityTransitions
  <1>. QED  BY <1>2, <1>3, <1>4, <1>5, <1>6, <1>7, <1>8

\* Staying is always a move.
LEMMA Stays ==
    ASSUME NEW table, NEW x
    PROVE  Moves(table, x, x)
  BY DEF Moves

\* The state s moves its orchestration, and may give the cancellation to the owner.
LEMMA OrchestrationOnly ==
    ASSUME NEW s \in AttemptStates, NEW t \in AttemptStates, ValidState(s),
           t.exec = s.exec, t.remote = s.remote, t.release = s.release, t.result = s.result,
           t.deadline = s.deadline, s.result = "not_available", s.release # "not_applicable",
           t.orch \in {"queued", "preparing", "reconciling", "needs_attention", "cancelling"},
           Moves(OrchestrationTransitions, s.orch, t.orch),
           t.cancel = s.cancel \/ (t.cancel = "manual_required" /\ CancellationPending(s))
    PROVE  ValidTransition(s, t)
  <1>1. ValidState(t)
    <2>1. t.orch \notin OrchestrationTerminal
      BY DEF OrchestrationTerminal
    <2>2. CancellationConsistent(t)
      BY DEF ValidState, CancellationConsistent
    <2>3. ExecutionConsistent(t) /\ ResultConsistent(t) /\ ReleaseConsistent(t) /\ OrchestrationConsistent(t)
      BY <2>1 DEF ValidState, ExecutionConsistent, ResultConsistent, ReleaseConsistent, OrchestrationConsistent
    <2>. QED  BY <2>2, <2>3 DEF ValidState
  <1>2. Moves(CancellationTransitions, s.cancel, t.cancel)
    BY EvidenceMoves, Stays DEF CancellationPending
  <1>. QED  BY <1>1, <1>2, Stays DEF ValidTransition

-----------------------------------------------------------------------------
(* What Apply computes from an answer.                                     *)

\* A failure before there is a plan goes back to the queue, or ends the attempt.
LEMMA LocalFaultCommits ==
    ASSUME NEW j \in Journals, NEW s \in AttemptStates, NEW o \in Operations, NEW i,
           FactsOK(j, s, i, o), j.phase = "local", NEW permanent \in BOOLEAN
    PROVE  Commits(s, LocalFault(j, s, permanent))
  <1>. DEFINE r == LocalFault(j, s, permanent)
              ended == permanent \/ j.localWindow = "elapsed"
              p == IF permanent THEN "permanent" ELSE "open"
              l == IF j.localWindow = "unset" THEN "open" ELSE j.localWindow
              n == IF j.failures < MaxFailures THEN j.failures + 1 ELSE j.failures
              f == IF ended THEN "failed" ELSE "local"
  <1>1. /\ ValidJournal(j) /\ ~j.plan /\ LocalOnly(s) /\ s.release = "unknown"
    BY DEF FactsOK, PhaseOK
  <1>2. /\ p \in {"permanent", "open"} /\ l \in Windows /\ n \in 0..MaxFailures /\ f \in {"local", "failed"}
        /\ ended \in BOOLEAN
    BY MaxFailuresAssumption DEF Windows, Journals
  <1>3. /\ r.j = [j EXCEPT !.problem = p, !.localWindow = l, !.failures = n, !.phase = f]
        /\ r.s = IF ended THEN [s EXCEPT !.orch = "failed", !.release = "not_applicable"]
                 ELSE [s EXCEPT !.orch = "queued"]
    BY DEF LocalFault
  <1>. HIDE DEF ended, p, l, n, f, r
  <1>4. /\ r.j.phase = f /\ r.j.problem = p /\ r.j.failures = n /\ r.j.plan = j.plan /\ r.j.prepared = j.prepared
        /\ r.j.prepWindow = j.prepWindow /\ r.j.submitStarted = j.submitStarted /\ r.j.named = j.named
        /\ r.j.absence = j.absence /\ r.j.remote = j.remote /\ r.j.obs = j.obs
    BY <1>3 DEF Journals
  <1>5. ValidJournal(r.j)
    BY <1>1, <1>2, <1>4 DEF ValidJournal
  <1>6. ValidTransition(s, r.s)
    <2>1. CASE ended
      <3>1. /\ r.s.orch = "failed" /\ r.s.release = "not_applicable" /\ r.s.exec = s.exec /\ r.s.remote = s.remote
            /\ r.s.cancel = s.cancel /\ r.s.result = s.result /\ r.s.deadline = s.deadline
        BY <1>3, <2>1 DEF AttemptStates
      <3>2. ValidState(r.s)
        BY <1>1, <3>1 DEF LocalOnly, ValidState, ExecutionConsistent, ResultConsistent, CancellationConsistent,
           ReleaseConsistent, OrchestrationConsistent, OrchestrationTerminal, ExecutionTerminal, ExecutionActive
      <3>3. /\ Moves(OrchestrationTransitions, s.orch, r.s.orch)
            /\ Moves(ReleaseEvidenceTransitions, s.release, r.s.release)
        BY <1>1, <3>1, OrchestrationMoves, EvidenceMoves DEF LocalOnly
      <3>. QED  BY <1>1, <3>1, <3>2, <3>3, Stays DEF ValidTransition, LocalOnly
    <2>2. CASE ~ended
      <3>1. /\ r.s \in AttemptStates
            /\ r.s.orch = "queued" /\ r.s.release = s.release /\ r.s.exec = s.exec /\ r.s.remote = s.remote
            /\ r.s.cancel = s.cancel /\ r.s.result = s.result /\ r.s.deadline = s.deadline
        BY <1>3, <2>2 DEF AttemptStates, Orchestrations
      <3>2. ValidState(s) /\ s.result = "not_available" /\ s.orch \in {"queued", "preparing", "blocked"}
        BY <1>1 DEF LocalOnly
      <3>3. /\ Moves(OrchestrationTransitions, s.orch, r.s.orch) /\ s.release # "not_applicable"
            /\ r.s.orch \in {"queued", "preparing", "reconciling", "needs_attention", "cancelling"}
        BY <1>1, <3>1, <3>2, OrchestrationMoves
      <3>. QED  BY <3>1, <3>2, <3>3, OrchestrationOnly
    <2>. QED  BY <1>2, <2>1, <2>2
  <1>. QED  BY <1>5, <1>6 DEF Commits, r

\* A failure of a provider call is tried again, or goes to the owner; k is the journal with
\* the name to look for.
LEMMA RemoteFaultCommits ==
    ASSUME NEW j \in Journals, NEW s \in AttemptStates, NEW o \in Operations, NEW i,
           FactsOK(j, s, i, o), j.phase \in {"staging", "ready", "submitting", "submitted"},
           NEW k \in Journals, ValidJournal(k), k.phase = j.phase, k.submitStarted = j.submitStarted,
           NEW permanent \in BOOLEAN
    PROVE  Commits(s, RemoteFault(k, s, permanent))
  <1>. DEFINE r == RemoteFault(k, s, permanent)
              n == IF k.failures < MaxFailures THEN k.failures + 1 ELSE MaxFailures
              ended == permanent \/ (n = MaxFailures /\ ~UnconfirmedPreparation(k))
              p == IF permanent THEN "permanent" ELSE "open"
              l == IF UnconfirmedPreparation(k) /\ k.prepWindow = "unset" THEN "open" ELSE k.prepWindow
              f == IF ended THEN "attention" ELSE k.phase
              c == ManualIfPending(s)
  <1>1. /\ n \in 0..MaxFailures /\ ended \in BOOLEAN /\ p \in {"permanent", "open"} /\ l \in Windows
        /\ f = IF ended THEN "attention" ELSE k.phase
    BY MaxFailuresAssumption DEF Windows, Journals
  <1>2. /\ r.j = [k EXCEPT !.problem = p, !.prepWindow = l, !.failures = n, !.phase = f]
        /\ r.s = IF ended THEN [s EXCEPT !.orch = "needs_attention", !.cancel = c]
                 ELSE [s EXCEPT !.orch = IF k.submitStarted THEN "reconciling" ELSE "preparing"]
    BY DEF RemoteFault
  <1>3. /\ c = s.cancel \/ (c = "manual_required" /\ CancellationPending(s))
        /\ c \in Cancellations
    <2>1. s.cancel \in Cancellations /\ "manual_required" \in Cancellations
      BY DEF AttemptStates, Cancellations
    <2>. QED  BY <2>1 DEF ManualIfPending
  <1>. HIDE DEF n, ended, p, l, f, c, r
  <1>4. k.plan /\ (k.submitStarted <=> j.phase \in {"submitting", "submitted"})
    BY DEF ValidJournal, Journals
  <1>5. ValidJournal(r.j)
    <2>1. /\ r.j.phase = f /\ r.j.problem = p /\ r.j.failures = n /\ r.j.plan = k.plan /\ r.j.prepared = k.prepared
          /\ r.j.prepWindow = l /\ r.j.submitStarted = k.submitStarted /\ r.j.named = k.named
          /\ r.j.absence = k.absence /\ r.j.remote = k.remote /\ r.j.obs = k.obs
      BY <1>2 DEF Journals
    <2>2. CASE ended
      BY <1>1, <1>4, <2>1, <2>2 DEF ValidJournal
    <2>3. CASE ~ended
      BY <1>1, <1>4, <2>1, <2>3 DEF ValidJournal
    <2>. QED  BY <1>1, <2>2, <2>3
  <1>6. /\ ValidState(s) /\ s.result = "not_available" /\ s.release # "not_applicable"
        /\ ~k.submitStarted => s.orch \in {"preparing", "reconciling"}
        /\ k.submitStarted =>
             s.orch \in {"dispatching", "submitted", "running", "reconciling", "cancelling", "needs_attention"}
    <2>1. CASE j.phase \in {"staging", "ready"}
      BY <1>4, <2>1 DEF FactsOK, PhaseOK, Untouched
    <2>2. CASE j.phase = "submitting"
      BY <1>4, <2>2 DEF FactsOK, PhaseOK, Submitted
    <2>3. CASE j.phase = "submitted"
      BY <1>4, <2>3, WhileObserved DEF FactsOK
    <2>. QED  BY <2>1, <2>2, <2>3
  <1>7. ValidTransition(s, r.s)
    <2>1. CASE ended
      <3>1. /\ r.s \in AttemptStates /\ r.s.orch = "needs_attention" /\ r.s.cancel = c /\ r.s.exec = s.exec
            /\ r.s.remote = s.remote /\ r.s.release = s.release /\ r.s.result = s.result
            /\ r.s.deadline = s.deadline
        BY <1>2, <1>3, <2>1 DEF AttemptStates, Orchestrations
      <3>2. Moves(OrchestrationTransitions, s.orch, r.s.orch)
        BY <1>6, <3>1, OrchestrationMoves
      <3>. QED  BY <1>3, <1>6, <3>1, <3>2, OrchestrationOnly
    <2>2. CASE ~ended
      <3>1. /\ r.s \in AttemptStates /\ r.s.orch = (IF k.submitStarted THEN "reconciling" ELSE "preparing")
            /\ r.s.cancel = s.cancel /\ r.s.exec = s.exec
            /\ r.s.remote = s.remote /\ r.s.release = s.release /\ r.s.result = s.result
            /\ r.s.deadline = s.deadline
        BY <1>2, <2>2 DEF AttemptStates, Orchestrations
      <3>2. /\ Moves(OrchestrationTransitions, s.orch, r.s.orch)
            /\ r.s.orch \in {"queued", "preparing", "reconciling", "needs_attention", "cancelling"}
        BY <1>6, <3>1, OrchestrationMoves
      <3>. QED  BY <1>6, <3>1, <3>2, OrchestrationOnly
    <2>. QED  BY <1>1, <2>1, <2>2
  <1>. QED  BY <1>5, <1>7 DEF Commits, r

\* Either kind of failure.
LEMMA FaultCommits ==
    ASSUME NEW j \in Journals, NEW s \in AttemptStates, NEW o \in Operations, NEW i,
           FactsOK(j, s, i, o), j.phase \in {"local", "staging", "ready", "submitting", "submitted"},
           NEW permanent \in BOOLEAN, NEW named \in BOOLEAN
    PROVE  Commits(s, Fault(j, s, permanent, named))
  <1>. DEFINE k == IF named /\ j.submitStarted /\ ~j.remote THEN [j EXCEPT !.named = TRUE] ELSE j
  <1>0. /\ j.plan <=> j.phase # "local"
        /\ j.phase = "local" => ~j.submitStarted
        /\ ValidJournal(j)
    BY DEF FactsOK, ValidJournal, Journals, PhaseOK
  <1>1. CASE j.phase = "local"
    <2>1. Fault(j, s, permanent, named) = LocalFault(j, s, permanent)
      BY <1>0, <1>1 DEF Fault
    <2>. QED  BY <1>1, <2>1, LocalFaultCommits
  <1>2. CASE j.phase # "local"
    <2>1. Fault(j, s, permanent, named) = RemoteFault(k, s, permanent)
      BY <1>0, <1>2 DEF Fault
    <2>2. k \in Journals /\ k.phase = j.phase /\ k.submitStarted = j.submitStarted
      BY DEF Journals
    <2>3. ValidJournal(k)
      <3>1. CASE named /\ j.submitStarted /\ ~j.remote
        BY <1>0, <3>1 DEF ValidJournal, RemoteAbsence, Journals
      <3>2. CASE ~(named /\ j.submitStarted /\ ~j.remote)
        BY <1>0, <3>2
      <3>. QED  BY <3>1, <3>2
    <2>4. j.phase \in {"staging", "ready", "submitting", "submitted"}
      BY <1>2
    <2>. HIDE DEF k
    <2>. QED  BY <2>1, <2>2, <2>3, <2>4, RemoteFaultCommits
  <1>. QED  BY <1>1, <1>2

\* What the provider says of the staging moves the attempt on, or to the owner.
LEMMA PreparedCommits ==
    ASSUME NEW j \in Journals, NEW s \in AttemptStates, NEW o \in Operations, NEW i,
           FactsOK(j, s, i, o), PreparationSeenAllowed(j, s),
           NEW p \in {"pending", "ready", "public"}
    PROVE  Commits(s, PreparationSeen(j, s, p))
  <1>. DEFINE r == PreparationSeen(j, s, p)
  <1>1. /\ j.phase = "staging" /\ ~j.submitStarted /\ ValidJournal(j) /\ j.plan
        /\ ValidState(s) /\ Untouched(s) /\ s.orch \in {"preparing", "reconciling"}
    BY DEF PreparationSeenAllowed, FactsOK, PhaseOK, ValidJournal, Journals
  <1>2. ValidJournal(r.j)
    <2>1. CASE p = "public"
      <3>. DEFINE k == Problem(j, "permanent")
      <3>1. k \in Journals /\ SameCourse(j, k) /\ k.problem = "permanent" /\ 0 \in 0..MaxFailures
        BY Conditions, MaxFailuresAssumption DEF Problems
      <3>2. r.j = [k EXCEPT !.prepared = p, !.failures = 0, !.phase = "attention"]
        BY <2>1 DEF PreparationSeen
      <3>. HIDE DEF k, r
      <3>. QED  BY <1>1, <2>1, <3>1, <3>2 DEF SameCourse, Journals, ValidJournal
    <2>2. CASE p # "public"
      <3>. DEFINE k == Cleared(j)
      <3>1. k \in Journals /\ SameCourse(j, k) /\ k.problem = "none"
        BY Conditions DEF Problems
      <3>2. r.j = [k EXCEPT !.prepared = p, !.phase = IF p = "ready" THEN "ready" ELSE j.phase]
        BY <2>2 DEF PreparationSeen
      <3>. HIDE DEF k, r
      <3>. QED  BY <1>1, <2>2, <3>1, <3>2 DEF SameCourse, Journals, ValidJournal
    <2>. QED  BY <2>1, <2>2
  <1>3. /\ r.s \in AttemptStates /\ r.s.orch \in {"preparing", "needs_attention"}
        /\ r.s.exec = s.exec /\ r.s.remote = s.remote /\ r.s.release = s.release /\ r.s.result = s.result
        /\ r.s.deadline = s.deadline /\ r.s.cancel = s.cancel
    BY DEF PreparationSeen, AttemptStates, Orchestrations
  <1>4. Moves(OrchestrationTransitions, s.orch, r.s.orch)
    BY <1>1, <1>3, OrchestrationMoves
  <1>. HIDE DEF r
  <1>5. /\ s.result = "not_available" /\ s.release # "not_applicable"
        /\ r.s.orch \in {"queued", "preparing", "reconciling", "needs_attention", "cancelling"}
    BY <1>1, <1>3 DEF Untouched
  <1>6. ValidTransition(s, r.s)
    BY <1>1, <1>3, <1>4, <1>5, OrchestrationOnly
  <1>. QED  BY <1>2, <1>6 DEF Commits, r

\* A preparation nobody confirmed ends the attempt.
LEMMA EndPreparationCommits ==
    ASSUME NEW j \in Journals, NEW s \in AttemptStates, NEW o \in Operations, NEW i,
           FactsOK(j, s, i, o), UnconfirmedPreparation(j)
    PROVE  Commits(s, EndUnconfirmedPreparation(j, s))
  <1>. DEFINE r == EndUnconfirmedPreparation(j, s)
              m == [j EXCEPT !.phase = "prevented"]
  <1>1. /\ j.phase = "staging" /\ ~j.submitStarted /\ ValidJournal(j) /\ j.plan /\ j.prepared = "none"
        /\ ValidState(s) /\ Untouched(s) /\ s.orch \in {"preparing", "reconciling"}
    BY DEF UnconfirmedPreparation, FactsOK, PhaseOK
  <1>2. ValidJournal(r.j)
    <2>0. r.j = Problem(m, "open")
      BY DEF EndUnconfirmedPreparation
    <2>1. m \in Journals
      BY DEF Journals, Phases
    <2>2. Problem(m, "open") \in Journals /\ SameCourse(m, Problem(m, "open")) /\ Problem(m, "open").problem = "open"
      BY <2>1, Conditions DEF Problems
    <2>3. ValidJournal(Problem(m, "open"))
      BY <1>1, <2>2 DEF ValidJournal, SameCourse, Journals
    <2>. QED  BY <2>0, <2>3
  <1>3. /\ r.s.orch = "failed" /\ r.s.release = "not_applicable" /\ r.s.exec = s.exec /\ r.s.remote = s.remote
        /\ r.s.cancel = s.cancel /\ r.s.result = s.result /\ r.s.deadline = s.deadline
    BY DEF EndUnconfirmedPreparation, AttemptStates
  <1>. HIDE DEF r, m
  <1>4. ValidState(r.s)
    BY <1>1, <1>3 DEF Untouched, ValidState, ExecutionConsistent, ResultConsistent, CancellationConsistent,
       ReleaseConsistent, OrchestrationConsistent, OrchestrationTerminal, ExecutionTerminal, ExecutionActive
  <1>5. /\ Moves(OrchestrationTransitions, s.orch, r.s.orch)
        /\ Moves(ReleaseEvidenceTransitions, s.release, r.s.release)
    BY <1>1, <1>3, OrchestrationMoves, EvidenceMoves DEF Untouched
  <1>6. ValidTransition(s, r.s)
    BY <1>1, <1>3, <1>4, <1>5, Stays DEF ValidTransition
  <1>. QED  BY <1>2, <1>6 DEF Commits, r

\* A submission that was refused, or is absent, ends the attempt unless its cancellation
\* went to the owner; k is the journal with the name.
LEMMA RejectedCommits ==
    ASSUME NEW j \in Journals, NEW s \in AttemptStates, NEW o \in Operations, NEW i,
           FactsOK(j, s, i, o), SubmissionSeenAllowed(j, s),
           NEW k \in Journals, ValidJournal(k), k.phase = j.phase, k.submitStarted = j.submitStarted,
           NEW expire \in BOOLEAN, s.cancel # "manual_required"
    PROVE  Commits(s, SubmissionRejected(k, s, expire))
  <1>. DEFINE r == SubmissionRejected(k, s, expire)
              m == [k EXCEPT !.phase = "rejected"]
              b == s.deadline \/ expire
              orch == IF s.cancel # "not_requested" THEN "cancelled"
                      ELSE IF expire THEN "timed_out" ELSE "failed"
              cancel == IF s.cancel # "not_requested" THEN "prevented" ELSE s.cancel
  <1>1. /\ j.phase = "submitting" /\ j.submitStarted /\ ValidState(s) /\ Submitted(s)
        /\ s.orch \in {"dispatching", "reconciling", "cancelling"}
    BY DEF SubmissionSeenAllowed, FactsOK, PhaseOK
  <1>2. ValidJournal(r.j)
    <2>0. r.j = Problem(m, "open")
      BY DEF SubmissionRejected
    <2>1. m \in Journals
      BY DEF Journals, Phases
    <2>2. Problem(m, "open") \in Journals /\ SameCourse(m, Problem(m, "open")) /\ Problem(m, "open").problem = "open"
      BY <2>1, Conditions DEF Problems
    <2>3. ValidJournal(Problem(m, "open"))
      BY <1>1, <2>2 DEF ValidJournal, SameCourse, Journals
    <2>. QED  BY <2>0, <2>3
  <1>3. /\ b \in BOOLEAN /\ (s.deadline => b) /\ (expire => b)
        /\ s.cancel \in {"not_requested", "requested"}
        /\ s.cancel = "not_requested" => cancel = "not_requested" /\ orch \in {"timed_out", "failed"}
        /\ orch = "timed_out" => expire
        /\ s.cancel = "requested" => cancel = "prevented" /\ orch = "cancelled"
    BY <1>1 DEF Submitted
  <1>4. r.s = [s EXCEPT !.orch = orch, !.exec = "not_submitted", !.cancel = cancel, !.remote = "inactive",
                        !.release = "not_applicable", !.deadline = b]
    BY DEF SubmissionRejected
  <1>. HIDE DEF b, orch, cancel, r, m
  <1>5. /\ r.s.orch = orch /\ r.s.exec = "not_submitted" /\ r.s.cancel = cancel /\ r.s.remote = "inactive"
        /\ r.s.release = "not_applicable" /\ r.s.deadline = b /\ r.s.result = s.result
    BY <1>4 DEF AttemptStates
  <1>6. ValidState(r.s)
    BY <1>1, <1>3, <1>5 DEF Submitted, ValidState, ExecutionConsistent, ResultConsistent, CancellationConsistent,
       ReleaseConsistent, OrchestrationConsistent, OrchestrationTerminal, ExecutionTerminal, ExecutionActive
  <1>7. /\ Moves(OrchestrationTransitions, s.orch, r.s.orch)
        /\ Moves(ExecutionTransitions, s.exec, r.s.exec)
        /\ Moves(RemoteActivityTransitions, s.remote, r.s.remote)
        /\ Moves(ReleaseEvidenceTransitions, s.release, r.s.release)
        /\ Moves(CancellationTransitions, s.cancel, r.s.cancel)
    BY <1>1, <1>3, <1>5, OrchestrationMoves, EvidenceMoves, Stays DEF Submitted
  <1>8. ValidTransition(s, r.s)
    BY <1>1, <1>3, <1>5, <1>6, <1>7, Stays DEF ValidTransition
  <1>. QED  BY <1>2, <1>8 DEF Commits, r

\* An accepted submission, or the run found under the identity of the attempt.
LEMMA AcceptedCommits ==
    ASSUME NEW j \in Journals, NEW s \in AttemptStates, NEW o \in Operations, NEW i,
           FactsOK(j, s, i, o), SubmissionSeenAllowed(j, s)
    PROVE  Commits(s, SubmissionAccepted(j, s))
  <1>. DEFINE r == SubmissionAccepted(j, s)
              m == [j EXCEPT !.phase = "submitted", !.remote = TRUE]
  <1>1. /\ j.phase = "submitting" /\ j.submitStarted /\ ~j.remote /\ ValidState(s) /\ Submitted(s) /\ ValidJournal(j)
        /\ s.orch \in {"dispatching", "reconciling", "cancelling"}
        /\ s.orch = "cancelling" => CancellationPending(s)
    BY DEF SubmissionSeenAllowed, FactsOK, PhaseOK
  <1>2. ValidJournal(r.j)
    <2>0. r.j = Cleared(m)
      BY DEF SubmissionAccepted
    <2>1. m \in Journals
      BY DEF Journals, Phases
    <2>2. Cleared(m) \in Journals /\ SameCourse(m, Cleared(m)) /\ Cleared(m).problem = "none"
      BY <2>1, Conditions DEF Problems
    <2>3. j.obs \notin ExecutionTerminal
      BY <1>1 DEF ValidJournal, Journals, ExecutionTerminal
    <2>4. ValidJournal(Cleared(m))
      BY <1>1, <2>2, <2>3 DEF ValidJournal, SameCourse, Journals
    <2>. QED  BY <2>0, <2>4
  <1>3. /\ r.s \in AttemptStates /\ r.s.exec = s.exec /\ r.s.remote = s.remote /\ r.s.cancel = s.cancel
        /\ r.s.release = s.release /\ r.s.result = s.result /\ r.s.deadline = s.deadline
        /\ r.s.orch = IF CancellationPending(s) THEN "cancelling" ELSE "submitted"
    BY DEF SubmissionAccepted, AttemptStates, Orchestrations
  <1>4. Moves(OrchestrationTransitions, s.orch, r.s.orch)
    BY <1>1, <1>3, OrchestrationMoves, Stays
  <1>. HIDE DEF r, m
  <1>5. ValidState(r.s)
    BY <1>1, <1>3 DEF Submitted, ValidState, ExecutionConsistent, ResultConsistent, CancellationConsistent,
       ReleaseConsistent, OrchestrationConsistent, OrchestrationTerminal, ExecutionTerminal, ExecutionActive
  <1>6. ValidTransition(s, r.s)
    BY <1>1, <1>3, <1>4, <1>5, Stays DEF ValidTransition
  <1>. QED  BY <1>2, <1>6 DEF Commits, r

\* Nothing is known of the start: the attempt goes on looking for it.
LEMMA UnknownCommits ==
    ASSUME NEW j \in Journals, NEW s \in AttemptStates, NEW o \in Operations, NEW i,
           FactsOK(j, s, i, o), SubmissionSeenAllowed(j, s), j.absence = "unset", NEW named \in BOOLEAN
    PROVE  Commits(s, SubmissionUnknown(j, s, named))
  <1>. DEFINE r == SubmissionUnknown(j, s, named)
              m == [j EXCEPT !.named = named]
  <1>1. /\ j.phase = "submitting" /\ j.submitStarted /\ ValidState(s) /\ Submitted(s) /\ ValidJournal(j)
        /\ s.orch \in {"dispatching", "reconciling", "cancelling"}
    BY DEF SubmissionSeenAllowed, FactsOK, PhaseOK
  <1>2. ValidJournal(r.j)
    <2>0. r.j = Problem(m, "open")
      BY DEF SubmissionUnknown
    <2>1. m \in Journals
      BY DEF Journals
    <2>2. Problem(m, "open") \in Journals /\ SameCourse(m, Problem(m, "open")) /\ Problem(m, "open").problem = "open"
      BY <2>1, Conditions DEF Problems
    <2>3. ValidJournal(Problem(m, "open"))
      BY <1>1, <2>2 DEF ValidJournal, SameCourse, Journals
    <2>. QED  BY <2>0, <2>3
  <1>3. /\ r.s \in AttemptStates /\ r.s.exec = s.exec /\ r.s.remote = s.remote /\ r.s.cancel = s.cancel
        /\ r.s.release = s.release /\ r.s.result = s.result /\ r.s.deadline = s.deadline
        /\ r.s.orch = "reconciling"
    BY DEF SubmissionUnknown, AttemptStates, Orchestrations
  <1>. HIDE DEF r, m
  <1>4. /\ Moves(OrchestrationTransitions, s.orch, r.s.orch)
        /\ r.s.orch \in {"queued", "preparing", "reconciling", "needs_attention", "cancelling"}
        /\ s.result = "not_available" /\ s.release # "not_applicable"
    BY <1>1, <1>3, OrchestrationMoves DEF Submitted
  <1>5. ValidTransition(s, r.s)
    BY <1>1, <1>3, <1>4, OrchestrationOnly
  <1>. QED  BY <1>2, <1>5 DEF Commits, r

\* An inventory without the run opens the grace, and the one that ends it ends the attempt.
LEMMA AbsenceCommits ==
    ASSUME NEW j \in Journals, NEW s \in AttemptStates, NEW o \in Operations, NEW i,
           FactsOK(j, s, i, o), SubmissionSeenAllowed(j, s), s.cancel # "manual_required"
    PROVE  Commits(s, SubmissionAbsenceSeen(j, s))
  <1>. DEFINE r == SubmissionAbsenceSeen(j, s)
              k == [j EXCEPT !.named = TRUE]
  <1>1. /\ j.phase = "submitting" /\ j.submitStarted /\ ~j.remote /\ ValidState(s) /\ Submitted(s) /\ ValidJournal(j)
        /\ s.orch \in {"dispatching", "reconciling", "cancelling"}
    BY DEF SubmissionSeenAllowed, FactsOK, PhaseOK
  <1>2. k \in Journals /\ k.phase = j.phase /\ k.submitStarted = j.submitStarted /\ k.failures = j.failures
        /\ j.failures \in 0..MaxFailures
    BY DEF Journals
  <1>3. ValidJournal(k)
    BY <1>1 DEF ValidJournal, RemoteAbsence, Journals
  <1>4. CASE j.absence = "elapsed"
    <2>0. PICK expire \in BOOLEAN : expire = FALSE
      OBVIOUS
    <2>1. r = SubmissionRejected(k, s, expire)
      BY <1>4, <2>0 DEF SubmissionAbsenceSeen
    <2>. HIDE DEF k, r
    <2>2. Commits(s, r)
      BY <1>2, <1>3, <2>1, RejectedCommits
    <2>. QED  BY <2>2 DEF r
  <1>5. CASE j.absence # "elapsed"
    <2>. DEFINE n == IF k.failures = 0 THEN 1 ELSE k.failures
                m == [k EXCEPT !.absence = "open", !.phase = "submitting", !.failures = n]
    <2>1. n \in 0..MaxFailures
      BY <1>2, MaxFailuresAssumption
    <2>2. /\ r.j = Problem(m, "open") /\ r.s = [s EXCEPT !.orch = "reconciling"]
      BY <1>2, <1>5 DEF SubmissionAbsenceSeen, Journals
    <2>3. k.named
      BY DEF Journals
    <2>. HIDE DEF k, n, r
    <2>4. m \in Journals
      BY <1>2, <2>1 DEF Journals, Phases, Windows
    <2>5. Problem(m, "open") \in Journals /\ SameCourse(m, Problem(m, "open")) /\ Problem(m, "open").problem = "open"
      BY <2>4, Conditions DEF Problems
    <2>6. ValidJournal(Problem(m, "open"))
      BY <1>1, <1>2, <1>3, <2>3, <2>5 DEF ValidJournal, SameCourse, Journals
    <2>7. /\ r.s \in AttemptStates /\ r.s.exec = s.exec /\ r.s.remote = s.remote /\ r.s.cancel = s.cancel
          /\ r.s.release = s.release /\ r.s.result = s.result /\ r.s.deadline = s.deadline
          /\ r.s.orch = "reconciling"
      BY <2>2 DEF AttemptStates, Orchestrations
    <2>. HIDE DEF m
    <2>8. /\ Moves(OrchestrationTransitions, s.orch, r.s.orch)
          /\ r.s.orch \in {"queued", "preparing", "reconciling", "needs_attention", "cancelling"}
          /\ s.result = "not_available" /\ s.release # "not_applicable"
      BY <1>1, <2>7, OrchestrationMoves DEF Submitted
    <2>9. ValidTransition(s, r.s)
      BY <1>1, <2>7, <2>8, OrchestrationOnly
    <2>. QED  BY <2>2, <2>6, <2>9 DEF Commits, r
  <1>. QED  BY <1>4, <1>5

\* Exact absence of the run goes to the owner.
LEMMA GoneCommits ==
    ASSUME NEW j \in Journals, NEW s \in AttemptStates, NEW o \in Operations, NEW i,
           FactsOK(j, s, i, o), RemoteAbsenceSeenAllowed(j, s)
    PROVE  Commits(s, RemoteAbsenceSeen(j, s))
  <1>. DEFINE r == RemoteAbsenceSeen(j, s)
              m == [j EXCEPT !.phase = "attention"]
              c == ManualIfPending(s)
  <1>1. /\ j.phase = "submitted" /\ j.remote /\ ValidState(s) /\ ValidJournal(j)
    BY DEF RemoteAbsenceSeenAllowed, FactsOK
  <1>2. /\ j.plan /\ j.submitStarted /\ s.exec \in {"unknown"} \cup ExecutionActive /\ s.result = "not_available"
        /\ s.orch \in {"submitted", "running", "reconciling", "cancelling", "needs_attention"}
        /\ s.remote \in {"possible", "active"} /\ s.release \in {"unknown", "not_observable"}
        /\ s.cancel \in {"not_requested", "requested", "requesting", "accepted", "manual_required"}
    BY <1>1, WhileObserved
  <1>3. ValidJournal(r.j)
    <2>0. r.j = Problem(m, "remote_absent")
      BY DEF RemoteAbsenceSeen
    <2>1. m \in Journals
      BY DEF Journals, Phases
    <2>2. /\ Problem(m, "remote_absent") \in Journals /\ SameCourse(m, Problem(m, "remote_absent"))
          /\ Problem(m, "remote_absent").problem = "remote_absent"
      BY <2>1, Conditions DEF Problems
    <2>3. ValidJournal(Problem(m, "remote_absent"))
      BY <1>1, <1>2, <2>2 DEF ValidJournal, RemoteAbsence, SameCourse, Journals
    <2>. QED  BY <2>0, <2>3
  <1>4. /\ c = s.cancel \/ (c = "manual_required" /\ s.cancel \in {"requested", "requesting", "accepted"})
        /\ c \in {"not_requested", "manual_required"}
    BY <1>2 DEF ManualIfPending, CancellationPending
  <1>5. r.s = [s EXCEPT !.orch = "needs_attention", !.exec = "unknown", !.remote = "inactive",
                        !.release = "provider_reported", !.cancel = c]
    BY DEF RemoteAbsenceSeen
  <1>. HIDE DEF r, m, c
  <1>6. /\ r.s.orch = "needs_attention" /\ r.s.exec = "unknown" /\ r.s.remote = "inactive"
        /\ r.s.release = "provider_reported" /\ r.s.cancel = c /\ r.s.result = s.result
        /\ r.s.deadline = s.deadline
    BY <1>5 DEF AttemptStates
  <1>7. ValidState(r.s)
    BY <1>1, <1>2, <1>4, <1>6 DEF ValidState, ExecutionConsistent, ResultConsistent, CancellationConsistent,
       ReleaseConsistent, OrchestrationConsistent, OrchestrationTerminal, ExecutionTerminal, ExecutionActive
  <1>8. /\ Moves(OrchestrationTransitions, s.orch, r.s.orch)
        /\ Moves(RemoteActivityTransitions, s.remote, r.s.remote)
        /\ Moves(ReleaseEvidenceTransitions, s.release, r.s.release)
        /\ Moves(CancellationTransitions, s.cancel, r.s.cancel)
        /\ Moves(ResultTransitions, s.result, r.s.result)
    BY <1>2, <1>4, <1>6, OrchestrationMoves, EvidenceMoves, Stays
  <1>9. Moves(ExecutionTransitions, s.exec, r.s.exec) \/ ExactAbsence(s, r.s)
    <2>1. CASE s.exec = "unknown"
      BY <1>6, <2>1, Stays
    <2>2. CASE s.exec \in ExecutionActive
      BY <1>6, <2>2 DEF ExactAbsence
    <2>. QED  BY <1>2, <2>1, <2>2
  <1>10. ValidTransition(s, r.s)
    BY <1>1, <1>6, <1>7, <1>8, <1>9 DEF ValidTransition
  <1>. QED  BY <1>3, <1>10 DEF Commits, r

\* An observation that is not stale is recorded, also when nothing was learnt too often.
LEMMA ObservationCommits ==
    ASSUME NEW j \in Journals, NEW s \in AttemptStates, NEW o \in Operations, NEW i,
           FactsOK(j, s, i, o), ObservationSeenAllowed(j, s), NEW v \in Readings,
           ~StaleObservation(s, v)
    PROVE  Commits(s, ObservationSeen(j, s, v))
  <1>. DEFINE r == ObservationSeen(j, s, v)
              t == ObservedState(s, v)
              k == [Cleared(j) EXCEPT !.obs = v.exec]
              n == IF j.failures < MaxFailures THEN j.failures + 1 ELSE MaxFailures
              c == ManualIfPending(s)
  <1>1. /\ j.phase = "submitted" /\ j.remote /\ ValidState(s) /\ ValidJournal(j) /\ v.exec \in Executions
    BY DEF ObservationSeenAllowed, FactsOK, Readings
  <1>2. /\ j.plan /\ j.submitStarted /\ s.result = "not_available" /\ s.release # "not_applicable"
        /\ s.orch \in {"submitted", "running", "reconciling", "cancelling", "needs_attention"}
        /\ s.cancel \in {"not_requested", "requested", "requesting", "accepted", "manual_required"}
    BY <1>1, WhileObserved
  <1>3. n \in 0..MaxFailures /\ 0 \in 0..MaxFailures
    BY MaxFailuresAssumption DEF Journals
  <1>4. /\ k \in Journals /\ k.phase = j.phase /\ k.plan = j.plan /\ k.prepared = j.prepared
        /\ k.prepWindow = j.prepWindow /\ k.submitStarted = j.submitStarted /\ k.named = j.named
        /\ k.absence = j.absence /\ k.remote = j.remote /\ k.obs = v.exec /\ k.problem = "none" /\ k.failures = 0
    <2>. DEFINE x == Cleared(j)
    <2>1. x \in Journals /\ SameCourse(j, x) /\ x.problem = "none" /\ x.failures = 0
      BY Conditions DEF Problems
    <2>. HIDE DEF x
    <2>2. k = [x EXCEPT !.obs = v.exec]
      BY DEF x
    <2>. HIDE DEF k
    <2>. QED  BY <1>1, <2>1, <2>2 DEF SameCourse, Journals
  <1>5. ValidTransition(s, t) /\ t \in AttemptStates
    BY <1>1, ObservedFacts DEF StaleObservation
  <1>c. r = CASE v.exec \in ExecutionTerminal -> [j |-> [k EXCEPT !.phase = "collectible"], s |-> t]
              [] v.exec = "unknown" /\ n = MaxFailures ->
                   [j |-> [k EXCEPT !.problem = "open", !.failures = n, !.phase = "attention"],
                    s |-> [t EXCEPT !.orch = "needs_attention", !.cancel = c]]
              [] v.exec = "unknown" /\ n < MaxFailures ->
                   [j |-> [k EXCEPT !.problem = "open", !.failures = n], s |-> t]
              [] OTHER -> [j |-> k, s |-> t]
    BY DEF ObservationSeen
  <1>. HIDE DEF n, k, t, r, c
  <1>6. CASE v.exec \in ExecutionTerminal
    <2>1. r.j = [k EXCEPT !.phase = "collectible"] /\ r.s = t
      BY <1>c, <1>6, Names
    <2>2. ValidJournal(r.j)
      BY <1>1, <1>2, <1>3, <1>4, <1>6, <2>1 DEF ValidJournal, Journals
    <2>. QED  BY <1>5, <2>1, <2>2 DEF Commits, r
  <1>7. CASE v.exec = "unknown" /\ n = MaxFailures
    <2>0. v.exec \notin ExecutionTerminal
      BY <1>7 DEF ExecutionTerminal
    <2>1. /\ r.j = [k EXCEPT !.problem = "open", !.failures = n, !.phase = "attention"]
          /\ r.s = [t EXCEPT !.orch = "needs_attention", !.cancel = c]
      BY <1>c, <1>3, <1>7, <2>0, MaxFailuresAssumption
    <2>2. /\ t.exec = s.exec /\ t.remote = s.remote /\ t.release = s.release /\ t.result = s.result
      BY <1>1, <1>7, ObservedFacts DEF t
    <2>3. t.deadline = s.deadline
      BY <1>7 DEF ObservedState, AttemptStates, t
    <2>4. /\ c = s.cancel \/ (c = "manual_required" /\ CancellationPending(s))
          /\ c \in Cancellations
      <3>1. s.cancel \in Cancellations /\ "manual_required" \in Cancellations
        BY DEF AttemptStates, Cancellations
      <3>. QED  BY <3>1 DEF ManualIfPending, c
    <2>5. ValidJournal(r.j)
      <3>1. /\ r.j.phase = "attention" /\ r.j.problem = "open" /\ r.j.failures = n /\ r.j.plan = j.plan
            /\ r.j.prepared = j.prepared /\ r.j.prepWindow = j.prepWindow
            /\ r.j.submitStarted = j.submitStarted /\ r.j.named = j.named
            /\ r.j.absence = j.absence /\ r.j.remote = j.remote /\ r.j.obs = v.exec
        BY <1>4, <2>1 DEF Journals
      <3>. QED  BY <1>1, <1>2, <1>3, <2>0, <3>1 DEF ValidJournal
    <2>6. /\ r.s \in AttemptStates /\ r.s.orch = "needs_attention" /\ r.s.cancel = c /\ r.s.exec = s.exec
          /\ r.s.remote = s.remote /\ r.s.release = s.release /\ r.s.result = s.result
          /\ r.s.deadline = s.deadline
      BY <1>5, <2>1, <2>2, <2>3, <2>4 DEF AttemptStates, Orchestrations
    <2>7. /\ Moves(OrchestrationTransitions, s.orch, r.s.orch)
          /\ r.s.orch \in {"queued", "preparing", "reconciling", "needs_attention", "cancelling"}
      BY <1>2, <2>6, OrchestrationMoves
    <2>8. ValidTransition(s, r.s)
      BY <1>1, <1>2, <2>4, <2>6, <2>7, OrchestrationOnly
    <2>. QED  BY <2>5, <2>8 DEF Commits, r
  <1>8. CASE v.exec = "unknown" /\ n # MaxFailures
    <2>0. v.exec \notin ExecutionTerminal /\ n < MaxFailures
      BY <1>3, <1>8, MaxFailuresAssumption DEF ExecutionTerminal
    <2>1. r.j = [k EXCEPT !.problem = "open", !.failures = n] /\ r.s = t
      BY <1>c, <1>8, <2>0
    <2>2. ValidJournal(r.j)
      BY <1>1, <1>2, <1>3, <1>4, <1>8, <2>0, <2>1 DEF ValidJournal, Journals
    <2>. QED  BY <1>5, <2>1, <2>2 DEF Commits, r
  <1>9. CASE v.exec \notin ExecutionTerminal /\ v.exec # "unknown"
    <2>1. r.j = k /\ r.s = t
      BY <1>c, <1>9
    <2>2. ValidJournal(r.j)
      BY <1>1, <1>2, <1>3, <1>4, <1>9, <2>1 DEF ValidJournal, Journals
    <2>. QED  BY <1>5, <2>1, <2>2 DEF Commits, r
  <1>. QED  BY <1>6, <1>7, <1>8, <1>9

\* The deadline ends what was not submitted, wherever it had got to.
LEMMA ExpireCommits ==
    ASSUME NEW j \in Journals, NEW s \in AttemptStates, NEW o \in Operations, NEW i,
           FactsOK(j, s, i, o), ExpireDispatchAllowed(j, s)
    PROVE  Commits(s, ExpireDispatch(j, s))
  <1>. DEFINE r == ExpireDispatch(j, s)
              m == [j EXCEPT !.phase = "prevented"]
  <1>1. ~j.submitStarted /\ s.orch \notin OrchestrationTerminal /\ ValidJournal(j) /\ ValidState(s) /\ PhaseOK(j, s)
    BY DEF ExpireDispatchAllowed, PreventDispatchAllowed, FactsOK
  <1>2. /\ j.phase \in {"local", "staging", "ready", "attention"} /\ Untouched(s)
        /\ ~j.remote /\ ~j.named /\ j.absence = "unset" /\ j.obs = "none"
    BY <1>1, BeforeSubmission
  <1>3. s.orch \in {"queued", "preparing", "blocked", "reconciling", "needs_attention"}
    BY <1>1, <1>2 DEF PhaseOK, LocalOnly
  <1>4. ValidJournal(r.j)
    <2>0. r.j = Problem(m, "open")
      BY DEF ExpireDispatch
    <2>1. m \in Journals
      BY DEF Journals, Phases
    <2>2. Problem(m, "open") \in Journals /\ SameCourse(m, Problem(m, "open")) /\ Problem(m, "open").problem = "open"
      BY <2>1, Conditions DEF Problems
    <2>3. ValidJournal(Problem(m, "open"))
      BY <1>1, <1>2, <2>2 DEF ValidJournal, SameCourse, Journals
    <2>. QED  BY <2>0, <2>3
  <1>5. /\ r.s.orch = "timed_out" /\ r.s.release = "not_applicable" /\ r.s.deadline /\ r.s.exec = s.exec
        /\ r.s.remote = s.remote /\ r.s.cancel = s.cancel /\ r.s.result = s.result
    BY DEF ExpireDispatch, AttemptStates
  <1>. HIDE DEF r, m
  <1>6. ValidState(r.s)
    BY <1>2, <1>5 DEF Untouched, ValidState, ExecutionConsistent, ResultConsistent, CancellationConsistent,
       ReleaseConsistent, OrchestrationConsistent, OrchestrationTerminal, ExecutionTerminal, ExecutionActive
  <1>7. /\ Moves(OrchestrationTransitions, s.orch, r.s.orch)
        /\ Moves(ReleaseEvidenceTransitions, s.release, r.s.release)
    BY <1>2, <1>3, <1>5, OrchestrationMoves, EvidenceMoves DEF Untouched
  <1>8. ValidTransition(s, r.s)
    BY <1>1, <1>5, <1>6, <1>7, Stays DEF ValidTransition
  <1>. QED  BY <1>4, <1>8 DEF Commits, r

\* A refusal of new work goes back to the queue, or leaves what was prepared as it is.
LEMMA RefuseCommits ==
    ASSUME NEW j \in Journals, NEW s \in AttemptStates, NEW o \in Operations, NEW i,
           FactsOK(j, s, i, o), RefuseNewWorkAllowed(j, s)
    PROVE  Commits(s, RefuseNewWork(j, s))
  <1>. DEFINE r == RefuseNewWork(j, s)
              m == Problem(j, "open")
  <1>1. /\ ~j.submitStarted /\ ValidJournal(j) /\ ValidState(s) /\ j.phase \in {"local", "ready"}
        /\ ~j.plan => j.phase = "local"
    BY DEF RefuseNewWorkAllowed, FactsOK, ValidJournal
  <1>2. ValidJournal(r.j)
    <2>0. r.j = m
      BY DEF RefuseNewWork
    <2>1. m \in Journals /\ SameCourse(j, m) /\ m.problem = "open" /\ m.failures = j.failures
      BY Conditions DEF Problems
    <2>. HIDE DEF r, m
    <2>. QED  BY <1>1, <2>0, <2>1 DEF ValidJournal, SameCourse, Journals
  <1>3. ValidTransition(s, r.s)
    <2>1. CASE j.plan
      <3>1. r.s = s
        BY <2>1 DEF RefuseNewWork
      <3>. HIDE DEF r
      <3>. QED  BY <1>1, <3>1, Stays DEF ValidTransition
    <2>2. CASE ~j.plan
      <3>1. LocalOnly(s) /\ s.release = "unknown"
        BY <1>1, <2>2 DEF FactsOK, PhaseOK
      <3>2. /\ r.s \in AttemptStates
            /\ r.s.orch = "queued" /\ r.s.release = s.release /\ r.s.exec = s.exec /\ r.s.remote = s.remote
            /\ r.s.cancel = s.cancel /\ r.s.result = s.result /\ r.s.deadline = s.deadline
        BY <2>2 DEF RefuseNewWork, AttemptStates, Orchestrations
      <3>. HIDE DEF r
      <3>3. /\ s.result = "not_available" /\ s.release # "not_applicable"
            /\ r.s.orch \in {"queued", "preparing", "reconciling", "needs_attention", "cancelling"}
            /\ Moves(OrchestrationTransitions, s.orch, r.s.orch)
        BY <3>1, <3>2, OrchestrationMoves DEF LocalOnly
      <3>. QED  BY <1>1, <3>2, <3>3, OrchestrationOnly
    <2>. QED  BY <2>1, <2>2
  <1>. QED  BY <1>2, <1>3 DEF Commits, r

\* The intent to prepare is recorded.
LEMMA BeginPreparationCommits ==
    ASSUME NEW j \in Journals, NEW s \in AttemptStates, NEW o \in Operations, NEW i,
           FactsOK(j, s, i, o), BeginPreparationAllowed(j, s)
    PROVE  Commits(s, BeginPreparation(j, s))
  <1>. DEFINE r == BeginPreparation(j, s)
              m == [j EXCEPT !.phase = "staging", !.plan = TRUE]
  <1>1. /\ j.phase = "local" /\ ~j.plan /\ LocalOnly(s) /\ s.release = "unknown" /\ ValidJournal(j) /\ ValidState(s)
    BY DEF BeginPreparationAllowed, FactsOK, PhaseOK
  <1>2. ValidJournal(r.j)
    <2>0. r.j = Cleared(m)
      BY DEF BeginPreparation
    <2>1. m \in Journals
      BY DEF Journals, Phases
    <2>2. /\ Cleared(m) \in Journals /\ SameCourse(m, Cleared(m)) /\ Cleared(m).problem = "none"
          /\ Cleared(m).failures = 0
      BY <2>1, Conditions DEF Problems
    <2>3. ValidJournal(Cleared(m))
      BY <1>1, <2>2, MaxFailuresAssumption DEF ValidJournal, SameCourse, Journals
    <2>. QED  BY <2>0, <2>3
  <1>3. /\ r.s \in AttemptStates /\ r.s.exec = s.exec /\ r.s.remote = s.remote /\ r.s.cancel = s.cancel
        /\ r.s.release = s.release /\ r.s.result = s.result /\ r.s.deadline = s.deadline
        /\ r.s.orch = "preparing"
    BY DEF BeginPreparation, AttemptStates, Orchestrations
  <1>. HIDE DEF r, m
  <1>4. /\ s.result = "not_available" /\ s.release # "not_applicable"
        /\ r.s.orch \in {"queued", "preparing", "reconciling", "needs_attention", "cancelling"}
        /\ Moves(OrchestrationTransitions, s.orch, r.s.orch)
    BY <1>1, <1>3, OrchestrationMoves DEF LocalOnly
  <1>5. ValidTransition(s, r.s)
    BY <1>1, <1>3, <1>4, OrchestrationOnly
  <1>. QED  BY <1>2, <1>5 DEF Commits, r

\* The intent to submit is recorded.
LEMMA BeginSubmissionCommits ==
    ASSUME NEW j \in Journals, NEW s \in AttemptStates, NEW o \in Operations, NEW i,
           FactsOK(j, s, i, o), BeginSubmissionAllowed(j, s)
    PROVE  Commits(s, BeginSubmission(j, s))
  <1>. DEFINE r == BeginSubmission(j, s)
              m == [j EXCEPT !.phase = "submitting", !.submitStarted = TRUE]
  <1>1. /\ j.phase = "ready" /\ ~j.submitStarted /\ j.prepared = "ready" /\ ValidJournal(j) /\ ValidState(s)
        /\ Untouched(s) /\ s.orch = "preparing"
    BY DEF BeginSubmissionAllowed, FactsOK, PhaseOK
  <1>2. j.plan /\ ~j.remote /\ j.obs = "none" /\ ~j.named /\ j.absence = "unset"
    <2>1. s.orch \notin OrchestrationTerminal
      BY <1>1 DEF OrchestrationTerminal
    <2>. QED  BY <1>1, <2>1, BeforeSubmission
  <1>3. ValidJournal(r.j)
    <2>0. r.j = Cleared(m)
      BY DEF BeginSubmission
    <2>1. m \in Journals
      BY DEF Journals, Phases
    <2>2. /\ Cleared(m) \in Journals /\ SameCourse(m, Cleared(m)) /\ Cleared(m).problem = "none"
          /\ Cleared(m).failures = 0
      BY <2>1, Conditions DEF Problems
    <2>3. ValidJournal(Cleared(m))
      BY <1>1, <1>2, <2>2, MaxFailuresAssumption DEF ValidJournal, SameCourse, Journals
    <2>. QED  BY <2>0, <2>3
  <1>4. /\ r.s.exec = "unknown" /\ r.s.remote = "possible" /\ r.s.cancel = s.cancel
        /\ r.s.release = s.release /\ r.s.result = s.result /\ r.s.deadline = s.deadline
        /\ r.s.orch = "dispatching"
    BY DEF BeginSubmission, AttemptStates
  <1>. HIDE DEF r, m
  <1>5. ValidState(r.s)
    BY <1>1, <1>4 DEF Untouched, ValidState, ExecutionConsistent, ResultConsistent, CancellationConsistent,
       ReleaseConsistent, OrchestrationConsistent, OrchestrationTerminal, ExecutionTerminal, ExecutionActive
  <1>6. /\ Moves(OrchestrationTransitions, s.orch, r.s.orch)
        /\ Moves(ExecutionTransitions, s.exec, r.s.exec)
        /\ Moves(RemoteActivityTransitions, s.remote, r.s.remote)
    BY <1>1, <1>4, OrchestrationMoves, EvidenceMoves DEF Untouched
  <1>7. ValidTransition(s, r.s)
    BY <1>1, <1>4, <1>5, <1>6, Stays DEF ValidTransition
  <1>. QED  BY <1>3, <1>7 DEF Commits, r

-----------------------------------------------------------------------------
(* Commits and the engine.                                                 *)

\* A commit that Apply accepts leaves the engine running.
LEMMA GoesOn ==
    ASSUME NEW w, NEW a, a = sess[w].a, NEW r, NEW kind, NEW pc,
           CommitDispatch(w, r, kind, pc), Commits(st[a], r)
    PROVE  running' = running
  BY DEF CommitDispatch

\* A failure is always recorded.
LEMMA FaultGoesOn ==
    ASSUME IInv, NEW w \in Workers, NEW a, a = sess[w].a, NEW r, NEW permanent \in BOOLEAN, NEW named \in BOOLEAN,
           r = Fault(jr[a], st[a], permanent, named), CommitDispatch(w, r, "fault", "done"),
           jr[a].phase \in {"local", "staging", "ready", "submitting", "submitted"}
    PROVE  running' = running
  <1>1. Owns(w)
    BY DEF CommitDispatch
  <1>2. Commits(st[a], r)
    BY <1>1, Context, FaultCommits
  <1>. QED  BY <1>2, GoesOn

\* The failure a session holds is recorded.
LEMMA CommitFaultGoesOn ==
    ASSUME IInv, NEW w \in Workers, CommitFault(w)
    PROVE  running' = running
  <1>1. PICK a : a = sess[w].a
    OBVIOUS
  <1>2. PICK p \in BOOLEAN : p = (sess[w].ans.val = "permanent")
    OBVIOUS
  <1>3. PICK n \in BOOLEAN : n = (sess[w].ans.val = "named")
    OBVIOUS
  <1>4. PICK r : r = Fault(jr[a], st[a], p, n)
    OBVIOUS
  <1>5. CommitDispatch(w, r, "fault", "done") /\ FaultAllowed(jr[a], st[a]) /\ Owns(w)
    BY <1>1, <1>2, <1>3, <1>4 DEF CommitFault, CommitDispatch
  <1>6. jr[a].phase \in {"local", "staging", "ready", "submitting", "submitted"}
    <2>1. jr[a] \in Journals
      BY <1>1, <1>5, Context
    <2>. QED  BY <1>5, <2>1 DEF FaultAllowed, Journals, Phases
  <1>. QED  BY <1>1, <1>4, <1>5, <1>6, FaultGoesOn

\* A preparation that could not be confirmed is tried again or ended.
LEMMA CommitUnreadyGoesOn ==
    ASSUME IInv, NEW w \in Workers, CommitUnready(w)
    PROVE  running' = running
  <1>1. PICK a : a = sess[w].a
    OBVIOUS
  <1>2. sess[w].ans.kind = "unready" /\ Owns(w)
    BY DEF CommitUnready, Answered, CommitDispatch
  <1>3. UnconfirmedPreparation(jr[a])
    BY <1>1, <1>2, Context DEF OwnerOK
  <1>4. PICK f : f = Fault(jr[a], st[a], FALSE, FALSE)
    OBVIOUS
  <1>5. PICK e : e = EndUnconfirmedPreparation(jr[a], st[a])
    OBVIOUS
  <1>6. CASE CommitDispatch(w, f, "fault", "done")
    BY <1>1, <1>3, <1>4, <1>6, FaultGoesOn DEF UnconfirmedPreparation
  <1>7. CASE CommitDispatch(w, e, "end", "done")
    <2>1. Commits(st[a], e)
      BY <1>1, <1>2, <1>3, <1>5, Context, EndPreparationCommits
    <2>. QED  BY <1>1, <1>7, <2>1, GoesOn
  <1>. QED  BY <1>1, <1>4, <1>5, <1>6, <1>7 DEF CommitUnready

\* What the provider says of the staged inputs is recorded.
LEMMA CommitPreparedGoesOn ==
    ASSUME IInv, NEW w \in Workers, CommitPrepared(w)
    PROVE  running' = running
  <1>1. PICK a : a = sess[w].a
    OBVIOUS
  <1>2. PICK p : p = sess[w].ans.val
    OBVIOUS
  <1>3. PICK r : r = PreparationSeen(jr[a], st[a], p)
    OBVIOUS
  <1>4. /\ CommitDispatch(w, r, "prepared", "done") /\ PreparationSeenAllowed(jr[a], st[a])
        /\ sess[w].ans.kind = "prepared" /\ Owns(w)
    BY <1>1, <1>2, <1>3 DEF CommitPrepared, CommitDispatch, Answered
  <1>5. p \in {"pending", "ready", "public"}
    BY <1>1, <1>2, <1>4, Context DEF SessOK, AnswerTrue
  <1>6. Commits(st[a], r)
    BY <1>1, <1>3, <1>4, <1>5, Context, PreparedCommits
  <1>. QED  BY <1>1, <1>4, <1>6, GoesOn

\* The outcome of Start, or the run a read found, is recorded: a refusal reaches only an
\* attempt that nobody asked to cancel, as OwnerOK says.
LEMMA CommitOutcomeGoesOn ==
    ASSUME IInv, NEW w \in Workers, CommitOutcome(w)
    PROVE  running' = running
  <1>1. PICK a : a = sess[w].a
    OBVIOUS
  <1>2. PICK val : val = sess[w].ans.val
    OBVIOUS
  <1>3. PICK r : r = CASE val \in {"accepted", "none"} -> SubmissionAccepted(jr[a], st[a])
                       [] val \in {"rejected", "expired"} ->
                            SubmissionRejected(jr[a], st[a], val = "expired")
                       [] OTHER -> SubmissionUnknown(jr[a], st[a], val = "named")
    OBVIOUS
  <1>4. /\ CommitDispatch(w, r, "submission", "done") /\ SubmissionSeenAllowed(jr[a], st[a])
        /\ sess[w].ans.kind \in {"start", "found"} /\ Owns(w)
    BY <1>1, <1>2, <1>3 DEF CommitOutcome, CommitDispatch, Answered
  <1>5. /\ jr[a] \in Journals /\ st[a] \in AttemptStates /\ op[a] \in Operations
        /\ FactsOK(jr[a], st[a], intent[a], op[a]) /\ ValidJournal(jr[a])
    BY <1>1, <1>4, Context DEF FactsOK
  <1>6. /\ sess[w].ans.kind = "start" => jr[a].absence = "unset" /\ st[a].cancel = "not_requested"
        /\ sess[w].ans.kind = "found" => val = "none"
    BY <1>1, <1>2, <1>4, Context DEF OwnerOK, SessOK, AnswerTrue
  <1>7. CASE val \in {"accepted", "none"}
    <2>1. r = SubmissionAccepted(jr[a], st[a])
      BY <1>3, <1>7
    <2>2. Commits(st[a], r)
      BY <1>4, <1>5, <2>1, AcceptedCommits
    <2>. QED  BY <1>1, <1>4, <2>2, GoesOn
  <1>8. CASE val \in {"rejected", "expired"}
    <2>. DEFINE expire == val = "expired"
    <2>1. r = SubmissionRejected(jr[a], st[a], expire) /\ expire \in BOOLEAN
      BY <1>3, <1>8
    <2>2. st[a].cancel # "manual_required"
      BY <1>4, <1>6, <1>8
    <2>. HIDE DEF expire
    <2>3. Commits(st[a], r)
      BY <1>4, <1>5, <2>1, <2>2, RejectedCommits
    <2>. QED  BY <1>1, <1>4, <2>3, GoesOn
  <1>9. CASE val \notin {"accepted", "none", "rejected", "expired"}
    <2>. DEFINE named == val = "named"
    <2>1. r = SubmissionUnknown(jr[a], st[a], named) /\ named \in BOOLEAN
      BY <1>3, <1>9
    <2>2. jr[a].absence = "unset"
      BY <1>4, <1>6, <1>9
    <2>. HIDE DEF named
    <2>3. Commits(st[a], r)
      BY <1>4, <1>5, <2>1, <2>2, UnknownCommits
    <2>. QED  BY <1>1, <1>4, <2>3, GoesOn
  <1>. QED  BY <1>7, <1>8, <1>9

\* Absence is recorded unless the cancellation of the attempt went to the owner.
LEMMA CommitAbsentGoesOn ==
    ASSUME IInv, NEW w \in Workers, CommitAbsent(w), st[sess[w].a].cancel # "manual_required"
    PROVE  running' = running
  <1>1. PICK a : a = sess[w].a
    OBVIOUS
  <1>2. sess[w].ans.kind = "absent" /\ Owns(w)
    BY DEF CommitAbsent, Answered, CommitDispatch
  <1>3. jr[a].phase = "submitting"
    BY <1>1, <1>2, Context DEF OwnerOK
  <1>4. PICK f : f = Fault(jr[a], st[a], FALSE, FALSE)
    OBVIOUS
  <1>5. PICK r : r = SubmissionAbsenceSeen(jr[a], st[a])
    OBVIOUS
  <1>6. CASE CommitDispatch(w, f, "fault", "done")
    BY <1>1, <1>3, <1>4, <1>6, FaultGoesOn
  <1>7. CASE SubmissionAbsenceAllowed(jr[a], st[a]) /\ CommitDispatch(w, r, "absence", "done")
    <2>1. SubmissionSeenAllowed(jr[a], st[a])
      BY <1>3, <1>7 DEF SubmissionSeenAllowed, SubmissionAbsenceAllowed, AbsenceAllowed
    <2>2. Commits(st[a], r)
      BY <1>1, <1>2, <1>5, <2>1, Context, AbsenceCommits
    <2>. QED  BY <1>1, <1>7, <2>2, GoesOn
  <1>. QED  BY <1>1, <1>4, <1>5, <1>6, <1>7 DEF CommitAbsent

\* A run that is gone is recorded.
LEMMA CommitGoneGoesOn ==
    ASSUME IInv, NEW w \in Workers, CommitGone(w)
    PROVE  running' = running
  <1>1. PICK a : a = sess[w].a
    OBVIOUS
  <1>2. PICK r : r = RemoteAbsenceSeen(jr[a], st[a])
    OBVIOUS
  <1>3. CommitDispatch(w, r, "gone", "done") /\ RemoteAbsenceSeenAllowed(jr[a], st[a]) /\ Owns(w)
    BY <1>1, <1>2 DEF CommitGone, CommitDispatch
  <1>4. Commits(st[a], r)
    BY <1>1, <1>2, <1>3, Context, GoneCommits
  <1>. QED  BY <1>1, <1>3, <1>4, GoesOn

\* An observation is recorded, or dropped as stale before Apply computes anything.
LEMMA CommitObservationGoesOn ==
    ASSUME IInv, NEW w \in Workers, CommitObservation(w)
    PROVE  running' = running
  <1>1. PICK a : a = sess[w].a
    OBVIOUS
  <1>2. PICK v : v = Observation(sess[w].ans.val)
    OBVIOUS
  <1>3. PICK r : r = ObservationSeen(jr[a], st[a], v)
    OBVIOUS
  <1>4. /\ sess[w].ans.kind = "observed" /\ Owns(w) /\ ObservationSeenAllowed(jr[a], st[a])
        /\ IF StaleObservation(st[a], v) THEN running' = running
           ELSE CommitDispatch(w, r, "observed", "done")
    BY <1>1, <1>2, <1>3 DEF CommitObservation, Answered
  <1>5. v \in Readings
    <2>1. sess[w].ans.val \in Executions \ {"not_submitted"}
      BY <1>1, <1>4, Context DEF SessOK, AnswerTrue
    <2>. QED  BY <1>2, <2>1, ReadingFacts
  <1>6. CASE ~StaleObservation(st[a], v)
    <2>1. Commits(st[a], r)
      BY <1>1, <1>3, <1>4, <1>5, <1>6, Context, ObservationCommits
    <2>. QED  BY <1>1, <1>4, <1>6, <2>1, GoesOn
  <1>. QED  BY <1>4, <1>6

\* The commit of an answer stops the engine only on absence against the owner.
LEMMA AnswersGoOn ==
    ASSUME IInv, NEW w \in Workers, CommitAnswer(w), running' # running
    PROVE  st[sess[w].a].cancel = "manual_required" /\ sess[w].ans.kind = "absent"
  <1>1. ~CommitFault(w) /\ ~CommitUnready(w) /\ ~CommitPrepared(w) /\ ~CommitOutcome(w)
    BY CommitFaultGoesOn, CommitUnreadyGoesOn, CommitPreparedGoesOn, CommitOutcomeGoesOn
  <1>2. ~CommitGone(w) /\ ~CommitObservation(w)
    BY CommitGoneGoesOn, CommitObservationGoesOn
  <1>3. ~CommitStop(w)
    <2>1. ASSUME CommitStop(w) PROVE running' = running
      BY <2>1 DEF CommitStop, CommitCancellation
    <2>. QED  BY <2>1
  <1>4. CommitAbsent(w)
    BY <1>1, <1>2, <1>3 DEF CommitAnswer
  <1>. QED  BY <1>4, CommitAbsentGoesOn DEF CommitAbsent, Answered

\* What a session commits before it calls the provider is recorded: expiry, refusal, and
\* the intents to prepare and to submit.
LEMMA PermitsGoOn ==
    ASSUME IInv, NEW w \in Workers,
           Expire(w) \/ Refuse(w) \/ CommitPreparation(w) \/ CommitSubmission(w)
    PROVE  running' = running
  <1>1. PICK a : a = sess[w].a
    OBVIOUS
  <1>2. CASE Expire(w)
    <2>1. PICK r : r = ExpireDispatch(jr[a], st[a])
      OBVIOUS
    <2>2. CommitDispatch(w, r, "expire", "done") /\ ExpireDispatchAllowed(jr[a], st[a]) /\ Owns(w)
      BY <1>1, <1>2, <2>1 DEF Expire, CommitDispatch
    <2>3. Commits(st[a], r)
      BY <1>1, <2>1, <2>2, Context, ExpireCommits
    <2>. QED  BY <1>1, <2>2, <2>3, GoesOn
  <1>3. CASE Refuse(w)
    <2>1. PICK r : r = RefuseNewWork(jr[a], st[a])
      OBVIOUS
    <2>2. CommitDispatch(w, r, "refuse", "done") /\ RefuseNewWorkAllowed(jr[a], st[a]) /\ Owns(w)
      BY <1>1, <1>3, <2>1 DEF Refuse, CommitDispatch
    <2>3. Commits(st[a], r)
      BY <1>1, <2>1, <2>2, Context, RefuseCommits
    <2>. QED  BY <1>1, <2>2, <2>3, GoesOn
  <1>4. CASE CommitPreparation(w)
    <2>1. PICK r : r = BeginPreparation(jr[a], st[a])
      OBVIOUS
    <2>2. CommitDispatch(w, r, "begin", "prepare") /\ BeginPreparationAllowed(jr[a], st[a]) /\ Owns(w)
      BY <1>1, <1>4, <2>1 DEF CommitPreparation, CommitDispatch
    <2>3. Commits(st[a], r)
      BY <1>1, <2>1, <2>2, Context, BeginPreparationCommits
    <2>. QED  BY <1>1, <2>2, <2>3, GoesOn
  <1>5. CASE CommitSubmission(w)
    <2>1. PICK r : r = BeginSubmission(jr[a], st[a])
      OBVIOUS
    <2>2. CommitDispatch(w, r, "submit", "start") /\ BeginSubmissionAllowed(jr[a], st[a]) /\ Owns(w)
      BY <1>1, <1>5, <2>1 DEF CommitSubmission, CommitDispatch
    <2>3. Commits(st[a], r)
      BY <1>1, <2>1, <2>2, Context, BeginSubmissionCommits
    <2>. QED  BY <1>1, <2>2, <2>3, GoesOn
  <1>. QED  BY <1>2, <1>3, <1>4, <1>5

\* No other step moves a session and stops the engine.
LEMMA OnlyAnswersStop ==
    ASSUME IInv, [Next]_vars, NEW w \in Workers, running, ~running', sess'[w] # sess[w]
    PROVE  CommitAnswer(w)
  <1>0. sess \in [Workers -> Sessions]
    BY DEF IInv, TypeOK
  <1>1. ASSUME NEW v \in Workers, SessionStep(v), ~CommitAnswer(v) PROVE FALSE
    <2>1. CASE Expire(v) \/ Refuse(v) \/ CommitPreparation(v) \/ CommitSubmission(v)
      BY <2>1, PermitsGoOn
    <2>2. CASE Load(v) \/ Yield(v) \/ Abandon(v) \/ Interrupt(v) \/ ExpiredMutation(v) \/ ConsumeAuthorization(v)
      BY <2>2 DEF Load, Yield, Abandon, Interrupt, ExpiredMutation, ConsumeAuthorization
    <2>3. CASE CallPrepare(v) \/ PrepareReturns(v) \/ PrepareExpires(v) \/ PassFails(v) \/ ReadStaging(v)
               \/ CallStart(v) \/ StartReturns(v) \/ ReadSubmission(v) \/ ReadExecution(v)
      BY <2>3 DEF CallPrepare, PrepareReturns, PrepareExpires, PassFails, ReadStaging, CallStart, StartReturns,
         ReadSubmission, ReadExecution
    <2>4. CASE BeginStop(v) \/ CallCancel(v) \/ CancelReturns(v)
      BY <2>4 DEF BeginStop, CommitCancellation, CallCancel, CancelReturns
    <2>. QED  BY <1>1, <2>1, <2>2, <2>3, <2>4 DEF SessionStep
  <1>2. ASSUME NEW v \in Workers, CommitAnswer(v), v # w PROVE FALSE
    <2>1. ASSUME NEW r, NEW kind, NEW pc, CommitDispatch(v, r, kind, pc) PROVE FALSE
      <3>1. Goto(v, "done")
        BY <2>1 DEF CommitDispatch
      <3>. QED  BY <1>0, <1>2, <3>1 DEF Goto
    <2>2. running' # running
      OBVIOUS
    <2>. QED  BY <1>2, <2>1, <2>2 DEF CommitAnswer, CommitFault, CommitUnready, CommitPrepared, CommitOutcome,
              CommitAbsent, CommitGone, CommitObservation, CommitStop, CommitCancellation
  <1>3. ASSUME NEW v \in Workers, ClaimStep(v) PROVE FALSE
    BY <1>3 DEF ClaimStep, ClaimRecovery, ClaimNext
  <1>4. ASSUME NEW a \in Attempts, ControlStep(a) PROVE FALSE
    BY <1>4 DEF ControlStep, AuthorizeExecution, CancelSettled, CancelPrevents, CancelRequested, Reconcile,
       OwnerResolvesAbsent, Retry, ClaimCollection, CompleteCollection, FailCollection, EndCollection, ControlWrite
  <1>5. ASSUME NEW a \in Attempts, OutsideStep(a) PROVE FALSE
    BY <1>5 DEF OutsideStep, WindowElapses, WorldMoves, LeaseExpires
  <1>6. ~(Crash \/ Shutdown \/ Restart \/ DeadlinePasses) /\ ~UNCHANGED vars
    BY DEF Crash, Shutdown, Restart, DeadlinePasses, vars
  <1>. QED  BY <1>1, <1>2, <1>3, <1>4, <1>5, <1>6 DEF Next

\* Apply refuses the facts a session computed, before, at or after the submission, which
\* stops the engine (ErrInvalid in worker.Run), only when a submission turns out absent
\* after its cancellation went to the owner.
THEOREM StopsOnlyOnManualAbsence == Spec => EngineStopsOnlyOnManualAbsence
  <1>1. ASSUME IInv, [Next]_vars, NEW w \in Workers, running, ~running', sess'[w] # sess[w]
        PROVE  st[sess[w].a].cancel = "manual_required" /\ sess[w].ans.kind = "absent"
    <2>1. CommitAnswer(w) /\ running' # running
      BY <1>1, OnlyAnswersStop
    <2>. QED  BY <1>1, <2>1, AnswersGoOn
  <1>2. IInv /\ [Next]_vars =>
            [\A w \in Workers :
               running /\ ~running' /\ sess'[w] # sess[w] =>
                   /\ st[sess[w].a].cancel = "manual_required"
                   /\ sess[w].ans.kind = "absent"]_vars
    BY <1>1
  <1>. QED  BY <1>2, Invariance, PTL DEF Spec, EngineStopsOnlyOnManualAbsence

-----------------------------------------------------------------------------
(* What a session has seen, and may rely on until it commits.              *)

LivePhases == {"local", "staging", "ready", "submitting", "submitted"}

\* The facts (j, s, o) of its attempt that session x saw, called upon or was answered
\* about.
Needs(x, j, s, o) ==
    /\ x.pc \in {"claimed", "loaded"} \/ x.ans.kind = "fault" => j.phase \in LivePhases
    /\ x.pc = "consented" => j.phase = "local"
    /\ x.pc = "expire" => j.phase \in {"local", "staging", "ready"}
    /\ x.pc \in {"prepare", "preparing"} \/ x.ans.kind = "prepared" => j.phase = "staging"
    /\ x.pc \in {"start", "starting"} \/ x.ans.kind \in {"start", "found", "absent"} => j.phase = "submitting"
    /\ x.ans.kind \in {"gone", "observed"} => j.phase = "submitted"
    /\ x.pc \in {"stop", "stopping"} \/ x.ans.kind = "stop" =>
         j.phase = "submitted" /\ Pending(o) /\ s.cancel = "requesting"
    /\ x.pc = "answered" => x.ans.kind # "none"

\* As long as its handle is accepted they are the facts of the attempt.
RelyOK(w) == Owns(w) => Needs(sess[w], jr[sess[w].a], st[sess[w].a], op[sess[w].a])

RelyInv == \A w \in Workers : RelyOK(w)

\* A session at its start or at its end, and one whose handle is refused, needs nothing.
LEMMA RelyNothing ==
    ASSUME NEW v \in Workers,
           \/ sess'[v].pc \in {"idle", "done"} /\ sess'[v].ans.kind = "none"
           \/ ~sess'[v].fresh
           \/ lease'[sess'[v].a] # v
    PROVE  RelyOK(v)'
  BY DEF RelyOK, Owns, Needs

\* A session that goes on as it was, with the facts it needs as they were.
LEMMA RelyKept ==
    ASSUME RelyInv, NEW v \in Workers, NEW a, a = sess[v].a, sess'[v] = sess[v], active' = active,
           lease'[a] = lease[a] \/ lease'[a] # v, jr'[a].phase = jr[a].phase, st'[a].cancel = st[a].cancel,
           Pending(op'[a]) = Pending(op[a])
    PROVE  RelyOK(v)'
  <1>1. RelyOK(v) /\ sess'[v].a = a
    BY DEF RelyInv
  <1>2. Owns(v)' => Owns(v)
    BY <1>1 DEF Owns
  <1>3. Needs(sess[v], jr[a], st[a], op[a]) => Needs(sess[v], jr'[a], st'[a], op'[a])
    BY DEF Needs
  <1>. QED  BY <1>1, <1>2, <1>3 DEF RelyOK

\* A step of session w, which writes facts only of an attempt it owns.
LEMMA RelyStep ==
    ASSUME IInv, RelyInv, NEW w \in Workers, NEW a, a = sess[w].a, active' = active, lease' = lease,
           \A v \in Workers : v # w => sess'[v] = sess[v],
           \A b \in Attempts : b # a => jr'[b] = jr[b] /\ st'[b] = st[b] /\ op'[b] = op[b],
           Owns(w) \/ UNCHANGED <<jr, st, op>>,
           RelyOK(w)'
    PROVE  RelyInv'
  <1>1. ASSUME NEW v \in Workers PROVE RelyOK(v)'
    <2>1. CASE v = w
      BY <2>1
    <2>2. CASE v # w
      <3>1. PICK b : b = sess[v].a
        OBVIOUS
      <3>2. sess'[v] = sess[v] /\ b \in Attempts
        BY <2>2, <3>1 DEF IInv, TypeOK, Sessions
      <3>3. CASE b = a /\ Owns(w)
        <4>1. lease'[b] = w
          BY <3>3 DEF Owns
        <4>. QED  BY <2>2, <3>1, <3>2, <4>1, RelyNothing
      <3>4. CASE b # a \/ UNCHANGED <<jr, st, op>>
        <4>1. jr'[b] = jr[b] /\ st'[b] = st[b] /\ op'[b] = op[b]
          BY <3>2, <3>4
        <4>. QED  BY <3>1, <3>2, <4>1, RelyKept
      <3>. QED  BY <3>3, <3>4
    <2>. QED  BY <2>1, <2>2
  <1>. QED  BY <1>1 DEF RelyInv

\* A step that moves session w on and writes no facts.
LEMMA RelyGoto ==
    ASSUME IInv, RelyInv, NEW w \in Workers, NEW a, a = sess[w].a, NEW pc \in Pcs, Goto(w, pc),
           UNCHANGED <<jr, st, op, active, lease>>,
           NEW x, x = [sess[w] EXCEPT !.pc = pc, !.ans = NoAnswer],
           Owns(w) => Needs(x, jr[a], st[a], op[a])
    PROVE  RelyInv'
  <1>1. sess \in [Workers -> Sessions] /\ sess[w] \in Sessions
    BY DEF IInv, TypeOK
  <1>2. sess' = [sess EXCEPT ![w] = x]
    BY <1>1 DEF Goto, Sessions
  <1>3. /\ sess'[w] = x /\ x.a = a /\ x.fresh = sess[w].fresh
        /\ \A v \in Workers : v # w => sess'[v] = sess[v]
    BY <1>1, <1>2, Starting DEF Sessions
  <1>4. Owns(w)' => Owns(w)
    BY <1>3 DEF Owns
  <1>5. RelyOK(w)'
    BY <1>3, <1>4 DEF RelyOK
  <1>. QED  BY <1>3, <1>5, RelyStep

\* The provider, or a local step, answers session w.
LEMMA RelyHold ==
    ASSUME IInv, RelyInv, NEW w \in Workers, NEW a, a = sess[w].a, NEW ans \in Answers, Hold(w, ans),
           UNCHANGED <<jr, st, op, active, lease>>,
           NEW x, x = [sess[w] EXCEPT !.pc = "answered", !.ans = ans],
           Owns(w) => Needs(x, jr[a], st[a], op[a])
    PROVE  RelyInv'
  <1>1. sess \in [Workers -> Sessions] /\ sess[w] \in Sessions
    BY DEF IInv, TypeOK
  <1>2. sess' = [sess EXCEPT ![w] = x]
    BY <1>1 DEF Hold, Sessions
  <1>3. /\ sess'[w] = x /\ x.a = a /\ x.fresh = sess[w].fresh
        /\ \A v \in Workers : v # w => sess'[v] = sess[v]
    BY <1>1, <1>2 DEF Sessions
  <1>4. Owns(w)' => Owns(w)
    BY <1>3 DEF Owns
  <1>5. RelyOK(w)'
    BY <1>3, <1>4 DEF RelyOK
  <1>. QED  BY <1>3, <1>5, RelyStep

\* Steps that move a session on: what it needs afterwards it needed, or just read.
LEMMA GotoRelies ==
    ASSUME IInv, RelyInv, NEW w \in Workers,
           \/ Load(w) \/ Interrupt(w) \/ ExpiredMutation(w) \/ PrepareExpires(w) \/ ConsumeAuthorization(w)
           \/ CallPrepare(w) \/ CallStart(w) \/ CallCancel(w)
    PROVE  RelyInv'
  <1>1. PICK a : a = sess[w].a
    OBVIOUS
  <1>2. PICK y : y = sess[w]
    OBVIOUS
  <1>3. y \in Sessions /\ (Owns(w) => Needs(y, jr[a], st[a], op[a]))
    BY <1>1, <1>2 DEF IInv, TypeOK, RelyInv, RelyOK
  <1>4. ASSUME NEW pc \in Pcs, Goto(w, pc), UNCHANGED <<jr, st, op, active, lease>>,
               \/ pc = "done"
               \/ pc = "expire" /\ (Owns(w) => jr[a].phase \in {"local", "staging", "ready"})
               \/ pc = "loaded" /\ y.pc = "claimed"
               \/ pc = "consented" /\ jr[a].phase = "local"
               \/ pc = "preparing" /\ y.pc = "prepare"
               \/ pc = "starting" /\ y.pc = "start"
               \/ pc = "stopping" /\ y.pc = "stop"
        PROVE  RelyInv'
    <2>1. PICK x : x = [y EXCEPT !.pc = pc, !.ans = NoAnswer]
      OBVIOUS
    <2>2. x.pc = pc /\ x.ans.kind = "none"
      BY <1>3, <2>1, Starting DEF Sessions
    <2>3. Owns(w) => Needs(x, jr[a], st[a], op[a])
      BY <1>3, <1>4, <2>2 DEF Needs
    <2>. QED  BY <1>1, <1>2, <1>4, <2>1, <2>3, RelyGoto
  <1>5. CASE Load(w)
    <2>1. /\ Goto(w, IF ExpiryDue(a) THEN "expire" ELSE "loaded")
          /\ y.pc = "claimed" /\ Owns(w) /\ UNCHANGED <<jr, st, op, active, lease>>
      BY <1>1, <1>2, <1>5 DEF Load, durable
    <2>2. jr[a].phase \in LivePhases /\ a \in Attempts
      BY <1>2, <1>3, <2>1, <1>1 DEF Needs, Sessions
    <2>3. ~jr[a].submitStarted => jr[a].phase \in {"local", "staging", "ready"}
      BY <2>2, Known DEF FactsOK, ValidJournal, LivePhases
    <2>4. CASE ExpiryDue(a)
      <3>1. Goto(w, "expire") /\ ~jr[a].submitStarted
        BY <2>1, <2>4 DEF ExpiryDue
      <3>. QED  BY <1>4, <2>1, <2>3, <3>1 DEF Pcs
    <2>5. CASE ~ExpiryDue(a)
      <3>1. Goto(w, "loaded")
        BY <2>1, <2>5
      <3>. QED  BY <1>4, <2>1, <3>1 DEF Pcs
    <2>. QED  BY <2>4, <2>5
  <1>6. CASE Interrupt(w) \/ ExpiredMutation(w) \/ PrepareExpires(w)
    <2>1. CASE Interrupt(w)
      BY <1>4, <2>1 DEF Interrupt, durable, Pcs
    <2>2. CASE ExpiredMutation(w)
      <3>1. Goto(w, "expire") /\ UNCHANGED <<jr, st, op, active, lease>>
        BY <2>2 DEF ExpiredMutation, durable
      <3>2. Owns(w) => jr[a].phase \in {"local", "ready"}
        BY <1>1, <1>2, <1>3, <2>2 DEF ExpiredMutation, At, Needs
      <3>. QED  BY <1>4, <3>1, <3>2 DEF Pcs
    <2>3. CASE PrepareExpires(w)
      <3>1. Goto(w, "expire") /\ UNCHANGED <<jr, st, op, active, lease>> /\ y.pc = "preparing"
        BY <1>2, <2>3 DEF PrepareExpires, durable
      <3>2. Owns(w) => jr[a].phase = "staging"
        BY <1>3, <3>1 DEF Needs
      <3>. QED  BY <1>4, <3>1, <3>2 DEF Pcs
    <2>. QED  BY <1>6, <2>1, <2>2, <2>3
  <1>7. CASE ConsumeAuthorization(w)
    BY <1>1, <1>4, <1>7 DEF ConsumeAuthorization, At, Pcs
  <1>8. CASE CallPrepare(w) \/ CallStart(w) \/ CallCancel(w)
    BY <1>2, <1>4, <1>8 DEF CallPrepare, CallStart, CallCancel, durable, Pcs
  <1>. QED  BY <1>5, <1>6, <1>7, <1>8

\* Answers: each is about the phase the session called or read in.
LEMMA HoldRelies ==
    ASSUME IInv, RelyInv, NEW w \in Workers,
           \/ PrepareReturns(w) \/ PassFails(w) \/ ReadStaging(w) \/ StartReturns(w)
           \/ ReadSubmission(w) \/ ReadExecution(w) \/ CancelReturns(w)
    PROVE  RelyInv'
  <1>1. PICK a : a = sess[w].a
    OBVIOUS
  <1>2. PICK y : y = sess[w]
    OBVIOUS
  <1>3. /\ y \in Sessions /\ (Owns(w) => Needs(y, jr[a], st[a], op[a])) /\ a \in Attempts
        /\ jr[a] \in Journals /\ world[a] \in Worlds
    BY <1>1, <1>2 DEF IInv, TypeOK, RelyInv, RelyOK, Sessions
  <1>4. ASSUME NEW k \in {"fault", "unready", "prepared", "start", "found", "absent", "gone", "observed", "stop"},
               NEW v \in {"none", "open", "permanent", "named", "answered", "unanswered",
                          "pending", "ready", "public", "accepted", "rejected", "expired",
                          "unknown", "confirmed", "manual"} \cup Executions \cup Windows,
               Hold(w, Answer(k, v)), UNCHANGED <<jr, st, op, active, lease>>,
               \/ k = "unready"
               \/ k = "fault" /\ (y.pc \in {"loaded", "preparing"} \/ jr[a].phase \in LivePhases)
               \/ k = "prepared" /\ (y.pc = "preparing" \/ jr[a].phase = "staging")
               \/ k = "start" /\ y.pc \in {"start", "starting"}
               \/ k \in {"found", "absent"} /\ jr[a].phase = "submitting"
               \/ k \in {"gone", "observed"} /\ jr[a].phase = "submitted"
               \/ k = "stop" /\ y.pc \in {"stop", "stopping"}
        PROVE  RelyInv'
    <2>0. PICK ans : ans = Answer(k, v)
      OBVIOUS
    <2>1. ans \in Answers /\ ans.kind = k
      BY <2>0, AnswerFacts
    <2>2. PICK x : x = [y EXCEPT !.pc = "answered", !.ans = ans]
      OBVIOUS
    <2>3. x.pc = "answered" /\ x.ans.kind = k
      BY <1>3, <2>1, <2>2 DEF Sessions
    <2>4. Owns(w) => Needs(x, jr[a], st[a], op[a])
      BY <1>3, <1>4, <2>3 DEF Needs, LivePhases
    <2>. QED  BY <1>1, <1>2, <1>4, <2>0, <2>1, <2>2, <2>4, RelyHold
  <1>5. CASE PrepareReturns(w)
    <2>1. PICK ans \in StagingAnswers(a) \cup Faults : Hold(w, ans)
      BY <1>1, <1>5 DEF PrepareReturns
    <2>2. y.pc = "preparing" /\ UNCHANGED <<jr, st, op, active, lease>>
      BY <1>2, <1>5 DEF PrepareReturns, durable
    <2>. QED  BY <1>4, <2>1, <2>2 DEF StagingAnswers, Faults
  <1>6. CASE PassFails(w)
    <2>1. PICK ans \in NotReady(a) : Hold(w, ans)
      BY <1>1, <1>6 DEF PassFails
    <2>2. y.pc = "loaded" /\ UNCHANGED <<jr, st, op, active, lease>>
      BY <1>2, <1>6 DEF PassFails, durable
    <2>. QED  BY <1>4, <2>1, <2>2 DEF NotReady, Faults
  <1>7. CASE ReadStaging(w)
    <2>1. PICK ans \in StagingAnswers(a) : Hold(w, ans)
      BY <1>1, <1>7 DEF ReadStaging
    <2>2. jr[a].phase = "staging" /\ UNCHANGED <<jr, st, op, active, lease>>
      BY <1>1, <1>7 DEF ReadStaging, At, durable
    <2>. QED  BY <1>4, <2>1, <2>2 DEF StagingAnswers
  <1>8. CASE StartReturns(w)
    <2>1. PICK v \in {"unknown", "named", "accepted", "rejected", "expired"} : Hold(w, Answer("start", v))
      BY <1>8 DEF StartReturns
    <2>2. y.pc \in {"start", "starting"} /\ UNCHANGED <<jr, st, op, active, lease>>
      BY <1>2, <1>8 DEF StartReturns, durable
    <2>. QED  BY <1>4, <2>1, <2>2
  <1>9. CASE ReadSubmission(w)
    <2>1. PICK ans \in {Answer("found", "none"), Answer("absent", jr[a].absence), Answer("fault", "named")} :
              Hold(w, ans)
      BY <1>1, <1>9 DEF ReadSubmission
    <2>2. /\ jr[a].phase = "submitting" /\ UNCHANGED <<jr, st, op, active, lease>>
          /\ jr[a].phase \in LivePhases /\ jr[a].absence \in Windows
      BY <1>1, <1>3, <1>9 DEF ReadSubmission, At, durable, LivePhases, Journals
    <2>. QED  BY <1>4, <2>1, <2>2
  <1>10. CASE ReadExecution(w)
    <2>1. PICK ans \in {Answer("observed", e) : e \in Reports(world[a])} \cup {Answer("gone", "none")} : Hold(w, ans)
      BY <1>1, <1>10 DEF ReadExecution
    <2>2. jr[a].phase = "submitted" /\ UNCHANGED <<jr, st, op, active, lease>>
      BY <1>1, <1>10 DEF ReadExecution, At, durable
    <2>3. Reports(world[a]) \subseteq Executions
      BY <1>3 DEF Reports, Executions, ExecutionActive, ExecutionTerminal
    <2>4. CASE ans = Answer("gone", "none")
      BY <1>4, <2>1, <2>2, <2>4
    <2>5. ASSUME NEW e \in Reports(world[a]), ans = Answer("observed", e) PROVE RelyInv'
      BY <1>4, <2>1, <2>2, <2>3, <2>5
    <2>. QED  BY <2>1, <2>4, <2>5
  <1>11. CASE CancelReturns(w)
    <2>1. PICK v \in {"manual", "accepted", "confirmed"} : Hold(w, Answer("stop", v))
      BY <1>11 DEF CancelReturns
    <2>2. y.pc \in {"stop", "stopping"} /\ UNCHANGED <<jr, st, op, active, lease>>
      BY <1>2, <1>11 DEF CancelReturns, durable
    <2>. QED  BY <1>4, <2>1, <2>2
  <1>. QED  BY <1>5, <1>6, <1>7, <1>8, <1>9, <1>10, <1>11

\* A commit leaves a session at its end, or with the permit its new phase stands for.
LEMMA CommitRelies ==
    ASSUME IInv, RelyInv, NEW w \in Workers, NEW a, a = sess[w].a, NEW r, NEW kind, NEW pc \in {"done", "prepare", "start"},
           CommitDispatch(w, r, kind, pc),
           pc = "prepare" => r.j.phase = "staging",
           pc = "start" => r.j.phase = "submitting"
    PROVE  RelyInv'
  <1>1. /\ sess \in [Workers -> Sessions] /\ jr \in [Attempts -> Journals] /\ st \in [Attempts -> AttemptStates]
        /\ op \in [Attempts -> Operations] /\ a \in Attempts /\ pc \in Pcs /\ "done" \in Pcs
    BY DEF IInv, TypeOK, Sessions, Pcs
  <1>2. Owns(w) /\ active' = active /\ lease' = lease
    BY DEF CommitDispatch
  <1>3. CASE Commits(st[a], r)
    <2>1. PICK f : f = Finish(r.j, r.s, op[a], kind)
      OBVIOUS
    <2>2. /\ jr' = [jr EXCEPT ![a] = r.j] /\ st' = [st EXCEPT ![a] = f.s] /\ op' = [op EXCEPT ![a] = f.o]
          /\ Goto(w, pc)
      BY <1>3, <2>1 DEF CommitDispatch
    <2>3. \A b \in Attempts : b # a => jr'[b] = jr[b] /\ st'[b] = st[b] /\ op'[b] = op[b]
      BY <1>1, <2>2
    <2>4. /\ sess'[w].pc = pc /\ sess'[w].ans.kind = "none" /\ sess'[w].a = a
          /\ \A v \in Workers : v # w => sess'[v] = sess[v]
      BY <1>1, <2>2, GotoFacts, Starting
    <2>5. jr'[a].phase = r.j.phase
      BY <1>1, <2>2
    <2>6. RelyOK(w)'
      BY <2>4, <2>5 DEF RelyOK, Needs
    <2>. QED  BY <1>2, <2>3, <2>4, <2>6, RelyStep
  <1>4. CASE ~Commits(st[a], r)
    <2>1. Goto(w, "done") /\ UNCHANGED <<jr, st, op>>
      BY <1>4 DEF CommitDispatch
    <2>2. /\ sess'[w].pc = "done" /\ sess'[w].ans.kind = "none"
          /\ \A v \in Workers : v # w => sess'[v] = sess[v]
      BY <1>1, <2>1, GotoFacts, Starting
    <2>3. RelyOK(w)'
      BY <2>2, RelyNothing
    <2>. QED  BY <1>2, <2>1, <2>2, <2>3, RelyStep
  <1>. QED  BY <1>3, <1>4

\* The commits before the provider is called.
LEMMA PermitsRely ==
    ASSUME IInv, RelyInv, NEW w \in Workers,
           Expire(w) \/ Refuse(w) \/ CommitPreparation(w) \/ CommitSubmission(w)
    PROVE  RelyInv'
  <1>1. PICK a : a = sess[w].a
    OBVIOUS
  <1>2. a \in Attempts /\ jr[a] \in Journals
    BY <1>1 DEF IInv, TypeOK, Sessions
  <1>3. CASE Expire(w) \/ Refuse(w)
    <2>1. PICK r, kind : CommitDispatch(w, r, kind, "done")
      BY <1>3 DEF Expire, Refuse
    <2>. QED  BY <1>1, <2>1, CommitRelies
  <1>4. CASE CommitPreparation(w)
    <2>1. PICK r : r = BeginPreparation(jr[a], st[a])
      OBVIOUS
    <2>2. CommitDispatch(w, r, "begin", "prepare")
      BY <1>1, <1>4, <2>1 DEF CommitPreparation
    <2>3. r.j.phase = "staging"
      BY <1>2, <2>1 DEF BeginPreparation, Cleared, Problem, Journals
    <2>. QED  BY <1>1, <2>2, <2>3, CommitRelies
  <1>5. CASE CommitSubmission(w)
    <2>1. PICK r : r = BeginSubmission(jr[a], st[a])
      OBVIOUS
    <2>2. CommitDispatch(w, r, "submit", "start")
      BY <1>1, <1>5, <2>1 DEF CommitSubmission
    <2>3. r.j.phase = "submitting"
      BY <1>2, <2>1 DEF BeginSubmission, Cleared, Problem, Journals
    <2>. QED  BY <1>1, <2>2, <2>3, CommitRelies
  <1>. QED  BY <1>3, <1>4, <1>5

\* CommitCancellation leaves a session at its end, or with the stop permit of a
\* cancellation that is being requested.
LEMMA StopRelies ==
    ASSUME IInv, RelyInv, NEW w \in Workers, NEW a, a = sess[w].a, NEW j, NEW s, NEW o, NEW pc \in {"done", "stop"},
           CommitCancellation(w, j, s, o, pc),
           pc = "stop" => j.phase = "submitted" /\ Pending(o) /\ s.cancel = "requesting"
    PROVE  RelyInv'
  <1>1. /\ sess \in [Workers -> Sessions] /\ jr \in [Attempts -> Journals] /\ st \in [Attempts -> AttemptStates]
        /\ op \in [Attempts -> Operations] /\ a \in Attempts /\ pc \in Pcs
    BY DEF IInv, TypeOK, Sessions, Pcs
  <1>2. /\ Owns(w) /\ active' = active /\ lease' = lease
        /\ jr' = [jr EXCEPT ![a] = j] /\ st' = [st EXCEPT ![a] = s] /\ op' = [op EXCEPT ![a] = o] /\ Goto(w, pc)
    BY DEF CommitCancellation
  <1>3. /\ \A b \in Attempts : b # a => jr'[b] = jr[b] /\ st'[b] = st[b] /\ op'[b] = op[b]
        /\ jr'[a] = j /\ st'[a] = s /\ op'[a] = o
    BY <1>1, <1>2
  <1>4. /\ sess'[w].pc = pc /\ sess'[w].ans.kind = "none" /\ sess'[w].a = a
        /\ \A v \in Workers : v # w => sess'[v] = sess[v]
    BY <1>1, <1>2, GotoFacts, Starting
  <1>5. RelyOK(w)'
    BY <1>3, <1>4 DEF RelyOK, Needs
  <1>. QED  BY <1>2, <1>3, <1>4, <1>5, RelyStep

\* The stop permit is taken, or the owner must act.
LEMMA BeginStopRelies ==
    ASSUME IInv, RelyInv, NEW w \in Workers, BeginStop(w)
    PROVE  RelyInv'
  <1>1. PICK a : a = sess[w].a
    OBVIOUS
  <1>2. /\ a \in Attempts /\ st[a] \in AttemptStates /\ op[a] \in Operations /\ jr[a].phase = "submitted"
    BY <1>1 DEF IInv, TypeOK, Sessions, BeginStop, StopDue
  <1>3. CASE CancelSupported
    <2>1. PICK s : s = [st[a] EXCEPT !.cancel = "requesting"]
      OBVIOUS
    <2>2. PICK o : o = [op[a] EXCEPT !.cancel = "running", !.started = TRUE]
      OBVIOUS
    <2>3. CommitCancellation(w, jr[a], s, o, "stop")
      BY <1>1, <1>3, <2>1, <2>2 DEF BeginStop
    <2>4. s.cancel = "requesting" /\ Pending(o)
      BY <1>2, <2>1, <2>2 DEF AttemptStates, Operations, Pending
    <2>. QED  BY <1>1, <1>2, <2>3, <2>4, StopRelies
  <1>4. CASE ~CancelSupported
    <2>1. PICK j, s, o : CommitCancellation(w, j, s, o, "done")
      BY <1>4 DEF BeginStop
    <2>. QED  BY <1>1, <2>1, StopRelies
  <1>. QED  BY <1>3, <1>4

\* Commits of answers leave a session at its end.
LEMMA AnswersRely ==
    ASSUME IInv, RelyInv, NEW w \in Workers, CommitAnswer(w)
    PROVE  RelyInv'
  <1>1. PICK a : a = sess[w].a
    OBVIOUS
  <1>2. ASSUME NEW r, NEW kind, CommitDispatch(w, r, kind, "done") PROVE RelyInv'
    BY <1>1, <1>2, CommitRelies
  <1>3. CASE CommitFault(w) \/ CommitUnready(w) \/ CommitPrepared(w)
    BY <1>2, <1>3 DEF CommitFault, CommitUnready, CommitPrepared
  <1>4. CASE CommitOutcome(w) \/ CommitAbsent(w) \/ CommitGone(w)
    BY <1>2, <1>4 DEF CommitOutcome, CommitAbsent, CommitGone
  <1>5. CASE CommitObservation(w)
    <2>1. CASE Goto(w, "done") /\ UNCHANGED <<durable, lease, running, expired, world>>
      <3>1. /\ sess'[w].pc = "done" /\ sess'[w].ans.kind = "none"
            /\ \A v \in Workers : v # w => sess'[v] = sess[v]
        BY <2>1, GotoFacts, Starting DEF IInv, TypeOK, Pcs
      <3>2. RelyOK(w)'
        BY <3>1, RelyNothing
      <3>. QED  BY <1>1, <2>1, <3>1, <3>2, RelyStep DEF durable
    <2>. QED  BY <1>2, <1>5, <2>1 DEF CommitObservation
  <1>6. CASE CommitStop(w)
    <2>1. PICK j, s, o : CommitCancellation(w, j, s, o, "done")
      BY <1>6 DEF CommitStop
    <2>. QED  BY <1>1, <2>1, StopRelies
  <1>. QED  BY <1>3, <1>4, <1>5, <1>6 DEF CommitAnswer

\* A claim finds work that is not behind the owner's attention.
LEMMA ClaimRelies ==
    ASSUME IInv, RelyInv, NEW w \in Workers, ClaimStep(w)
    PROVE  RelyInv'
  <1>1. PICK a \in Attempts : ClaimRecovery(w, a) \/ ClaimNext(w, a)
    BY DEF ClaimStep
  <1>2. /\ sess \in [Workers -> Sessions] /\ lease \in [Attempts -> Workers \cup {NoWorker}]
        /\ jr[a] \in Journals /\ FactsOK(jr[a], st[a], intent[a], op[a]) /\ st \in [Attempts -> AttemptStates]
    BY DEF IInv, TypeOK, RecordInv, RecordOK
  <1>3. /\ Claim(w, a) /\ UNCHANGED <<jr, op, active>>
        /\ \A b \in Attempts : b # a => st'[b] = st[b]
    BY <1>1, <1>2 DEF ClaimRecovery, ClaimNext, durable
  <1>4. jr[a].phase \in LivePhases
    <2>1. CASE ClaimRecovery(w, a)
      BY <2>1 DEF ClaimRecovery, Recoverable, LivePhases
    <2>2. CASE ClaimNext(w, a)
      BY <1>2, <2>2 DEF ClaimNext, FactsOK, ValidJournal, PhaseOK, LocalOnly, OrchestrationTerminal, LivePhases
    <2>. QED  BY <1>1, <2>1, <2>2
  <1>5. /\ sess'[w].pc = "claimed" /\ sess'[w].a = a /\ sess'[w].ans.kind = "none"
        /\ \A v \in Workers : v # w => sess'[v] = sess[v]
    <2>. DEFINE x == [Idle EXCEPT !.pc = "claimed", !.a = a]
    <2>1. x.pc = "claimed" /\ x.a = a /\ x.ans.kind = "none"
      BY Starting DEF Sessions
    <2>2. sess' = [sess EXCEPT ![w] = x]
      BY <1>3 DEF Claim
    <2>. HIDE DEF x
    <2>. QED  BY <1>2, <2>1, <2>2
  <1>6. lease'[a] = w /\ \A b \in Attempts : b # a => lease'[b] = lease[b]
    BY <1>2, <1>3 DEF Claim
  <1>7. ASSUME NEW v \in Workers PROVE RelyOK(v)'
    <2>1. CASE v = w
      BY <1>3, <1>4, <1>5, <2>1 DEF RelyOK, Needs
    <2>2. CASE v # w
      <3>1. PICK b : b = sess[v].a
        OBVIOUS
      <3>2. b \in Attempts /\ sess'[v] = sess[v]
        BY <1>2, <1>5, <2>2, <3>1 DEF Sessions
      <3>3. CASE b = a
        BY <1>6, <2>2, <3>1, <3>2, <3>3, RelyNothing
      <3>4. CASE b # a
        BY <1>3, <1>6, <3>1, <3>2, <3>4, RelyKept
      <3>. QED  BY <3>3, <3>4
    <2>. QED  BY <2>1, <2>2
  <1>. QED  BY <1>7 DEF RelyInv

\* A control write fences every session of its attempt, but one that is only claimed
\* where the state stays as it is.
LEMMA WriteRelies ==
    ASSUME IInv, RelyInv, NEW a \in Attempts, NEW j, NEW s, NEW o, ControlWrite(a, j, s, o),
           s = st[a] /\ jr[a].phase \in LivePhases => j.phase \in LivePhases
    PROVE  RelyInv'
  <1>1. /\ sess \in [Workers -> Sessions] /\ jr \in [Attempts -> Journals] /\ st \in [Attempts -> AttemptStates]
        /\ op \in [Attempts -> Operations]
        /\ \A v \in Workers : sess[v].pc # "answered" => sess[v].ans.kind = "none"
    BY DEF IInv, TypeOK, SessInv, SessOK
  <1>2. /\ jr' = [jr EXCEPT ![a] = j] /\ st' = [st EXCEPT ![a] = s] /\ op' = [op EXCEPT ![a] = o]
        /\ active' = active /\ lease' = lease
    BY DEF ControlWrite
  <1>3. /\ \A b \in Attempts : b # a => jr'[b] = jr[b] /\ st'[b] = st[b] /\ op'[b] = op[b]
        /\ jr'[a] = j
    BY <1>1, <1>2
  <1>4. \A v \in Workers : sess'[v] = IF sess[v].a = a /\ (s # st[a] \/ sess[v].pc # "claimed")
                                      THEN Lost(sess[v]) ELSE sess[v]
    BY DEF ControlWrite, Fence
  <1>5. ASSUME NEW v \in Workers PROVE RelyOK(v)'
    <2>1. sess[v].a \in Attempts /\ sess[v] \in Sessions /\ RelyOK(v)
      BY <1>1 DEF Sessions, RelyInv
    <2>2. CASE sess[v].a # a
      <3>1. sess'[v] = sess[v]
        BY <1>4, <2>2
      <3>2. PICK b : b = sess[v].a
        OBVIOUS
      <3>. QED  BY <1>2, <1>3, <2>1, <2>2, <3>1, <3>2, RelyKept
    <2>3. CASE sess'[v] = Lost(sess[v])
      <3>1. Lost(sess[v]).pc = "idle" \/ ~Lost(sess[v]).fresh
        BY <1>1, LostFacts
      <3>2. Lost(sess[v]).pc = "idle" => Lost(sess[v]).ans.kind = "none"
        BY <1>1, <2>1, Starting DEF Lost, Sessions
      <3>. QED  BY <2>3, <3>1, <3>2, RelyNothing
    <2>4. CASE sess[v].a = a /\ sess'[v] = sess[v] /\ sess[v].pc = "claimed" /\ s = st[a]
      <3>1. Owns(v)' => jr[a].phase \in LivePhases
        BY <1>2, <2>1, <2>4 DEF Owns, RelyOK, Needs
      <3>2. sess[v].ans.kind = "none"
        BY <1>1, <2>4
      <3>. QED  BY <1>3, <2>4, <3>1, <3>2 DEF RelyOK, Needs
    <2>. QED  BY <1>4, <2>2, <2>3, <2>4
  <1>. QED  BY <1>5 DEF RelyInv

\* Requests and collection write the journal of an attempt that a session may have claimed
\* only where its phase stays live.
LEMMA ControlRelies ==
    ASSUME IInv, RelyInv, NEW a \in Attempts, ControlStep(a)
    PROVE  RelyInv'
  <1>1. jr[a] \in Journals /\ st[a] \in AttemptStates
    BY DEF IInv, TypeOK
  <1>2. CASE AuthorizeExecution(a)
    <2>1. UNCHANGED <<st, jr, op, active, lease, sess>>
      BY <1>2 DEF AuthorizeExecution
    <2>2. ASSUME NEW v \in Workers PROVE RelyOK(v)'
      BY <2>1, RelyKept
    <2>. QED  BY <2>2 DEF RelyInv
  <1>3. ASSUME NEW s, NEW o, ControlWrite(a, jr[a], s, o) PROVE RelyInv'
    BY <1>3, WriteRelies
  <1>4. CASE CancelSettled(a)
    BY <1>3, <1>4 DEF CancelSettled
  <1>5. CASE CancelPrevents(a)
    <2>1. PICK r : r = PreventDispatch(jr[a], st[a])
      OBVIOUS
    <2>2. PICK o : ControlWrite(a, r.j, r.s, o)
      BY <1>5, <2>1 DEF CancelPrevents
    <2>3. r.s.orch = "cancelled" /\ st[a].orch \notin OrchestrationTerminal
      BY <1>1, <1>5, <2>1 DEF CancelPrevents, PreventDispatchAllowed, PreventDispatch, AttemptStates
    <2>4. r.s # st[a]
      BY <2>3 DEF OrchestrationTerminal
    <2>. QED  BY <2>2, <2>4, WriteRelies
  <1>6. CASE CancelRequested(a)
    <2>1. CASE jr[a].phase = "attention"
      <3>1. PICK j, s, o : ControlWrite(a, j, s, o)
        BY <1>6 DEF CancelRequested
      <3>2. jr[a].phase \notin LivePhases
        BY <2>1 DEF LivePhases
      <3>. QED  BY <3>1, <3>2, WriteRelies
    <2>2. CASE jr[a].phase # "attention"
      BY <1>3, <1>6, <2>2 DEF CancelRequested
    <2>. QED  BY <2>1, <2>2
  <1>7. ASSUME NEW owner \in BOOLEAN, Reconcile(a, owner) PROVE RelyInv'
    <2>1. PICK r : r = RequestReconciliation(jr[a], st[a], owner)
      OBVIOUS
    <2>2. PICK o : ControlWrite(a, r.j, r.s, o)
      BY <1>7, <2>1 DEF Reconcile
    <2>3. r.j.phase \in LivePhases
      BY <1>1, <2>1 DEF RequestReconciliation, Cleared, Problem, Journals, LivePhases
    <2>. QED  BY <2>2, <2>3, WriteRelies
  <1>8. CASE OwnerResolvesAbsent(a)
    <2>1. PICK j, s, o : ControlWrite(a, j, s, o)
      BY <1>8 DEF OwnerResolvesAbsent
    <2>2. jr[a].phase \notin LivePhases
      BY <1>8 DEF OwnerResolvesAbsent, LivePhases
    <2>. QED  BY <2>1, <2>2, WriteRelies
  <1>9. CASE Retry(a)
    <2>1. UNCHANGED <<sess, lease>> /\ active' = a + 1 /\ a = active /\ a \in Nat
      BY <1>9 DEF Retry, Attempts
    <2>2. ASSUME NEW v \in Workers PROVE RelyOK(v)'
      <3>1. SessOK(v) /\ sess[v].a \in Nat
        BY DEF IInv, SessInv, TypeOK, Sessions, Attempts
      <3>2. CASE sess[v].pc = "idle"
        BY <2>1, <3>1, <3>2, RelyNothing DEF SessOK
      <3>3. CASE sess[v].pc # "idle"
        <4>1. sess[v].a # active'
          BY <2>1, <3>1, <3>3 DEF SessOK
        <4>. QED  BY <2>1, <4>1 DEF RelyOK, Owns
      <3>. QED  BY <3>2, <3>3
    <2>. QED  BY <2>2 DEF RelyInv
  <1>10. CASE ClaimCollection(a)
    BY <1>3, <1>10 DEF ClaimCollection
  <1>11. CASE CompleteCollection(a) \/ FailCollection(a)
    <2>1. PICK s, problem : EndCollection(a, s, problem)
      BY <1>11 DEF CompleteCollection, FailCollection
    <2>2. PICK j : j = [jr[a] EXCEPT !.problem = problem, !.localWindow = "unset"]
      OBVIOUS
    <2>3. ControlWrite(a, j, s, op[a])
      BY <2>1, <2>2 DEF EndCollection
    <2>4. j.phase = jr[a].phase
      BY <1>1, <2>2 DEF Journals
    <2>. QED  BY <2>3, <2>4, WriteRelies
  <1>. QED  BY <1>2, <1>4, <1>5, <1>6, <1>7, <1>8, <1>9, <1>10, <1>11 DEF ControlStep

\* Steps that lose a session, a lease, the process or time, and steps of the outside.
LEMMA RestRelies ==
    ASSUME IInv, RelyInv,
           \/ \E w \in Workers : Yield(w) \/ Abandon(w)
           \/ \E a \in Attempts : OutsideStep(a)
           \/ Crash \/ Shutdown \/ Restart \/ DeadlinePasses \/ UNCHANGED vars
    PROVE  RelyInv'
  <1>0. /\ sess \in [Workers -> Sessions] /\ lease \in [Attempts -> Workers \cup {NoWorker}]
        /\ jr \in [Attempts -> Journals] /\ NoWorker \notin Workers
        /\ \A v \in Workers : sess[v].pc # "answered" => sess[v].ans.kind = "none"
    BY DispatchAssumption DEF IInv, TypeOK, SessInv, SessOK
  <1>1. ASSUME active' = active, UNCHANGED <<st, op>>, \A b \in Attempts : jr'[b].phase = jr[b].phase,
               \A b \in Attempts : lease'[b] \in {lease[b], NoWorker},
               \A v \in Workers : \/ sess'[v] = sess[v]
                                  \/ sess'[v].pc = "idle" /\ sess'[v].ans.kind = "none"
                                  \/ ~sess'[v].fresh
        PROVE  RelyInv'
    <2>1. ASSUME NEW v \in Workers PROVE RelyOK(v)'
      <3>1. CASE sess'[v] = sess[v]
        <4>1. PICK b : b = sess[v].a
          OBVIOUS
        <4>2. b \in Attempts /\ (lease'[b] = lease[b] \/ lease'[b] # v)
          BY <1>0, <1>1, <4>1 DEF Sessions
        <4>. QED  BY <1>1, <3>1, <4>1, <4>2, RelyKept
      <3>2. CASE sess'[v] # sess[v]
        BY <1>1, <3>2, RelyNothing
      <3>. QED  BY <3>1, <3>2
    <2>. QED  BY <2>1 DEF RelyInv
  <1>2. Idle.pc = "idle" /\ Idle.ans.kind = "none"
    BY Starting
  <1>3. ASSUME NEW w \in Workers, Yield(w) \/ Abandon(w) PROVE RelyInv'
    <2>1. /\ sess' = [sess EXCEPT ![w] = Idle] /\ UNCHANGED <<st, op, jr, active>>
          /\ \A b \in Attempts : lease'[b] \in {lease[b], NoWorker}
      BY <1>0, <1>3 DEF Yield, Abandon, durable
    <2>. QED  BY <1>0, <1>1, <1>2, <2>1
  <1>4. ASSUME NEW a \in Attempts, LeaseExpires(a) PROVE RelyInv'
    <2>1. PICK w : w = lease[a]
      OBVIOUS
    <2>2. /\ w \in Workers /\ lease' = [lease EXCEPT ![a] = NoWorker] /\ UNCHANGED <<st, op, jr, active>>
          /\ sess' = [sess EXCEPT ![w] = IF sess[w].a = a THEN Lost(sess[w]) ELSE sess[w]]
      BY <1>0, <1>4, <2>1 DEF LeaseExpires, durable
    <2>3. Lost(sess[w]) \in Sessions /\ (Lost(sess[w]).pc = "idle" \/ ~Lost(sess[w]).fresh)
      BY <1>0, <2>2, LostFacts
    <2>4. Lost(sess[w]).pc = "idle" => Lost(sess[w]).ans.kind = "none"
      BY <1>0, <2>2, Starting DEF Lost, Sessions
    <2>5. \A b \in Attempts : lease'[b] \in {lease[b], NoWorker}
      BY <1>0, <2>2
    <2>6. \A v \in Workers : \/ sess'[v] = sess[v]
                             \/ sess'[v].pc = "idle" /\ sess'[v].ans.kind = "none"
                             \/ ~sess'[v].fresh
      BY <1>0, <2>2, <2>3, <2>4
    <2>. QED  BY <1>1, <2>2, <2>5, <2>6
  <1>5. ASSUME NEW a \in Attempts, WindowElapses(a) PROVE RelyInv'
    <2>1. UNCHANGED <<st, op, active, lease, sess>>
      BY <1>5 DEF WindowElapses
    <2>2. \A b \in Attempts : jr'[b].phase = jr[b].phase
      BY <1>0, <1>5 DEF WindowElapses, Journals
    <2>. QED  BY <1>1, <2>1, <2>2
  <1>6. ASSUME NEW a \in Attempts, WorldMoves(a) PROVE RelyInv'
    BY <1>1, <1>6 DEF WorldMoves, durable
  <1>7. CASE Crash
    <2>1. sess' = [w \in Workers |-> Idle] /\ UNCHANGED <<st, op, jr, active, lease>>
      BY <1>7 DEF Crash, durable
    <2>. QED  BY <1>1, <1>2, <2>1
  <1>8. CASE Shutdown \/ Restart \/ DeadlinePasses \/ UNCHANGED vars
    BY <1>1, <1>8 DEF Shutdown, Restart, DeadlinePasses, vars, durable
  <1>. QED  BY <1>3, <1>4, <1>5, <1>6, <1>7, <1>8 DEF OutsideStep

\* What sessions rely on stays true.
LEMMA NextRelies == IInv /\ RelyInv /\ [Next]_vars => RelyInv'
  <1>. SUFFICES ASSUME IInv, RelyInv, [Next]_vars PROVE RelyInv'
    OBVIOUS
  <1>1. ASSUME NEW w \in Workers, SessionStep(w) PROVE RelyInv'
    <2>1. CASE Yield(w) \/ Abandon(w)
      BY <2>1, RestRelies
    <2>2. CASE \/ Load(w) \/ Interrupt(w) \/ ExpiredMutation(w) \/ PrepareExpires(w) \/ ConsumeAuthorization(w)
               \/ CallPrepare(w) \/ CallStart(w) \/ CallCancel(w)
      BY <2>2, GotoRelies
    <2>3. CASE \/ PrepareReturns(w) \/ PassFails(w) \/ ReadStaging(w) \/ StartReturns(w)
               \/ ReadSubmission(w) \/ ReadExecution(w) \/ CancelReturns(w)
      BY <2>3, HoldRelies
    <2>4. CASE Expire(w) \/ Refuse(w) \/ CommitPreparation(w) \/ CommitSubmission(w)
      BY <2>4, PermitsRely
    <2>5. CASE BeginStop(w)
      BY <2>5, BeginStopRelies
    <2>6. CASE CommitAnswer(w)
      BY <2>6, AnswersRely
    <2>. QED  BY <1>1, <2>1, <2>2, <2>3, <2>4, <2>5, <2>6 DEF SessionStep
  <1>2. ASSUME NEW w \in Workers, ClaimStep(w) PROVE RelyInv'
    BY <1>2, ClaimRelies
  <1>3. ASSUME NEW a \in Attempts, ControlStep(a) PROVE RelyInv'
    BY <1>3, ControlRelies
  <1>4. ASSUME NEW a \in Attempts, OutsideStep(a) PROVE RelyInv'
    BY <1>4, RestRelies
  <1>5. CASE Crash \/ Shutdown \/ Restart \/ DeadlinePasses \/ UNCHANGED vars
    BY <1>5, RestRelies
  <1>. QED  BY <1>1, <1>2, <1>3, <1>4, <1>5 DEF Next

-----------------------------------------------------------------------------
(* The answers that are held can be recorded.                              *)

\* The outcome of the stop, whatever it is, is an admissible transition of an attempt
\* whose cancellation is being requested.
LEMMA StopAdmitted ==
    ASSUME NEW j \in Journals, NEW s \in AttemptStates, NEW o \in Operations, NEW i,
           FactsOK(j, s, i, o), j.phase = "submitted", s.cancel = "requesting"
    PROVE  /\ ValidTransition(s, Manual(s))
           /\ ValidTransition(s, [s EXCEPT !.cancel = "accepted"])
           /\ ValidTransition(s, ObservationSeen(j, s, Confirmed).s)
  <1>1. /\ s.exec \in {"unknown"} \cup ExecutionActive /\ s.result = "not_available"
        /\ s.orch \in {"submitted", "running", "reconciling", "cancelling", "needs_attention"}
        /\ s.remote \in {"possible", "active"} /\ s.release \in {"unknown", "not_observable"} /\ ValidState(s)
    BY WhileObserved DEF FactsOK
  <1>2. ValidTransition(s, Manual(s))
    <2>1. PICK t : t = Manual(s)
      OBVIOUS
    <2>2. /\ t \in AttemptStates /\ t.orch = "needs_attention" /\ t.cancel = "manual_required" /\ t.exec = s.exec
          /\ t.remote = s.remote /\ t.release = s.release /\ t.result = s.result /\ t.deadline = s.deadline
      BY <2>1 DEF Manual, AttemptStates, Orchestrations, Cancellations
    <2>3. /\ CancellationPending(s) /\ s.release # "not_applicable"
          /\ t.orch \in {"queued", "preparing", "reconciling", "needs_attention", "cancelling"}
          /\ Moves(OrchestrationTransitions, s.orch, t.orch)
      BY <1>1, <2>2, OrchestrationMoves DEF CancellationPending
    <2>4. ValidTransition(s, t)
      BY <1>1, <2>2, <2>3, OrchestrationOnly
    <2>. QED  BY <2>1, <2>4
  <1>3. ValidTransition(s, [s EXCEPT !.cancel = "accepted"])
    <2>1. PICK t : t = [s EXCEPT !.cancel = "accepted"]
      OBVIOUS
    <2>2. /\ t.orch = s.orch /\ t.cancel = "accepted" /\ t.exec = s.exec
          /\ t.remote = s.remote /\ t.release = s.release /\ t.result = s.result /\ t.deadline = s.deadline
      BY <2>1 DEF AttemptStates
    <2>3. t.orch \notin OrchestrationTerminal
      BY <1>1, <2>2 DEF OrchestrationTerminal
    <2>4. ValidState(t)
      BY <1>1, <2>2, <2>3 DEF ValidState, ExecutionConsistent, ResultConsistent, CancellationConsistent,
         ReleaseConsistent, OrchestrationConsistent, OrchestrationTerminal
    <2>5. Moves(CancellationTransitions, s.cancel, t.cancel)
      BY <2>2 DEF Moves, CancellationTransitions, Cancellations
    <2>6. ValidTransition(s, t)
      BY <1>1, <2>2, <2>4, <2>5, Stays DEF ValidTransition
    <2>. QED  BY <2>1, <2>6
  <1>4. ValidTransition(s, ObservationSeen(j, s, Confirmed).s)
    <2>1. PICK t : t = ObservationSeen(j, s, Confirmed).s
      OBVIOUS
    <2>2. Confirmed.exec = "cancelled" /\ Confirmed.remote = "inactive" /\ Confirmed.release = "not_observable"
          /\ Confirmed.exec \in ExecutionTerminal
      BY DEF Confirmed, ExecutionTerminal
    <2>3. t = ObservedState(s, Confirmed)
      BY <2>1, <2>2 DEF ObservationSeen
    <2>4. ObservedOrchestration(s, Confirmed) = "collecting"
      BY <2>2 DEF ObservedOrchestration, ExecutionTerminal
    <2>5. /\ t.orch = "collecting" /\ t.exec = "cancelled" /\ t.remote = "inactive" /\ t.release = "not_observable"
          /\ t.cancel = "confirmed" /\ t.result = s.result /\ t.deadline = s.deadline
      BY <2>2, <2>3, <2>4 DEF ObservedState, AttemptStates
    <2>6. ValidState(t)
      BY <1>1, <2>5 DEF ValidState, ExecutionConsistent, ResultConsistent, CancellationConsistent,
         ReleaseConsistent, OrchestrationConsistent, OrchestrationTerminal, ExecutionTerminal, ExecutionActive
    <2>7. Moves(OrchestrationTransitions, s.orch, t.orch)
      BY <1>1, <2>5 DEF Moves, OrchestrationTransitions, Orchestrations, Settling
    <2>8. Moves(ExecutionTransitions, s.exec, t.exec)
      BY <1>1, <2>5 DEF Moves, ExecutionTransitions, Executions, ExecutionActive, ExecutionTerminal
    <2>9. Moves(RemoteActivityTransitions, s.remote, t.remote)
      BY <1>1, <2>5, EvidenceMoves
    <2>10. Moves(ReleaseEvidenceTransitions, s.release, t.release)
      BY <1>1, <2>5 DEF Moves, ReleaseEvidenceTransitions, ReleaseEvidences
    <2>11. Moves(CancellationTransitions, s.cancel, t.cancel)
      BY <2>5 DEF Moves, CancellationTransitions, Cancellations
    <2>12. ValidTransition(s, t)
      BY <1>1, <2>5, <2>6, <2>7, <2>8, <2>9, <2>10, <2>11, Stays DEF ValidTransition
    <2>. QED  BY <2>1, <2>12
  <1>. QED  BY <1>2, <1>3, <1>4

\* The guards of the commit of each kind of answer follow from what its session needs.
LEMMA AnswerAdmitted ==
    ASSUME IInv, RelyInv, NEW w \in Workers, sess[w].pc = "answered", Owns(w)
    PROVE  Admitted(w)
  <1>1. PICK a : a = sess[w].a
    OBVIOUS
  <1>2. PICK j : j = jr[a]
    OBVIOUS
  <1>3. PICK s : s = st[a]
    OBVIOUS
  <1>4. PICK o : o = op[a]
    OBVIOUS
  <1>5. PICK kind : kind = sess[w].ans.kind
    OBVIOUS
  <1>6. PICK val : val = sess[w].ans.val
    OBVIOUS
  <1>7. /\ j \in Journals /\ s \in AttemptStates /\ o \in Operations /\ FactsOK(j, s, intent[a], o)
        /\ kind = "unready" => UnconfirmedPreparation(j)
        /\ kind = "stop" => val \in {"manual", "accepted", "confirmed"}
        /\ kind \in {"none", "fault", "unready", "prepared", "start", "found", "absent", "gone", "observed", "stop"}
    BY <1>1, <1>2, <1>3, <1>4, <1>5, <1>6, Context DEF OwnerOK, SessOK, AnswerTrue, Sessions, Answers
  <1>8. Needs(sess[w], j, s, o)
    BY <1>1, <1>2, <1>3, <1>4 DEF RelyInv, RelyOK
  <1>9. /\ kind # "none"
        /\ kind = "fault" => j.phase \in LivePhases
        /\ kind = "prepared" => j.phase = "staging"
        /\ kind \in {"start", "found", "absent"} => j.phase = "submitting"
        /\ kind \in {"gone", "observed"} => j.phase = "submitted"
        /\ kind = "stop" => j.phase = "submitted" /\ Pending(o) /\ s.cancel = "requesting"
    BY <1>5, <1>8 DEF Needs
  <1>10. ASSUME kind = "fault" PROVE FaultAllowed(j, s)
    BY <1>9, <1>10 DEF FaultAllowed, LivePhases
  <1>11. ASSUME kind = "unready" PROVE EndUnconfirmedPreparationAllowed(j, s)
    BY <1>7, <1>11 DEF EndUnconfirmedPreparationAllowed, UnconfirmedPreparation, FactsOK, PhaseOK, Untouched,
       OrchestrationTerminal
  <1>12. ASSUME kind = "prepared" PROVE PreparationSeenAllowed(j, s)
    BY <1>7, <1>9, <1>12 DEF PreparationSeenAllowed, FactsOK, ValidJournal, Journals
  <1>13. ASSUME kind \in {"start", "found", "absent"}
         PROVE  /\ SubmissionSeenAllowed(j, s) /\ intent[a] \in {"started", "unknown"}
                /\ ~j.ownerPresent => SubmissionAbsenceAllowed(j, s)
    <2>1. j.phase = "submitting" /\ j.submitStarted /\ ~j.remote
      BY <1>7, <1>9, <1>13 DEF FactsOK, ValidJournal, Journals
    <2>2. Submitted(s) /\ s.orch \notin OrchestrationTerminal /\ intent[a] \in {"started", "unknown"}
      BY <1>7, <2>1, AfterSubmission
    <2>. QED  BY <2>1, <2>2 DEF SubmissionSeenAllowed, SubmissionAbsenceAllowed, AbsenceAllowed, Submitted
  <1>14. ASSUME kind \in {"gone", "observed", "stop"} PROVE j.phase = "submitted" /\ j.remote
    BY <1>7, <1>9, <1>14, WhileObserved
  <1>15. ASSUME kind = "stop"
         PROVE  /\ val = "manual" => ValidTransition(s, Manual(s))
                /\ val = "accepted" => ValidTransition(s, [s EXCEPT !.cancel = "accepted"])
                /\ val = "confirmed" => ValidTransition(s, ObservationSeen(j, s, Confirmed).s)
    BY <1>7, <1>9, <1>15, StopAdmitted
  <1>. QED  BY <1>1, <1>2, <1>3, <1>4, <1>5, <1>6, <1>7, <1>9, <1>10, <1>11, <1>12, <1>13, <1>14, <1>15
            DEF Admitted, RemoteAbsenceSeenAllowed, ObservationSeenAllowed

\* What sessions rely on holds in every state.
LEMMA Relying == Spec => [](IInv /\ RelyInv)
  <1>1. Init => RelyInv
    <2>1. Init => \A w \in Workers : sess[w].pc = "idle" /\ sess[w].ans.kind = "none"
      BY Starting DEF Init
    <2>. QED  BY <2>1 DEF RelyInv, RelyOK, Needs
  <1>. QED  BY <1>1, NextRelies, Invariance, PTL DEF Spec

\* Nothing that was begun is left without a way on: a pending cancel request always has a
\* live attempt that is still cancelling, and whatever answer a session holds, as long as its
\* handle is accepted the transaction that records it finds the facts it requires.
THEOREM NothingIsStuck == Spec => []NothingStuck
  <1>1. IInv /\ RelyInv => AnswersCommit
    BY AnswerAdmitted DEF AnswersCommit
  <1>. QED  BY <1>1, Relying, CancelKept, PTL DEF NothingStuck

\* A session that found the deadline passed can record it: nobody who still owns the attempt
\* meets a submission, a cancellation or an end between the decision and ExpireDispatch.
ExpiriesCommit ==
    \A w \in Workers :
        sess[w].pc = "expire" /\ Owns(w) => ExpireDispatchAllowed(jr[sess[w].a], st[sess[w].a])

\* ExpireDispatch is never refused with ErrConflict to the session whose handle is accepted.
THEOREM ExpiriesAreRecorded == Spec => []ExpiriesCommit
  <1>1. ASSUME IInv, RelyInv PROVE ExpiriesCommit
    <2>1. ASSUME NEW w \in Workers, NEW a, a = sess[w].a, sess[w].pc = "expire", Owns(w)
          PROVE  ExpireDispatchAllowed(jr[a], st[a])
      <3>1. a \in Attempts
        BY <1>1, <2>1 DEF IInv, TypeOK, Sessions
      <3>2. jr[a].phase \in {"local", "staging", "ready"}
        BY <1>1, <2>1 DEF RelyInv, RelyOK, Needs
      <3>3. FactsOK(jr[a], st[a], intent[a], op[a])
        BY <1>1, <3>1, Known
      <3>4. ~jr[a].submitStarted
        BY <3>2, <3>3 DEF FactsOK, ValidJournal
      <3>5. LocalOnly(st[a]) \/ (Untouched(st[a]) /\ st[a].orch \in {"preparing", "reconciling"})
        BY <3>2, <3>3 DEF FactsOK, PhaseOK
      <3>. QED  BY <3>4, <3>5 DEF ExpireDispatchAllowed, PreventDispatchAllowed, LocalOnly, Untouched,
                                  OrchestrationTerminal
    <2>. QED  BY <2>1 DEF ExpiriesCommit
  <1>. QED  BY <1>1, Relying, PTL

\* An attempt is offered to the next free worker: to ClaimRecovery behind the preparation
\* barrier, to ClaimNext before it.
Offered(a) ==
    /\ a = active
    /\ \/ jr[a].plan /\ Recoverable(jr[a]) /\ st[a].orch \notin OrchestrationTerminal
       \/ ~jr[a].plan /\ LocalOnly(st[a])

\* Consent is never forgotten: an authorized attempt that has not come to a resolution, to
\* the collector or to the owner's attention meets the conditions of a claim.
ConsentIsPursued ==
    \A a \in Attempts :
        grant[a] # "none" =>
            \/ jr[a].phase \in {"rejected", "collectible", "attention", "failed", "prevented"}
            \/ Offered(a)

\* Whatever was lost, fenced or crashed, no journal and state are left that neither
\* ClaimRecovery nor ClaimNext would take up: the safety half of EventuallyResolved.
THEOREM ConsentPursued == Spec => []ConsentIsPursued
  <1>1. ASSUME IInv PROVE ConsentIsPursued
    <2>1. ASSUME NEW a \in Attempts, grant[a] # "none",
                 jr[a].phase \notin {"rejected", "collectible", "attention", "failed", "prevented"}
          PROVE  Offered(a)
      <3>1. FactsOK(jr[a], st[a], intent[a], op[a]) /\ AgeOK(a) /\ a \in Nat /\ active \in Nat
        BY <1>1, Known
      <3>2. jr[a].phase \in LivePhases
        BY <1>1, <2>1, Known DEF Journals, Phases, LivePhases
      <3>3. st[a].orch \notin OrchestrationTerminal
        BY <3>1, <3>2 DEF FactsOK, PhaseOK, LocalOnly, LivePhases, OrchestrationTerminal
      <3>4. a = active
        BY <2>1, <3>1, <3>3 DEF AgeOK
      <3>5. CASE jr[a].phase = "local"
        BY <3>1, <3>4, <3>5 DEF Offered, FactsOK, PhaseOK
      <3>6. CASE jr[a].phase # "local"
        BY <3>1, <3>2, <3>3, <3>4, <3>6 DEF Offered, FactsOK, ValidJournal, LivePhases, Recoverable
      <3>. QED  BY <3>5, <3>6
    <2>. QED  BY <2>1 DEF ConsentIsPursued
  <1>. QED  BY <1>1, Invariance, PTL
=============================================================================
