------------------------------ MODULE Dispatch ------------------------------
(***************************************************************************)
(* The dispatch engine of one job: its workers, the durable facts they     *)
(* commit (attempt state, journal, grant, submission intent, control       *)
(* operations), the control requests that interleave with them, and the    *)
(* remote provider whose answers may be late, lost or incomplete.          *)
(*                                                                         *)
(* Every action is one store transaction, one provider call, or one step   *)
(* of the world outside.  A worker's handle (lease, attempt revision and   *)
(* journal version) is kept as two facts: it is the lease holder, and      *)
(* nothing it has not seen was written (fresh).  WorkLease models the      *)
(* lease itself.  Attempts are numbered as the job creates them.           *)
(*                                                                         *)
(* Assumed of the outside: a start request that was permitted is made, and *)
(* lands or is lost, before the absence grace ends and in time for every   *)
(* inventory whose result is committed after the grace; an inventory lists *)
(* every run that has landed; the owner attests what is true.              *)
(***************************************************************************)
EXTENDS Journal, FiniteSets

CONSTANTS Workers,
          NoWorker,
          MaxAttempts,       \* bound on the retries of the job
          MaxWorkers,        \* scheduler setting: live leases at once
          CancelSupported,   \* capability RemoteCancellation of the adapter
          ReleaseReported,   \* the adapter reports release with a terminal state
          Outcomes,          \* terminal states the provider's runs may reach
          Disturbances,      \* the failures below that may happen at all
          Requests           \* the control requests that are made at all

ASSUME DispatchAssumption ==
    /\ NoWorker \notin Workers
    /\ MaxAttempts \in Nat \ {0}
    /\ MaxWorkers \in Nat \ {0}
    /\ CancelSupported \in BOOLEAN
    /\ ReleaseReported \in BOOLEAN
    /\ Outcomes \subseteq ExecutionTerminal
    /\ Disturbances \subseteq {"crash", "lease", "shutdown", "deadline", "refusal", "removal"}
    /\ Requests \subseteq {"cancel", "reconcile", "resolve", "collect"}

VARIABLES
    st,       \* attempts.state of each attempt
    jr,       \* dispatch_journals of each attempt
    grant,    \* attempt_grants: "none", "granted", "consumed"
    intent,   \* submission_intents: the ledger kept beside the journal
    op,       \* control operations of each attempt, see Operations
    lease,    \* holder of the live dispatch lease of each attempt
    active,   \* jobs.active_attempt_id
    sess,     \* the session of each worker goroutine
    running,  \* worker.Run is claiming work
    expired,  \* the deadline of the job specification has passed
    world     \* the provider's side of each attempt, and the calls it received

durable == <<st, jr, grant, intent, op, active>>
vars == <<st, jr, grant, intent, op, lease, active, sess, running, expired, world>>

Attempts == 1..MaxAttempts

\* cancel: the latest cancel operation; started: some cancel operation took the
\* one-shot stop permit; polls: observations under it; reconcile: one is pending.
Operations ==
    [cancel : {"none", "accepted", "running", "succeeded", "manual"},
     started : BOOLEAN, polls : 0..MaxFailures, reconcile : BOOLEAN]

NoOperation == [cancel |-> "none", started |-> FALSE, polls |-> 0, reconcile |-> FALSE]

Pending(o) == o.cancel \in {"accepted", "running"}

\* What the provider holds for an attempt and how often it was asked to change it.
Landed == {"queued", "running"} \cup ExecutionTerminal
Worlds ==
    [staged : BOOLEAN,
     exec : {"none", "inflight", "lost", "gone"} \cup Landed,
     prepares : 0..2, starts : 0..2, cancels : 0..2]

NoWorld == [staged |-> FALSE, exec |-> "none", prepares |-> 0, starts |-> 0, cancels |-> 0]

Live(x) == x.exec \in {"inflight", "queued", "running"}

\* Answers a worker holds between a provider call and its commit.  An absence also
\* keeps how far the grace was when the inventory was read.
Answers ==
    [kind : {"none", "fault", "unready", "prepared", "start", "found", "absent",
             "gone", "observed", "stop"},
     val : {"none", "open", "permanent", "named", "answered", "unanswered",
            "pending", "ready", "public", "accepted", "rejected", "expired",
            "unknown", "confirmed", "manual"} \cup Executions \cup Windows]

Answer(k, v) == [kind |-> k, val |-> v]
NoAnswer == Answer("none", "none")

\* claimed, loaded: before and after LoadDispatch; expire: ExpireDispatch is due;
\* consented: the grant is consumed; prepare, start, stop: this session alone got
\* the intent commit and may call; preparing, starting, stopping: the call is out;
\* answered: an answer awaits its commit; done: only the yield is left.
Pcs == {"idle", "claimed", "loaded", "expire", "consented", "prepare", "preparing",
        "start", "starting", "stop", "stopping", "answered", "done"}

Sessions == [pc : Pcs, a : Attempts, fresh : BOOLEAN, ans : Answers]

Idle == [pc |-> "idle", a |-> 1, fresh |-> TRUE, ans |-> NoAnswer]

Init ==
    /\ st = [a \in Attempts |-> InitialAttemptState]
    /\ jr = [a \in Attempts |-> InitialJournal]
    /\ grant = [a \in Attempts |-> "none"]
    /\ intent = [a \in Attempts |-> "none"]
    /\ op = [a \in Attempts |-> NoOperation]
    /\ lease = [a \in Attempts |-> NoWorker]
    /\ active = 1
    /\ sess = [w \in Workers |-> Idle]
    /\ running = TRUE
    /\ expired = FALSE
    /\ world = [a \in Attempts |-> NoWorld]

\* A permitted start that has not been made, or has neither landed nor been lost.
StartPending(a) ==
    \/ world[a].exec = "inflight"
    \/ \E w \in Workers : sess[w].pc = "start" /\ sess[w].a = a

\* A session still holds an inventory taken before the run landed.
OutdatedInventory(a) ==
    /\ world[a].exec \in Landed
    /\ \E w \in Workers : sess[w].ans.kind = "absent" /\ sess[w].a = a

-----------------------------------------------------------------------------
(* Claims, handles and commits.                                            *)

\* A session that lost its handle can commit nothing more; only a provider call it
\* was already permitted to make still matters.
Calling == {"prepare", "preparing", "start", "starting", "stop", "stopping"}

Lost(s) ==
    IF s.pc = "idle" THEN s
    ELSE [s EXCEPT !.fresh = FALSE, !.ans = NoAnswer,
                   !.pc = IF @ \in Calling THEN @ ELSE "done"]

Goto(w, pc) == sess' = [sess EXCEPT ![w].pc = pc, ![w].ans = NoAnswer]
Hold(w, ans) == sess' = [sess EXCEPT ![w].pc = "answered", ![w].ans = ans]

\* loadDispatch and checkHandle accept the session's handle.
Owns(w) ==
    /\ sess[w].fresh
    /\ lease[sess[w].a] = w
    /\ sess[w].a = active

Claimable(w, a) ==
    /\ running
    /\ sess[w].pc = "idle"
    /\ a = active
    /\ lease[a] = NoWorker
    /\ Cardinality({b \in Attempts : lease[b] # NoWorker}) < MaxWorkers

Claim(w, a) ==
    /\ lease' = [lease EXCEPT ![a] = w]
    /\ sess' = [sess EXCEPT ![w] = [Idle EXCEPT !.pc = "claimed", !.a = a]]

\* ClaimRecovery: work behind the barrier, for observation only.
ClaimRecovery(w, a) ==
    /\ Claimable(w, a)
    /\ jr[a].plan
    /\ Recoverable(jr[a])
    /\ st[a].orch \notin OrchestrationTerminal
    /\ Claim(w, a)
    /\ UNCHANGED <<durable, running, expired, world>>

\* ClaimNext for the head of the queue; Scheduler models which head that is.
ClaimNext(w, a) ==
    /\ Claimable(w, a)
    /\ ~jr[a].plan
    /\ LocalOnly(st[a])
    /\ grant[a] # "none"
    /\ Claim(w, a)
    /\ st' = [st EXCEPT ![a].orch = "preparing"]
    /\ UNCHANGED <<jr, grant, intent, op, active, running, expired, world>>

\* Expiry forbids a future start only: submitted work keeps being observed.
ExpiryDue(a) == expired /\ ~jr[a].submitStarted /\ st[a].cancel = "not_requested"

\* LoadDispatch at the start of process, with the expiry test that follows it.
Load(w) ==
    /\ sess[w].pc = "claimed"
    /\ Owns(w)
    /\ Goto(w, IF ExpiryDue(sess[w].a) THEN "expire" ELSE "loaded")
    /\ UNCHANGED <<durable, lease, running, expired, world>>

\* An observation that leaves the cancellation open is counted against its request.
NeverPolled(s, o, kind) == FALSE         \* mutant: observations are not counted

Polled(s, o, kind) ==
    /\ Pending(o)
    /\ kind = "observed"
    /\ s.exec \notin ExecutionTerminal
    /\ s.cancel # "manual_required"

FinishKeepingPrevented(j, s, o, kind) ==  \* mutant: prevention settles no request
    [s |-> s,
     o |-> [o EXCEPT !.cancel = IF Pending(o) /\ s.cancel \in {"confirmed", "too_late"}
                                THEN "succeeded"
                                ELSE IF Pending(o) /\ s.cancel = "manual_required"
                                THEN "manual" ELSE @]]

\* finishObservedOperations: what a commit of this kind settles of the pending
\* control operations, and of the cancellation that was polled too often.
Finish(j, s, o, kind) ==
    LET polled == Polled(s, o, kind)
        polls == IF polled THEN o.polls + 1 ELSE o.polls
        t == IF polled /\ polls >= MaxFailures
             THEN [s EXCEPT !.cancel = "manual_required", !.orch = "needs_attention"]
             ELSE s
        cancel == CASE ~Pending(o) -> o.cancel
                    [] Pending(o) /\ t.cancel \in {"confirmed", "prevented", "too_late"}
                         -> "succeeded"
                    [] Pending(o) /\ t.cancel = "manual_required" -> "manual"
                    [] OTHER -> o.cancel
        reconciled ==
            \/ j.phase = "attention"
            \/ kind = "prepared" /\ ~j.submitStarted /\ j.prepared # "none"
            \/ kind = "submission" /\ j.remote
            \/ kind = "absence" /\ j.phase = "rejected"
            \/ kind = "observed" /\ j.obs \notin {"none", "unknown"}
    IN  [s |-> t,
         o |-> [o EXCEPT !.cancel = cancel, !.polls = polls,
                         !.reconcile = @ /\ ~reconciled]]

\* writeDispatchLedger: the status of the submission intent beside the journal.
LedgerWithoutAbsence(j, kind, old) ==    \* mutant: absence leaves the intent as it is
    CASE kind = "submit" -> "started"
      [] kind = "submission" ->
           IF j.phase = "rejected" THEN "rejected"
           ELSE IF j.remote THEN "accepted" ELSE "unknown"
      [] OTHER -> old

LedgerStatus(j, kind, old) ==
    CASE kind = "submit" -> "started"
      [] kind \in {"submission", "absence"} ->
           IF j.phase = "rejected" THEN "rejected"
           ELSE IF j.remote THEN "accepted" ELSE "unknown"
      [] OTHER -> old

\* CommitDispatch: facts that Apply refuses as inconsistent are ErrInvalid, which
\* is fatal to worker.Run; nothing is written and the engine stops.
CommitDispatch(w, r, kind, pc) ==
    LET a == sess[w].a
        f == Finish(r.j, r.s, op[a], kind)
    IN  /\ Owns(w)
        /\ kind \in {"submission", "absence"} => intent[a] \in {"started", "unknown"}
        /\ IF Commits(st[a], r)
           THEN /\ jr' = [jr EXCEPT ![a] = r.j]
                /\ st' = [st EXCEPT ![a] = f.s]
                /\ op' = [op EXCEPT ![a] = f.o]
                /\ intent' = [intent EXCEPT ![a] = LedgerStatus(r.j, kind, @)]
                /\ Goto(w, pc)
                /\ UNCHANGED running
           ELSE /\ running' = FALSE
                /\ Goto(w, "done")
                /\ UNCHANGED <<jr, st, op, intent>>
        /\ UNCHANGED <<grant, active, lease, expired, world>>

\* YieldDispatch at the end of process.
Yield(w) ==
    /\ sess[w].pc = "done"
    /\ Owns(w)
    /\ lease' = [lease EXCEPT ![sess[w].a] = NoWorker]
    /\ sess' = [sess EXCEPT ![w] = Idle]
    /\ UNCHANGED <<durable, running, expired, world>>

\* A session that lost its handle fails its next transaction and the yield; a
\* session cut short by its context may also return without a commit.  The lease
\* row then stays until it expires.
Abandon(w) ==
    /\ sess[w].pc # "idle"
    /\ ~Owns(w)
    /\ sess' = [sess EXCEPT ![w] = Idle]
    /\ UNCHANGED <<durable, lease, running, expired, world>>

\* The persisted expiry passes: the heartbeat failed, stalled or died.
LeaseExpires(a) ==
    /\ lease[a] # NoWorker
    /\ "lease" \in Disturbances \/ sess[lease[a]].pc = "idle" \/ ~sess[lease[a]].fresh
    /\ lease' = [lease EXCEPT ![a] = NoWorker]
    /\ sess' = [sess EXCEPT ![lease[a]] = IF @.a = a THEN Lost(@) ELSE @]
    /\ UNCHANGED <<durable, running, expired, world>>

-----------------------------------------------------------------------------
(* One pass of process over the loaded journal.                            *)

\* A session may end without a commit: a local store error, a cancelled context,
\* a policy that refuses the mutation for now, a stale observation.
Interrupt(w) ==
    /\ sess[w].pc \in {"loaded", "consented", "preparing", "stopping"}
    /\ Goto(w, "done")
    /\ UNCHANGED <<durable, lease, running, expired, world>>

\* ExpireDispatch, refused by Apply with ErrConflict once it no longer applies.
Expire(w) ==
    LET a == sess[w].a
    IN  /\ sess[w].pc = "expire"
        /\ ExpireDispatchAllowed(jr[a], st[a])
        /\ CommitDispatch(w, ExpireDispatch(jr[a], st[a]), "expire", "done")

\* cancelOnce takes precedence over every phase.
StopDue(w) ==
    LET a == sess[w].a
    IN  Pending(op[a]) /\ ~op[a].started /\ jr[a].phase = "submitted" /\ jr[a].remote

\* Session w reaches the switch over the journal's phase.
At(w, phase) ==
    /\ sess[w].pc = "loaded"
    /\ Owns(w)
    /\ ~StopDue(w)
    /\ jr[sess[w].a].phase = phase

\* guardNewWork and newMutationPolicy: host, storage or resource limits refuse
\* new work, and the refusal itself becomes evidence.
Refuse(w) ==
    LET a == sess[w].a
    IN  /\ \/ At(w, "local")
           \/ At(w, "ready")
           \/ sess[w].pc = "consented"
        /\ "refusal" \in Disturbances
        /\ RefuseNewWorkAllowed(jr[a], st[a])
        /\ CommitDispatch(w, RefuseNewWork(jr[a], st[a]), "refuse", "done")

\* newMutationPolicy refuses a mutation past the deadline; the engine then expires.
ExpiredMutation(w) ==
    /\ At(w, "local") \/ At(w, "ready") \/ (sess[w].pc = "consented" /\ Owns(w))
    /\ expired
    /\ Goto(w, "expire")
    /\ UNCHANGED <<durable, lease, running, expired, world>>

\* ConsumeAuthorization: consent is used up before anything remote is planned.
ConsumeAuthorization(w) ==
    LET a == sess[w].a
    IN  /\ At(w, "local")
        /\ running
        /\ ~expired
        /\ ~jr[a].plan
        /\ LocalOnly(st[a])
        /\ grant[a] # "none"
        /\ grant' = [grant EXCEPT ![a] = "consumed"]
        /\ Goto(w, "consented")
        /\ UNCHANGED <<st, jr, intent, op, active, lease, running, expired, world>>

\* The intent to prepare is durable before Prepare may be called.
CommitPreparation(w) ==
    LET a == sess[w].a
    IN  /\ sess[w].pc = "consented"
        /\ running
        /\ ~expired
        /\ grant[a] = "consumed"
        /\ LocalOnly(st[a])
        /\ BeginPreparationAllowed(jr[a], st[a])
        /\ CommitDispatch(w, BeginPreparation(jr[a], st[a]), "begin", "prepare")

\* Prepare reaches the provider or is lost on the way.
CallPrepare(w) ==
    LET a == sess[w].a
    IN  /\ sess[w].pc = "prepare"
        /\ \E staged \in BOOLEAN :
             world' = [world EXCEPT ![a].staged = staged, ![a].prepares = @ + 1]
        /\ Goto(w, "preparing")
        /\ UNCHANGED <<durable, lease, running, expired>>

\* What the staging area can answer about a preparation.
StagingAnswers(a) ==
    IF world[a].staged THEN {Answer("prepared", p) : p \in {"pending", "ready", "public"}}
    ELSE {}

Faults == {Answer("fault", "open"), Answer("fault", "permanent")}

\* An unconfirmed preparation never counts failures towards attention; it waits
\* for its grace, and for answers.
NotReady(a) ==
    IF UnconfirmedPreparation(jr[a])
    THEN {Answer("unready", "answered"), Answer("unready", "unanswered")}
    ELSE Faults

PrepareReturns(w) ==
    /\ sess[w].pc = "preparing"
    /\ \E ans \in StagingAnswers(sess[w].a) \cup Faults : Hold(w, ans)
    /\ UNCHANGED <<durable, lease, running, expired, world>>

\* Prepare itself may report that the gate expired.
PrepareExpires(w) ==
    /\ sess[w].pc = "preparing"
    /\ expired
    /\ Goto(w, "expire")
    /\ UNCHANGED <<durable, lease, running, expired, world>>

\* Verification of the binding fails, or the local step or read that follows it.
PassFails(w) ==
    /\ sess[w].pc = "loaded"
    /\ Owns(w)
    /\ \E ans \in NotReady(sess[w].a) : Hold(w, ans)
    /\ UNCHANGED <<durable, lease, running, expired, world>>

\* Staging is only ever read back after a restart: no session calls Prepare here.
PrepareAgain(w) ==                       \* mutant: recovery repeats the preparation
    /\ At(w, "staging")
    /\ Goto(w, "prepare")
    /\ UNCHANGED <<durable, lease, running, expired, world>>

ReadStaging(w) ==
    /\ At(w, "staging")
    /\ \E ans \in StagingAnswers(sess[w].a) : Hold(w, ans)
    /\ UNCHANGED <<durable, lease, running, expired, world>>

\* The intent to submit is durable, in journal and ledger, before Start is called.
CommitSubmission(w) ==
    LET a == sess[w].a
    IN  /\ At(w, "ready")
        /\ running
        /\ ~expired
        /\ grant[a] = "consumed"
        /\ BeginSubmissionAllowed(jr[a], st[a])
        /\ CommitDispatch(w, BeginSubmission(jr[a], st[a]), "submit", "start")

CallStart(w) ==
    LET a == sess[w].a
    IN  /\ sess[w].pc = "start"
        /\ world' = [world EXCEPT ![a].exec = "inflight", ![a].starts = @ + 1]
        /\ Goto(w, "starting")
        /\ UNCHANGED <<durable, lease, running, expired>>

\* The outcome is what the provider decided, or unknown: the reply may be lost.
\* A cancelled context skips the call and reports unknown as well.
StartReturns(w) ==
    LET a == sess[w].a
        outcomes ==
            {Answer("start", "unknown"), Answer("start", "named")}
            \cup (IF world[a].exec \in Landed THEN {Answer("start", "accepted")} ELSE {})
            \cup (IF world[a].exec = "lost"
                  THEN {Answer("start", "rejected"), Answer("start", "expired")} ELSE {})
    IN  /\ sess[w].pc \in {"start", "starting"}
        /\ \E ans \in outcomes : Hold(w, ans)
        /\ UNCHANGED <<durable, lease, running, expired, world>>

\* Reconcile by identity: found, absent from a complete inventory, or no answer.
ReadSubmission(w) ==
    LET a == sess[w].a
        answers == {IF world[a].exec \in Landed THEN Answer("found", "none")
                    ELSE Answer("absent", jr[a].absence),
                    Answer("fault", "named")}
    IN  /\ At(w, "submitting")
        /\ \E ans \in answers : Hold(w, ans)
        /\ UNCHANGED <<durable, lease, running, expired, world>>

\* Observe: reports may lag behind the run, never ahead of it.
Reports(x) ==
    CASE x.exec = "queued"  -> {"queued", "unknown"}
      [] x.exec = "running" -> {"queued", "starting", "running", "unknown"}
      [] x.exec \in ExecutionTerminal -> {"running", "unknown", x.exec}
      [] OTHER -> {}

ReadExecution(w) ==
    LET x == world[sess[w].a]
        answers == {Answer("observed", e) : e \in Reports(x)}
                   \cup (IF x.exec = "gone" THEN {Answer("gone", "none")} ELSE {})
    IN  /\ At(w, "submitted")
        /\ \E ans \in answers : Hold(w, ans)
        /\ UNCHANGED <<durable, lease, running, expired, world>>

-----------------------------------------------------------------------------
(* Commits of the answers.                                                 *)

Answered(w, kind) == sess[w].pc = "answered" /\ sess[w].ans.kind = kind

CommitFault(w) ==
    LET a == sess[w].a
        val == sess[w].ans.val
    IN  /\ Answered(w, "fault")
        /\ FaultAllowed(jr[a], st[a])
        /\ CommitDispatch(w, Fault(jr[a], st[a], val = "permanent", val = "named"),
                          "fault", "done")

\* endUnconfirmedPreparation: within the grace, and while the provider does not
\* answer, the attempt keeps observing; otherwise only its eligibility ends.
CommitUnready(w) ==
    LET a == sess[w].a
        ended == jr[a].prepWindow = "elapsed"
    IN  /\ Answered(w, "unready")
        /\ \/ /\ ~ended \/ sess[w].ans.val = "unanswered"
              /\ CommitDispatch(w, Fault(jr[a], st[a], FALSE, FALSE), "fault", "done")
           \/ /\ ended
              /\ EndUnconfirmedPreparationAllowed(jr[a], st[a])
              /\ CommitDispatch(w, EndUnconfirmedPreparation(jr[a], st[a]), "end", "done")

CommitPrepared(w) ==
    LET a == sess[w].a
    IN  /\ Answered(w, "prepared")
        /\ PreparationSeenAllowed(jr[a], st[a])
        /\ CommitDispatch(w, PreparationSeen(jr[a], st[a], sess[w].ans.val),
                          "prepared", "done")

\* The outcome of Start, or the run found under the attempt's identity.
CommitOutcome(w) ==
    LET a == sess[w].a
        val == sess[w].ans.val
    IN  /\ Answered(w, "start") \/ Answered(w, "found")
        /\ SubmissionSeenAllowed(jr[a], st[a])
        /\ CommitDispatch(w,
             CASE val \in {"accepted", "none"} -> SubmissionAccepted(jr[a], st[a])
               [] val \in {"rejected", "expired"} ->
                    SubmissionRejected(jr[a], st[a], val = "expired")
               [] OTHER -> SubmissionUnknown(jr[a], st[a], val = "named"),
             "submission", "done")

\* Absence never overrides the owner's word that the resource is present.
CommitAbsent(w) ==
    LET a == sess[w].a
    IN  /\ Answered(w, "absent")
        /\ IF jr[a].ownerPresent
           THEN CommitDispatch(w, Fault(jr[a], st[a], FALSE, FALSE), "fault", "done")
           ELSE /\ SubmissionAbsenceAllowed(jr[a], st[a])
                /\ CommitDispatch(w, SubmissionAbsenceSeen(jr[a], st[a]),
                                  "absence", "done")

CommitGone(w) ==
    LET a == sess[w].a
    IN  /\ Answered(w, "gone")
        /\ RemoteAbsenceSeenAllowed(jr[a], st[a])
        /\ CommitDispatch(w, RemoteAbsenceSeen(jr[a], st[a]), "gone", "done")

\* The adapters' reading of a remote state as activity and release evidence.
Observation(e) ==
    [exec |-> e,
     remote |-> CASE e \in ExecutionTerminal -> "inactive"
                  [] e \in {"starting", "running"} -> "active"
                  [] OTHER -> "possible",
     release |-> IF ~ReleaseReported THEN "not_observable"
                 ELSE IF e \in ExecutionTerminal THEN "provider_reported" ELSE "unknown"]

\* A regressive report is dropped without a commit.
CommitObservation(w) ==
    LET a == sess[w].a
        o == Observation(sess[w].ans.val)
    IN  /\ Answered(w, "observed")
        /\ Owns(w)
        /\ ObservationSeenAllowed(jr[a], st[a])
        /\ IF StaleObservation(st[a], o)
           THEN Goto(w, "done") /\ UNCHANGED <<durable, lease, running, expired, world>>
           ELSE CommitDispatch(w, ObservationSeen(jr[a], st[a], o), "observed", "done")

-----------------------------------------------------------------------------
(* The one stop invocation.                                                *)

Manual(s) == [s EXCEPT !.cancel = "manual_required", !.orch = "needs_attention"]

\* CommitCancellation for session w: state s, operations o and journal j.
CommitCancellation(w, j, s, o, pc) ==
    LET a == sess[w].a
    IN  /\ Owns(w)
        /\ Pending(op[a])
        /\ jr[a].phase = "submitted"
        /\ jr[a].remote
        /\ ValidTransition(st[a], s)
        /\ jr' = [jr EXCEPT ![a] = j]
        /\ st' = [st EXCEPT ![a] = s]
        /\ op' = [op EXCEPT ![a] = o]
        /\ Goto(w, pc)
        /\ UNCHANGED <<grant, intent, active, lease, running, expired, world>>

\* cancelOnce: without the capability the owner must act; with it, the permit is
\* taken durably before the provider is called.
BeginStop(w) ==
    LET a == sess[w].a
    IN  /\ sess[w].pc = "loaded"
        /\ StopDue(w)
        /\ IF CancelSupported
           THEN /\ op[a].cancel = "accepted"
                /\ st[a].cancel = "requested"
                /\ CommitCancellation(w, jr[a], [st[a] EXCEPT !.cancel = "requesting"],
                     [op[a] EXCEPT !.cancel = "running", !.started = TRUE], "stop")
           ELSE CommitCancellation(w, jr[a], Manual(st[a]),
                     [op[a] EXCEPT !.cancel = "manual"], "done")

CallCancel(w) ==
    /\ sess[w].pc = "stop"
    /\ world' = [world EXCEPT ![sess[w].a].cancels = @ + 1]
    /\ Goto(w, "stopping")
    /\ UNCHANGED <<durable, lease, running, expired>>

\* The provider confirms only a run it has stopped; it may acknowledge the
\* request, ask for manual action, or not answer at all.
CancelReturns(w) ==
    LET x == world[sess[w].a]
        answers == {Answer("stop", "manual")}
                   \cup (IF sess[w].pc = "stopping" THEN {Answer("stop", "accepted")} ELSE {})
                   \cup (IF sess[w].pc = "stopping" /\ x.exec = "cancelled"
                         THEN {Answer("stop", "confirmed")} ELSE {})
    IN  /\ sess[w].pc \in {"stop", "stopping"}
        /\ \E ans \in answers : Hold(w, ans)
        /\ UNCHANGED <<durable, lease, running, expired, world>>

\* A confirmed stop is the same evidence as an observed cancelled run.
Confirmed == [exec |-> "cancelled", remote |-> "inactive", release |-> "not_observable"]

AcknowledgedStop(w) ==                   \* mutant: an acknowledgement confirms
    LET a == sess[w].a
        r == ObservationSeen(jr[a], st[a], Confirmed)
    IN  /\ Answered(w, "stop")
        /\ sess[w].ans.val # "manual"
        /\ CommitCancellation(w, r.j, r.s, [op[a] EXCEPT !.cancel = "succeeded"], "done")

CommitStop(w) ==
    LET a == sess[w].a
        r == ObservationSeen(jr[a], st[a], Confirmed)
        settled == [op[a] EXCEPT !.cancel = "succeeded"]
    IN  /\ Answered(w, "stop")
        /\ CASE sess[w].ans.val = "manual" ->
                  CommitCancellation(w, jr[a], Manual(st[a]),
                                     [op[a] EXCEPT !.cancel = "manual"], "done")
             [] sess[w].ans.val = "accepted" ->
                  /\ st[a].cancel = "requesting"
                  /\ CommitCancellation(w, jr[a], [st[a] EXCEPT !.cancel = "accepted"],
                                        op[a], "done")
             [] OTHER ->
                  CommitCancellation(w, r.j, r.s, Finish(r.j, r.s, settled, "observed").o,
                                     "done")

-----------------------------------------------------------------------------
(* Control requests: authenticated transactions beside the workers.        *)

\* A control write advances the revision or the journal version and so fences
\* every handle issued before it.  A claim not yet loaded carries a revision only.
FenceUnanswered(a, revised) ==              \* mutant: an answer at hand keeps its handle
    sess' = [w \in Workers |->
               IF sess[w].a = a /\ sess[w].pc # "answered" /\ (revised \/ sess[w].pc # "claimed")
               THEN Lost(sess[w]) ELSE sess[w]]

Fence(a, revised) ==
    sess' = [w \in Workers |->
               IF sess[w].a = a /\ (revised \/ sess[w].pc # "claimed")
               THEN Lost(sess[w]) ELSE sess[w]]

ControlWrite(a, j, s, o) ==
    /\ jr' = [jr EXCEPT ![a] = j]
    /\ st' = [st EXCEPT ![a] = s]
    /\ op' = [op EXCEPT ![a] = o]
    /\ Fence(a, s # st[a])
    /\ UNCHANGED <<grant, active, lease, running, expired, world>>

\* AuthorizeExecution: one grant per attempt, before anything was recorded.
AuthorizeExecution(a) ==
    /\ a = active
    /\ ~expired
    /\ LocalOnly(st[a])
    /\ grant[a] = "none"
    /\ jr[a] = InitialJournal
    /\ grant' = [grant EXCEPT ![a] = "granted"]
    /\ UNCHANGED <<st, jr, intent, op, active, lease, sess, running, expired, world>>

\* AdmitOperation creates a cancel operation only when the earlier ones neither
\* settled, nor are pending, nor ever took the stop permit.
NewCancel(a) == "cancel" \in Requests /\ op[a].cancel \in {"none", "manual"} /\ ~op[a].started

CancelOperation(a, status) ==
    [op[a] EXCEPT !.cancel = status, !.polls = 0]

\* A late request never rewrites a settled outcome.
CancelSettled(a) ==
    /\ NewCancel(a)
    /\ \/ /\ st[a].orch \in OrchestrationTerminal
          /\ ControlWrite(a, jr[a], st[a], CancelOperation(a, "succeeded"))
       \/ /\ st[a].orch \notin OrchestrationTerminal
          /\ a = active
          /\ st[a].exec \in ExecutionTerminal
          /\ LET cancel == IF st[a].exec = "cancelled" THEN "confirmed" ELSE "too_late"
                 t == [st[a] EXCEPT !.cancel = cancel]
             IN  /\ \/ ValidTransition(st[a], t)
                    \/ /\ st[a].cancel = "not_requested"
                       /\ ValidTransition(st[a], [st[a] EXCEPT !.cancel = "requested"])
                       /\ ValidTransition([st[a] EXCEPT !.cancel = "requested"], t)
                 /\ ControlWrite(a, jr[a], t, CancelOperation(a, "succeeded"))
    /\ UNCHANGED intent

\* Before submission a cancel prevents it for good, in this transaction.
CancelPrevents(a) ==
    LET r == PreventDispatch(jr[a], st[a])
    IN  /\ NewCancel(a)
        /\ a = active
        /\ st[a].exec \notin ExecutionTerminal
        /\ PreventDispatchAllowed(jr[a], st[a])
        /\ Commits(st[a], r)
        /\ ControlWrite(a, r.j, r.s, CancelOperation(a, "succeeded"))
        /\ UNCHANGED intent

\* After it, the request waits for a worker; at attention it reopens observation,
\* or goes straight to manual where observation cannot be reopened.
CancelRequested(a) ==
    LET s == [st[a] EXCEPT !.cancel = "requested", !.orch = "cancelling"]
        r == RequestReconciliation(jr[a], s, FALSE)
        reopens == RequestReconciliationAllowed(jr[a], s, FALSE) /\ Commits(s, r)
    IN  /\ NewCancel(a)
        /\ a = active
        /\ st[a].orch \notin OrchestrationTerminal
        /\ st[a].exec \notin ExecutionTerminal
        /\ jr[a].submitStarted
        /\ \/ st[a].cancel = "not_requested"
           \/ st[a].cancel = "manual_required" /\ op[a].cancel = "manual"
        /\ ValidTransition(st[a], s)
        /\ IF jr[a].phase = "attention" /\ ~reopens
           THEN ControlWrite(a, jr[a], Manual(s), CancelOperation(a, "manual"))
           ELSE ControlWrite(a, IF jr[a].phase = "attention" THEN r.j ELSE jr[a], s,
                             CancelOperation(a, "accepted"))
        /\ UNCHANGED intent

\* A reconcile request resumes observation of the original resource.  owner: the
\* owner attests that the named submission exists.
Reconcile(a, owner) ==
    LET r == RequestReconciliation(jr[a], st[a], owner)
    IN  /\ (IF owner THEN "resolve" ELSE "reconcile") \in Requests
        /\ ~op[a].reconcile
        /\ a = active
        /\ RequestReconciliationAllowed(jr[a], st[a], owner)
        /\ Commits(st[a], r)
        /\ ControlWrite(a, r.j, r.s, [op[a] EXCEPT !.reconcile = TRUE])
        /\ UNCHANGED intent

\* The owner attests, truthfully, that the named submission does not exist.
OwnerResolvesAbsent(a) ==
    LET r == OwnerSubmissionAbsent(jr[a], st[a])
    IN  /\ "resolve" \in Requests
        /\ ~op[a].reconcile
        /\ a = active
        /\ jr[a].phase = "attention"
        /\ ~StartPending(a)
        /\ world[a].exec \notin Landed
        /\ OwnerSubmissionAbsentAllowed(jr[a], st[a])
        /\ Commits(st[a], r)
        /\ intent[a] \in {"started", "unknown"}
        /\ ControlWrite(a, r.j, r.s, op[a])
        /\ intent' = [intent EXCEPT ![a] = "rejected"]

\* retryInputs and createRetry: only a resolved attempt may be replaced.
Resolved(j, s) ==
    IF j.submitStarted
    THEN IF s.exec = "not_submitted" THEN j.phase = "rejected"
         ELSE j.remote /\ j.obs \in ExecutionTerminal /\ j.obs = s.exec
    ELSE s.exec = "not_submitted"

EagerRetry(a) ==                         \* mutant: attention is enough to retry
    /\ a = active
    /\ a < MaxAttempts
    /\ st[a].orch \in OrchestrationTerminal \cup {"needs_attention"}
    /\ active' = a + 1
    /\ UNCHANGED <<st, jr, grant, intent, op, lease, sess, running, expired, world>>

Retry(a) ==
    /\ a = active
    /\ a < MaxAttempts
    /\ ~expired
    /\ RetryAllowed(st[a])
    /\ Resolved(jr[a], st[a])
    /\ active' = a + 1
    /\ UNCHANGED <<st, jr, grant, intent, op, lease, sess, running, expired, world>>

\* ClaimCollection: a collect ticket opens the transfer of a collectible attempt.
\* The first ticket is issued automatically, a later one on the owner's request.
ClaimCollection(a) ==
    LET s == [st[a] EXCEPT !.result = "collecting", !.orch = "collecting"]
    IN  /\ st[a].orch \notin OrchestrationTerminal
        /\ st[a].exec \in ExecutionTerminal
        /\ jr[a].phase = "collectible"
        /\ jr[a].obs = st[a].exec
        /\ \/ st[a].result = "not_available" /\ st[a].orch = "collecting"
           \/ st[a].result \in {"incomplete", "invalid"} /\ "collect" \in Requests
        /\ ValidTransition(st[a], s)
        /\ ControlWrite(a, jr[a], s, op[a])
        /\ UNCHANGED intent

\* CompleteCollection publishes all or nothing; FailCollection keeps the attempt
\* recoverable by another ticket.  Each settles the journal's condition.
EndCollection(a, s, problem) ==
    /\ st[a].result = "collecting"
    /\ st[a].orch = "collecting"
    /\ ValidTransition(st[a], s)
    /\ ControlWrite(a, [jr[a] EXCEPT !.problem = problem, !.localWindow = "unset"], s, op[a])
    /\ UNCHANGED intent

CompleteCollection(a) ==
    \E completed \in BOOLEAN : EndCollection(a, FinalState(st[a], completed), "none")

FailCollection(a) ==
    \E result \in {"incomplete", "invalid"} :
        EndCollection(a, [st[a] EXCEPT !.orch = "needs_attention", !.result = result], "open")

-----------------------------------------------------------------------------
(* Failures, time and the provider.                                        *)

\* The process dies: goroutines vanish, durable facts and leases remain.
Crash ==
    /\ "crash" \in Disturbances
    /\ \E w \in Workers : sess[w].pc # "idle"
    /\ sess' = [w \in Workers |-> Idle]
    /\ running' = TRUE
    /\ UNCHANGED <<durable, lease, expired, world>>

\* Graceful shutdown lets sessions finish but authorises nothing new.
Shutdown ==
    /\ "shutdown" \in Disturbances
    /\ running
    /\ running' = FALSE
    /\ UNCHANGED <<durable, lease, sess, expired, world>>

Restart ==
    /\ ~running
    /\ \A w \in Workers : sess[w].pc = "idle"
    /\ running' = TRUE
    /\ UNCHANGED <<durable, lease, sess, expired, world>>

DeadlinePasses ==
    /\ "deadline" \in Disturbances
    /\ ~expired
    /\ expired' = TRUE
    /\ UNCHANGED <<durable, lease, sess, running, world>>

\* LocalFailureBudget, PreparationObservationGrace and SubmissionAbsenceGrace run out.
WindowElapses(a) ==
    /\ \/ /\ jr[a].localWindow = "open"
          /\ jr' = [jr EXCEPT ![a].localWindow = "elapsed"]
       \/ /\ jr[a].prepWindow = "open"
          /\ jr' = [jr EXCEPT ![a].prepWindow = "elapsed"]
       \/ /\ jr[a].absence = "open"
          /\ ~StartPending(a)
          /\ ~OutdatedInventory(a)
          /\ jr' = [jr EXCEPT ![a].absence = "elapsed"]
    /\ UNCHANGED <<st, grant, intent, op, active, lease, sess, running, expired, world>>

\* The provider runs what reached it; its owner may delete it by hand.
WorldMoves(a) ==
    /\ \/ world[a].exec = "inflight" /\ \E e \in {"queued", "lost"} :
            world' = [world EXCEPT ![a].exec = e]
       \/ world[a].exec = "queued" /\ world' = [world EXCEPT ![a].exec = "running"]
       \/ world[a].exec \in {"queued", "running"} /\ \E e \in Outcomes :
            world' = [world EXCEPT ![a].exec = e]
       \/ "removal" \in Disturbances /\ world[a].exec \in Landed /\ world' = [world EXCEPT ![a].exec = "gone"]
    /\ UNCHANGED <<durable, lease, sess, running, expired>>

-----------------------------------------------------------------------------

CommitAnswer(w) ==
    \/ CommitFault(w) \/ CommitUnready(w) \/ CommitPrepared(w) \/ CommitOutcome(w)
    \/ CommitAbsent(w) \/ CommitGone(w) \/ CommitObservation(w) \/ CommitStop(w)

SessionStep(w) ==
    \/ Load(w) \/ Yield(w) \/ Abandon(w) \/ Interrupt(w)
    \/ Expire(w) \/ Refuse(w) \/ ExpiredMutation(w)
    \/ ConsumeAuthorization(w) \/ CommitPreparation(w)
    \/ CallPrepare(w) \/ PrepareReturns(w) \/ PrepareExpires(w)
    \/ PassFails(w) \/ ReadStaging(w)
    \/ CommitSubmission(w) \/ CallStart(w) \/ StartReturns(w)
    \/ ReadSubmission(w) \/ ReadExecution(w)
    \/ CommitAnswer(w)
    \/ BeginStop(w) \/ CallCancel(w) \/ CancelReturns(w)

ClaimStep(w) == \E a \in Attempts : ClaimRecovery(w, a) \/ ClaimNext(w, a)

ControlStep(a) ==
    \/ AuthorizeExecution(a)
    \/ CancelSettled(a) \/ CancelPrevents(a) \/ CancelRequested(a)
    \/ \E owner \in BOOLEAN : Reconcile(a, owner)
    \/ OwnerResolvesAbsent(a)
    \/ Retry(a)
    \/ ClaimCollection(a) \/ CompleteCollection(a) \/ FailCollection(a)

OutsideStep(a) == WindowElapses(a) \/ WorldMoves(a) \/ LeaseExpires(a)

Next ==
    \/ \E w \in Workers : SessionStep(w) \/ ClaimStep(w)
    \/ \E a \in Attempts : ControlStep(a) \/ OutsideStep(a)
    \/ Crash \/ Shutdown \/ Restart \/ DeadlinePasses

Spec == Init /\ [][Next]_vars

\* Every goroutine and timer runs on; a dead holder's lease runs out; serve is
\* restarted; a start request lands or is lost.  The run itself may never end.
Progress ==
    /\ \A w \in Workers : WF_vars(SessionStep(w)) /\ WF_vars(ClaimStep(w))
    /\ \A a \in Attempts :
         /\ WF_vars(LeaseExpires(a)) /\ WF_vars(WindowElapses(a))
         /\ WF_vars(WorldMoves(a) /\ world[a].exec = "inflight")
    /\ WF_vars(Restart)

\* A provider that is asked again and again answers, and reports lag only so long.
Answering ==
    \A w \in Workers :
        /\ SF_vars(ReadStaging(w) /\ sess'[w].ans.val # "pending")
        /\ SF_vars(ReadExecution(w) /\ sess'[w].ans.val = world[sess[w].a].exec)
        /\ SF_vars(PassFails(w) /\ sess'[w].ans.val = "answered")

\* Interruptions, and the requests that send an attempt back, end at last.
Calm ==
    <>[][~ \/ Crash \/ Shutdown
           \/ \E w \in Workers : Interrupt(w)
           \/ \E a \in Attempts : CancelRequested(a) \/ Reconcile(a, FALSE)]_vars

LiveSpec == Spec /\ Progress /\ Answering /\ Calm

-----------------------------------------------------------------------------
(* Properties.                                                             *)

\* Types of the durable facts, of the sessions and of the outside.
TypeOK ==
    /\ st \in [Attempts -> AttemptStates]
    /\ jr \in [Attempts -> Journals]
    /\ grant \in [Attempts -> {"none", "granted", "consumed"}]
    /\ intent \in [Attempts -> {"none", "started", "unknown", "rejected", "accepted"}]
    /\ op \in [Attempts -> Operations]
    /\ lease \in [Attempts -> Workers \cup {NoWorker}]
    /\ active \in Attempts
    /\ sess \in [Workers -> Sessions]
    /\ running \in BOOLEAN
    /\ expired \in BOOLEAN
    /\ world \in [Attempts -> Worlds]

\* Prepare, Start and Cancel reach the provider at most once per attempt, each only
\* behind consumed consent and its own durable intent: no crash, lost lease, lost
\* reply or concurrent session makes process repeat a mutation.
OneShotEffects ==
    \A a \in Attempts :
        /\ world[a].prepares <= 1
        /\ world[a].starts <= 1
        /\ world[a].cancels <= 1
        /\ world[a].prepares > 0 => jr[a].plan /\ grant[a] = "consumed"
        /\ world[a].starts > 0 => jr[a].submitStarted /\ intent[a] # "none"
        /\ world[a].cancels > 0 => op[a].started /\ jr[a].submitStarted

\* While a run exists or may still appear at the provider, HoldsAccount counts the
\* attempt against the account's capacity, whatever was lost on the way.
CapacityHeld ==
    \A a \in Attempts :
        StartPending(a) \/ Live(world[a]) => HoldsAccount(st[a], jr[a].plan)

\* A retry never runs beside the attempt it replaces: at most one attempt of the job
\* has a run, or a start that may become one, at the provider.
NoOverlap ==
    \A a, b \in Attempts :
        /\ StartPending(a) \/ Live(world[a])
        /\ StartPending(b) \/ Live(world[b])
        => a = b

\* loadDispatch never finds the facts it treats as corrupt: the journal, the attempt
\* state, the grant and the submission intent agree after every commit, control
\* request and collection, though each is written by other code.
NeverCorrupt ==
    \A a \in Attempts :
        /\ ValidState(st[a])
        /\ ValidJournal(jr[a])
        /\ jr[a].plan => grant[a] = "consumed"
        /\ jr[a].submitStarted <=> intent[a] # "none"
        /\ jr[a].submitStarted =>
             CASE jr[a].remote -> intent[a] = "accepted"
               [] ~jr[a].remote /\ jr[a].phase = "rejected" -> intent[a] = "rejected"
               [] OTHER -> intent[a] \in {"started", "unknown"}
        /\ ~jr[a].plan /\ jr[a].phase \notin {"failed", "prevented"} => LocalOnly(st[a])

\* What an attempt says about the remote run is true of it, unless its owner deleted
\* it by hand: a terminal outcome is the run's outcome, not_submitted (failed, timed
\* out or prevented before submission) means that no run ever landed.
EvidenceTrue ==
    \A a \in Attempts :
        LET run == world[a].exec
        IN  /\ st[a].exec \in ExecutionTerminal => run \in {st[a].exec, "gone"}
            /\ st[a].exec \in ExecutionActive => run \in Landed \cup {"gone"}
            /\ st[a].exec = "not_submitted" => run \in {"none", "lost", "gone"}
            /\ st[a].orch = "succeeded" => run \in {"succeeded", "gone"}

\* A cancel request is answered: as long as its operation is pending the attempt is
\* still live and still cancelling, so that some later commit can settle it.
CancelNeverOrphaned ==
    \A a \in Attempts :
        Pending(op[a]) =>
            /\ st[a].orch \notin OrchestrationTerminal
            /\ CancellationPending(st[a])
            /\ jr[a].phase \in {"submitting", "submitted"}
            /\ op[a].cancel = "running" <=> st[a].cancel \in {"requesting", "accepted"}

\* The transaction that records the answer of session w finds the facts it requires:
\* Apply does not refuse it with ErrConflict, nor does writeDispatchLedger.  It spells out
\* when CommitAnswer(w) is enabled.
Admitted(w) ==
    LET a == sess[w].a
        j == jr[a]
        s == st[a]
        val == sess[w].ans.val
        undecided == intent[a] \in {"started", "unknown"}
        stopped == CASE val = "manual" -> Manual(s)
                     [] val = "accepted" -> [s EXCEPT !.cancel = "accepted"]
                     [] OTHER -> ObservationSeen(j, s, Confirmed).s
    IN  CASE sess[w].ans.kind = "fault" -> FaultAllowed(j, s)
          [] sess[w].ans.kind = "unready" ->
               \/ j.prepWindow # "elapsed" \/ val = "unanswered"
               \/ EndUnconfirmedPreparationAllowed(j, s)
          [] sess[w].ans.kind = "prepared" -> PreparationSeenAllowed(j, s)
          [] sess[w].ans.kind \in {"start", "found"} ->
               SubmissionSeenAllowed(j, s) /\ undecided
          [] sess[w].ans.kind = "absent" ->
               j.ownerPresent \/ (SubmissionAbsenceAllowed(j, s) /\ undecided)
          [] sess[w].ans.kind = "gone" -> RemoteAbsenceSeenAllowed(j, s)
          [] sess[w].ans.kind = "observed" -> ObservationSeenAllowed(j, s)
          [] sess[w].ans.kind = "stop" ->
               /\ Pending(op[a]) /\ j.phase = "submitted" /\ j.remote
               /\ val = "accepted" => s.cancel = "requesting"
               /\ ValidTransition(s, stopped)
          [] OTHER -> FALSE

\* Whatever answer a session holds, a session that still owns its attempt can record
\* it: no reply of the provider leaves process without a transaction to commit.
AnswersCommit ==
    \A w \in Workers : sess[w].pc = "answered" /\ Owns(w) => Admitted(w)

\* Nothing that was begun is left without a way on: neither the request of an owner nor
\* the answer of a provider.
NothingStuck == CancelNeverOrphaned /\ AnswersCommit

\* Apply refuses the facts a session computed, before, at or after the submission, which
\* stops the engine, only when a submission turns out absent after its cancellation went
\* to the owner.
EngineStopsOnlyOnManualAbsence ==
    [][\A w \in Workers :
          running /\ ~running' /\ sess'[w] # sess[w] =>
              /\ st[sess[w].a].cancel = "manual_required"
              /\ sess[w].ans.kind = "absent"]_vars

\* The dispatch of a job implements the promise of EffectLedger.
Effect(opened, calls) == IF calls > 0 THEN "called" ELSE IF opened THEN "open" ELSE "closed"

Ledger == INSTANCE EffectLedger WITH
    Last <- MaxAttempts,
    consent <- grant,
    prepare <- [a \in Attempts |-> Effect(jr[a].plan, world[a].prepares)],
    start <- [a \in Attempts |-> Effect(jr[a].submitStarted, world[a].starts)],
    stop <- [a \in Attempts |-> Effect(op[a].started, world[a].cancels)],
    ended <- [a \in Attempts |-> st[a].orch \in OrchestrationTerminal],
    current <- active

\* Every step of the engine, its requests and its failures is a step of EffectLedger
\* or changes none of its variables.
KeepsLedger == Ledger!Spec

\* Consent is never left hanging: an authorised attempt comes to a resolution, to the
\* collector or to the owner's attention, or its run is known and still going on;
\* whatever was lost or crashed on the way.
EventuallyResolved ==
    \A a \in Attempts :
        grant[a] # "none" ~>
            \/ jr[a].phase \in {"rejected", "collectible", "attention", "failed", "prevented"}
            \/ jr[a].remote /\ world[a].exec \in {"queued", "running"}

\* A cancel request is answered in the end, by the provider or as the owner's to do,
\* even when the provider goes on reporting a running execution.
CancelAnswered ==
    \A a \in Attempts : Pending(op[a]) ~> ~Pending(op[a])

-----------------------------------------------------------------------------
(* Statements of the documentation that the code does not keep.            *)

\* docs/operations.md: provider and transport failures never stop serve.  While no
\* shutdown is requested, worker.Run goes on claiming.
ServeNeverStops == "shutdown" \notin Disturbances => running
=============================================================================
