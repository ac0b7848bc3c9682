----------------------------- MODULE StartGate ------------------------------
(***************************************************************************)
(* Separate start of one attempt on a managed machine: the owner consents  *)
(* to preparation, then to the start of exactly what was prepared, and may *)
(* hand over secret material that lives in memory only.  The engine's      *)
(* session, the owner's requests, the secret sweep, the health monitor and *)
(* the clock interleave; a crash loses the memory and keeps the store.     *)
(*                                                                         *)
(* Every participant takes the pool's lock before its transaction, so a    *)
(* request on the pool and its transaction are one step.  Dispatch models  *)
(* the leases and the journal in full: here the engine runs one session at *)
(* a time, and a control request makes its handle stale.                   *)
(***************************************************************************)
EXTENDS HostHealth

CONSTANTS Slots,       \* the job declares workload secrets
          Hold,        \* ready_until is this far from consent
          Wall,        \* execution deadline, from the start consent
          SecretLife,  \* expiry of the material, from its supply
          MaxRev,      \* bound: how often the staged content changes
          Requests     \* the control requests that are made at all

ASSUME GateAssumption ==
    /\ Slots \in BOOLEAN
    /\ {Hold, Wall, SecretLife} \subseteq Nat \ {0}
    /\ MaxRev \in Nat \ {0}
    /\ Requests \subseteq {"cancel", "reconcile", "revoke", "drift", "outage", "crash"}

VARIABLES
    a,       \* the attempt and its journal
    g,       \* attempt_grants of the attempt: prepare, start and secret
    pool,    \* the material of the attempt is in the pool
    sess,    \* the engine's session
    remote,  \* the machine: staged content and its revision, the run
    calls    \* the Start call that was made, and material handed out

gate == <<a, g, pool, sess, remote, calls>>
vars == <<now, health, gate>>

Phases == {"local", "staging", "ready", "submitting", "submitted", "attention",
           "prevented", "ended"}
Terminal == {"prevented", "ended"}

Attempt == [phase : Phases, plan : BOOLEAN, prepared : 0..MaxRev, submitted : BOOLEAN,
            cancel : {"none", "accepted", "succeeded"}, by : {"none", "owner", "health"}]
Grants == [prep : {"none", "granted", "consumed"}, until : 0..MaxTime, ready : 0..MaxRev,
           released : BOOLEAN, start : {"none", "granted", "consumed"}, rev : 0..MaxRev,
           stop : 0..MaxTime, secret : {"none", "granted", "consumed", "revoked"},
           expires : 0..MaxTime]
Session == [pc : {"idle", "loaded", "guarded", "consumed", "prepare", "revalidated", "cleared",
                  "call"},
            fresh : BOOLEAN, start : BOOLEAN, looked : 0..MaxRev, ev : [row : Row, since : Never..MaxTime]]
Idle == [pc |-> "idle", fresh |-> FALSE, start |-> FALSE, looked |-> 0,
         ev |-> NoEvidence]

TypeOK ==
    /\ HealthTypeOK
    /\ a \in Attempt
    /\ g \in Grants
    /\ pool \in BOOLEAN
    /\ sess \in Session
    /\ remote \in [staged : BOOLEAN, rev : 1..MaxRev, run : {"none", "running", "over"}]
    /\ calls \in [rev : 0..MaxRev, looked : 0..MaxRev, material : BOOLEAN, handed : 0..2]

Init ==
    /\ HealthInit
    /\ a = [phase |-> "local", plan |-> FALSE, prepared |-> 0, submitted |-> FALSE,
            cancel |-> "none", by |-> "none"]
    /\ g = [prep |-> "none", until |-> 0, ready |-> 0, released |-> FALSE,
            start |-> "none", rev |-> 0, stop |-> 0, secret |-> "none", expires |-> 0]
    /\ pool = FALSE
    /\ sess = Idle
    /\ remote = [staged |-> FALSE, rev |-> 1, run |-> "none"]
    /\ calls = [rev |-> 0, looked |-> 0, material |-> FALSE, handed |-> 0]

Least(S) == CHOOSE x \in S : \A y \in S : x <= y

\* StartBefore: the earliest of the hold, the execution deadline and secret expiry.
StartBefore == Least({g.until, g.stop} \cup IF Slots THEN {g.expires} ELSE {})

GateExpired ==
    /\ g.prep # "none"
    /\ \/ now >= g.until
       \/ g.start # "none" /\ now >= StartBefore

SecretGranted == g.secret = "granted" /\ now < g.expires

CancelPending == a.cancel = "accepted"
LocalOnly == ~a.submitted /\ a.phase \notin Terminal

\* A control request moves the attempt's revision or the journal's version.
Overtaken == [sess EXCEPT !.fresh = FALSE]

-----------------------------------------------------------------------------
(* Consent: the owner's requests.                                          *)

\* The bound on all reservations may refuse the request; it then changes nothing.
PrepareExecution ==
    /\ g.prep = "none"
    /\ LocalOnly /\ a.phase = "local" /\ a.cancel = "none"
    /\ now + Hold <= MaxTime
    /\ g' = [g EXCEPT !.prep = "granted", !.until = now + Hold]
    /\ UNCHANGED <<now, health, a, pool, sess, remote, calls>>

\* Start consent names the revision that was read, and the material must be held.
StartExecution(rev) ==
    /\ LocalOnly /\ a.cancel = "none"
    /\ g.prep = "consumed" /\ g.ready # 0 /\ g.start = "none"
    /\ ~GateExpired
    /\ rev = g.ready
    /\ a.phase = "ready" /\ a.prepared = g.ready
    /\ now + Wall <= MaxTime
    /\ Slots => SecretGranted /\ pool
    /\ g' = [g EXCEPT !.start = "granted", !.rev = rev, !.stop = now + Wall]
    /\ UNCHANGED <<now, health, a, pool, sess, remote, calls>>

\* secretUsable: may material of the granted secret be kept or restored?
SecretUsable ==
    /\ SecretGranted
    /\ LocalOnly /\ a.cancel = "none"
    /\ ~GateExpired
    /\ a.phase = "ready"
    /\ ~g.released

\* A first supply is granted by the store; the pool may be at its limit by then.
SupplyWorkloadSecrets ==
    /\ Slots
    /\ g.secret = "none"
    /\ LocalOnly /\ a.cancel = "none"
    /\ g.prep = "consumed" /\ g.ready # 0 /\ ~GateExpired
    /\ a.phase = "ready"
    /\ now + SecretLife <= MaxTime
    /\ g' = [g EXCEPT !.secret = "granted", !.expires = now + SecretLife]
    /\ pool' \in BOOLEAN
    /\ UNCHANGED <<now, health, a, sess, remote, calls>>

\* Mutant: an exact replay restores the material whatever became of it.
ResupplyAlways ==
    /\ g.secret # "none"
    /\ pool' = TRUE
    /\ UNCHANGED <<now, health, a, g, sess, remote, calls>>

\* The same request again: restores unused material, drops what is not usable.
Resupply ==
    /\ g.secret # "none"
    /\ pool' = SecretUsable
    /\ UNCHANGED <<now, health, a, g, sess, remote, calls>>

\* The material goes with the grant, under the pool's lock.
RevokeWorkloadSecrets ==
    /\ "revoke" \in Requests
    /\ g.secret = "granted"
    /\ g' = [g EXCEPT !.secret = "revoked"]
    /\ pool' = FALSE
    /\ UNCHANGED <<now, health, a, sess, remote, calls>>

\* Every second; a store that does not answer counts as "not usable".
Sweep ==
    /\ pool
    /\ pool' = FALSE
    /\ ~SecretUsable
    /\ UNCHANGED <<now, health, a, g, sess, remote, calls>>

SweepWithoutStore ==
    /\ "outage" \in Requests
    /\ pool
    /\ pool' = FALSE
    /\ UNCHANGED <<now, health, a, g, sess, remote, calls>>

-----------------------------------------------------------------------------
(* Control: cancellation and reconciliation.                               *)

\* Mutant: preventing the dispatch gives the reservation back at once.
PreventAndRelease(who) ==
    /\ a.cancel = "none" /\ ~a.submitted /\ a.phase \notin Terminal
    /\ a' = [a EXCEPT !.phase = "prevented", !.cancel = "succeeded", !.by = who]
    /\ g' = [g EXCEPT !.released = g.prep # "none"]
    /\ sess' = Overtaken

\* admitCancellation before any submission: the dispatch is prevented.  Only an
\* attempt that never planned anything remote gives its reservation back.
PreventDispatch(who) ==
    /\ a.cancel = "none" /\ ~a.submitted /\ a.phase \notin Terminal
    /\ a' = [a EXCEPT !.phase = "prevented", !.cancel = "succeeded", !.by = who]
    /\ g' = [g EXCEPT !.released = @ \/ (~a.plan /\ g.prep # "none")]
    /\ sess' = Overtaken

\* ... and afterwards: it is left to the engine to stop the run.
RequestStop(who) ==
    /\ a.cancel = "none" /\ a.submitted
    /\ a' = [a EXCEPT !.cancel = "accepted", !.by = who]
    /\ sess' = Overtaken
    /\ UNCHANGED g

Cancel ==
    /\ "cancel" \in Requests
    /\ PreventDispatch("owner") \/ (RequestStop("owner") /\ remote.run # "over")
    /\ UNCHANGED <<now, health, pool, remote, calls>>

\* RequestReconciliation: looks at the preparation again; the grants stay as they are.
Reconcile ==
    /\ "reconcile" \in Requests
    /\ a.cancel = "none" /\ ~a.submitted
    /\ a.phase \in {"ready", "attention"}
    /\ a' = [a EXCEPT !.phase = "staging"]
    /\ sess' = Overtaken
    /\ UNCHANGED <<now, health, g, pool, remote, calls>>

\* Previewing the cleanup of a failed preparation may find what it left behind.
RecordCleanupPreparation ==
    /\ sess = Idle
    /\ a.phase \in Terminal /\ a.plan /\ a.prepared = 0 /\ ~a.submitted
    /\ remote.staged
    /\ a' = [a EXCEPT !.prepared = remote.rev]
    /\ UNCHANGED <<now, health, g, pool, sess, remote, calls>>

\* CompleteCleanup, of which Cleanup models the way there: no live dispatch lease,
\* a terminal attempt and a recorded preparation.
CompleteCleanup ==
    /\ sess = Idle
    /\ a.phase \in Terminal /\ a.prepared # 0 /\ remote.run # "running"
    /\ ~g.released
    /\ remote' = [remote EXCEPT !.staged = FALSE]
    /\ g' = [g EXCEPT !.released = TRUE]
    /\ UNCHANGED <<now, health, a, pool, sess, calls>>

\* RequestHostHealthStop: an ordinary cancellation, for a run that may be active.
RequestHostHealthStop ==
    /\ Stop(Evidence)
    /\ a.phase \in {"submitting", "submitted"} /\ a.submitted
    /\ RequestStop("health")
    /\ UNCHANGED <<now, health, pool, remote, calls>>

-----------------------------------------------------------------------------
(* The engine's session.                                                   *)

\* ClaimRecovery leaves a ready attempt alone until there is something to do.
Load ==
    /\ sess = Idle
    /\ \/ a.phase = "local" /\ g.prep # "none"
       \/ a.phase \in {"staging", "submitting", "submitted"}
       \/ a.phase = "ready" /\ (g.start # "none" \/ now >= g.until \/ CancelPending)
    /\ sess' = [pc |-> "loaded", fresh |-> TRUE, start |-> g.start # "none", looked |-> 0,
                ev |-> NoEvidence]
    /\ UNCHANGED <<now, health, a, g, pool, remote, calls>>

Yield == sess' = Idle

\* The preparation of an expired hold is looked up before the attempt is given up.
ExpireDispatch ==
    /\ sess.pc \in {"loaded", "guarded", "consumed", "cleared"} /\ sess.fresh
    /\ GateExpired /\ ~a.submitted /\ a.cancel = "none"
    /\ sess.pc = "loaded" => ~(a.phase = "staging" /\ a.prepared = 0)
    /\ sess.pc # "loaded" => ~RefuseNew(sess.ev)
    /\ a' = [a EXCEPT !.phase = "prevented"]
    /\ g' = [g EXCEPT !.released = @ \/ ~a.plan]
    /\ Yield
    /\ UNCHANGED <<now, health, pool, remote, calls>>

\* BeforeNewWork: a probe of this process that is recent enough, or a new one.
Guard(from, to) ==
    /\ sess.pc = from
    /\ flight = NoFlight /\ ~ProbeDue
    /\ sess' = IF RefuseNew(Evidence) THEN Idle
               ELSE [sess EXCEPT !.pc = to, !.ev = Evidence]
    /\ UNCHANGED <<now, health, a, g, pool, remote, calls>>

GuardPreparation == a.phase = "local" /\ ~GateExpired /\ Guard("loaded", "guarded")

\* newMutationPolicy: the same evidence, judged again inside the transaction.
NewMutationPolicy == ~RefuseNew(sess.ev) /\ ~GateExpired /\ LocalOnly

ConsumeAuthorization ==
    /\ sess.pc = "guarded" /\ sess.fresh
    /\ a.phase = "local" /\ ~a.plan
    /\ NewMutationPolicy
    /\ g' = [g EXCEPT !.prep = "consumed"]
    /\ sess' = [sess EXCEPT !.pc = "consumed"]
    /\ UNCHANGED <<now, health, a, pool, remote, calls>>

BeginPreparation ==
    /\ sess.pc = "consumed" /\ sess.fresh
    /\ g.prep = "consumed"
    /\ NewMutationPolicy
    /\ a' = [a EXCEPT !.phase = "staging", !.plan = TRUE]
    /\ sess' = [sess EXCEPT !.pc = "prepare"]
    /\ UNCHANGED <<now, health, g, pool, remote, calls>>

\* The one Prepare call; it may stage the content and still fail or time out.
Prepare ==
    /\ sess.pc = "prepare"
    /\ \E lands \in BOOLEAN : remote' = [remote EXCEPT !.staged = @ \/ lands]
    /\ sess' \in {Idle, [sess EXCEPT !.pc = "loaded"]}
    /\ UNCHANGED <<now, health, a, g, pool, calls>>

\* PreparationSeen: the first readiness is recorded for good, another is a conflict.
PreparationSeen ==
    /\ sess.pc = "loaded" /\ sess.fresh /\ a.phase = "staging"
    /\ remote.staged
    /\ IF g.ready \in {0, remote.rev}
       THEN /\ a' = [a EXCEPT !.phase = "ready", !.prepared = remote.rev]
            /\ g' = [g EXCEPT !.ready = remote.rev]
       ELSE UNCHANGED <<a, g>>
    /\ Yield
    /\ UNCHANGED <<now, health, pool, remote, calls>>

\* A failed or empty look: another try, manual attention, or the end of the attempt.
PreparationMissed ==
    /\ sess.pc = "loaded" /\ sess.fresh /\ a.phase = "staging"
    /\ IF GateExpired
       THEN a' = [a EXCEPT !.phase = "prevented"]
       ELSE \E p \in {"staging", "attention", "ended"} :
              /\ p = "ended" => a.prepared = 0
              /\ a' = [a EXCEPT !.phase = p]
    /\ Yield
    /\ UNCHANGED <<now, health, g, pool, remote, calls>>

\* A ready attempt without start consent or without its material is left as it is.
NothingToStart ==
    /\ sess.pc = "loaded" /\ a.phase = "ready" /\ ~GateExpired
    /\ ~sess.start \/ (Slots /\ ~pool)
    /\ Yield
    /\ UNCHANGED <<now, health, a, g, pool, remote, calls>>

\* Mutant: the staged content is not looked at again before the start.
RevalidateNothing ==
    /\ sess.pc = "loaded" /\ a.phase = "ready" /\ ~GateExpired
    /\ sess.start /\ (Slots => pool)
    /\ sess' = [sess EXCEPT !.pc = "revalidated", !.looked = remote.rev]
    /\ UNCHANGED <<now, health, a, g, pool, remote, calls>>

\* The staged bytes, read back and hashed, are those of the recorded readiness.
StillStaged == remote.staged /\ remote.rev = g.ready

\* revalidate_preparation: exactly the preparation the owner consented to start.
Revalidate ==
    /\ sess.pc = "loaded" /\ a.phase = "ready" /\ ~GateExpired
    /\ sess.start /\ (Slots => pool)
    /\ IF StillStaged
       THEN sess' = [sess EXCEPT !.pc = "revalidated", !.looked = remote.rev] /\ UNCHANGED a
       ELSE /\ a' = IF sess.fresh THEN [a EXCEPT !.phase = "attention"] ELSE a
            /\ Yield
    /\ UNCHANGED <<now, health, g, pool, remote, calls>>

GuardSubmission == Guard("revalidated", "cleared")

\* Mutant: only the start permit is consumed with the intent.
BeginWithoutSecret ==
    /\ sess.pc = "cleared" /\ sess.fresh
    /\ g.start = "granted" /\ NewMutationPolicy
    /\ Slots => pool
    /\ g' = [g EXCEPT !.start = "consumed"]
    /\ a' = [a EXCEPT !.phase = "submitting", !.submitted = TRUE]
    /\ calls' = [calls EXCEPT !.handed = IF Slots THEN @ + 1 ELSE @]
    /\ pool' = IF Slots THEN FALSE ELSE pool
    /\ sess' = [sess EXCEPT !.pc = "call"]
    /\ UNCHANGED <<now, health, remote>>

\* Claim: both grants are consumed and the intent recorded in one transaction, under
\* the pool's lock; the material leaves the pool only when that has committed.
BeginSubmission ==
    /\ sess.pc = "cleared" /\ sess.fresh
    /\ g.start = "granted"
    /\ g.rev = a.prepared
    /\ NewMutationPolicy
    /\ Slots => pool /\ SecretGranted
    /\ g' = [g EXCEPT !.start = "consumed", !.secret = IF Slots THEN "consumed" ELSE @]
    /\ a' = [a EXCEPT !.phase = "submitting", !.submitted = TRUE]
    /\ calls' = [calls EXCEPT !.handed = IF Slots THEN @ + 1 ELSE @]
    /\ pool' = IF Slots THEN FALSE ELSE pool
    /\ sess' = [sess EXCEPT !.pc = "call"]
    /\ UNCHANGED <<now, health, remote>>

\* A stale handle, a refused policy or a lost secret ends the session; the material
\* stays where it is.
CommitRefused ==
    /\ sess.pc \in {"loaded", "guarded", "consumed", "cleared"}
    /\ \/ ~sess.fresh
       \/ sess.pc # "loaded" /\ RefuseNew(sess.ev)
       \/ sess.pc = "cleared" /\ Slots /\ ~(pool /\ SecretGranted)
    /\ Yield
    /\ UNCHANGED <<now, health, a, g, pool, remote, calls>>

\* The one Start call of the attempt.
Start ==
    /\ sess.pc = "call"
    /\ calls' = [calls EXCEPT !.rev = g.rev, !.looked = sess.looked, !.material = Slots]
    /\ \E lands \in BOOLEAN :
         remote' = [remote EXCEPT !.run = IF lands THEN "running" ELSE @]
    /\ a' = IF sess.fresh THEN [a EXCEPT !.phase = "submitted"] ELSE a
    /\ Yield
    /\ UNCHANGED <<now, health, g, pool>>

\* Submitting and submitted attempts are only observed and a pending stop is carried
\* out; what can go wrong on the way is the subject of Dispatch.
Observe ==
    /\ sess.pc = "loaded" /\ sess.fresh /\ a.submitted
    /\ a.phase \in {"submitting", "submitted"}
    /\ LET stopped == CancelPending
       IN  /\ a' = [a EXCEPT !.phase = IF stopped \/ remote.run # "running" THEN "ended"
                                                                           ELSE "submitted",
                             !.cancel = IF stopped THEN "succeeded" ELSE @]
           /\ remote' = [remote EXCEPT !.run = IF stopped \/ remote.run = "over"
                                               THEN "over" ELSE @]
    /\ Yield
    /\ UNCHANGED <<now, health, g, pool, calls>>

Engine ==
    \/ Load \/ ExpireDispatch \/ GuardPreparation \/ ConsumeAuthorization
    \/ BeginPreparation \/ Prepare \/ PreparationSeen \/ PreparationMissed
    \/ NothingToStart \/ Revalidate \/ GuardSubmission \/ BeginSubmission
    \/ CommitRefused \/ Start \/ Observe

-----------------------------------------------------------------------------
(* Time and the outside.                                                   *)

Tick ==
    /\ now < MaxTime
    /\ now' = now + 1
    /\ UNCHANGED <<health, gate>>

\* Somebody changes the staged content.
Drift ==
    /\ "drift" \in Requests
    /\ remote.staged /\ remote.rev < MaxRev
    /\ remote' = [remote EXCEPT !.rev = @ + 1]
    /\ UNCHANGED <<now, health, a, g, pool, sess, calls>>

RunEnds ==
    /\ remote.run = "running"
    /\ remote' = [remote EXCEPT !.run = "over"]
    /\ UNCHANGED <<now, health, a, g, pool, sess, calls>>

\* The process dies: pool, confirmations and session are gone.
Crash ==
    /\ "crash" \in Requests
    /\ HealthRestart
    /\ pool' = FALSE
    /\ sess' = Idle
    /\ UNCHANGED <<now, a, g, remote, calls>>

Health == HealthStep /\ UNCHANGED <<now, gate>>

Next ==
    \/ PrepareExecution \/ (\E rev \in 1..MaxRev : StartExecution(rev))
    \/ SupplyWorkloadSecrets \/ Resupply \/ RevokeWorkloadSecrets
    \/ Sweep \/ SweepWithoutStore
    \/ Cancel \/ Reconcile \/ RecordCleanupPreparation \/ CompleteCleanup
    \/ RequestHostHealthStop
    \/ Engine \/ Health
    \/ Tick \/ Drift \/ RunEnds \/ Crash

Spec == Init /\ [][Next]_vars

-----------------------------------------------------------------------------
(* Properties.                                                             *)

\* The pool holds material only while the store's grant for it is open: no order of
\* supply, exact replay, revocation, start and restart brings used or revoked bytes
\* back (workloadsecret.Pool, secretUsable).
MaterialOnlyWhileGranted == pool => g.secret = "granted"

\* Material is handed out at most once, and only behind the commit that consumed both
\* the secret's grant and the start permit (Pool.Claim, commitGateStep).
MaterialOnce ==
    /\ calls.handed <= 1
    /\ calls.handed = 1 => g.secret = "consumed"
    /\ Slots => ((g.start = "consumed") <=> (g.secret = "consumed"))

\* Secret material lives exactly as long as its grant and is used at most once.
MaterialUsedOnce == MaterialOnlyWhileGranted /\ MaterialOnce

\* Whatever is started is the preparation the owner read and consented to, and it was
\* still that one when the engine looked for the last time.
StartsWhatWasRead ==
    calls.rev # 0 => {g.ready, a.prepared, calls.looked} = {calls.rev}

\* An attempt whose staged content may still be on the machine keeps its reservation
\* (releaseGateStorage): expiry and cancellation return only what was never staged.
ReservationCoversStaging == remote.staged => ~g.released

\* New work begins only on a machine this process saw healthy, with its latest sample,
\* not long ago (BeforeNewWork, checkHostNewWork).
NewWorkOnHealthyHost ==
    a'.plan # a.plan \/ a'.submitted # a.submitted =>
        /\ seen.last.level \in {"ok", "unsupported"}
        /\ now - seen.last.at <= StaleAfter

\* The monitor stops a run only on danger this process measured without a break for the
\* policy's duration, or on a low battery, and on a recent sample (Evaluate).
StopOnlyOnMeasuredDanger ==
    a'.by = "health" /\ a.by # "health" =>
        /\ a.submitted
        /\ now - seen.last.at <= StaleAfter
        /\ \/ seen.last.level = "battery"
           \/ seen.since # Never /\ seen.last.at - seen.since >= CriticalDuration

\* Both decisions about a machine, to begin work and to stop it, rest on what this
\* process measured itself, in order and not long ago: never on a row of another
\* process, a failed probe or a chain of samples with a gap.
HealthDecisionsJustified == [][NewWorkOnHealthyHost /\ StopOnlyOnMeasuredDanger]_vars
=============================================================================
