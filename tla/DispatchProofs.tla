--------------------------- MODULE DispatchProofs ---------------------------
(***************************************************************************)
(* What the dispatch engine promises, for any number of workers, attempts  *)
(* and failures.  The invariant has seven parts beside the types.          *)
(* RecordOK is about the facts of one attempt in the store (state,         *)
(* journal, grant, intent and operations), which every commit and every    *)
(* request keeps in agreement; AgeOK about the order of the attempts.      *)
(* EffectOK and RunOK relate the facts to the provider.  SessOK says what  *)
(* a session may still do and that the answer it holds is true; AloneOK    *)
(* that no two sessions hold the same permit; OwnerOK what a session       *)
(* relies on while its handle is accepted.                                 *)
(***************************************************************************)
EXTENDS Dispatch, TLAPS

\* Nothing was submitted, and nobody asked for anything.
Untouched(s) ==
    /\ s.exec = "not_submitted" /\ s.remote = "not_started" /\ s.cancel = "not_requested"
    /\ s.release = "unknown" /\ s.result = "not_available" /\ ~s.deadline

\* A submission that may exist, of which nothing is known.
Submitted(s) ==
    /\ s.exec = "unknown" /\ s.remote = "possible" /\ s.release = "unknown"
    /\ s.result = "not_available"
    /\ s.cancel \in {"not_requested", "requested", "manual_required"}

\* What the state of an attempt is in each phase of its journal.
PhaseOK(j, s) ==
    /\ j.phase = "local" => ~j.plan /\ LocalOnly(s) /\ s.release = "unknown"
    /\ j.phase = "staging" => Untouched(s) /\ s.orch \in {"preparing", "reconciling"}
    /\ j.phase = "ready" => Untouched(s) /\ s.orch = "preparing"
    /\ j.phase = "submitting" =>
         /\ Submitted(s) /\ s.orch \in {"dispatching", "reconciling", "cancelling"}
         /\ s.orch = "cancelling" => CancellationPending(s)
    /\ j.phase = "submitted" =>
         /\ s.exec \in {"unknown"} \cup ExecutionActive
         /\ s.remote \in {"possible", "active"}
         /\ s.release \in {"unknown", "not_observable"}
         /\ s.orch \in {"submitted", "running", "reconciling", "cancelling", "needs_attention"}
         /\ s.orch = "cancelling" => CancellationPending(s)
         /\ s.orch = "needs_attention" => s.cancel = "manual_required"
         /\ s.cancel \in {"not_requested", "requested", "requesting", "accepted", "manual_required"}
    /\ j.phase = "attention" =>
         /\ s.orch = "needs_attention" /\ s.cancel \in {"not_requested", "manual_required"}
         /\ ~j.submitStarted => Untouched(s)
         /\ j.submitStarted /\ ~j.remote => Submitted(s)
         /\ j.remote => /\ s.exec \in {"unknown"} \cup ExecutionActive
                        /\ s.result = "not_available" /\ s.release # "not_applicable"
                        /\ j.problem = "remote_absent" => s.remote = "inactive"
                        /\ j.problem # "remote_absent" =>
                              /\ s.remote \in {"possible", "active"}
                              /\ s.release \in {"unknown", "not_observable"}
    /\ j.phase = "collectible" =>
         /\ s.exec \in ExecutionTerminal /\ j.obs = s.exec
         /\ s.cancel \in {"not_requested", "confirmed", "too_late"}
    /\ j.phase = "rejected" =>
         /\ s.exec = "not_submitted" /\ s.remote = "inactive" /\ s.orch \in OrchestrationTerminal
    /\ j.phase \in {"failed", "prevented"} =>
         /\ s.exec = "not_submitted" /\ s.remote = "not_started" /\ s.orch \in OrchestrationTerminal

\* The submission intent beside the journal.
IntentOK(j, i) ==
    /\ j.submitStarted <=> i # "none"
    /\ j.submitStarted /\ j.remote => i = "accepted"
    /\ j.submitStarted /\ ~j.remote =>
         IF j.phase = "rejected" THEN i = "rejected" ELSE i \in {"started", "unknown"}

\* A pending cancel operation has a cancellation that some commit will settle.
CancelOK(j, s, o) ==
    /\ o.started => j.submitStarted
    /\ Pending(o) =>
         /\ CancellationPending(s) /\ o.polls < MaxFailures
         /\ j.phase \in {"submitting", "submitted"}
         /\ o.cancel = "running" <=> s.cancel \in {"requesting", "accepted"}

FactsOK(j, s, i, o) ==
    /\ ValidState(s) /\ ValidJournal(j)
    /\ PhaseOK(j, s) /\ IntentOK(j, i) /\ CancelOK(j, s, o)

RecordOK(a) == /\ FactsOK(jr[a], st[a], intent[a], op[a])
               /\ jr[a].plan => grant[a] = "consumed"

\* Attempts before the active one have ended, those after it do not exist yet.
AgeOK(a) ==
    /\ a > active =>
         /\ st[a] = InitialAttemptState /\ jr[a] = InitialJournal
         /\ grant[a] = "none" /\ intent[a] = "none" /\ op[a] = NoOperation
         /\ world[a] = NoWorld
    /\ a < active => st[a].orch \in OrchestrationTerminal

\* A provider call is made once, behind its intent.
EffectOK(a) ==
    /\ world[a].prepares \in 0..1 /\ world[a].starts \in 0..1 /\ world[a].cancels \in 0..1
    /\ world[a].prepares = 1 => jr[a].plan
    /\ world[a].starts = 1 => jr[a].submitStarted
    /\ world[a].cancels = 1 => op[a].started
    /\ world[a].starts = 0 => world[a].exec = "none"

\* What is said about the run is true of it, and what is said to be over is over.
RunOK(a) ==
    /\ st[a].exec \in ExecutionTerminal => world[a].exec \in {st[a].exec, "gone"}
    /\ st[a].exec \in ExecutionActive => world[a].exec \in Landed \cup {"gone"}
    /\ st[a].exec = "not_submitted" => world[a].exec \in {"none", "lost", "gone"}
    /\ st[a].remote = "inactive" => ~Live(world[a]) /\ ~StartPending(a)
    /\ jr[a].absence = "elapsed" => ~StartPending(a) /\ ~OutdatedInventory(a)

\* The answer a session holds is true of the run.
AnswerTrue(ans, x) ==
    /\ ans.kind = "prepared" => ans.val \in {"pending", "ready", "public"}
    /\ ans.kind = "start" => ans.val \in {"unknown", "named", "accepted", "rejected", "expired"}
    /\ ans.kind = "start" /\ ans.val = "accepted" => x.exec \in Landed \cup {"gone"}
    /\ ans.kind = "start" /\ ans.val \in {"rejected", "expired"} => x.exec = "lost"
    /\ ans.kind = "found" => ans.val = "none" /\ x.exec \in Landed \cup {"gone"}
    /\ ans.kind = "gone" => x.exec = "gone"
    /\ ans.kind = "observed" =>
         /\ ans.val \in Executions \ {"not_submitted"}
         /\ ans.val \in ExecutionActive => x.exec \in Landed \cup {"gone"}
         /\ ans.val \in ExecutionTerminal => x.exec \in {ans.val, "gone"}
    /\ ans.kind = "stop" => /\ ans.val \in {"manual", "accepted", "confirmed"}
                            /\ ans.val = "confirmed" => x.exec \in {"cancelled", "gone"}

\* What a session may still call, and what it knows.
SessOK(w) ==
    LET a == sess[w].a
    IN  /\ sess[w].pc # "idle" => a <= active
        /\ sess[w].pc # "answered" => sess[w].ans.kind = "none"
        /\ sess[w].pc = "prepare" => jr[a].plan /\ world[a].prepares = 0
        /\ sess[w].pc = "start" => jr[a].submitStarted /\ world[a].starts = 0
        /\ sess[w].pc = "stop" => op[a].started /\ world[a].cancels = 0
        /\ AnswerTrue(sess[w].ans, world[a])

\* Each permit to call is held by one session.
AloneOK(w, v) ==
    sess[w].pc = sess[v].pc /\ sess[w].a = sess[v].a => sess[w].pc \notin {"prepare", "start", "stop"}

\* While the handle of a session is accepted, nobody else wrote what it loaded.
OwnerOK(w) ==
    LET a == sess[w].a
    IN  Owns(w) =>
          /\ sess[w].ans.kind = "unready" => UnconfirmedPreparation(jr[a])
          /\ sess[w].ans.kind = "absent" => jr[a].phase = "submitting"
          /\ sess[w].pc \in {"start", "starting"} \/ sess[w].ans.kind = "start" =>
               jr[a].absence = "unset" /\ st[a].cancel = "not_requested"

RecordInv == \A a \in Attempts : RecordOK(a)
AgeInv == \A a \in Attempts : AgeOK(a)
EffectInv == \A a \in Attempts : EffectOK(a)
RunInv == \A a \in Attempts : RunOK(a)
SessInv == \A w \in Workers : SessOK(w)
AloneInv == \A w, v \in Workers : w # v => AloneOK(w, v)
OwnerInv == \A w \in Workers : OwnerOK(w)

IInv == TypeOK /\ RecordInv /\ AgeInv /\ EffectInv /\ RunInv /\ SessInv /\ AloneInv /\ OwnerInv

-----------------------------------------------------------------------------
(* What Apply computes.                                                    *)

\* Facts r that Apply may compute over the facts (j, s, i, o) of an attempt that has not
\* ended: what is left to check is only Commits, and to settle only Finish.
Applied(j, s, i, o, r, kind) ==
    /\ r.j \in Journals /\ r.s \in AttemptStates
    /\ s.orch \notin OrchestrationTerminal
    /\ j.plan => r.j.plan
    /\ j.submitStarted => r.j.submitStarted
    /\ PhaseOK(r.j, r.s)
    /\ IntentOK(r.j, LedgerStatus(r.j, kind, i))
    /\ kind = "observed" => r.j.phase \in {"submitted", "attention", "collectible"}
    /\ Pending(o) =>
         /\ r.s.cancel # "not_requested"
         /\ CancellationPending(r.s) =>
              r.j.phase \in {"submitting", "submitted"} /\ r.s.cancel = s.cancel

\* The names of states that the code assigns.
LEMMA Names ==
    /\ OrchestrationTerminal \subseteq Orchestrations
    /\ {"queued", "preparing", "dispatching", "submitted", "running", "collecting", "reconciling",
        "cancelling", "needs_attention"} \subseteq Orchestrations \ OrchestrationTerminal
    /\ {"not_submitted", "unknown"} \subseteq Executions
    /\ ExecutionActive \subseteq Executions /\ ExecutionTerminal \subseteq Executions
    /\ {"not_submitted", "unknown"} \cap (ExecutionActive \cup ExecutionTerminal) = {}
    /\ ExecutionActive \cap ExecutionTerminal = {}
  BY DEF OrchestrationTerminal, Orchestrations, Executions, ExecutionActive, ExecutionTerminal

\* The marker of a polled cancellation is a state.
LEMMA ManualState ==
    ASSUME NEW s \in AttemptStates, ValidState(s), s.exec \notin {"not_submitted"} \cup ExecutionTerminal
    PROVE  Manual(s) \in AttemptStates /\ ValidState(Manual(s))
  BY Names DEF Manual, AttemptStates, Cancellations, ValidState, ExecutionConsistent, ResultConsistent,
     CancellationConsistent, ReleaseConsistent, OrchestrationConsistent, OrchestrationTerminal

\* Finish settles the pending operations of what Apply computed.
LEMMA FinishFacts ==
    ASSUME NEW j \in Journals, NEW s \in AttemptStates, NEW o \in Operations,
           NEW i, NEW r, NEW kind, FactsOK(j, s, i, o), Applied(j, s, i, o, r, kind),
           ValidState(r.s), ValidJournal(r.j)
    PROVE  LET f == Finish(r.j, r.s, o, kind)
           IN  /\ FactsOK(r.j, f.s, LedgerStatus(r.j, kind, i), f.o)
               /\ f.s \in AttemptStates /\ f.o \in Operations
               /\ f.o.started = o.started
               /\ f.s.exec = r.s.exec /\ f.s.remote = r.s.remote
               /\ f.s.orch \in OrchestrationTerminal <=> r.s.orch \in OrchestrationTerminal
               /\ kind # "observed" => f.s = r.s
  <1>. DEFINE polls == IF Polled(r.s, o, kind) THEN o.polls + 1 ELSE o.polls
              t == IF Polled(r.s, o, kind) /\ polls >= MaxFailures THEN Manual(r.s) ELSE r.s
              f == Finish(r.j, r.s, o, kind)
  <1>0. r.j \in Journals /\ r.s \in AttemptStates /\ MaxFailures \in Nat \ {0} /\ o.polls \in 0..MaxFailures
    BY MaxFailuresAssumption DEF Applied, Operations
  <1>1. f.s = t
    BY DEF Finish, Manual
  <1>2. f.o.cancel = CASE ~Pending(o) -> o.cancel
                    [] Pending(o) /\ t.cancel \in {"confirmed", "prevented", "too_late"}
                         -> "succeeded"
                    [] Pending(o) /\ t.cancel = "manual_required" -> "manual"
                    [] OTHER -> o.cancel
    BY DEF Finish, Manual, Operations
  <1>3. f.o = [o EXCEPT !.cancel = f.o.cancel, !.polls = polls, !.reconcile = f.o.reconcile]
        /\ f.o.reconcile \in BOOLEAN
    BY DEF Finish, Manual, Operations
  <1>4. ASSUME Polled(r.s, o, kind)
        PROVE  /\ CancellationPending(r.s) /\ r.j.phase = "submitted"
               /\ r.s.exec \in {"unknown"} \cup ExecutionActive
               /\ o.polls < MaxFailures /\ polls \in 0..MaxFailures
    <2>1. Pending(o) /\ kind = "observed" /\ r.s.cancel # "manual_required" /\ r.s.exec \notin ExecutionTerminal
      BY <1>4 DEF Polled
    <2>2. r.j.phase = "submitted"
      BY <2>1 DEF Applied, PhaseOK
    <2>3. r.s.exec \in {"unknown"} \cup ExecutionActive /\ CancellationPending(r.s)
      BY <2>1, <2>2 DEF Applied, PhaseOK, CancellationPending
    <2>4. o.polls < MaxFailures
      BY <2>1 DEF FactsOK, CancelOK
    <2>. QED  BY <1>0, <1>4, <2>2, <2>3, <2>4
  <1>5. ASSUME Polled(r.s, o, kind), polls >= MaxFailures
        PROVE  /\ t = Manual(r.s) /\ t \in AttemptStates /\ ValidState(t) /\ PhaseOK(r.j, t)
               /\ t.exec = r.s.exec /\ t.remote = r.s.remote /\ t.cancel = "manual_required"
               /\ t.orch \notin OrchestrationTerminal /\ r.s.orch \notin OrchestrationTerminal
    <2>1. t = Manual(r.s) /\ r.j.phase = "submitted" /\ r.s.exec \in {"unknown"} \cup ExecutionActive
      BY <1>4, <1>5
    <2>2. t \in AttemptStates /\ ValidState(t)
      BY <1>0, <2>1, ManualState, Names
    <2>3. /\ t.exec = r.s.exec /\ t.remote = r.s.remote /\ t.cancel = "manual_required"
          /\ t.orch = "needs_attention" /\ t.release = r.s.release
      BY <1>0, <2>1 DEF Manual, AttemptStates
    <2>4. PhaseOK(r.j, t)
      BY <2>1, <2>3 DEF Applied, PhaseOK
    <2>5. r.s.orch \in {"submitted", "running", "reconciling", "cancelling", "needs_attention"}
      BY <2>1 DEF Applied, PhaseOK
    <2>. QED  BY <2>1, <2>2, <2>3, <2>4, <2>5, Names
  <1>6. /\ t \in AttemptStates /\ ValidState(t) /\ PhaseOK(r.j, t)
        /\ t.exec = r.s.exec /\ t.remote = r.s.remote
        /\ t.orch \in OrchestrationTerminal <=> r.s.orch \in OrchestrationTerminal
        /\ kind # "observed" => t = r.s
    <2>1. CASE Polled(r.s, o, kind) /\ polls >= MaxFailures
      BY <1>5, <2>1 DEF Polled
    <2>2. CASE ~(Polled(r.s, o, kind) /\ polls >= MaxFailures)
      BY <1>0, <2>2 DEF Applied
    <2>. QED  BY <2>1, <2>2
  <1>7. ASSUME Pending(o), ~(Polled(r.s, o, kind) /\ polls >= MaxFailures)
        PROVE  t = r.s /\ polls < MaxFailures
    BY <1>0, <1>4, <1>7 DEF FactsOK, CancelOK
  <1>8. f.o \in Operations /\ f.o.started = o.started /\ f.o.polls = polls
    <2>1. f.o.cancel \in {"none", "accepted", "running", "succeeded", "manual"}
      BY <1>2 DEF Operations
    <2>2. polls \in 0..MaxFailures
      BY <1>0, <1>4
    <2>. QED  BY <1>3, <2>1, <2>2 DEF Operations
  <1>9. CancelOK(r.j, t, f.o)
    <2>1. f.o.started => r.j.submitStarted
      BY <1>8 DEF FactsOK, CancelOK, Applied
    <2>2. ASSUME Pending(f.o)
          PROVE  /\ Pending(o) /\ f.o.cancel = o.cancel
                 /\ t.cancel \notin {"confirmed", "prevented", "too_late", "manual_required"}
      BY <1>2, <2>2 DEF Pending
    <2>3. ASSUME Pending(f.o)
          PROVE  /\ t = r.s /\ polls < MaxFailures
                 /\ CancellationPending(r.s) /\ r.s.cancel = s.cancel
                 /\ r.j.phase \in {"submitting", "submitted"}
      <3>1. t = r.s /\ polls < MaxFailures
        BY <1>5, <1>7, <2>2, <2>3
      <3>2. CancellationPending(r.s)
        BY <1>0, <2>2, <2>3, <3>1 DEF Applied, AttemptStates, Cancellations, CancellationPending
      <3>. QED  BY <2>2, <2>3, <3>1, <3>2 DEF Applied
    <2>. QED  BY <1>8, <2>1, <2>2, <2>3 DEF FactsOK, CancelOK
  <1>10. FactsOK(r.j, t, LedgerStatus(r.j, kind, i), f.o)
    BY <1>6, <1>9 DEF FactsOK, Applied
  <1>. QED  BY <1>1, <1>6, <1>8, <1>10


Intents == {"none", "started", "unknown", "rejected", "accepted"}

\* Before the submission nothing remote is known, asked for or on record.
LEMMA BeforeSubmission ==
    ASSUME NEW j \in Journals, NEW s \in AttemptStates, NEW o \in Operations, NEW i,
           FactsOK(j, s, i, o), ~j.submitStarted
    PROVE  /\ j.phase \in {"local", "staging", "ready", "attention", "failed", "prevented"}
           /\ s.exec = "not_submitted" /\ s.remote = "not_started"
           /\ ~j.remote /\ ~j.named /\ j.absence = "unset" /\ j.obs = "none"
           /\ i = "none" /\ ~Pending(o) /\ ~o.started
           /\ s.orch \notin OrchestrationTerminal =>
                /\ j.phase \in {"local", "staging", "ready", "attention"}
                /\ Untouched(s)
                /\ j.plan <=> j.phase # "local"
  <1>0. j.plan \in BOOLEAN /\ j.submitStarted \in BOOLEAN /\ j.remote \in BOOLEAN /\ j.named \in BOOLEAN
        /\ j.phase \in Phases /\ ValidJournal(j)
    BY DEF FactsOK, Journals
  <1>1. /\ j.phase \in {"local", "staging", "ready", "attention", "failed", "prevented"}
        /\ j.phase \in {"staging", "ready", "attention"} => j.plan
        /\ j.phase = "local" => ~j.plan
        /\ ~j.remote /\ ~j.named /\ j.absence = "unset" /\ j.obs = "none"
    BY <1>0 DEF ValidJournal, Phases
  <1>2. PhaseOK(j, s)
    BY DEF FactsOK
  <1>3. s.exec = "not_submitted" /\ s.remote = "not_started"
    BY <1>1, <1>2 DEF PhaseOK, LocalOnly, Untouched
  <1>4. i = "none" /\ ~Pending(o) /\ ~o.started
    BY <1>1 DEF FactsOK, IntentOK, CancelOK, Operations
  <1>5. ASSUME s.orch \notin OrchestrationTerminal
        PROVE  /\ j.phase \in {"local", "staging", "ready", "attention"}
               /\ Untouched(s) /\ (j.plan <=> j.phase # "local")
    BY <1>1, <1>2, <1>5 DEF PhaseOK, LocalOnly, Untouched, AttemptStates
  <1>. QED  BY <1>1, <1>3, <1>4, <1>5

\* The condition and the failures of a journal are recorded beside everything else.
SameCourse(j, k) ==
    /\ k.phase = j.phase /\ k.plan = j.plan /\ k.prepared = j.prepared
    /\ k.prepWindow = j.prepWindow /\ k.submitStarted = j.submitStarted /\ k.named = j.named
    /\ k.absence = j.absence /\ k.ownerPresent = j.ownerPresent
    /\ k.remote = j.remote /\ k.obs = j.obs

\* Problem and Cleared change nothing else.
LEMMA Conditions ==
    ASSUME NEW j \in Journals, NEW kind \in Problems
    PROVE  /\ Problem(j, kind) \in Journals /\ SameCourse(j, Problem(j, kind))
           /\ Problem(j, kind).problem = kind /\ Problem(j, kind).failures = j.failures
           /\ Cleared(j) \in Journals /\ SameCourse(j, Cleared(j)) /\ Cleared(j).problem = "none"
           /\ Cleared(j).failures = 0
  <1>1. /\ Problem(j, kind) \in Journals /\ SameCourse(j, Problem(j, kind))
        /\ Problem(j, kind).problem = kind /\ Problem(j, kind).failures = j.failures
    BY DEF Problem, Journals, Windows, SameCourse
  <1>2. /\ Problem(j, "none") \in Journals /\ SameCourse(j, Problem(j, "none"))
        /\ Problem(j, "none").problem = "none"
    BY DEF Problem, Journals, Windows, SameCourse, Problems
  <1>3. 0 \in 0..MaxFailures
    BY MaxFailuresAssumption
  <1>4. /\ Cleared(j) \in Journals /\ SameCourse(j, Cleared(j)) /\ Cleared(j).problem = "none"
        /\ Cleared(j).failures = 0
    BY <1>2, <1>3 DEF Cleared, Journals, SameCourse
  <1>. QED  BY <1>1, <1>4

\* The deadline ends what was not submitted.
LEMMA ExpireFacts ==
    ASSUME NEW j \in Journals, NEW s \in AttemptStates, NEW o \in Operations, NEW i,
           FactsOK(j, s, i, o), ExpireDispatchAllowed(j, s)
    PROVE  Applied(j, s, i, o, ExpireDispatch(j, s), "expire")
  <1>. DEFINE r == ExpireDispatch(j, s)
  <1>1. /\ ~j.submitStarted /\ s.orch \notin OrchestrationTerminal
    BY DEF ExpireDispatchAllowed, PreventDispatchAllowed
  <1>2. /\ s.exec = "not_submitted" /\ s.remote = "not_started"
        /\ ~j.remote /\ i = "none" /\ ~Pending(o)
    BY <1>1, BeforeSubmission
  <1>3. /\ r.j \in Journals /\ r.j.phase = "prevented" /\ ~r.j.submitStarted /\ r.j.plan = j.plan
        /\ ~r.j.remote
    BY <1>1, <1>2 DEF ExpireDispatch, Problem, Journals, Phases, Windows, Problems
  <1>4. /\ r.s \in AttemptStates /\ r.s.orch = "timed_out" /\ r.s.exec = s.exec /\ r.s.remote = s.remote
    BY DEF ExpireDispatch, AttemptStates, Orchestrations, OrchestrationTerminal, ReleaseEvidences
  <1>. QED  BY <1>1, <1>2, <1>3, <1>4 DEF Applied, PhaseOK, IntentOK, LedgerStatus, OrchestrationTerminal

\* A refusal of new work sends it back to the queue, or leaves what was prepared.
LEMMA RefuseFacts ==
    ASSUME NEW j \in Journals, NEW s \in AttemptStates, NEW o \in Operations, NEW i,
           FactsOK(j, s, i, o), RefuseNewWorkAllowed(j, s)
    PROVE  Applied(j, s, i, o, RefuseNewWork(j, s), "refuse")
  <1>. DEFINE r == RefuseNewWork(j, s)
  <1>1. ~j.submitStarted /\ s.orch \notin OrchestrationTerminal
    BY DEF RefuseNewWorkAllowed, FactsOK, PhaseOK, LocalOnly, OrchestrationTerminal
  <1>2. /\ ~j.remote /\ i = "none" /\ ~Pending(o)
        /\ j.phase \in {"local", "staging", "ready", "attention"} /\ (j.plan <=> j.phase # "local")
    BY <1>1, BeforeSubmission
  <1>3. /\ r.j \in Journals /\ r.j.phase = j.phase /\ ~r.j.submitStarted /\ r.j.plan = j.plan
        /\ ~r.j.remote
    BY <1>1, <1>2 DEF RefuseNewWork, Problem, Cleared, Journals, Phases, Windows, Problems
  <1>4. r.s \in AttemptStates /\ IF j.plan THEN r.s = s ELSE r.s = [s EXCEPT !.orch = "queued"]
    BY DEF RefuseNewWork, AttemptStates, Orchestrations
  <1>5. PhaseOK(r.j, r.s)
    <2>1. CASE j.plan
      BY <1>2, <1>3, <1>4, <2>1 DEF FactsOK, PhaseOK, RefuseNewWorkAllowed
    <2>2. CASE ~j.plan
      <3>1. LocalOnly(s) /\ s.release = "unknown" /\ j.phase = "local"
        BY <1>2, <2>2 DEF FactsOK, PhaseOK
      <3>2. LocalOnly(r.s) /\ r.s.release = "unknown"
        BY <1>4, <2>2, <3>1 DEF AttemptStates, LocalOnly, ValidState, ExecutionConsistent, ResultConsistent,
           CancellationConsistent, ReleaseConsistent, OrchestrationConsistent, OrchestrationTerminal,
           ExecutionTerminal, ExecutionActive
      <3>. QED  BY <1>3, <2>2, <3>1, <3>2 DEF PhaseOK
    <2>. QED  BY <2>1, <2>2
  <1>. QED  BY <1>1, <1>2, <1>3, <1>4, <1>5 DEF Applied, IntentOK, LedgerStatus

\* The intent to prepare.
LEMMA BeginPreparationFacts ==
    ASSUME NEW j \in Journals, NEW s \in AttemptStates, NEW o \in Operations, NEW i,
           FactsOK(j, s, i, o), BeginPreparationAllowed(j, s)
    PROVE  Applied(j, s, i, o, BeginPreparation(j, s), "begin")
  <1>. DEFINE r == BeginPreparation(j, s)
  <1>1. j.phase = "local" /\ ~j.plan /\ LocalOnly(s)
    BY DEF BeginPreparationAllowed
  <1>2. ~j.submitStarted /\ s.orch \notin OrchestrationTerminal
    BY <1>1 DEF FactsOK, ValidJournal, LocalOnly, OrchestrationTerminal
  <1>3. ~j.remote /\ i = "none" /\ ~Pending(o) /\ Untouched(s)
    BY <1>2, BeforeSubmission
  <1>4. /\ r.j \in Journals /\ r.j.phase = "staging" /\ ~r.j.submitStarted /\ r.j.plan
        /\ ~r.j.remote
    <2>. DEFINE k == [j EXCEPT !.phase = "staging", !.plan = TRUE]
    <2>1. k \in Journals /\ k.phase = "staging" /\ k.plan /\ k.submitStarted = j.submitStarted /\ k.remote = j.remote
      BY DEF Journals, Phases
    <2>2. r.j = Cleared(k)
      BY DEF BeginPreparation
    <2>3. Cleared(k) \in Journals /\ SameCourse(k, Cleared(k))
      BY <2>1, Conditions DEF Problems
    <2>. HIDE DEF k, r
    <2>. QED  BY <1>2, <1>3, <2>1, <2>2, <2>3 DEF SameCourse
  <1>5. /\ r.s \in AttemptStates /\ r.s.orch = "preparing" /\ Untouched(r.s)
    BY <1>3 DEF BeginPreparation, AttemptStates, Orchestrations, OrchestrationTerminal, Untouched
  <1>. QED  BY <1>1, <1>2, <1>3, <1>4, <1>5 DEF Applied, PhaseOK, IntentOK, LedgerStatus

\* What the staging area reported.
LEMMA PreparedFacts ==
    ASSUME NEW j \in Journals, NEW s \in AttemptStates, NEW o \in Operations, NEW i,
           FactsOK(j, s, i, o), PreparationSeenAllowed(j, s),
           NEW p \in {"pending", "ready", "public"}
    PROVE  Applied(j, s, i, o, PreparationSeen(j, s, p), "prepared")
  <1>. DEFINE r == PreparationSeen(j, s, p)
  <1>1. j.phase = "staging" /\ ~j.submitStarted
    BY DEF PreparationSeenAllowed
  <1>2. s.orch \notin OrchestrationTerminal
    BY <1>1 DEF FactsOK, PhaseOK, OrchestrationTerminal
  <1>3. ~j.remote /\ i = "none" /\ ~Pending(o) /\ Untouched(s)
    BY <1>1, <1>2, BeforeSubmission
  <1>4. /\ r.j \in Journals /\ ~r.j.submitStarted /\ r.j.plan = j.plan /\ ~r.j.remote
        /\ r.j.phase = IF p = "public" THEN "attention" ELSE IF p = "ready" THEN "ready" ELSE "staging"
    <2>1. CASE p = "public"
      <3>. DEFINE k == Problem(j, "permanent")
      <3>1. k \in Journals /\ SameCourse(j, k) /\ 0 \in 0..MaxFailures
        BY Conditions, MaxFailuresAssumption DEF Problems
      <3>2. r.j = [k EXCEPT !.prepared = p, !.failures = 0, !.phase = "attention"]
        BY <2>1 DEF PreparationSeen
      <3>. HIDE DEF k
      <3>. QED  BY <1>1, <1>3, <2>1, <3>1, <3>2 DEF SameCourse, Journals, Phases
    <2>2. CASE p # "public"
      <3>. DEFINE k == Cleared(j)
      <3>1. k \in Journals /\ SameCourse(j, k)
        BY Conditions DEF Problems
      <3>2. r.j = [k EXCEPT !.prepared = p, !.phase = IF p = "ready" THEN "ready" ELSE j.phase]
        BY <2>2 DEF PreparationSeen
      <3>. HIDE DEF k
      <3>. QED  BY <1>1, <1>3, <2>2, <3>1, <3>2 DEF SameCourse, Journals, Phases
    <2>. QED  BY <2>1, <2>2
  <1>5. /\ r.s \in AttemptStates /\ Untouched(r.s)
        /\ r.s.orch = IF p = "public" THEN "needs_attention" ELSE "preparing"
    BY <1>3 DEF PreparationSeen, AttemptStates, Orchestrations, OrchestrationTerminal, Untouched
  <1>. QED  BY <1>1, <1>2, <1>3, <1>4, <1>5 DEF Applied, PhaseOK, IntentOK, LedgerStatus, Untouched

\* A preparation nobody confirmed within its grace.
LEMMA EndPreparationFacts ==
    ASSUME NEW j \in Journals, NEW s \in AttemptStates, NEW o \in Operations, NEW i,
           FactsOK(j, s, i, o), EndUnconfirmedPreparationAllowed(j, s)
    PROVE  Applied(j, s, i, o, EndUnconfirmedPreparation(j, s), "end")
  <1>. DEFINE r == EndUnconfirmedPreparation(j, s)
  <1>1. ~j.submitStarted /\ s.orch \notin OrchestrationTerminal
    BY DEF EndUnconfirmedPreparationAllowed, UnconfirmedPreparation
  <1>2. /\ s.exec = "not_submitted" /\ s.remote = "not_started"
        /\ ~j.remote /\ i = "none" /\ ~Pending(o)
    BY <1>1, BeforeSubmission
  <1>3. /\ r.j \in Journals /\ r.j.phase = "prevented" /\ ~r.j.submitStarted /\ r.j.plan = j.plan
        /\ ~r.j.remote
    BY <1>1, <1>2 DEF EndUnconfirmedPreparation, Problem, Cleared, Journals, Phases, Windows, Problems
  <1>4. /\ r.s \in AttemptStates /\ r.s.orch = "failed" /\ r.s.exec = s.exec /\ r.s.remote = s.remote
    BY DEF EndUnconfirmedPreparation, AttemptStates, Orchestrations, OrchestrationTerminal, ReleaseEvidences
  <1>. QED  BY <1>1, <1>2, <1>3, <1>4 DEF Applied, PhaseOK, IntentOK, LedgerStatus, OrchestrationTerminal

\* The intent to submit.
LEMMA BeginSubmissionFacts ==
    ASSUME NEW j \in Journals, NEW s \in AttemptStates, NEW o \in Operations, NEW i,
           FactsOK(j, s, i, o), BeginSubmissionAllowed(j, s)
    PROVE  Applied(j, s, i, o, BeginSubmission(j, s), "submit")
  <1>. DEFINE r == BeginSubmission(j, s)
  <1>1. j.phase = "ready" /\ ~j.submitStarted
    BY DEF BeginSubmissionAllowed
  <1>2. s.orch \notin OrchestrationTerminal
    BY <1>1 DEF FactsOK, PhaseOK, OrchestrationTerminal
  <1>3. ~j.remote /\ i = "none" /\ ~Pending(o) /\ Untouched(s) /\ j.plan
    BY <1>1, <1>2, BeforeSubmission
  <1>4. /\ r.j \in Journals /\ r.j.phase = "submitting" /\ r.j.submitStarted /\ r.j.plan
        /\ ~r.j.remote /\ r.j.absence = j.absence
    <2>. DEFINE k == [j EXCEPT !.phase = "submitting", !.submitStarted = TRUE]
    <2>1. /\ k \in Journals /\ k.phase = "submitting" /\ k.plan = j.plan /\ k.submitStarted
          /\ k.remote = j.remote /\ k.absence = j.absence
      BY DEF Journals, Phases
    <2>2. r.j = Cleared(k)
      BY DEF BeginSubmission
    <2>3. Cleared(k) \in Journals /\ SameCourse(k, Cleared(k))
      BY <2>1, Conditions DEF Problems
    <2>. HIDE DEF k, r
    <2>. QED  BY <1>3, <2>1, <2>2, <2>3 DEF SameCourse
  <1>5. /\ r.s \in AttemptStates /\ r.s.orch = "dispatching" /\ Submitted(r.s)
    BY <1>3 DEF BeginSubmission, AttemptStates, Orchestrations, OrchestrationTerminal, Executions, RemoteActivities, Submitted, Untouched
  <1>. QED  BY <1>1, <1>2, <1>3, <1>4, <1>5 DEF Applied, PhaseOK, IntentOK, LedgerStatus

\* What is known of an attempt whose submission was neither found nor ruled out.
LEMMA AfterSubmission ==
    ASSUME NEW j \in Journals, NEW s \in AttemptStates, NEW o \in Operations, NEW i,
           FactsOK(j, s, i, o), j.submitStarted, ~j.remote,
           j.phase \in {"submitting", "attention"}
    PROVE  /\ j.plan /\ Submitted(s) /\ s.orch \notin OrchestrationTerminal
           /\ i \in {"started", "unknown"}
           /\ Pending(o) => s.cancel = "requested"
           /\ j.phase = "attention" => ~Pending(o)
  <1>1. j.plan
    BY DEF FactsOK, ValidJournal, Journals
  <1>2. Submitted(s) /\ s.orch \notin OrchestrationTerminal
    BY DEF FactsOK, PhaseOK, OrchestrationTerminal
  <1>3. i \in {"started", "unknown"}
    BY DEF FactsOK, IntentOK
  <1>4. Pending(o) => s.cancel = "requested" /\ j.phase # "attention"
    BY <1>2 DEF FactsOK, CancelOK, Submitted, CancellationPending
  <1>. QED  BY <1>1, <1>2, <1>3, <1>4

\* A submission that was refused, or is absent, is over; k is the journal with the name.
LEMMA RejectedFacts ==
    ASSUME NEW j \in Journals, NEW s \in AttemptStates, NEW o \in Operations, NEW i,
           FactsOK(j, s, i, o), j.submitStarted, ~j.remote,
           j.phase \in {"submitting", "attention"}, NEW k \in Journals, k.submitStarted, ~k.remote,
           NEW expire \in BOOLEAN, NEW kind \in {"submission", "absence"}
    PROVE  LET r == SubmissionRejected(k, s, expire)
           IN  /\ k.plan => Applied(j, s, i, o, r, kind)
               /\ r.j.phase = "rejected" /\ r.j.submitStarted /\ ~r.j.remote
               /\ r.j \in Journals /\ r.s \in AttemptStates /\ PhaseOK(r.j, r.s)
               /\ r.s.exec = "not_submitted" /\ r.s.remote = "inactive" /\ r.j.absence = k.absence
               /\ r.s.orch \in OrchestrationTerminal
               /\ (s.cancel # "not_requested" => r.s.cancel = "prevented")
               /\ r.j.plan = k.plan
  <1>. DEFINE r == SubmissionRejected(k, s, expire)
              m == [k EXCEPT !.phase = "rejected"]
  <1>1. /\ j.plan /\ s.orch \notin OrchestrationTerminal /\ (Pending(o) => s.cancel = "requested")
    BY AfterSubmission
  <1>2. m \in Journals /\ m.phase = "rejected" /\ m.submitStarted /\ ~m.remote /\ m.absence = k.absence /\ m.plan = k.plan
    BY DEF Journals, Phases
  <1>3. r.j = Problem(m, "open")
    BY DEF SubmissionRejected
  <1>4. /\ r.j \in Journals /\ r.j.phase = "rejected" /\ r.j.submitStarted /\ ~r.j.remote
        /\ r.j.absence = k.absence /\ r.j.plan = k.plan
    <2>1. Problem(m, "open") \in Journals /\ SameCourse(m, Problem(m, "open"))
      BY <1>2, Conditions DEF Problems
    <2>. HIDE DEF m, r
    <2>. QED  BY <1>2, <1>3, <2>1 DEF SameCourse
  <1>5. /\ r.s \in AttemptStates /\ r.s.exec = "not_submitted" /\ r.s.remote = "inactive"
        /\ r.s.orch \in OrchestrationTerminal
        /\ r.s.cancel = IF s.cancel # "not_requested" THEN "prevented" ELSE s.cancel
    <2>. DEFINE b == s.deadline \/ expire
                orch == IF s.cancel # "not_requested" THEN "cancelled"
                        ELSE IF expire THEN "timed_out" ELSE "failed"
                cancel == IF s.cancel # "not_requested" THEN "prevented" ELSE s.cancel
    <2>1. b \in BOOLEAN /\ orch \in OrchestrationTerminal /\ orch \in Orchestrations
      BY DEF OrchestrationTerminal, Orchestrations
    <2>2. cancel \in Cancellations
      BY DEF AttemptStates, Cancellations
    <2>3. r.s = [s EXCEPT !.orch = orch, !.exec = "not_submitted", !.cancel = cancel, !.remote = "inactive",
                          !.release = "not_applicable", !.deadline = b]
      BY DEF SubmissionRejected
    <2>. HIDE DEF b, orch, r
    <2>4. cancel = IF s.cancel # "not_requested" THEN "prevented" ELSE s.cancel
      OBVIOUS
    <2>. HIDE DEF cancel
    <2>. QED  BY <2>1, <2>2, <2>3, <2>4 DEF AttemptStates, Executions, RemoteActivities, ReleaseEvidences
  <1>6. PhaseOK(r.j, r.s)
    BY <1>4, <1>5 DEF PhaseOK
  <1>7. IntentOK(r.j, LedgerStatus(r.j, kind, i))
    BY <1>4 DEF IntentOK, LedgerStatus
  <1>. HIDE DEF r, m
  <1>8. ASSUME Pending(o) PROVE r.s.cancel = "prevented"
    BY <1>1, <1>5, <1>8
  <1>9. k.plan => Applied(j, s, i, o, r, kind)
    BY <1>1, <1>4, <1>5, <1>6, <1>7, <1>8 DEF Applied, CancellationPending
  <1>. QED  BY <1>4, <1>5, <1>6, <1>9 DEF r

\* The run was accepted, or found under the identity of the attempt.
LEMMA AcceptedFacts ==
    ASSUME NEW j \in Journals, NEW s \in AttemptStates, NEW o \in Operations, NEW i,
           FactsOK(j, s, i, o), SubmissionSeenAllowed(j, s)
    PROVE  LET r == SubmissionAccepted(j, s)
           IN  /\ Applied(j, s, i, o, r, "submission")
               /\ r.s.exec = s.exec /\ r.s.remote = s.remote /\ r.j.absence = j.absence
  <1>. DEFINE r == SubmissionAccepted(j, s)
              m == [j EXCEPT !.phase = "submitted", !.remote = TRUE]
  <1>1. j.phase = "submitting" /\ j.submitStarted /\ ~j.remote
    BY DEF SubmissionSeenAllowed
  <1>2. /\ j.plan /\ Submitted(s) /\ s.orch \notin OrchestrationTerminal /\ (Pending(o) => s.cancel = "requested")
    BY <1>1, AfterSubmission
  <1>3. /\ m \in Journals /\ m.phase = "submitted" /\ m.submitStarted = j.submitStarted /\ m.remote
        /\ m.absence = j.absence /\ m.plan = j.plan
    BY DEF Journals, Phases
  <1>4. /\ r.j \in Journals /\ r.j.phase = "submitted" /\ r.j.submitStarted /\ r.j.remote
        /\ r.j.absence = j.absence /\ r.j.plan
    <2>0. r.j = Cleared(m)
      BY DEF SubmissionAccepted
    <2>1. Cleared(m) \in Journals /\ SameCourse(m, Cleared(m))
      BY <1>3, Conditions DEF Problems
    <2>. HIDE DEF m, r
    <2>. QED  BY <1>1, <1>2, <1>3, <2>0, <2>1 DEF SameCourse
  <1>5. /\ r.s \in AttemptStates /\ r.s.exec = s.exec /\ r.s.remote = s.remote /\ r.s.cancel = s.cancel
        /\ r.s.release = s.release
        /\ r.s.orch = IF CancellationPending(s) THEN "cancelling" ELSE "submitted"
    BY DEF SubmissionAccepted, AttemptStates, Orchestrations
  <1>6. PhaseOK(r.j, r.s)
    BY <1>2, <1>4, <1>5 DEF PhaseOK, Submitted, CancellationPending
  <1>7. IntentOK(r.j, LedgerStatus(r.j, "submission", i))
    BY <1>4 DEF IntentOK, LedgerStatus
  <1>. HIDE DEF r, m
  <1>8. Applied(j, s, i, o, r, "submission")
    BY <1>2, <1>4, <1>5, <1>6, <1>7 DEF Applied, CancellationPending
  <1>. QED  BY <1>4, <1>5, <1>8 DEF r

\* Nothing is known of the start, except perhaps the name to look for.
LEMMA UnknownFacts ==
    ASSUME NEW j \in Journals, NEW s \in AttemptStates, NEW o \in Operations, NEW i,
           FactsOK(j, s, i, o), SubmissionSeenAllowed(j, s),
           NEW named \in BOOLEAN
    PROVE  LET r == SubmissionUnknown(j, s, named)
           IN  /\ Applied(j, s, i, o, r, "submission")
               /\ r.s.exec = s.exec /\ r.s.remote = s.remote /\ r.j.absence = j.absence
  <1>. DEFINE r == SubmissionUnknown(j, s, named)
              m == [j EXCEPT !.named = named]
  <1>1. j.phase = "submitting" /\ j.submitStarted /\ ~j.remote
    BY DEF SubmissionSeenAllowed
  <1>2. /\ j.plan /\ Submitted(s) /\ s.orch \notin OrchestrationTerminal /\ (Pending(o) => s.cancel = "requested")
    BY <1>1, AfterSubmission
  <1>3. /\ m \in Journals /\ m.phase = j.phase /\ m.submitStarted = j.submitStarted /\ m.remote = j.remote
        /\ m.absence = j.absence /\ m.plan = j.plan
    BY DEF Journals
  <1>4. /\ r.j \in Journals /\ r.j.phase = "submitting" /\ r.j.submitStarted /\ ~r.j.remote
        /\ r.j.absence = j.absence /\ r.j.plan
    <2>0. r.j = Problem(m, "open")
      BY DEF SubmissionUnknown
    <2>1. Problem(m, "open") \in Journals /\ SameCourse(m, Problem(m, "open"))
      BY <1>3, Conditions DEF Problems
    <2>. HIDE DEF m, r
    <2>. QED  BY <1>1, <1>2, <1>3, <2>0, <2>1 DEF SameCourse
  <1>5. r.s \in AttemptStates /\ r.s = [s EXCEPT !.orch = "reconciling"]
    BY DEF SubmissionUnknown, AttemptStates, Orchestrations
  <1>6. /\ Submitted(r.s) /\ r.s.orch = "reconciling" /\ r.s.cancel = s.cancel
        /\ r.s.exec = s.exec /\ r.s.remote = s.remote
    BY <1>2, <1>5 DEF Submitted, AttemptStates
  <1>7. PhaseOK(r.j, r.s) /\ IntentOK(r.j, LedgerStatus(r.j, "submission", i))
    BY <1>4, <1>6 DEF PhaseOK, IntentOK, LedgerStatus
  <1>. HIDE DEF r, m
  <1>8. Applied(j, s, i, o, r, "submission")
    BY <1>2, <1>4, <1>5, <1>6, <1>7 DEF Applied, CancellationPending
  <1>. QED  BY <1>4, <1>6, <1>8 DEF r

\* A first complete inventory without the run opens the grace.
LEMMA AbsenceFacts ==
    ASSUME NEW j \in Journals, NEW s \in AttemptStates, NEW o \in Operations, NEW i,
           FactsOK(j, s, i, o), SubmissionAbsenceAllowed(j, s),
           j.absence # "elapsed"
    PROVE  LET r == SubmissionAbsenceSeen(j, s)
           IN  /\ Applied(j, s, i, o, r, "absence")
               /\ r.s.exec = s.exec /\ r.s.remote = s.remote /\ r.j.absence = "open"
  <1>. DEFINE r == SubmissionAbsenceSeen(j, s)
              k == [j EXCEPT !.named = TRUE]
              m == [k EXCEPT !.absence = "open", !.phase = "submitting", !.failures = IF @ = 0 THEN 1 ELSE @]
  <1>1. j.phase \in {"submitting", "attention"} /\ j.submitStarted /\ ~j.remote
    BY DEF SubmissionAbsenceAllowed, AbsenceAllowed
  <1>2. /\ j.plan /\ Submitted(s) /\ s.orch \notin OrchestrationTerminal /\ (Pending(o) => s.cancel = "requested")
    BY <1>1, AfterSubmission
  <1>3. /\ k \in Journals /\ k.submitStarted = j.submitStarted /\ k.remote = j.remote /\ k.plan = j.plan
        /\ k.failures = j.failures /\ j.failures \in 0..MaxFailures
    BY DEF Journals
  <1>4. /\ m \in Journals /\ m.phase = "submitting" /\ m.submitStarted = j.submitStarted /\ m.remote = j.remote
        /\ m.absence = "open" /\ m.plan = j.plan
    <2>. DEFINE n == IF k.failures = 0 THEN 1 ELSE k.failures
    <2>1. n \in 0..MaxFailures
      BY <1>3, MaxFailuresAssumption
    <2>2. m = [k EXCEPT !.absence = "open", !.phase = "submitting", !.failures = n]
      BY <1>3 DEF Journals
    <2>. HIDE DEF n, k, m
    <2>. QED  BY <1>3, <2>1, <2>2 DEF Journals, Phases, Windows
  <1>5. /\ r.j \in Journals /\ r.j.phase = "submitting" /\ r.j.submitStarted /\ ~r.j.remote
        /\ r.j.absence = "open" /\ r.j.plan
    <2>0. r.j = Problem(m, "open")
      BY DEF SubmissionAbsenceSeen
    <2>1. Problem(m, "open") \in Journals /\ SameCourse(m, Problem(m, "open"))
      BY <1>4, Conditions DEF Problems
    <2>. HIDE DEF m, r
    <2>. QED  BY <1>1, <1>2, <1>4, <2>0, <2>1 DEF SameCourse
  <1>6. r.s \in AttemptStates /\ r.s = [s EXCEPT !.orch = "reconciling"]
    BY DEF SubmissionAbsenceSeen, AttemptStates, Orchestrations
  <1>7. /\ Submitted(r.s) /\ r.s.orch = "reconciling" /\ r.s.cancel = s.cancel
        /\ r.s.exec = s.exec /\ r.s.remote = s.remote
    BY <1>2, <1>6 DEF Submitted, AttemptStates
  <1>8. PhaseOK(r.j, r.s) /\ IntentOK(r.j, LedgerStatus(r.j, "absence", i))
    BY <1>5, <1>7 DEF PhaseOK, IntentOK, LedgerStatus
  <1>. HIDE DEF r, m, k
  <1>9. Applied(j, s, i, o, r, "absence")
    BY <1>2, <1>5, <1>6, <1>7, <1>8 DEF Applied, CancellationPending
  <1>. QED  BY <1>5, <1>7, <1>9 DEF r

\* What is known of an attempt whose run is being observed.
LEMMA WhileObserved ==
    ASSUME NEW j \in Journals, NEW s \in AttemptStates, NEW o \in Operations, NEW i,
           FactsOK(j, s, i, o), j.phase = "submitted"
    PROVE  /\ j.plan /\ j.submitStarted /\ j.remote /\ i = "accepted"
           /\ s.orch \in {"submitted", "running", "reconciling", "cancelling", "needs_attention"}
           /\ s.orch \notin OrchestrationTerminal
           /\ s.exec \in {"unknown"} \cup ExecutionActive /\ s.result = "not_available"
           /\ s.remote \in {"possible", "active"} /\ s.release \in {"unknown", "not_observable"}
           /\ s.cancel \in {"not_requested", "requested", "requesting", "accepted", "manual_required"}
           /\ Pending(o) => CancellationPending(s)
  <1>1. j.plan /\ j.submitStarted /\ j.remote
    BY DEF FactsOK, ValidJournal, Journals
  <1>2. /\ s.orch \in {"submitted", "running", "reconciling", "cancelling", "needs_attention"}
        /\ s.exec \in {"unknown"} \cup ExecutionActive
        /\ s.remote \in {"possible", "active"} /\ s.release \in {"unknown", "not_observable"}
        /\ s.cancel \in {"not_requested", "requested", "requesting", "accepted", "manual_required"}
    BY DEF FactsOK, PhaseOK
  <1>3. s.result = "not_available"
    BY <1>2, Names DEF FactsOK, ValidState, ResultConsistent
  <1>4. i = "accepted" /\ (Pending(o) => CancellationPending(s))
    BY <1>1 DEF FactsOK, IntentOK, CancelOK
  <1>. QED  BY <1>1, <1>2, <1>3, <1>4 DEF OrchestrationTerminal

\* A cancellation that cannot be pursued goes to the owner.
LEMMA ManualFacts ==
    ASSUME NEW s \in AttemptStates,
           s.cancel \in {"not_requested", "requested", "requesting", "accepted", "manual_required"}
    PROVE  /\ ManualIfPending(s) \in {"not_requested", "manual_required"}
           /\ ManualIfPending(s) \in Cancellations
           /\ s.cancel # "not_requested" => ManualIfPending(s) = "manual_required"
  BY DEF ManualIfPending, CancellationPending, Cancellations

\* The exact run was reported gone.
LEMMA GoneFacts ==
    ASSUME NEW j \in Journals, NEW s \in AttemptStates, NEW o \in Operations, NEW i,
           FactsOK(j, s, i, o), RemoteAbsenceSeenAllowed(j, s)
    PROVE  LET r == RemoteAbsenceSeen(j, s)
           IN  /\ Applied(j, s, i, o, r, "gone")
               /\ r.s.exec = "unknown" /\ r.s.remote = "inactive" /\ r.j.absence = j.absence
  <1>. DEFINE r == RemoteAbsenceSeen(j, s)
              m == [j EXCEPT !.phase = "attention"]
              c == ManualIfPending(s)
  <1>1. j.phase = "submitted" /\ j.remote
    BY DEF RemoteAbsenceSeenAllowed
  <1>2. /\ j.plan /\ j.submitStarted /\ i = "accepted" /\ s.orch \notin OrchestrationTerminal
        /\ s.cancel \in {"not_requested", "requested", "requesting", "accepted", "manual_required"}
        /\ s.result = "not_available" /\ (Pending(o) => CancellationPending(s))
    BY <1>1, WhileObserved
  <1>3. /\ m \in Journals /\ m.phase = "attention" /\ m.submitStarted = j.submitStarted /\ m.remote = j.remote
        /\ m.absence = j.absence /\ m.plan = j.plan
    BY DEF Journals, Phases
  <1>4. /\ r.j \in Journals /\ r.j.phase = "attention" /\ r.j.submitStarted /\ r.j.remote
        /\ r.j.absence = j.absence /\ r.j.plan /\ r.j.problem = "remote_absent"
    <2>0. r.j = Problem(m, "remote_absent")
      BY DEF RemoteAbsenceSeen
    <2>1. /\ Problem(m, "remote_absent") \in Journals /\ SameCourse(m, Problem(m, "remote_absent"))
          /\ Problem(m, "remote_absent").problem = "remote_absent"
      BY <1>3, Conditions DEF Problems
    <2>. HIDE DEF m, r
    <2>. QED  BY <1>1, <1>2, <1>3, <2>0, <2>1 DEF SameCourse
  <1>5. c \in {"not_requested", "manual_required"} /\ c \in Cancellations
        /\ (s.cancel # "not_requested" => c = "manual_required")
    BY <1>2, ManualFacts
  <1>6. /\ r.s \in AttemptStates /\ r.s.exec = "unknown" /\ r.s.remote = "inactive" /\ r.s.cancel = c
        /\ r.s.release = "provider_reported" /\ r.s.orch = "needs_attention" /\ r.s.result = s.result
    <2>1. r.s = [s EXCEPT !.orch = "needs_attention", !.exec = "unknown", !.remote = "inactive",
                          !.release = "provider_reported", !.cancel = c]
      BY DEF RemoteAbsenceSeen
    <2>. HIDE DEF c, r
    <2>. QED  BY <1>5, <2>1 DEF AttemptStates, Orchestrations, Executions, RemoteActivities, ReleaseEvidences
  <1>. HIDE DEF r, m, c
  <1>7. PhaseOK(r.j, r.s)
    BY <1>2, <1>4, <1>5, <1>6 DEF PhaseOK
  <1>8. IntentOK(r.j, LedgerStatus(r.j, "gone", i))
    BY <1>2, <1>4 DEF IntentOK, LedgerStatus
  <1>9. Applied(j, s, i, o, r, "gone")
    BY <1>2, <1>4, <1>5, <1>6, <1>7, <1>8 DEF Applied, CancellationPending
  <1>. QED  BY <1>4, <1>6, <1>9 DEF r

\* What an adapter reports of a run.
Readings ==
    {v \in [exec : Executions \ {"not_submitted"}, remote : RemoteActivities, release : ReleaseEvidences] :
        /\ v.exec \in ExecutionTerminal => v.remote = "inactive"
        /\ v.exec \notin ExecutionTerminal =>
             v.remote \in {"possible", "active"} /\ v.release \in {"unknown", "not_observable"}}

\* The adapters' readings, and that of a confirmed stop, are such reports.
LEMMA ReadingFacts ==
    /\ \A e \in Executions \ {"not_submitted"} : Observation(e) \in Readings /\ Observation(e).exec = e
    /\ Confirmed \in Readings /\ Confirmed.exec = "cancelled"
  <1>1. Confirmed \in Readings /\ Confirmed.exec = "cancelled"
    BY DEF Confirmed, Readings, Executions, ExecutionTerminal, ExecutionActive, RemoteActivities, ReleaseEvidences
  <1>2. ASSUME NEW e \in Executions \ {"not_submitted"}
        PROVE  Observation(e) \in Readings /\ Observation(e).exec = e
    <2>. DEFINE rm == CASE e \in ExecutionTerminal -> "inactive"
                        [] e \in {"starting", "running"} -> "active"
                        [] OTHER -> "possible"
                rl == IF ~ReleaseReported THEN "not_observable"
                      ELSE IF e \in ExecutionTerminal THEN "provider_reported" ELSE "unknown"
    <2>1. Observation(e) = [exec |-> e, remote |-> rm, release |-> rl]
      BY DEF Observation
    <2>2. /\ e \in ExecutionTerminal => rm = "inactive"
          /\ e \notin ExecutionTerminal => rm \in {"possible", "active"}
      BY DEF ExecutionTerminal
    <2>3. /\ rl \in ReleaseEvidences
          /\ e \notin ExecutionTerminal => rl \in {"unknown", "not_observable"}
      BY DEF ReleaseEvidences
    <2>4. rm \in RemoteActivities
      BY <2>2 DEF RemoteActivities
    <2>. HIDE DEF rm, rl
    <2>. QED  BY <2>1, <2>2, <2>3, <2>4 DEF Readings
  <1>. QED  BY <1>1, <1>2

\* What an observation says of the state: the reading, unless it is unknown, and never
\* that nothing was submitted.
LEMMA ObservedFacts ==
    ASSUME NEW j \in Journals, NEW s \in AttemptStates, NEW o \in Operations, NEW i,
           FactsOK(j, s, i, o), j.phase = "submitted", NEW v \in Readings
    PROVE  LET t == ObservedState(s, v)
           IN  /\ t \in AttemptStates /\ t.orch = ObservedOrchestration(s, v) /\ t.result = s.result
               /\ v.exec = "unknown" => /\ t.exec = s.exec /\ t.remote = s.remote /\ t.release = s.release
                                        /\ t.cancel = s.cancel
               /\ v.exec # "unknown" => /\ t.exec = v.exec /\ t.remote = v.remote /\ t.release = v.release
               /\ v.exec \in ExecutionActive => t.cancel = s.cancel
               /\ v.exec \in ExecutionTerminal =>
                    t.cancel = IF s.cancel = "not_requested" THEN "not_requested"
                               ELSE IF v.exec = "cancelled" THEN "confirmed" ELSE "too_late"
  <1>. DEFINE orch == ObservedOrchestration(s, v)
              b == s.deadline \/ v.exec = "timed_out"
              c == IF v.exec \in ExecutionTerminal /\ s.cancel # "not_requested"
                   THEN IF v.exec = "cancelled" THEN "confirmed" ELSE "too_late" ELSE s.cancel
              t == ObservedState(s, v)
  <1>1. v.exec \in Executions /\ v.remote \in RemoteActivities /\ v.release \in ReleaseEvidences
    BY DEF Readings
  <1>2. orch \in Orchestrations
    BY DEF ObservedOrchestration, Orchestrations
  <1>3. c \in Cancellations /\ b \in BOOLEAN
    BY DEF AttemptStates, Cancellations
  <1>4. CASE v.exec = "unknown"
    <2>1. t = [s EXCEPT !.orch = orch]
      BY <1>4 DEF ObservedState
    <2>2. v.exec \notin ExecutionActive /\ v.exec \notin ExecutionTerminal
      BY <1>4 DEF ExecutionActive, ExecutionTerminal
    <2>. HIDE DEF orch, t
    <2>3. /\ t \in AttemptStates /\ t.orch = orch /\ t.result = s.result /\ t.exec = s.exec /\ t.remote = s.remote
          /\ t.release = s.release /\ t.cancel = s.cancel
      BY <1>2, <2>1 DEF AttemptStates
    <2>. QED  BY <1>4, <2>2, <2>3 DEF orch, t
  <1>5. CASE v.exec # "unknown"
    <2>1. t = [s EXCEPT !.orch = orch, !.exec = v.exec, !.remote = v.remote, !.release = v.release,
                        !.deadline = b, !.cancel = c]
      BY <1>5 DEF ObservedState
    <2>2. /\ v.exec \in ExecutionActive => c = s.cancel
          /\ v.exec \in ExecutionTerminal =>
               c = IF s.cancel = "not_requested" THEN "not_requested"
                   ELSE IF v.exec = "cancelled" THEN "confirmed" ELSE "too_late"
      BY Names
    <2>. HIDE DEF orch, t, b, c
    <2>3. /\ t \in AttemptStates /\ t.orch = orch /\ t.result = s.result /\ t.exec = v.exec /\ t.remote = v.remote
          /\ t.release = v.release /\ t.cancel = c
      BY <1>1, <1>2, <1>3, <2>1 DEF AttemptStates
    <2>. QED  BY <1>5, <2>2, <2>3 DEF orch, t
  <1>. QED  BY <1>4, <1>5

\* An observation ends the run, or leaves it observed, or goes to the owner when nothing
\* was learnt too often.
LEMMA ObservationFacts ==
    ASSUME NEW j \in Journals, NEW s \in AttemptStates, NEW o \in Operations, NEW i,
           FactsOK(j, s, i, o), ObservationSeenAllowed(j, s), NEW v \in Readings
    PROVE  LET r == ObservationSeen(j, s, v)
           IN  /\ Applied(j, s, i, o, r, "observed")
               /\ r.j.absence = j.absence
               /\ v.exec = "unknown" => r.s.exec = s.exec /\ r.s.remote = s.remote
               /\ v.exec # "unknown" => r.s.exec = v.exec /\ r.s.remote = v.remote
               /\ v.exec \in ExecutionTerminal =>
                    /\ r.j.phase = "collectible"
                    /\ r.s.cancel = IF s.cancel = "not_requested" THEN "not_requested"
                                    ELSE IF v.exec = "cancelled" THEN "confirmed" ELSE "too_late"
  <1>. DEFINE r == ObservationSeen(j, s, v)
              t == ObservedState(s, v)
              n == IF j.failures < MaxFailures THEN j.failures + 1 ELSE MaxFailures
              k == [Cleared(j) EXCEPT !.obs = v.exec]
  <1>1. j.phase = "submitted" /\ j.remote
    BY DEF ObservationSeenAllowed
  <1>2. /\ j.plan /\ j.submitStarted /\ i = "accepted" /\ s.orch \notin OrchestrationTerminal
        /\ s.cancel \in {"not_requested", "requested", "requesting", "accepted", "manual_required"}
        /\ s.result = "not_available" /\ (Pending(o) => CancellationPending(s))
        /\ s.exec \in {"unknown"} \cup ExecutionActive
        /\ s.remote \in {"possible", "active"} /\ s.release \in {"unknown", "not_observable"}
    BY <1>1, WhileObserved
  <1>3. /\ v.exec \in Executions /\ v.exec # "not_submitted"
        /\ v.exec \notin ExecutionTerminal =>
             v.remote \in {"possible", "active"} /\ v.release \in {"unknown", "not_observable"}
    BY DEF Readings
  <1>4. n \in 0..MaxFailures
    BY MaxFailuresAssumption DEF Journals
  <1>5. /\ k \in Journals /\ k.phase = "submitted" /\ k.submitStarted = j.submitStarted /\ k.remote = j.remote
        /\ k.absence = j.absence /\ k.plan = j.plan /\ k.obs = v.exec /\ k.problem = "none"
    <2>. DEFINE q == Cleared(j)
    <2>1. q \in Journals /\ SameCourse(j, q) /\ q.problem = "none"
      BY Conditions DEF Problems
    <2>2. k = [q EXCEPT !.obs = v.exec]
      OBVIOUS
    <2>. HIDE DEF q, k
    <2>. QED  BY <1>1, <1>3, <2>1, <2>2 DEF SameCourse, Journals
  <1>6. /\ t \in AttemptStates /\ t.orch = ObservedOrchestration(s, v) /\ t.result = s.result
        /\ v.exec = "unknown" => /\ t.exec = s.exec /\ t.remote = s.remote /\ t.release = s.release
                                 /\ t.cancel = s.cancel
        /\ v.exec # "unknown" => /\ t.exec = v.exec /\ t.remote = v.remote /\ t.release = v.release
        /\ v.exec \in ExecutionActive => t.cancel = s.cancel
        /\ v.exec \in ExecutionTerminal =>
             t.cancel = IF s.cancel = "not_requested" THEN "not_requested"
                        ELSE IF v.exec = "cancelled" THEN "confirmed" ELSE "too_late"
    BY <1>1, ObservedFacts
  <1>c. r = CASE v.exec \in ExecutionTerminal -> [j |-> [k EXCEPT !.phase = "collectible"], s |-> t]
              [] v.exec = "unknown" /\ n = MaxFailures ->
                   [j |-> [k EXCEPT !.problem = "open", !.failures = n, !.phase = "attention"],
                    s |-> [t EXCEPT !.orch = "needs_attention", !.cancel = ManualIfPending(s)]]
              [] v.exec = "unknown" /\ n < MaxFailures ->
                   [j |-> [k EXCEPT !.problem = "open", !.failures = n], s |-> t]
              [] OTHER -> [j |-> k, s |-> t]
    BY DEF ObservationSeen
  <1>. HIDE DEF n, k, t, r
  <1>7. CASE v.exec \in ExecutionTerminal
    <2>1. r = [j |-> [k EXCEPT !.phase = "collectible"], s |-> t]
      BY <1>c, <1>7, Names
    <2>2. v.exec # "unknown" /\ ~(v.exec \in ExecutionActive)
      BY <1>7, Names
    <2>3. /\ r.j \in Journals /\ r.j.phase = "collectible" /\ r.j.submitStarted /\ r.j.remote
          /\ r.j.absence = j.absence /\ r.j.plan /\ r.j.obs = v.exec /\ r.s = t
      BY <1>1, <1>2, <1>5, <2>1 DEF Journals, Phases
    <2>4. PhaseOK(r.j, r.s)
      BY <1>6, <1>7, <2>2, <2>3 DEF PhaseOK
    <2>5. IntentOK(r.j, LedgerStatus(r.j, "observed", i))
      BY <1>2, <2>3 DEF IntentOK, LedgerStatus
    <2>6. Applied(j, s, i, o, r, "observed")
      BY <1>2, <1>6, <1>7, <2>2, <2>3, <2>4, <2>5 DEF Applied, CancellationPending
    <2>. QED  BY <1>6, <1>7, <2>2, <2>3, <2>6 DEF r
  <1>8. CASE v.exec = "unknown" /\ n = MaxFailures
    <2>. DEFINE c == ManualIfPending(s)
    <2>1. r = [j |-> [k EXCEPT !.problem = "open", !.failures = n, !.phase = "attention"],
               s |-> [t EXCEPT !.orch = "needs_attention", !.cancel = c]]
      BY <1>c, <1>8, <1>4, MaxFailuresAssumption DEF ExecutionTerminal
    <2>2. v.exec \notin ExecutionTerminal /\ ~(v.exec \in ExecutionActive)
      BY <1>8, Names
    <2>3. c \in {"not_requested", "manual_required"} /\ c \in Cancellations
          /\ (s.cancel # "not_requested" => c = "manual_required")
      BY <1>2, ManualFacts
    <2>. HIDE DEF c
    <2>4. /\ r.j \in Journals /\ r.j.phase = "attention" /\ r.j.submitStarted /\ r.j.remote
          /\ r.j.absence = j.absence /\ r.j.plan /\ r.j.problem = "open"
      BY <1>1, <1>2, <1>4, <1>5, <2>1 DEF Journals, Phases, Problems
    <2>5. /\ r.s \in AttemptStates /\ r.s.orch = "needs_attention" /\ r.s.cancel = c /\ r.s.exec = s.exec
          /\ r.s.remote = s.remote /\ r.s.release = s.release /\ r.s.result = s.result
      BY <1>6, <1>8, <2>1, <2>3 DEF AttemptStates, Orchestrations
    <2>6. PhaseOK(r.j, r.s)
      BY <1>2, <2>3, <2>4, <2>5 DEF PhaseOK
    <2>7. IntentOK(r.j, LedgerStatus(r.j, "observed", i))
      BY <1>2, <2>4 DEF IntentOK, LedgerStatus
    <2>8. Applied(j, s, i, o, r, "observed")
      BY <1>2, <2>3, <2>4, <2>5, <2>6, <2>7 DEF Applied, CancellationPending
    <2>. QED  BY <1>8, <2>2, <2>4, <2>5, <2>8 DEF r
  <1>9. CASE (v.exec = "unknown" /\ n < MaxFailures) \/ v.exec \in ExecutionActive
    <2>1. r.j = IF v.exec = "unknown" THEN [k EXCEPT !.problem = "open", !.failures = n] ELSE k
      BY <1>c, <1>9, <1>4, MaxFailuresAssumption DEF ExecutionTerminal, ExecutionActive
    <2>2. r.s = t
      BY <1>c, <1>9, <1>4, MaxFailuresAssumption DEF ExecutionTerminal, ExecutionActive
    <2>3. v.exec \notin ExecutionTerminal /\ (v.exec \in ExecutionActive => v.exec # "unknown")
      BY <1>9, Names
    <2>4. /\ r.j \in Journals /\ r.j.phase = "submitted" /\ r.j.submitStarted /\ r.j.remote
          /\ r.j.absence = j.absence /\ r.j.plan
      <3>1. CASE v.exec = "unknown"
        BY <1>1, <1>2, <1>4, <1>5, <2>1, <3>1 DEF Journals, Problems
      <3>2. CASE v.exec # "unknown"
        BY <1>1, <1>2, <1>5, <2>1, <3>2
      <3>. QED  BY <3>1, <3>2
    <2>5. /\ t.cancel = s.cancel /\ t.exec \in {"unknown"} \cup ExecutionActive
          /\ t.remote \in {"possible", "active"} /\ t.release \in {"unknown", "not_observable"}
      BY <1>2, <1>3, <1>6, <1>9, <2>3
    <2>6. /\ t.orch \in {"submitted", "running", "reconciling", "cancelling", "needs_attention"}
          /\ t.orch = "cancelling" => CancellationPending(s)
          /\ t.orch = "needs_attention" => s.cancel = "manual_required"
      BY <1>6, <2>3 DEF ObservedOrchestration
    <2>7. CancellationPending(s) <=> CancellationPending(t)
      BY <2>5 DEF CancellationPending
    <2>8. PhaseOK(r.j, r.s)
      BY <1>2, <2>2, <2>4, <2>5, <2>6, <2>7 DEF PhaseOK
    <2>9. IntentOK(r.j, LedgerStatus(r.j, "observed", i))
      BY <1>2, <2>4 DEF IntentOK, LedgerStatus
    <2>10. Applied(j, s, i, o, r, "observed")
      BY <1>2, <1>6, <2>2, <2>4, <2>5, <2>8, <2>9 DEF Applied, CancellationPending
    <2>. QED  BY <1>6, <1>9, <2>2, <2>3, <2>4, <2>10 DEF r
  <1>. QED
    <2>1. n = MaxFailures \/ n < MaxFailures
      BY <1>4, MaxFailuresAssumption
    <2>2. v.exec \in ExecutionTerminal \/ v.exec = "unknown" \/ v.exec \in ExecutionActive
      BY <1>3 DEF Executions
    <2>. QED  BY <1>7, <1>8, <1>9, <2>1, <2>2 DEF r

\* A failure before there is a plan.
LEMMA LocalFaultFacts ==
    ASSUME NEW j \in Journals, NEW s \in AttemptStates, NEW o \in Operations, NEW i,
           FactsOK(j, s, i, o), j.phase = "local", NEW permanent \in BOOLEAN
    PROVE  LET r == LocalFault(j, s, permanent)
           IN  /\ Applied(j, s, i, o, r, "fault")
               /\ r.s.exec = s.exec /\ r.s.remote = s.remote /\ r.j.absence = j.absence /\ (r.j.plan => j.plan)
  <1>. DEFINE r == LocalFault(j, s, permanent)
              ended == permanent \/ j.localWindow = "elapsed"
              p == IF permanent THEN "permanent" ELSE "open"
              l == IF j.localWindow = "unset" THEN "open" ELSE j.localWindow
              n == IF j.failures < MaxFailures THEN j.failures + 1 ELSE j.failures
              f == IF ended THEN "failed" ELSE "local"
  <1>1. /\ ~j.plan /\ LocalOnly(s) /\ s.release = "unknown" /\ ~j.submitStarted
    BY DEF FactsOK, PhaseOK, ValidJournal
  <1>2. /\ ~j.remote /\ i = "none" /\ ~Pending(o) /\ Untouched(s) /\ s.orch \notin OrchestrationTerminal
    <2>1. s.orch \notin OrchestrationTerminal
      BY <1>1 DEF LocalOnly, OrchestrationTerminal
    <2>. QED  BY <1>1, <2>1, BeforeSubmission
  <1>3. /\ p \in Problems /\ l \in Windows /\ n \in 0..MaxFailures /\ f \in {"local", "failed"}
        /\ ended \in BOOLEAN /\ (ended <=> f = "failed")
    BY MaxFailuresAssumption DEF Problems, Windows, Journals
  <1>4. /\ r.j = [j EXCEPT !.problem = p, !.localWindow = l, !.failures = n, !.phase = f]
        /\ r.s = IF ended THEN [s EXCEPT !.orch = "failed", !.release = "not_applicable"]
                 ELSE [s EXCEPT !.orch = "queued"]
    BY DEF LocalFault
  <1>. HIDE DEF ended, p, l, n, f, r
  <1>5. /\ r.j \in Journals /\ r.j.phase = f /\ ~r.j.plan /\ ~r.j.submitStarted /\ ~r.j.remote
        /\ r.j.absence = j.absence
    BY <1>1, <1>2, <1>3, <1>4 DEF Journals, Phases
  <1>6. CASE ended
    <2>1. /\ r.s \in AttemptStates /\ r.s.orch = "failed" /\ r.s.exec = s.exec /\ r.s.remote = s.remote
      BY <1>4, <1>6 DEF AttemptStates, Orchestrations, OrchestrationTerminal, ReleaseEvidences
    <2>2. PhaseOK(r.j, r.s)
      BY <1>2, <1>3, <1>5, <1>6, <2>1 DEF PhaseOK, OrchestrationTerminal, Untouched
    <2>. QED  BY <1>1, <1>2, <1>5, <2>1, <2>2 DEF Applied, IntentOK, LedgerStatus, r
  <1>7. CASE ~ended
    <2>1. /\ r.s \in AttemptStates /\ r.s.exec = s.exec /\ r.s.remote = s.remote /\ r.s.release = s.release
          /\ LocalOnly(r.s)
      BY <1>1, <1>4, <1>7 DEF AttemptStates, LocalOnly, ValidState, ExecutionConsistent, ResultConsistent,
         CancellationConsistent, ReleaseConsistent, OrchestrationConsistent, OrchestrationTerminal,
         ExecutionTerminal, ExecutionActive, Orchestrations
    <2>2. PhaseOK(r.j, r.s)
      BY <1>1, <1>3, <1>5, <1>7, <2>1 DEF PhaseOK
    <2>. QED  BY <1>1, <1>2, <1>5, <2>1, <2>2 DEF Applied, IntentOK, LedgerStatus, r
  <1>. QED  BY <1>3, <1>6, <1>7

\* A failure of a provider call; k is the journal with the name to look for.
LEMMA RemoteFaultFacts ==
    ASSUME NEW j \in Journals, NEW s \in AttemptStates, NEW o \in Operations, NEW i,
           FactsOK(j, s, i, o), 
           j.phase \in {"staging", "ready", "submitting", "submitted"},
           NEW k \in Journals, k.phase = j.phase, k.plan = j.plan, k.submitStarted = j.submitStarted,
           k.remote = j.remote, k.absence = j.absence, NEW permanent \in BOOLEAN
    PROVE  LET r == RemoteFault(k, s, permanent)
           IN  /\ Applied(j, s, i, o, r, "fault")
               /\ r.s.exec = s.exec /\ r.s.remote = s.remote /\ r.j.absence = j.absence /\ (r.j.plan => j.plan)
  <1>. DEFINE r == RemoteFault(k, s, permanent)
              n == IF k.failures < MaxFailures THEN k.failures + 1 ELSE MaxFailures
              ended == permanent \/ (n = MaxFailures /\ ~UnconfirmedPreparation(k))
              p == IF permanent THEN "permanent" ELSE "open"
              l == IF UnconfirmedPreparation(k) /\ k.prepWindow = "unset" THEN "open" ELSE k.prepWindow
              f == IF ended THEN "attention" ELSE k.phase
              c == ManualIfPending(s)
  <1>1. /\ n \in 0..MaxFailures /\ ended \in BOOLEAN /\ p \in Problems /\ p # "remote_absent" /\ l \in Windows
        /\ f = IF ended THEN "attention" ELSE k.phase
    BY MaxFailuresAssumption DEF Problems, Windows, Journals
  <1>2. /\ r.j = [k EXCEPT !.problem = p, !.prepWindow = l, !.failures = n, !.phase = f]
        /\ r.s = IF ended THEN [s EXCEPT !.orch = "needs_attention", !.cancel = c]
                 ELSE [s EXCEPT !.orch = IF k.submitStarted THEN "reconciling" ELSE "preparing"]
    BY DEF RemoteFault
  <1>3. /\ s.cancel \in {"not_requested", "requested", "requesting", "accepted", "manual_required"}
        /\ s.orch \notin OrchestrationTerminal /\ j.plan /\ (j.remote => j.submitStarted)
        /\ ~j.submitStarted => Untouched(s) /\ j.phase \in {"staging", "ready"}
        /\ j.submitStarted /\ ~j.remote => Submitted(s) /\ j.phase = "submitting"
        /\ j.remote => /\ s.exec \in {"unknown"} \cup ExecutionActive /\ s.result = "not_available"
                       /\ s.remote \in {"possible", "active"} /\ s.release \in {"unknown", "not_observable"}
                       /\ j.phase = "submitted"
        /\ Pending(o) => CancellationPending(s)
    <2>1. /\ j.phase \in {"staging", "ready"} => ~j.submitStarted
          /\ j.phase \in {"submitting", "submitted"} => j.submitStarted
          /\ j.phase = "submitting" => ~j.remote
          /\ j.phase = "submitted" => j.remote
          /\ j.remote => j.submitStarted
          /\ j.plan
      BY DEF FactsOK, ValidJournal, Journals
    <2>2. CASE ~j.submitStarted
      <3>1. j.phase \in {"staging", "ready"}
        BY <2>1, <2>2
      <3>2. Untouched(s) /\ s.orch \in {"preparing", "reconciling"}
        BY <3>1 DEF FactsOK, PhaseOK
      <3>. QED  BY <2>1, <2>2, <3>1, <3>2, BeforeSubmission DEF Untouched, OrchestrationTerminal
    <2>3. CASE j.submitStarted /\ ~j.remote
      BY <2>1, <2>3, AfterSubmission DEF Submitted, CancellationPending
    <2>4. CASE j.submitStarted /\ j.remote
      BY <2>1, <2>4, WhileObserved
    <2>. QED  BY <2>1, <2>2, <2>3, <2>4
  <1>4. c \in {"not_requested", "manual_required"} /\ c \in Cancellations
        /\ (s.cancel # "not_requested" => c = "manual_required")
        /\ (s.cancel = "not_requested" => c = "not_requested")
    BY <1>3, ManualFacts DEF ManualIfPending, CancellationPending
  <1>. HIDE DEF n, ended, p, l, f, c, r
  <1>5. /\ r.j \in Journals /\ r.j.phase = f /\ r.j.plan /\ r.j.submitStarted = j.submitStarted
        /\ r.j.remote = j.remote /\ r.j.absence = j.absence /\ r.j.problem = p
    BY <1>1, <1>2, <1>3 DEF Journals, Phases
  <1>6. IntentOK(r.j, LedgerStatus(r.j, "fault", i))
    BY <1>1, <1>5 DEF FactsOK, IntentOK, LedgerStatus
  <1>7. CASE ended
    <2>1. /\ r.s \in AttemptStates /\ r.s.orch = "needs_attention" /\ r.s.cancel = c /\ r.s.exec = s.exec
          /\ r.s.remote = s.remote /\ r.s.release = s.release /\ r.s.result = s.result
          /\ r.s.deadline = s.deadline
      BY <1>2, <1>4, <1>7 DEF AttemptStates, Orchestrations
    <2>2. /\ ~j.submitStarted => Untouched(r.s)
          /\ j.submitStarted /\ ~j.remote => Submitted(r.s)
      BY <1>3, <1>4, <2>1 DEF Untouched, Submitted
    <2>3. PhaseOK(r.j, r.s)
      BY <1>1, <1>3, <1>4, <1>5, <1>7, <2>1, <2>2 DEF PhaseOK
    <2>4. Applied(j, s, i, o, r, "fault")
      BY <1>3, <1>4, <1>5, <1>6, <2>1, <2>3 DEF Applied, CancellationPending
    <2>. QED  BY <1>3, <1>5, <2>1, <2>4 DEF r
  <1>8. CASE ~ended
    <2>1. /\ r.s \in AttemptStates /\ r.s.orch = (IF j.submitStarted THEN "reconciling" ELSE "preparing")
          /\ r.s.cancel = s.cancel /\ r.s.exec = s.exec
          /\ r.s.remote = s.remote /\ r.s.release = s.release /\ r.s.result = s.result
          /\ r.s.deadline = s.deadline
      BY <1>2, <1>8 DEF AttemptStates, Orchestrations
    <2>2. /\ ~j.submitStarted => Untouched(r.s)
          /\ j.submitStarted /\ ~j.remote => Submitted(r.s)
      BY <1>3, <2>1 DEF Untouched, Submitted
    <2>3. PhaseOK(r.j, r.s)
      BY <1>1, <1>3, <1>5, <1>8, <2>1, <2>2 DEF PhaseOK
    <2>4. CancellationPending(s) => j.phase \in {"submitting", "submitted"}
      BY <1>3 DEF CancellationPending, Untouched
    <2>5. Applied(j, s, i, o, r, "fault")
      BY <1>1, <1>3, <1>5, <1>6, <1>8, <2>1, <2>3, <2>4 DEF Applied, CancellationPending
    <2>. QED  BY <1>3, <1>5, <2>1, <2>5 DEF r
  <1>. QED  BY <1>1, <1>7, <1>8

\* Either kind of failure.
LEMMA FaultFacts ==
    ASSUME NEW j \in Journals, NEW s \in AttemptStates, NEW o \in Operations, NEW i,
           FactsOK(j, s, i, o), 
           j.phase \in {"local", "staging", "ready", "submitting", "submitted"},
           NEW permanent \in BOOLEAN, NEW named \in BOOLEAN
    PROVE  LET r == Fault(j, s, permanent, named)
           IN  /\ Applied(j, s, i, o, r, "fault")
               /\ r.s.exec = s.exec /\ r.s.remote = s.remote /\ r.j.absence = j.absence /\ (r.j.plan => j.plan)
  <1>. DEFINE k == IF named /\ j.submitStarted /\ ~j.remote THEN [j EXCEPT !.named = TRUE] ELSE j
  <1>0. /\ j.plan <=> j.phase # "local"
        /\ j.phase = "local" => ~j.submitStarted
    BY DEF FactsOK, ValidJournal, Journals, PhaseOK
  <1>1. /\ k \in Journals /\ k.phase = j.phase /\ k.plan = j.plan /\ k.submitStarted = j.submitStarted
        /\ k.remote = j.remote /\ k.absence = j.absence
    BY DEF Journals
  <1>2. CASE j.phase = "local"
    <2>1. Fault(j, s, permanent, named) = LocalFault(j, s, permanent)
      BY <1>0, <1>2 DEF Fault
    <2>. QED  BY <1>2, <2>1, LocalFaultFacts
  <1>3. CASE j.phase # "local"
    <2>1. Fault(j, s, permanent, named) = RemoteFault(k, s, permanent)
      BY <1>0, <1>3 DEF Fault
    <2>. HIDE DEF k
    <2>2. j.phase \in {"staging", "ready", "submitting", "submitted"}
      BY <1>3
    <2>. QED  BY <1>1, <2>1, <2>2, RemoteFaultFacts
  <1>. QED  BY <1>2, <1>3

-----------------------------------------------------------------------------
(* Sessions.                                                               *)

\* A session that gained neither a permit nor an answer.
Quieter(x, y) ==
    /\ x.pc # "idle" => y.pc # "idle" /\ x.a = y.a
    /\ x.pc \in {"prepare", "start", "stop", "starting"} => x.pc = y.pc
    /\ x.ans = NoAnswer \/ (x.ans = y.ans /\ x.pc = y.pc /\ x.a = y.a)
    /\ x.fresh => y.fresh \/ x.pc = "idle"

\* The constants that sessions start from.
LEMMA Starting ==
    /\ NoAnswer \in Answers /\ NoAnswer.kind = "none" /\ NoAnswer.val = "none"
    /\ Idle \in Sessions /\ Idle.pc = "idle" /\ Idle.ans = NoAnswer /\ Idle.a = 1 /\ Idle.fresh
    /\ 1 \in Attempts
  <1>1. NoAnswer \in Answers /\ NoAnswer.kind = "none" /\ NoAnswer.val = "none"
    BY DEF NoAnswer, Answer, Answers
  <1>2. 1 \in Attempts
    BY DispatchAssumption DEF Attempts
  <1>. QED  BY <1>1, <1>2 DEF Idle, Sessions, Pcs

\* Lost, Goto and Idle leave a session quieter.
LEMMA LostFacts ==
    ASSUME NEW y \in Sessions, y.pc # "answered" => y.ans.kind = "none"
    PROVE  /\ Lost(y) \in Sessions /\ Quieter(Lost(y), y) /\ Quieter(y, y)
           /\ Quieter(Idle, y)
           /\ Lost(y).pc = "idle" \/ ~Lost(y).fresh
  <1>1. Quieter(y, y)
    BY DEF Quieter
  <1>2. Quieter(Idle, y)
    BY Starting DEF Quieter
  <1>3. CASE y.pc = "idle"
    BY <1>1, <1>2, <1>3 DEF Lost
  <1>4. CASE y.pc # "idle"
    <2>. DEFINE p == IF y.pc \in Calling THEN y.pc ELSE "done"
    <2>1. p \in Pcs /\ p # "idle" /\ (p # "done" => p = y.pc)
      BY <1>4 DEF Pcs, Calling, Sessions
    <2>2. Lost(y) = [y EXCEPT !.fresh = FALSE, !.ans = NoAnswer, !.pc = p]
      BY <1>4 DEF Lost
    <2>. HIDE DEF p
    <2>3. /\ Lost(y) \in Sessions /\ Lost(y).fresh = FALSE /\ Lost(y).ans = NoAnswer /\ Lost(y).pc = p
          /\ Lost(y).a = y.a
      BY <2>1, <2>2, Starting DEF Sessions
    <2>. QED  BY <1>1, <1>2, <1>4, <2>1, <2>3 DEF Quieter
  <1>. QED  BY <1>3, <1>4

\* Goto gives up the answer and moves on.
LEMMA GotoFacts ==
    ASSUME sess \in [Workers -> Sessions], NEW w \in Workers, NEW pc \in Pcs, Goto(w, pc)
    PROVE  /\ sess' \in [Workers -> Sessions]
           /\ sess'[w].pc = pc /\ sess'[w].ans = NoAnswer /\ sess'[w].a = sess[w].a
           /\ sess'[w].fresh = sess[w].fresh
           /\ \A v \in Workers : v # w => sess'[v] = sess[v]
           /\ sess[w].pc # "idle" /\ pc \notin {"prepare", "start", "stop", "starting"} =>
                Quieter(sess'[w], sess[w])
  <1>. DEFINE x == [sess[w] EXCEPT !.pc = pc, !.ans = NoAnswer]
  <1>1. sess[w] \in Sessions
    OBVIOUS
  <1>2. x \in Sessions /\ x.pc = pc /\ x.ans = NoAnswer /\ x.a = sess[w].a /\ x.fresh = sess[w].fresh
    BY <1>1, Starting DEF Sessions
  <1>3. sess' = [sess EXCEPT ![w] = x]
    BY <1>1 DEF Goto, Sessions
  <1>. HIDE DEF x
  <1>. QED  BY <1>1, <1>2, <1>3 DEF Quieter

\* A quieter session knows nothing false and holds no permit it did not hold.
LEMMA QuietSession ==
    ASSUME IInv, NEW v \in Workers, sess'[v] \in Sessions, world' = world, active' \in Attempts, active <= active',
           Quieter(sess'[v], sess[v]),
           \A a \in Attempts : /\ jr[a].plan => jr'[a].plan
                               /\ jr[a].submitStarted => jr'[a].submitStarted
                               /\ op[a].started => op'[a].started
    PROVE  SessOK(v)'
  <1>1. sess[v] \in Sessions /\ SessOK(v)
    BY DEF IInv, TypeOK, SessInv
  <1>. DEFINE a == sess'[v].a
  <1>2. a \in Attempts
    BY <1>1 DEF Sessions
  <1>3. sess'[v].pc # "idle" => a <= active'
    BY <1>1, <1>2 DEF SessOK, Quieter, IInv, TypeOK, Attempts
  <1>4. sess'[v].pc # "answered" => sess'[v].ans.kind = "none"
    BY <1>1, Starting DEF SessOK, Quieter
  <1>5. /\ sess'[v].pc = "prepare" => jr'[a].plan /\ world'[a].prepares = 0
        /\ sess'[v].pc = "start" => jr'[a].submitStarted /\ world'[a].starts = 0
        /\ sess'[v].pc = "stop" => op'[a].started /\ world'[a].cancels = 0
    BY <1>1, <1>2 DEF SessOK, Quieter
  <1>6. AnswerTrue(sess'[v].ans, world'[a])
    <2>1. CASE sess'[v].ans = NoAnswer
      BY <2>1, Starting DEF AnswerTrue
    <2>2. CASE sess'[v].ans = sess[v].ans /\ a = sess[v].a
      BY <1>1, <2>2 DEF SessOK
    <2>. QED  BY <1>1, <2>1, <2>2 DEF Quieter
  <1>. QED  BY <1>3, <1>4, <1>5, <1>6 DEF SessOK

\* Quieter sessions hold no permit twice and start nothing new.
LEMMA QuietSessions ==
    ASSUME IInv, sess' \in [Workers -> Sessions], world' = world, active' \in Attempts, active <= active',
           \A v \in Workers : Quieter(sess'[v], sess[v]),
           \A a \in Attempts : /\ jr[a].plan => jr'[a].plan
                               /\ jr[a].submitStarted => jr'[a].submitStarted
                               /\ op[a].started => op'[a].started
    PROVE  /\ SessInv' /\ AloneInv'
           /\ \A a \in Attempts : /\ ~StartPending(a) => ~StartPending(a)'
                                  /\ ~OutdatedInventory(a) => ~OutdatedInventory(a)'
  <1>1. ASSUME NEW v \in Workers PROVE SessOK(v)'
    BY QuietSession
  <1>2. ASSUME NEW u \in Workers, NEW v \in Workers, u # v PROVE AloneOK(u, v)'
    <2>1. AloneOK(u, v) /\ Quieter(sess'[u], sess[u]) /\ Quieter(sess'[v], sess[v])
      BY <1>2 DEF IInv, AloneInv
    <2>. QED  BY <2>1 DEF AloneOK, Quieter
  <1>3. ASSUME NEW a \in Attempts PROVE ~StartPending(a) => ~StartPending(a)'
    BY DEF StartPending, Quieter
  <1>4. ASSUME NEW a \in Attempts PROVE ~OutdatedInventory(a) => ~OutdatedInventory(a)'
    BY Starting DEF OutdatedInventory, Quieter
  <1>. QED  BY <1>1, <1>2, <1>3, <1>4 DEF SessInv, AloneInv

\* A session that holds no answer and is not starting relies on nothing.
LEMMA OwnerRests ==
    ASSUME NEW v \in Workers, sess'[v].ans.kind = "none", sess'[v].pc \notin {"start", "starting"}
    PROVE  OwnerOK(v)'
  BY DEF OwnerOK

\* A quieter session relies on no more than before, where nothing was written.
LEMMA OwnerKeeps ==
    ASSUME IInv, NEW v \in Workers, sess'[v] \in Sessions, Quieter(sess'[v], sess[v]), active' = active,
           lease' \in [Attempts -> Workers \cup {NoWorker}],
           \A b \in Attempts : lease'[b] \in {lease[b], NoWorker},
           st'[sess'[v].a] = st[sess'[v].a], jr'[sess'[v].a] = jr[sess'[v].a]
    PROVE  OwnerOK(v)'
  <1>1. sess[v] \in Sessions /\ SessOK(v) /\ OwnerOK(v) /\ NoWorker \notin Workers
    BY DispatchAssumption DEF IInv, TypeOK, SessInv, OwnerInv
  <1>2. CASE sess'[v].pc = "idle"
    <2>1. sess'[v].ans.kind = "none"
      BY <1>1, <1>2, Starting DEF Quieter, SessOK
    <2>. QED  BY <1>2, <2>1, OwnerRests
  <1>3. CASE sess'[v].pc # "idle"
    <2>1. sess'[v].a = sess[v].a /\ sess'[v].a \in Attempts /\ (sess'[v].fresh => sess[v].fresh)
      BY <1>1, <1>3 DEF Quieter, Sessions
    <2>2. Owns(v)' => Owns(v)
      BY <1>1, <2>1 DEF Owns
    <2>3. sess'[v].ans.kind = "none" \/ sess'[v].ans = sess[v].ans
      BY Starting DEF Quieter
    <2>4. sess'[v].pc \in {"start", "starting"} => sess[v].pc = sess'[v].pc
      BY DEF Quieter
    <2>. QED  BY <1>1, <2>1, <2>2, <2>3, <2>4 DEF OwnerOK, UnconfirmedPreparation
  <1>. QED  BY <1>2, <1>3

-----------------------------------------------------------------------------
(* Frames of the steps.                                                    *)

\* A step that writes no fact of an attempt but a grant, and leaves sessions quieter.
LEMMA QuietStep ==
    ASSUME IInv, UNCHANGED <<st, jr, intent, op, active, world>>,
           grant' \in [Attempts -> {"none", "granted", "consumed"}],
           \A b \in Attempts : /\ jr[b].plan => grant'[b] = "consumed"
                               /\ b > active => grant'[b] = grant[b],
           lease' \in [Attempts -> Workers \cup {NoWorker}],
           \A b \in Attempts : lease'[b] \in {lease[b], NoWorker},
           running' \in BOOLEAN, expired' \in BOOLEAN,
           sess' \in [Workers -> Sessions], \A v \in Workers : Quieter(sess'[v], sess[v])
    PROVE  IInv'
  <1>1. TypeOK'
    BY DEF IInv, TypeOK
  <1>2. RecordInv'
    BY DEF IInv, RecordInv, RecordOK
  <1>3. AgeInv'
    BY DEF IInv, AgeInv, AgeOK
  <1>4. EffectInv'
    BY DEF IInv, EffectInv, EffectOK
  <1>5. /\ SessInv' /\ AloneInv'
        /\ \A a \in Attempts : /\ ~StartPending(a) => ~StartPending(a)'
                               /\ ~OutdatedInventory(a) => ~OutdatedInventory(a)'
    <2>1. active' \in Attempts /\ active <= active'
      BY DEF IInv, TypeOK, Attempts
    <2>. QED  BY <2>1, QuietSessions
  <1>6. RunInv'
    BY <1>5 DEF IInv, RunInv, RunOK, Live
  <1>7. OwnerInv'
    <2>1. ASSUME NEW v \in Workers PROVE OwnerOK(v)'
      BY OwnerKeeps
    <2>. QED  BY <2>1 DEF OwnerInv
  <1>. QED  BY <1>1, <1>2, <1>3, <1>4, <1>5, <1>6, <1>7 DEF IInv

\* A step that writes no fact of an attempt.
LEMMA RestStep ==
    ASSUME IInv, UNCHANGED <<durable, world>>,
           lease' \in [Attempts -> Workers \cup {NoWorker}],
           \A b \in Attempts : lease'[b] \in {lease[b], NoWorker},
           running' \in BOOLEAN, expired' \in BOOLEAN,
           sess' \in [Workers -> Sessions], \A v \in Workers : Quieter(sess'[v], sess[v])
    PROVE  IInv'
  <1>1. grant' \in [Attempts -> {"none", "granted", "consumed"}]
    BY DEF IInv, TypeOK, durable
  <1>2. \A b \in Attempts : (jr[b].plan => grant'[b] = "consumed") /\ (b > active => grant'[b] = grant[b])
    BY DEF IInv, RecordInv, RecordOK, durable
  <1>. QED  BY <1>1, <1>2, QuietStep DEF durable

\* A step of one session that writes nothing and takes no permit.
LEMMA GotoStep ==
    ASSUME IInv, NEW w \in Workers, sess[w].pc # "idle", NEW pc \in {"done", "loaded", "expire", "consented"},
           Goto(w, pc), UNCHANGED <<st, jr, intent, op, active, lease, expired, world>>, running' \in BOOLEAN,
           grant' \in [Attempts -> {"none", "granted", "consumed"}],
           \A b \in Attempts : /\ jr[b].plan => grant'[b] = "consumed"
                               /\ b > active => grant'[b] = grant[b]
    PROVE  IInv'
  <1>1. /\ sess \in [Workers -> Sessions] /\ lease \in [Attempts -> Workers \cup {NoWorker}]
        /\ expired \in BOOLEAN
        /\ \A v \in Workers : sess[v].pc # "answered" => sess[v].ans.kind = "none"
    BY DEF IInv, TypeOK, SessInv, SessOK
  <1>2. /\ sess' \in [Workers -> Sessions] /\ Quieter(sess'[w], sess[w])
        /\ \A v \in Workers : v # w => sess'[v] = sess[v]
    BY <1>1, GotoFacts DEF Pcs
  <1>3. \A v \in Workers : Quieter(sess'[v], sess[v])
    BY <1>1, <1>2, LostFacts
  <1>. QED  BY <1>1, <1>2, <1>3, QuietStep

\* The same, with the grants as they are.
LEMMA PassStep ==
    ASSUME IInv, NEW w \in Workers, sess[w].pc # "idle", NEW pc \in {"done", "loaded", "expire"},
           Goto(w, pc), UNCHANGED <<durable, lease, expired, world>>, running' \in BOOLEAN
    PROVE  IInv'
  <1>1. grant' \in [Attempts -> {"none", "granted", "consumed"}]
    BY DEF IInv, TypeOK, durable
  <1>2. \A b \in Attempts : (jr[b].plan => grant'[b] = "consumed") /\ (b > active => grant'[b] = grant[b])
    BY DEF IInv, RecordInv, RecordOK, durable
  <1>. QED  BY <1>1, <1>2, GotoStep DEF durable

\* Facts that may be written of attempt a.
Admissible(a, j, s, i, o) ==
    /\ j \in Journals /\ s \in AttemptStates /\ i \in Intents /\ o \in Operations
    /\ FactsOK(j, s, i, o)
    /\ j.plan => grant[a] = "consumed"
    /\ jr[a].plan => j.plan
    /\ jr[a].submitStarted => j.submitStarted
    /\ op[a].started => o.started
    /\ a <= active
    /\ a < active => s.orch \in OrchestrationTerminal

\* They are what is true of the run.
Truthful(a, j, s) ==
    /\ s.exec \in ExecutionTerminal => world[a].exec \in {s.exec, "gone"}
    /\ s.exec \in ExecutionActive => world[a].exec \in Landed \cup {"gone"}
    /\ s.exec = "not_submitted" => world[a].exec \in {"none", "lost", "gone"}
    /\ s.remote = "inactive" => ~Live(world[a]) /\ ~StartPending(a)
    /\ j.absence = "elapsed" => ~StartPending(a) /\ ~OutdatedInventory(a)

\* They are written, and nothing else is but sessions, and whether claims go on.
Written(a, j, s, i, o) ==
    /\ jr' = [jr EXCEPT ![a] = j]
    /\ st' = [st EXCEPT ![a] = s]
    /\ intent' = [intent EXCEPT ![a] = i]
    /\ op' = [op EXCEPT ![a] = o]
    /\ UNCHANGED <<grant, active, lease, expired, world>>

\* The facts of every attempt after a write.
LEMMA WriteFacts ==
    ASSUME IInv, NEW a \in Attempts, NEW j, NEW s, NEW i, NEW o,
           Admissible(a, j, s, i, o), Written(a, j, s, i, o)
    PROVE  /\ jr'[a] = j /\ st'[a] = s /\ intent'[a] = i /\ op'[a] = o
           /\ \A b \in Attempts : b # a => /\ jr'[b] = jr[b] /\ st'[b] = st[b]
                                           /\ intent'[b] = intent[b] /\ op'[b] = op[b]
           /\ \A b \in Attempts : /\ jr[b].plan => jr'[b].plan
                                  /\ jr[b].submitStarted => jr'[b].submitStarted
                                  /\ op[b].started => op'[b].started
           /\ RecordInv' /\ AgeInv' /\ EffectInv'
           /\ sess' \in [Workers -> Sessions] /\ running' \in BOOLEAN => TypeOK'
  <1>1. /\ jr \in [Attempts -> Journals] /\ st \in [Attempts -> AttemptStates]
        /\ intent \in [Attempts -> Intents] /\ op \in [Attempts -> Operations] /\ active \in Nat
    BY DEF IInv, TypeOK, Intents, Attempts
  <1>2. /\ jr'[a] = j /\ st'[a] = s /\ intent'[a] = i /\ op'[a] = o
        /\ \A b \in Attempts : b # a => /\ jr'[b] = jr[b] /\ st'[b] = st[b]
                                        /\ intent'[b] = intent[b] /\ op'[b] = op[b]
    BY <1>1 DEF Written
  <1>3. \A b \in Attempts : /\ jr[b].plan => jr'[b].plan
                            /\ jr[b].submitStarted => jr'[b].submitStarted
                            /\ op[b].started => op'[b].started
    BY <1>2 DEF Admissible
  <1>4. RecordInv'
    <2>1. ASSUME NEW b \in Attempts PROVE RecordOK(b)'
      <3>1. CASE b = a
        BY <1>2, <3>1 DEF Admissible, Written, RecordOK
      <3>2. CASE b # a
        BY <1>2, <3>2 DEF Written, RecordOK, IInv, RecordInv
      <3>. QED  BY <3>1, <3>2
    <2>. QED  BY <2>1 DEF RecordInv
  <1>5. AgeInv'
    <2>1. ASSUME NEW b \in Attempts PROVE AgeOK(b)'
      <3>1. CASE b = a
        BY <1>1, <1>2, <3>1 DEF Admissible, Written, AgeOK, Attempts
      <3>2. CASE b # a
        BY <1>2, <3>2 DEF Written, AgeOK, IInv, AgeInv
      <3>. QED  BY <3>1, <3>2
    <2>. QED  BY <2>1 DEF AgeInv
  <1>6. EffectInv'
    BY <1>3 DEF Written, IInv, EffectInv, EffectOK
  <1>7. ASSUME sess' \in [Workers -> Sessions], running' \in BOOLEAN PROVE TypeOK'
    BY <1>1, <1>7 DEF Admissible, Written, IInv, TypeOK, Intents
  <1>. QED  BY <1>2, <1>3, <1>4, <1>5, <1>6, <1>7

\* Truthful facts stay so while nothing new is started or outdated.
LEMMA WriteRun ==
    ASSUME IInv, NEW a \in Attempts, NEW j, NEW s, NEW i, NEW o,
           Admissible(a, j, s, i, o), Written(a, j, s, i, o), Truthful(a, j, s),
           \A b \in Attempts : /\ ~StartPending(b) => ~StartPending(b)'
                               /\ ~OutdatedInventory(b) => ~OutdatedInventory(b)'
    PROVE  RunInv'
  <1>1. world' = world
    BY DEF Written
  <1>2. ASSUME NEW b \in Attempts PROVE RunOK(b)'
    <2>1. CASE b = a
      <3>1. jr'[b] = j /\ st'[b] = s
        BY <2>1, WriteFacts
      <3>. QED  BY <1>1, <2>1, <3>1 DEF Truthful, RunOK
    <2>2. CASE b # a
      <3>1. jr'[b] = jr[b] /\ st'[b] = st[b] /\ RunOK(b)
        BY <2>2, WriteFacts DEF IInv, RunInv
      <3>. QED  BY <1>1, <3>1 DEF RunOK
    <2>. QED  BY <2>1, <2>2
  <1>. QED  BY <1>2 DEF RunInv

\* A write that leaves sessions quieter, and nobody on the attempt who relies on more.
LEMMA WriteStep ==
    ASSUME IInv, NEW a \in Attempts, NEW j, NEW s, NEW i, NEW o,
           Admissible(a, j, s, i, o), Written(a, j, s, i, o), Truthful(a, j, s),
           running' \in BOOLEAN, sess' \in [Workers -> Sessions],
           \A v \in Workers : /\ Quieter(sess'[v], sess[v])
                              /\ sess'[v].a = a => OwnerOK(v)'
    PROVE  IInv'
  <1>1. /\ \A b \in Attempts : b # a => /\ jr'[b] = jr[b] /\ st'[b] = st[b]
        /\ \A b \in Attempts : /\ jr[b].plan => jr'[b].plan
                               /\ jr[b].submitStarted => jr'[b].submitStarted
                               /\ op[b].started => op'[b].started
        /\ RecordInv' /\ AgeInv' /\ EffectInv' /\ TypeOK'
    BY WriteFacts
  <1>2. world' = world /\ active' = active /\ active \in Attempts /\ active <= active /\ lease' = lease
        /\ lease \in [Attempts -> Workers \cup {NoWorker}]
    BY DEF Written, IInv, TypeOK, Attempts
  <1>3. /\ SessInv' /\ AloneInv'
        /\ \A b \in Attempts : /\ ~StartPending(b) => ~StartPending(b)'
                               /\ ~OutdatedInventory(b) => ~OutdatedInventory(b)'
    BY <1>1, <1>2, QuietSessions
  <1>4. RunInv'
    BY <1>3, WriteRun
  <1>5. ASSUME NEW v \in Workers PROVE OwnerOK(v)'
    <2>1. CASE sess'[v].a = a
      BY <2>1
    <2>2. CASE sess'[v].a # a
      <3>1. sess'[v] \in Sessions /\ sess'[v].a \in Attempts
        BY DEF Sessions
      <3>. QED  BY <1>1, <1>2, <2>2, <3>1, OwnerKeeps
    <2>. QED  BY <2>1, <2>2
  <1>. QED  BY <1>1, <1>3, <1>4, <1>5 DEF IInv, OwnerInv

-----------------------------------------------------------------------------
(* Commits of a session.                                                   *)

\* Nothing of an attempt was started unless something was submitted.
LEMMA Unstarted ==
    ASSUME IInv, NEW a \in Attempts
    PROVE  /\ ~jr[a].submitStarted => world[a].exec = "none" /\ ~StartPending(a)
           /\ world[a].exec # "none" => \A v \in Workers : ~(sess[v].pc = "start" /\ sess[v].a = a)
  <1>1. EffectOK(a) /\ \A v \in Workers : SessOK(v)
    BY DEF IInv, EffectInv, SessInv
  <1>2. world[a].starts \in 0..1 /\ (world[a].starts = 1 => jr[a].submitStarted)
        /\ (world[a].starts = 0 => world[a].exec = "none")
    BY <1>1 DEF EffectOK
  <1>3. \A v \in Workers : sess[v].pc = "start" /\ sess[v].a = a => jr[a].submitStarted /\ world[a].starts = 0
    BY <1>1 DEF SessOK
  <1>. QED  BY <1>2, <1>3 DEF StartPending

\* The facts that a commit writes when Apply accepts them.
LEMMA CommitWrites ==
    ASSUME IInv, NEW w \in Workers, NEW a, a = sess[w].a, NEW r, NEW kind, NEW pc \in Pcs,
           CommitDispatch(w, r, kind, pc), Commits(st[a], r),
           Applied(jr[a], st[a], intent[a], op[a], r, kind), r.j.plan => grant[a] = "consumed"
    PROVE  LET f == Finish(r.j, r.s, op[a], kind)
               i == LedgerStatus(r.j, kind, intent[a])
           IN  /\ a \in Attempts /\ a = active
               /\ Admissible(a, r.j, f.s, i, f.o) /\ Written(a, r.j, f.s, i, f.o)
               /\ f.s.exec = r.s.exec /\ f.s.remote = r.s.remote
               /\ f.s.orch \in OrchestrationTerminal <=> r.s.orch \in OrchestrationTerminal
               /\ f.o.started = op[a].started
               /\ kind # "observed" => f.s = r.s
               /\ Goto(w, pc) /\ running' = running
  <1>. DEFINE f == Finish(r.j, r.s, op[a], kind)
              i == LedgerStatus(r.j, kind, intent[a])
  <1>1. a \in Attempts /\ a = active /\ active \in Nat /\ sess[w] \in Sessions
    BY DEF IInv, TypeOK, Sessions, CommitDispatch, Owns, Attempts
  <1>2. jr[a] \in Journals /\ st[a] \in AttemptStates /\ op[a] \in Operations /\ intent[a] \in Intents
    BY <1>1 DEF IInv, TypeOK, Intents
  <1>3. RecordOK(a) /\ ValidState(r.s) /\ ValidJournal(r.j)
    BY <1>1 DEF IInv, RecordInv, Commits, ValidTransition
  <1>4. /\ FactsOK(r.j, f.s, i, f.o)
        /\ f.s \in AttemptStates /\ f.o \in Operations
        /\ f.o.started = op[a].started
        /\ f.s.exec = r.s.exec /\ f.s.remote = r.s.remote
        /\ f.s.orch \in OrchestrationTerminal <=> r.s.orch \in OrchestrationTerminal
        /\ kind # "observed" => f.s = r.s
    BY <1>2, <1>3, FinishFacts DEF RecordOK
  <1>5. i \in Intents
    BY <1>2 DEF Intents, LedgerStatus
  <1>6. /\ jr' = [jr EXCEPT ![a] = r.j] /\ st' = [st EXCEPT ![a] = f.s] /\ op' = [op EXCEPT ![a] = f.o]
        /\ intent' = [intent EXCEPT ![a] = i] /\ Goto(w, pc) /\ UNCHANGED running
        /\ UNCHANGED <<grant, active, lease, expired, world>>
    BY DEF CommitDispatch
  <1>. HIDE DEF f, i
  <1>7. Written(a, r.j, f.s, i, f.o)
    BY <1>6 DEF Written
  <1>8. Admissible(a, r.j, f.s, i, f.o)
    BY <1>1, <1>4, <1>5 DEF Admissible, Applied
  <1>. QED  BY <1>1, <1>4, <1>6, <1>7, <1>8 DEF f, i

\* A commit of what Apply computed, by the session that owns the attempt, or the end of
\* the engine when Apply refuses it.
LEMMA CommitStep ==
    ASSUME IInv, NEW w \in Workers, NEW a, a = sess[w].a, NEW r, NEW kind, sess[w].pc # "idle",
           CommitDispatch(w, r, kind, "done"),
           Applied(jr[a], st[a], intent[a], op[a], r, kind), r.j.plan => grant[a] = "consumed",
           r.j.submitStarted => Truthful(a, r.j, r.s)
    PROVE  IInv'
  <1>. DEFINE f == Finish(r.j, r.s, op[a], kind)
              i == LedgerStatus(r.j, kind, intent[a])
  <1>1. sess \in [Workers -> Sessions] /\ lease \in [Attempts -> Workers \cup {NoWorker}]
        /\ running \in BOOLEAN /\ expired \in BOOLEAN
        /\ \A v \in Workers : sess[v].pc # "answered" => sess[v].ans.kind = "none"
    BY DEF IInv, TypeOK, SessInv, SessOK
  <1>2. Goto(w, "done") /\ "done" \in Pcs
    BY DEF CommitDispatch, Pcs
  <1>3. /\ sess' \in [Workers -> Sessions]
        /\ sess'[w].pc = "done" /\ sess'[w].ans = NoAnswer
        /\ \A v \in Workers : v # w => sess'[v] = sess[v]
        /\ Quieter(sess'[w], sess[w])
    BY <1>1, <1>2, GotoFacts
  <1>4. \A v \in Workers : Quieter(sess'[v], sess[v])
    <2>1. \A v \in Workers : v # w => Quieter(sess[v], sess[v])
      BY <1>1, LostFacts
    <2>. QED  BY <1>3, <2>1
  <1>5. CASE ~Commits(st[a], r)
    <2>1. UNCHANGED <<jr, st, op, intent, grant, active, lease, expired, world>> /\ running' = FALSE
      BY <1>5 DEF CommitDispatch
    <2>. QED  BY <1>1, <1>2, <2>1, PassStep DEF durable
  <1>6. CASE Commits(st[a], r)
    <2>1. /\ a \in Attempts /\ Admissible(a, r.j, f.s, i, f.o) /\ Written(a, r.j, f.s, i, f.o)
          /\ f.s.exec = r.s.exec /\ f.s.remote = r.s.remote /\ running' = running
      BY <1>2, <1>6, CommitWrites
    <2>2. Owns(w) /\ lease' = lease
      BY DEF CommitDispatch
    <2>3. ASSUME NEW v \in Workers, sess'[v].a = a PROVE OwnerOK(v)'
      <3>1. CASE v = w
        BY <1>3, <3>1, OwnerRests, Starting
      <3>2. CASE v # w
        <4>1. ~Owns(v)'
          BY <1>3, <2>2, <2>3, <3>2 DEF Owns
        <4>. QED  BY <4>1 DEF OwnerOK
      <3>. QED  BY <3>1, <3>2
    <2>4. Truthful(a, r.j, f.s)
      <3>1. CASE r.j.submitStarted
        BY <2>1, <3>1 DEF Truthful
      <3>2. CASE ~r.j.submitStarted
        <4>1. ~jr[a].submitStarted
          BY <3>2 DEF Applied
        <4>2. world[a].exec = "none" /\ ~StartPending(a)
          BY <2>1, <4>1, Unstarted
        <4>3. f.s.exec = "not_submitted" /\ f.s.remote = "not_started" /\ r.j.absence = "unset"
          <5>. HIDE DEF f, i
          <5>1. FactsOK(r.j, f.s, i, f.o) /\ r.j \in Journals /\ f.s \in AttemptStates /\ f.o \in Operations
            BY <2>1 DEF Admissible
          <5>. QED  BY <3>2, <5>1, BeforeSubmission
        <4>. QED  BY <4>2, <4>3, Names DEF Truthful
      <3>. QED  BY <3>1, <3>2
    <2>. HIDE DEF f, i
    <2>. QED  BY <1>1, <1>3, <1>4, <2>1, <2>3, <2>4, WriteStep
  <1>. QED  BY <1>5, <1>6

\* What a session may rely on that commits to its attempt.
LEMMA Context ==
    ASSUME IInv, NEW w \in Workers, NEW a, a = sess[w].a, Owns(w)
    PROVE  /\ a \in Attempts /\ a = active
           /\ jr[a] \in Journals /\ st[a] \in AttemptStates /\ op[a] \in Operations
           /\ FactsOK(jr[a], st[a], intent[a], op[a])
           /\ jr[a].plan => grant[a] = "consumed"
           /\ RunOK(a) /\ EffectOK(a) /\ SessOK(w) /\ OwnerOK(w)
           /\ sess[w] \in Sessions
  <1>1. a \in Attempts /\ a = active /\ sess[w] \in Sessions
    BY DEF IInv, TypeOK, Sessions, Owns
  <1>2. RecordOK(a) /\ RunOK(a) /\ EffectOK(a) /\ SessOK(w) /\ OwnerOK(w)
    BY <1>1 DEF IInv, RecordInv, RunInv, EffectInv, SessInv, OwnerInv
  <1>. QED  BY <1>1, <1>2 DEF IInv, TypeOK, RecordOK

\* Facts that say of the run what was said before.
LEMMA SameEvidence ==
    ASSUME NEW a, RunOK(a), NEW j, NEW s, s.exec = st[a].exec, s.remote = st[a].remote,
           j.absence = "elapsed" => jr[a].absence = "elapsed"
    PROVE  Truthful(a, j, s)
  BY DEF RunOK, Truthful

\* An absolute deadline ends an attempt that never reached the provider (Expire).
LEMMA ExpireStep ==
    ASSUME IInv, NEW w \in Workers, Expire(w)
    PROVE  IInv'
  <1>1. PICK a : a = sess[w].a
    OBVIOUS
  <1>2. PICK r : r = ExpireDispatch(jr[a], st[a])
    OBVIOUS
  <1>3. /\ CommitDispatch(w, r, "expire", "done") /\ ExpireDispatchAllowed(jr[a], st[a])
        /\ sess[w].pc # "idle" /\ Owns(w)
    BY <1>1, <1>2 DEF Expire, CommitDispatch
  <1>4. Applied(jr[a], st[a], intent[a], op[a], r, "expire")
    BY <1>1, <1>2, <1>3, Context, ExpireFacts
  <1>5. r.j.plan = jr[a].plan /\ r.j.submitStarted = jr[a].submitStarted /\ ~jr[a].submitStarted
    <2>1. jr[a] \in Journals
      BY <1>1, <1>3, Context
    <2>. QED  BY <1>2, <1>3, <2>1 DEF ExpireDispatch, ExpireDispatchAllowed, PreventDispatchAllowed, Problem, Journals
  <1>6. r.j.plan => grant[a] = "consumed"
    BY <1>1, <1>3, <1>5, Context
  <1>. QED  BY <1>1, <1>3, <1>4, <1>5, <1>6, CommitStep

\* Work that was not begun is refused when the job may not run (Refuse).
LEMMA RefuseStep ==
    ASSUME IInv, NEW w \in Workers, Refuse(w)
    PROVE  IInv'
  <1>1. PICK a : a = sess[w].a
    OBVIOUS
  <1>2. PICK r : r = RefuseNewWork(jr[a], st[a])
    OBVIOUS
  <1>3. /\ CommitDispatch(w, r, "refuse", "done") /\ RefuseNewWorkAllowed(jr[a], st[a])
        /\ sess[w].pc # "idle" /\ Owns(w)
    BY <1>1, <1>2 DEF Refuse, CommitDispatch, At
  <1>4. Applied(jr[a], st[a], intent[a], op[a], r, "refuse")
    BY <1>1, <1>2, <1>3, Context, RefuseFacts
  <1>5. r.j.plan = jr[a].plan /\ r.j.submitStarted = jr[a].submitStarted /\ ~jr[a].submitStarted
    <2>1. jr[a] \in Journals
      BY <1>1, <1>3, Context
    <2>. QED  BY <1>2, <1>3, <2>1 DEF RefuseNewWork, RefuseNewWorkAllowed, Problem, Journals
  <1>6. r.j.plan => grant[a] = "consumed"
    BY <1>1, <1>3, <1>5, Context
  <1>. QED  BY <1>1, <1>3, <1>4, <1>5, <1>6, CommitStep

\* A failure recorded of the attempt of a session, whatever it failed at.
LEMMA FaultStep ==
    ASSUME IInv, NEW w \in Workers, NEW a, a = sess[w].a, NEW r, NEW permanent \in BOOLEAN, NEW named \in BOOLEAN,
           r = Fault(jr[a], st[a], permanent, named), CommitDispatch(w, r, "fault", "done"),
           jr[a].phase \in {"local", "staging", "ready", "submitting", "submitted"}, sess[w].pc # "idle"
    PROVE  IInv'
  <1>1. Owns(w)
    BY DEF CommitDispatch
  <1>2. /\ Applied(jr[a], st[a], intent[a], op[a], r, "fault") /\ (r.j.plan => jr[a].plan)
        /\ r.s.exec = st[a].exec /\ r.s.remote = st[a].remote /\ r.j.absence = jr[a].absence
    BY <1>1, Context, FaultFacts
  <1>3. Truthful(a, r.j, r.s)
    BY <1>1, <1>2, Context, SameEvidence
  <1>4. r.j.plan => grant[a] = "consumed"
    BY <1>1, <1>2, Context
  <1>. QED  BY <1>2, <1>3, <1>4, CommitStep

\* A failed call is recorded, and may end the attempt or hand it to the owner.
LEMMA CommitFaultStep ==
    ASSUME IInv, NEW w \in Workers, CommitFault(w)
    PROVE  IInv'
  <1>1. PICK a : a = sess[w].a
    OBVIOUS
  <1>2. PICK p \in BOOLEAN : p = (sess[w].ans.val = "permanent")
    OBVIOUS
  <1>3. PICK n \in BOOLEAN : n = (sess[w].ans.val = "named")
    OBVIOUS
  <1>4. PICK r : r = Fault(jr[a], st[a], p, n)
    OBVIOUS
  <1>5. /\ CommitDispatch(w, r, "fault", "done") /\ FaultAllowed(jr[a], st[a])
        /\ sess[w].pc # "idle" /\ Owns(w)
    BY <1>1, <1>2, <1>3, <1>4 DEF CommitFault, CommitDispatch, Answered
  <1>6. jr[a].phase \in {"local", "staging", "ready", "submitting", "submitted"}
    <2>1. jr[a] \in Journals
      BY <1>1, <1>5, Context
    <2>. QED  BY <1>5, <2>1 DEF FaultAllowed, Journals, Phases
  <1>. QED  BY <1>1, <1>4, <1>5, <1>6, FaultStep

\* A preparation that could not be confirmed is given up or tried again.
LEMMA CommitUnreadyStep ==
    ASSUME IInv, NEW w \in Workers, CommitUnready(w)
    PROVE  IInv'
  <1>1. PICK a : a = sess[w].a
    OBVIOUS
  <1>2. sess[w].pc # "idle" /\ sess[w].ans.kind = "unready" /\ Owns(w)
    BY DEF CommitUnready, Answered, CommitDispatch
  <1>3. UnconfirmedPreparation(jr[a]) /\ jr[a] \in Journals
    BY <1>1, <1>2, Context DEF OwnerOK
  <1>4. PICK f : f = Fault(jr[a], st[a], FALSE, FALSE)
    OBVIOUS
  <1>5. PICK e : e = EndUnconfirmedPreparation(jr[a], st[a])
    OBVIOUS
  <1>6. CASE CommitDispatch(w, f, "fault", "done")
    BY <1>1, <1>2, <1>3, <1>4, <1>6, FaultStep DEF UnconfirmedPreparation
  <1>7. CASE EndUnconfirmedPreparationAllowed(jr[a], st[a]) /\ CommitDispatch(w, e, "end", "done")
    <2>1. Applied(jr[a], st[a], intent[a], op[a], e, "end")
      BY <1>1, <1>2, <1>5, <1>7, Context, EndPreparationFacts
    <2>2. ~e.j.submitStarted
      BY <1>3, <1>5 DEF EndUnconfirmedPreparation, UnconfirmedPreparation, Problem, Journals
    <2>3. grant[a] = "consumed"
      BY <1>1, <1>2, <1>3, Context DEF UnconfirmedPreparation
    <2>. QED  BY <1>1, <1>2, <1>7, <2>1, <2>2, <2>3, CommitStep
  <1>. QED  BY <1>1, <1>4, <1>5, <1>6, <1>7 DEF CommitUnready

\* What the provider says of the staged inputs is recorded.
LEMMA CommitPreparedStep ==
    ASSUME IInv, NEW w \in Workers, CommitPrepared(w)
    PROVE  IInv'
  <1>1. PICK a : a = sess[w].a
    OBVIOUS
  <1>2. PICK p : p = sess[w].ans.val
    OBVIOUS
  <1>3. PICK r : r = PreparationSeen(jr[a], st[a], p)
    OBVIOUS
  <1>4. /\ CommitDispatch(w, r, "prepared", "done") /\ PreparationSeenAllowed(jr[a], st[a])
        /\ sess[w].pc # "idle" /\ sess[w].ans.kind = "prepared" /\ Owns(w)
    BY <1>1, <1>2, <1>3 DEF CommitPrepared, CommitDispatch, Answered
  <1>5. p \in {"pending", "ready", "public"}
    BY <1>1, <1>2, <1>4, Context DEF SessOK, AnswerTrue
  <1>6. Applied(jr[a], st[a], intent[a], op[a], r, "prepared")
    BY <1>1, <1>3, <1>4, <1>5, Context, PreparedFacts
  <1>7. ~r.j.submitStarted /\ jr[a].plan
    <2>1. jr[a] \in Journals /\ ValidJournal(jr[a])
      BY <1>1, <1>4, Context DEF FactsOK
    <2>2. r.j.submitStarted = jr[a].submitStarted
      <3>1. CASE p = "public"
        BY <1>3, <2>1, <3>1 DEF PreparationSeen, Problem, Journals
      <3>2. CASE p # "public"
        BY <1>3, <2>1, <3>2 DEF PreparationSeen, Problem, Cleared, Journals
      <3>. QED  BY <3>1, <3>2
    <2>. QED  BY <1>4, <2>1, <2>2 DEF PreparationSeenAllowed, ValidJournal, Journals
  <1>8. grant[a] = "consumed"
    BY <1>1, <1>4, <1>7, Context
  <1>. QED  BY <1>1, <1>4, <1>6, <1>7, <1>8, CommitStep

\* A rejection is written when no run exists and none can appear.
LEMMA RejectionTrue ==
    ASSUME IInv, NEW a \in Attempts, world[a].exec \in {"none", "lost", "gone"}, ~StartPending(a),
           NEW j, NEW s, s.exec = "not_submitted", j.absence = "elapsed" => jr[a].absence = "elapsed"
    PROVE  Truthful(a, j, s)
  <1>1. RunOK(a)
    BY DEF IInv, RunInv
  <1>. QED  BY <1>1, Names DEF RunOK, Truthful, Live

\* The outcome of Start, or the run a read found, is recorded.
LEMMA CommitOutcomeStep ==
    ASSUME IInv, NEW w \in Workers, CommitOutcome(w)
    PROVE  IInv'
  <1>1. PICK a : a = sess[w].a
    OBVIOUS
  <1>2. PICK val : val = sess[w].ans.val
    OBVIOUS
  <1>3. PICK r : r = CASE val \in {"accepted", "none"} -> SubmissionAccepted(jr[a], st[a])
                       [] val \in {"rejected", "expired"} ->
                            SubmissionRejected(jr[a], st[a], val = "expired")
                       [] OTHER -> SubmissionUnknown(jr[a], st[a], val = "named")
    OBVIOUS
  <1>4. /\ CommitDispatch(w, r, "submission", "done") /\ SubmissionSeenAllowed(jr[a], st[a])
        /\ sess[w].pc # "idle" /\ sess[w].ans.kind \in {"start", "found"} /\ Owns(w)
    BY <1>1, <1>2, <1>3 DEF CommitOutcome, CommitDispatch, Answered
  <1>5. /\ a \in Attempts /\ jr[a] \in Journals /\ st[a] \in AttemptStates /\ op[a] \in Operations
        /\ FactsOK(jr[a], st[a], intent[a], op[a]) /\ RunOK(a)
    BY <1>1, <1>4, Context
  <1>6. /\ jr[a].phase = "submitting" /\ jr[a].submitStarted /\ ~jr[a].remote
    BY <1>4 DEF SubmissionSeenAllowed
  <1>7. jr[a].plan /\ grant[a] = "consumed"
    BY <1>1, <1>4, <1>5, <1>6, AfterSubmission, Context
  <1>8. Applied(jr[a], st[a], intent[a], op[a], r, "submission") /\ Truthful(a, r.j, r.s)
    <2>1. CASE val \in {"accepted", "none"}
      <3>1. r = SubmissionAccepted(jr[a], st[a])
        BY <1>3, <2>1
      <3>2. /\ Applied(jr[a], st[a], intent[a], op[a], r, "submission")
            /\ r.s.exec = st[a].exec /\ r.s.remote = st[a].remote /\ r.j.absence = jr[a].absence
        BY <1>4, <1>5, <3>1, AcceptedFacts
      <3>. QED  BY <1>5, <3>2, SameEvidence
    <2>2. CASE val \in {"rejected", "expired"}
      <3>. DEFINE expire == val = "expired"
      <3>1. r = SubmissionRejected(jr[a], st[a], expire) /\ expire \in BOOLEAN
        BY <1>3, <2>2
      <3>. HIDE DEF expire
      <3>2. /\ Applied(jr[a], st[a], intent[a], op[a], r, "submission")
            /\ r.s.exec = "not_submitted" /\ r.j.absence = jr[a].absence
        BY <1>5, <1>6, <1>7, <3>1, RejectedFacts
      <3>3. world[a].exec = "lost"
        BY <1>1, <1>2, <1>4, <2>2, Context DEF SessOK, AnswerTrue
      <3>4. ~StartPending(a)
        BY <1>5, <3>3, Unstarted DEF StartPending
      <3>. QED  BY <1>5, <3>2, <3>3, <3>4, RejectionTrue
    <2>3. CASE val \notin {"accepted", "none", "rejected", "expired"}
      <3>. DEFINE named == val = "named"
      <3>1. r = SubmissionUnknown(jr[a], st[a], named) /\ named \in BOOLEAN
        BY <1>3, <2>3
      <3>. HIDE DEF named
      <3>2. /\ Applied(jr[a], st[a], intent[a], op[a], r, "submission")
            /\ r.s.exec = st[a].exec /\ r.s.remote = st[a].remote /\ r.j.absence = jr[a].absence
        BY <1>4, <1>5, <3>1, UnknownFacts
      <3>. QED  BY <1>5, <3>2, SameEvidence
    <2>. QED  BY <2>1, <2>2, <2>3
  <1>. QED  BY <1>1, <1>4, <1>7, <1>8, CommitStep

\* A submission the inventory does not show is waited for, then declared absent.
LEMMA CommitAbsentStep ==
    ASSUME IInv, NEW w \in Workers, CommitAbsent(w)
    PROVE  IInv'
  <1>1. PICK a : a = sess[w].a
    OBVIOUS
  <1>2. sess[w].pc # "idle" /\ sess[w].ans.kind = "absent" /\ Owns(w)
    BY DEF CommitAbsent, Answered, CommitDispatch
  <1>3. /\ a \in Attempts /\ jr[a] \in Journals /\ st[a] \in AttemptStates /\ op[a] \in Operations
        /\ FactsOK(jr[a], st[a], intent[a], op[a]) /\ RunOK(a) /\ jr[a].phase = "submitting"
    BY <1>1, <1>2, Context DEF OwnerOK
  <1>4. PICK f : f = Fault(jr[a], st[a], FALSE, FALSE)
    OBVIOUS
  <1>5. PICK r : r = SubmissionAbsenceSeen(jr[a], st[a])
    OBVIOUS
  <1>6. CASE CommitDispatch(w, f, "fault", "done")
    BY <1>1, <1>2, <1>3, <1>4, <1>6, FaultStep
  <1>7. CASE SubmissionAbsenceAllowed(jr[a], st[a]) /\ CommitDispatch(w, r, "absence", "done")
    <2>1. jr[a].submitStarted /\ ~jr[a].remote
      BY <1>7 DEF SubmissionAbsenceAllowed, AbsenceAllowed
    <2>2. jr[a].plan /\ grant[a] = "consumed"
      BY <1>1, <1>2, <1>3, <2>1, AfterSubmission, Context
    <2>3. CASE jr[a].absence = "elapsed"
      <3>. DEFINE k == [jr[a] EXCEPT !.named = TRUE]
      <3>0. PICK expire \in BOOLEAN : expire = FALSE
        OBVIOUS
      <3>1. r = SubmissionRejected(k, st[a], expire)
        BY <1>5, <2>3, <3>0 DEF SubmissionAbsenceSeen
      <3>2. k \in Journals /\ k.submitStarted /\ ~k.remote /\ k.plan /\ k.absence = jr[a].absence
        BY <1>3, <2>1, <2>2 DEF Journals
      <3>. HIDE DEF k
      <3>3. /\ Applied(jr[a], st[a], intent[a], op[a], r, "absence")
            /\ r.s.exec = "not_submitted" /\ r.j.absence = jr[a].absence
        <4>1. jr[a].phase \in {"submitting", "attention"} /\ "absence" \in {"submission", "absence"}
          BY <1>3
        <4>. QED  BY <1>3, <2>1, <3>1, <3>2, <4>1, RejectedFacts
      <3>4. ~StartPending(a) /\ ~OutdatedInventory(a)
        BY <1>3, <2>3 DEF RunOK
      <3>5. world[a].exec \in {"none", "lost", "gone"}
        BY <1>1, <1>2, <1>3, <3>4 DEF StartPending, OutdatedInventory, IInv, TypeOK, Worlds
      <3>6. Truthful(a, r.j, r.s)
        BY <1>3, <3>3, <3>4, <3>5, RejectionTrue
      <3>. QED  BY <1>1, <1>2, <1>7, <2>2, <3>3, <3>6, CommitStep
    <2>4. CASE jr[a].absence # "elapsed"
      <3>1. /\ Applied(jr[a], st[a], intent[a], op[a], r, "absence")
            /\ r.s.exec = st[a].exec /\ r.s.remote = st[a].remote /\ r.j.absence = "open"
        BY <1>3, <1>5, <1>7, <2>4, AbsenceFacts
      <3>2. Truthful(a, r.j, r.s)
        BY <1>3, <3>1, SameEvidence
      <3>. QED  BY <1>1, <1>2, <1>7, <2>2, <3>1, <3>2, CommitStep
    <2>. QED  BY <2>3, <2>4
  <1>. QED  BY <1>1, <1>4, <1>5, <1>6, <1>7 DEF CommitAbsent

\* A run that is over: nothing is live, and its start is not pending.
LEMMA OverTrue ==
    ASSUME IInv, NEW a \in Attempts, world[a].exec \in ExecutionTerminal \cup {"gone"}
    PROVE  ~Live(world[a]) /\ ~StartPending(a)
  <1>1. world[a].exec \notin {"none", "inflight", "queued", "running"}
    BY DEF ExecutionTerminal
  <1>. QED  BY <1>1, Unstarted DEF Live, StartPending

\* A run the provider no longer has is recorded as absent.
LEMMA CommitGoneStep ==
    ASSUME IInv, NEW w \in Workers, CommitGone(w)
    PROVE  IInv'
  <1>1. PICK a : a = sess[w].a
    OBVIOUS
  <1>2. PICK r : r = RemoteAbsenceSeen(jr[a], st[a])
    OBVIOUS
  <1>3. /\ CommitDispatch(w, r, "gone", "done") /\ RemoteAbsenceSeenAllowed(jr[a], st[a])
        /\ sess[w].pc # "idle" /\ sess[w].ans.kind = "gone" /\ Owns(w)
    BY <1>1, <1>2 DEF CommitGone, CommitDispatch, Answered
  <1>4. /\ a \in Attempts /\ jr[a] \in Journals /\ st[a] \in AttemptStates /\ op[a] \in Operations
        /\ FactsOK(jr[a], st[a], intent[a], op[a]) /\ RunOK(a) /\ world[a].exec = "gone"
    BY <1>1, <1>3, Context DEF SessOK, AnswerTrue
  <1>5. /\ Applied(jr[a], st[a], intent[a], op[a], r, "gone")
        /\ r.s.exec = "unknown" /\ r.s.remote = "inactive" /\ r.j.absence = jr[a].absence
    BY <1>2, <1>3, <1>4, GoneFacts
  <1>6. jr[a].plan /\ grant[a] = "consumed"
    BY <1>1, <1>3, <1>4, WhileObserved, Context DEF RemoteAbsenceSeenAllowed
  <1>7. Truthful(a, r.j, r.s)
    BY <1>4, <1>5, OverTrue, Names DEF Truthful, RunOK
  <1>. QED  BY <1>1, <1>3, <1>5, <1>6, <1>7, CommitStep

\* What a true reading says.
LEMMA ReadingTrue ==
    ASSUME IInv, NEW a \in Attempts, NEW v \in Readings, NEW j, NEW s,
           v.exec \in ExecutionActive => world[a].exec \in Landed \cup {"gone"},
           v.exec \in ExecutionTerminal => world[a].exec \in {v.exec, "gone"},
           j.absence = jr[a].absence,
           v.exec = "unknown" => s.exec = st[a].exec /\ s.remote = st[a].remote,
           v.exec # "unknown" => s.exec = v.exec /\ s.remote = v.remote
    PROVE  Truthful(a, j, s)
  <1>1. RunOK(a)
    BY DEF IInv, RunInv
  <1>2. CASE v.exec = "unknown"
    BY <1>1, <1>2, SameEvidence
  <1>3. CASE v.exec \in ExecutionActive
    <2>1. s.exec = v.exec /\ s.remote \in {"possible", "active"}
      BY <1>3, Names DEF Readings
    <2>. QED  BY <1>1, <1>3, <2>1, Names DEF Truthful, RunOK
  <1>4. CASE v.exec \in ExecutionTerminal
    <2>1. s.exec = v.exec /\ world[a].exec \in ExecutionTerminal \cup {"gone"}
      BY <1>4, Names
    <2>2. ~Live(world[a]) /\ ~StartPending(a)
      BY <2>1, OverTrue
    <2>. QED  BY <1>1, <1>4, <2>1, <2>2, Names DEF Truthful, RunOK
  <1>. QED  BY <1>2, <1>3, <1>4 DEF Readings, Executions

\* An observation of the run is recorded, unless a later one was.
LEMMA CommitObservationStep ==
    ASSUME IInv, NEW w \in Workers, CommitObservation(w)
    PROVE  IInv'
  <1>1. PICK a : a = sess[w].a
    OBVIOUS
  <1>2. PICK v : v = Observation(sess[w].ans.val)
    OBVIOUS
  <1>3. PICK r : r = ObservationSeen(jr[a], st[a], v)
    OBVIOUS
  <1>4. /\ sess[w].pc # "idle" /\ sess[w].ans.kind = "observed" /\ Owns(w)
        /\ ObservationSeenAllowed(jr[a], st[a])
    BY <1>1 DEF CommitObservation, Answered
  <1>5. /\ a \in Attempts /\ jr[a] \in Journals /\ st[a] \in AttemptStates /\ op[a] \in Operations
        /\ FactsOK(jr[a], st[a], intent[a], op[a])
        /\ sess[w].ans.val \in Executions \ {"not_submitted"}
        /\ sess[w].ans.val \in ExecutionActive => world[a].exec \in Landed \cup {"gone"}
        /\ sess[w].ans.val \in ExecutionTerminal => world[a].exec \in {sess[w].ans.val, "gone"}
    BY <1>1, <1>4, Context DEF SessOK, AnswerTrue
  <1>6. v \in Readings /\ v.exec = sess[w].ans.val
    BY <1>2, <1>5, ReadingFacts
  <1>7. CASE CommitDispatch(w, r, "observed", "done")
    <2>1. /\ Applied(jr[a], st[a], intent[a], op[a], r, "observed")
          /\ r.j.absence = jr[a].absence
          /\ v.exec = "unknown" => r.s.exec = st[a].exec /\ r.s.remote = st[a].remote
          /\ v.exec # "unknown" => r.s.exec = v.exec /\ r.s.remote = v.remote
      BY <1>3, <1>4, <1>5, <1>6, ObservationFacts
    <2>2. Truthful(a, r.j, r.s)
      BY <1>5, <1>6, <2>1, ReadingTrue
    <2>3. jr[a].plan /\ grant[a] = "consumed"
      BY <1>1, <1>4, <1>5, WhileObserved, Context DEF ObservationSeenAllowed
    <2>. QED  BY <1>1, <1>4, <1>7, <2>1, <2>2, <2>3, CommitStep
  <1>8. CASE Goto(w, "done") /\ UNCHANGED <<durable, lease, running, expired, world>>
    <2>1. running' \in BOOLEAN
      BY <1>8 DEF IInv, TypeOK
    <2>. QED  BY <1>4, <1>8, <2>1, PassStep
  <1>. QED  BY <1>1, <1>2, <1>3, <1>7, <1>8 DEF CommitObservation

-----------------------------------------------------------------------------
(* Commits that permit a call.                                             *)

\* The session that wrote the intent, and no other, may make the call.
LEMMA PermitStep ==
    ASSUME IInv, NEW w \in Workers, NEW a \in Attempts, a = sess[w].a, NEW j, NEW s, NEW i, NEW o,
           Admissible(a, j, s, i, o), Written(a, j, s, i, o), Truthful(a, j, s), Owns(w),
           NEW pc \in {"prepare", "start", "stop"}, Goto(w, pc), running' \in BOOLEAN,
           pc = "prepare" => ~jr[a].plan /\ j.plan,
           pc = "start" => /\ ~jr[a].submitStarted /\ j.submitStarted /\ s.remote # "inactive"
                           /\ j.absence = "unset" /\ s.cancel = "not_requested",
           pc = "stop" => ~op[a].started /\ o.started
    PROVE  IInv'
  <1>0. sess \in [Workers -> Sessions] /\ active \in Attempts /\ active <= active /\ EffectOK(a) /\ RunOK(a)
        /\ a = active /\ lease \in [Attempts -> Workers \cup {NoWorker}] /\ pc \in Pcs
        /\ \A v \in Workers : SessOK(v)
    BY DEF IInv, TypeOK, Attempts, EffectInv, RunInv, SessInv, Owns, Pcs
  <1>1. /\ jr'[a] = j /\ st'[a] = s /\ op'[a] = o
        /\ \A b \in Attempts : b # a => jr'[b] = jr[b] /\ st'[b] = st[b]
        /\ \A b \in Attempts : /\ jr[b].plan => jr'[b].plan
                               /\ jr[b].submitStarted => jr'[b].submitStarted
                               /\ op[b].started => op'[b].started
        /\ RecordInv' /\ AgeInv' /\ EffectInv'
        /\ sess' \in [Workers -> Sessions] => TypeOK'
    BY WriteFacts
  <1>2. world' = world /\ active' = active /\ lease' = lease
    BY DEF Written
  <1>3. /\ sess' \in [Workers -> Sessions] /\ sess'[w].pc = pc /\ sess'[w].ans = NoAnswer /\ sess'[w].a = a
        /\ \A v \in Workers : v # w => sess'[v] = sess[v]
    BY <1>0, GotoFacts
  <1>4. ASSUME NEW v \in Workers, v # w PROVE SessOK(v)' /\ Quieter(sess'[v], sess[v])
    <2>1. Quieter(sess'[v], sess[v]) /\ sess'[v] \in Sessions
      BY <1>0, <1>3, <1>4, LostFacts DEF SessOK
    <2>. QED  BY <1>0, <1>1, <1>2, <2>1, QuietSession
  <1>5. SessOK(w)'
    <2>1. /\ pc = "prepare" => jr'[a].plan /\ world'[a].prepares = 0
          /\ pc = "start" => jr'[a].submitStarted /\ world'[a].starts = 0
          /\ pc = "stop" => op'[a].started /\ world'[a].cancels = 0
      BY <1>0, <1>1, <1>2 DEF EffectOK
    <2>2. AnswerTrue(sess'[w].ans, world'[a]) /\ sess'[w].ans.kind = "none"
      BY <1>3, Starting DEF AnswerTrue
    <2>. QED  BY <1>0, <1>2, <1>3, <2>1, <2>2 DEF SessOK
  <1>6. AloneInv'
    <2>1. ASSUME NEW v \in Workers, v # w PROVE ~(sess[v].pc = pc /\ sess[v].a = a)
      BY <1>0 DEF SessOK
    <2>2. ASSUME NEW u \in Workers, NEW v \in Workers, u # v PROVE AloneOK(u, v)'
      <3>1. CASE u = w
        BY <1>3, <2>1, <2>2, <3>1 DEF AloneOK
      <3>2. CASE v = w
        BY <1>3, <2>1, <2>2, <3>2 DEF AloneOK
      <3>3. CASE u # w /\ v # w
        BY <1>3, <2>2, <3>3 DEF AloneOK, IInv, AloneInv
      <3>. QED  BY <3>1, <3>2, <3>3
    <2>. QED  BY <2>2 DEF AloneInv
  <1>7. ASSUME NEW b \in Attempts PROVE RunOK(b)'
    <2>1. (b # a \/ pc # "start") /\ ~StartPending(b) => ~StartPending(b)'
      BY <1>2, <1>3 DEF StartPending
    <2>2. ~OutdatedInventory(b) => ~OutdatedInventory(b)'
      BY <1>2, <1>3, Starting DEF OutdatedInventory
    <2>3. CASE b = a
      BY <1>1, <1>2, <2>1, <2>2, <2>3 DEF Truthful, RunOK
    <2>4. CASE b # a
      BY <1>1, <1>2, <2>1, <2>2, <2>4 DEF RunOK, IInv, RunInv
    <2>. QED  BY <2>3, <2>4
  <1>8. ASSUME NEW v \in Workers PROVE OwnerOK(v)'
    <2>1. CASE v = w
      BY <1>1, <1>3, <2>1, Starting DEF OwnerOK
    <2>2. CASE v # w /\ sess'[v].a = a
      <3>1. ~Owns(v)'
        BY <1>2, <2>2 DEF Owns
      <3>. QED  BY <3>1 DEF OwnerOK
    <2>3. CASE v # w /\ sess'[v].a # a
      <3>1. sess'[v] \in Sessions /\ sess'[v].a \in Attempts
        BY <1>3 DEF Sessions
      <3>. QED  BY <1>0, <1>1, <1>2, <1>4, <2>3, <3>1, OwnerKeeps
    <2>. QED  BY <2>1, <2>2, <2>3
  <1>. QED  BY <1>1, <1>3, <1>4, <1>5, <1>6, <1>7, <1>8 DEF IInv, SessInv, RunInv, OwnerInv

\* The commit that permits Prepare.
LEMMA CommitPreparationStep ==
    ASSUME IInv, NEW w \in Workers, CommitPreparation(w)
    PROVE  IInv'
  <1>1. PICK a : a = sess[w].a
    OBVIOUS
  <1>2. PICK r : r = BeginPreparation(jr[a], st[a])
    OBVIOUS
  <1>3. /\ CommitDispatch(w, r, "begin", "prepare") /\ BeginPreparationAllowed(jr[a], st[a])
        /\ sess[w].pc # "idle" /\ Owns(w) /\ grant[a] = "consumed"
    BY <1>1, <1>2 DEF CommitPreparation, CommitDispatch
  <1>4. Applied(jr[a], st[a], intent[a], op[a], r, "begin")
    BY <1>1, <1>2, <1>3, Context, BeginPreparationFacts
  <1>5. /\ r.j.plan /\ ~jr[a].plan /\ r.j.submitStarted = jr[a].submitStarted
    <2>1. jr[a] \in Journals
      BY <1>1, <1>3, Context
    <2>. DEFINE k == [jr[a] EXCEPT !.phase = "staging", !.plan = TRUE]
    <2>2. k \in Journals /\ k.plan /\ k.submitStarted = jr[a].submitStarted
      BY <2>1 DEF Journals, Phases
    <2>3. r.j = Cleared(k)
      BY <1>2 DEF BeginPreparation
    <2>. HIDE DEF k
    <2>4. SameCourse(k, Cleared(k))
      BY <2>2, Conditions DEF Problems
    <2>. QED  BY <1>3, <2>2, <2>3, <2>4 DEF SameCourse, BeginPreparationAllowed
  <1>6. CASE ~Commits(st[a], r)
    <2>1. UNCHANGED <<jr, st, op, intent, grant, active, lease, expired, world>> /\ running' = FALSE
          /\ Goto(w, "done")
      BY <1>1, <1>3, <1>6 DEF CommitDispatch
    <2>. QED  BY <1>3, <2>1, PassStep DEF durable
  <1>7. CASE Commits(st[a], r)
    <2>. DEFINE f == Finish(r.j, r.s, op[a], "begin")
                i == LedgerStatus(r.j, "begin", intent[a])
    <2>1. /\ a \in Attempts /\ Admissible(a, r.j, f.s, i, f.o) /\ Written(a, r.j, f.s, i, f.o)
          /\ f.s = r.s /\ Goto(w, "prepare") /\ running' = running
      BY <1>1, <1>3, <1>4, <1>7, CommitWrites DEF Pcs
    <2>. HIDE DEF f, i
    <2>2. ~jr[a].submitStarted /\ jr[a] \in Journals
      BY <1>1, <1>3, Context DEF BeginPreparationAllowed, FactsOK, ValidJournal
    <2>3. f.s.exec = "not_submitted" /\ f.s.remote = "not_started" /\ r.j.absence = "unset"
      <3>1. FactsOK(r.j, f.s, i, f.o) /\ r.j \in Journals /\ f.s \in AttemptStates /\ f.o \in Operations
        BY <2>1 DEF Admissible
      <3>. QED  BY <1>5, <2>2, <3>1, BeforeSubmission
    <2>4. Truthful(a, r.j, f.s)
      BY <2>1, <2>2, <2>3, Unstarted, Names DEF Truthful
    <2>5. running' \in BOOLEAN
      BY <2>1 DEF IInv, TypeOK
    <2>. QED  BY <1>1, <1>3, <1>5, <2>1, <2>4, <2>5, PermitStep
  <1>. QED  BY <1>6, <1>7

\* The commit that permits Start.
LEMMA CommitSubmissionStep ==
    ASSUME IInv, NEW w \in Workers, CommitSubmission(w)
    PROVE  IInv'
  <1>1. PICK a : a = sess[w].a
    OBVIOUS
  <1>2. PICK r : r = BeginSubmission(jr[a], st[a])
    OBVIOUS
  <1>3. /\ CommitDispatch(w, r, "submit", "start") /\ BeginSubmissionAllowed(jr[a], st[a])
        /\ sess[w].pc # "idle" /\ Owns(w) /\ grant[a] = "consumed"
    BY <1>1, <1>2 DEF CommitSubmission, CommitDispatch, At
  <1>4. Applied(jr[a], st[a], intent[a], op[a], r, "submit")
    BY <1>1, <1>2, <1>3, Context, BeginSubmissionFacts
  <1>5. /\ jr[a] \in Journals /\ st[a] \in AttemptStates /\ a \in Attempts
        /\ ~jr[a].submitStarted /\ jr[a].absence = "unset" /\ st[a].cancel = "not_requested"
    BY <1>1, <1>3, Context, BeforeSubmission DEF BeginSubmissionAllowed
  <1>6. r.j.submitStarted /\ r.j.absence = "unset"
    <2>. DEFINE k == [jr[a] EXCEPT !.phase = "submitting", !.submitStarted = TRUE]
    <2>1. k \in Journals /\ k.submitStarted /\ k.absence = jr[a].absence
      BY <1>5 DEF Journals, Phases
    <2>2. r.j = Cleared(k)
      BY <1>2 DEF BeginSubmission
    <2>. HIDE DEF k
    <2>3. SameCourse(k, Cleared(k))
      BY <2>1, Conditions DEF Problems
    <2>. QED  BY <1>5, <2>1, <2>2, <2>3 DEF SameCourse
  <1>7. r.s.exec = "unknown" /\ r.s.remote = "possible" /\ r.s.cancel = "not_requested"
    BY <1>2, <1>5 DEF BeginSubmission, AttemptStates
  <1>8. CASE ~Commits(st[a], r)
    <2>1. UNCHANGED <<jr, st, op, intent, grant, active, lease, expired, world>> /\ running' = FALSE
          /\ Goto(w, "done")
      BY <1>1, <1>3, <1>8 DEF CommitDispatch
    <2>. QED  BY <1>3, <2>1, PassStep DEF durable
  <1>9. CASE Commits(st[a], r)
    <2>. DEFINE f == Finish(r.j, r.s, op[a], "submit")
                i == LedgerStatus(r.j, "submit", intent[a])
    <2>1. /\ Admissible(a, r.j, f.s, i, f.o) /\ Written(a, r.j, f.s, i, f.o)
          /\ f.s = r.s /\ Goto(w, "start") /\ running' = running
      BY <1>1, <1>3, <1>4, <1>9, CommitWrites DEF Pcs
    <2>. HIDE DEF f, i
    <2>2. Truthful(a, r.j, f.s)
      BY <1>6, <1>7, <2>1, Names DEF Truthful
    <2>3. running' \in BOOLEAN
      BY <2>1 DEF IInv, TypeOK
    <2>. QED  BY <1>1, <1>3, <1>5, <1>6, <1>7, <2>1, <2>2, <2>3, PermitStep
  <1>. QED  BY <1>8, <1>9

\* The owner must act: the request is settled as manual.
LEMMA ManualStopFacts ==
    ASSUME NEW j \in Journals, NEW s \in AttemptStates, NEW o \in Operations, NEW i,
           FactsOK(j, s, i, o), j.phase = "submitted", ValidState(Manual(s))
    PROVE  LET p == [o EXCEPT !.cancel = "manual"]
           IN  /\ FactsOK(j, Manual(s), i, p) /\ Manual(s) \in AttemptStates /\ p \in Operations
               /\ p.started = o.started
               /\ Manual(s).exec = s.exec /\ Manual(s).remote = s.remote
               /\ Manual(s).orch = "needs_attention"
  <1>. DEFINE p == [o EXCEPT !.cancel = "manual"]
              t == Manual(s)
  <1>1. p \in Operations /\ p.started = o.started /\ p.cancel = "manual"
    BY DEF Operations
  <1>2. /\ t \in AttemptStates /\ t.exec = s.exec /\ t.remote = s.remote /\ t.release = s.release
        /\ t.orch = "needs_attention" /\ t.cancel = "manual_required"
    BY DEF Manual, AttemptStates, Orchestrations, Cancellations
  <1>. HIDE DEF p, t
  <1>3. PhaseOK(j, t)
    BY <1>2 DEF FactsOK, PhaseOK
  <1>4. CancelOK(j, t, p)
    BY <1>1 DEF FactsOK, CancelOK, Pending
  <1>5. FactsOK(j, t, i, p)
    BY <1>3, <1>4 DEF FactsOK, t
  <1>. QED  BY <1>1, <1>2, <1>5 DEF p, t

\* The permit is taken, or the provider acknowledged the request.
LEMMA PursuedStopFacts ==
    ASSUME NEW j \in Journals, NEW s \in AttemptStates, NEW o \in Operations, NEW i,
           FactsOK(j, s, i, o), j.phase = "submitted", Pending(o), CancellationPending(s),
           NEW c \in {"requesting", "accepted"}, NEW p \in Operations, p.cancel = "running", p.polls = o.polls,
           NEW t, t = [s EXCEPT !.cancel = c], ValidState(t)
    PROVE  /\ FactsOK(j, t, i, p) /\ t \in AttemptStates
           /\ t.exec = s.exec /\ t.remote = s.remote /\ t.orch = s.orch
  <1>1. /\ t \in AttemptStates /\ t.exec = s.exec /\ t.remote = s.remote /\ t.release = s.release
        /\ t.orch = s.orch /\ t.cancel = c
    BY DEF AttemptStates, Cancellations
  <1>2. PhaseOK(j, t)
    BY <1>1 DEF FactsOK, PhaseOK, CancellationPending
  <1>3. CancelOK(j, t, p)
    <2>1. j.submitStarted
      BY WhileObserved
    <2>. QED  BY <1>1, <2>1 DEF FactsOK, CancelOK, Pending, CancellationPending
  <1>4. FactsOK(j, t, i, p)
    BY <1>2, <1>3 DEF FactsOK
  <1>. QED  BY <1>1, <1>4

\* The provider confirmed the stop.
LEMMA ConfirmedStopFacts ==
    ASSUME NEW j \in Journals, NEW s \in AttemptStates, NEW o \in Operations, NEW i,
           FactsOK(j, s, i, o), j.phase = "submitted", NEW r, r = ObservationSeen(j, s, Confirmed),
           ValidState(r.s)
    PROVE  LET settled == [o EXCEPT !.cancel = "succeeded"]
               p == Finish(r.j, r.s, settled, "observed").o
           IN  /\ FactsOK(r.j, r.s, i, p) /\ r.j \in Journals /\ r.s \in AttemptStates /\ p \in Operations
               /\ p.started = o.started /\ r.j.absence = j.absence
               /\ r.s.exec = "cancelled" /\ r.s.remote = "inactive"
               /\ r.j.plan /\ r.j.submitStarted
  <1>. DEFINE settled == [o EXCEPT !.cancel = "succeeded"]
              p == Finish(r.j, r.s, settled, "observed").o
              k == Cleared(j)
  <1>1. j.plan /\ j.submitStarted /\ j.remote /\ i = "accepted"
    BY WhileObserved
  <1>2. Confirmed \in Readings /\ Confirmed.exec = "cancelled" /\ Confirmed.remote = "inactive"
        /\ Confirmed.exec \in ExecutionTerminal /\ Confirmed.exec # "unknown"
    BY ReadingFacts DEF Confirmed, ExecutionTerminal
  <1>3. /\ Applied(j, s, i, o, r, "observed") /\ r.j.absence = j.absence
        /\ r.s.exec = "cancelled" /\ r.s.remote = "inactive" /\ r.j.phase = "collectible"
    BY <1>1, <1>2, ObservationFacts DEF ObservationSeenAllowed
  <1>4. k \in Journals /\ SameCourse(j, k) /\ k.problem = "none" /\ k.failures = 0
    BY Conditions DEF Problems
  <1>5. r.j = [[k EXCEPT !.obs = Confirmed.exec] EXCEPT !.phase = "collectible"]
    BY <1>2 DEF ObservationSeen
  <1>. HIDE DEF k
  <1>6. ValidJournal(r.j)
    <2>1. ValidJournal(j)
      BY DEF FactsOK
    <2>2. /\ r.j.phase = "collectible" /\ r.j.obs = "cancelled" /\ r.j.plan /\ r.j.submitStarted /\ r.j.remote
          /\ r.j.prepared = j.prepared /\ r.j.named = j.named /\ r.j.absence = j.absence
          /\ r.j.problem = "none" /\ r.j.failures = 0
      BY <1>1, <1>2, <1>4, <1>5 DEF SameCourse, Journals, Phases
    <2>3. 0 \in 0..MaxFailures
      BY MaxFailuresAssumption
    <2>. QED  BY <1>1, <1>2, <2>1, <2>2, <2>3 DEF ValidJournal, ExecutionTerminal
  <1>7. settled \in Operations /\ settled.cancel = "succeeded" /\ settled.started = o.started
        /\ settled.polls = o.polls
    BY DEF Operations
  <1>. HIDE DEF settled
  <1>8. p.cancel = "succeeded" /\ p.started = o.started /\ p \in Operations
    <2>1. ~Pending(settled) /\ ~Polled(r.s, settled, "observed")
      BY <1>7 DEF Pending, Polled
    <2>2. /\ p = [settled EXCEPT !.cancel = p.cancel, !.polls = settled.polls, !.reconcile = p.reconcile]
          /\ p.reconcile \in BOOLEAN /\ p.cancel = settled.cancel
      BY <1>7, <2>1 DEF Finish, Operations
    <2>. HIDE DEF p
    <2>. QED  BY <1>7, <2>2 DEF Operations
  <1>. HIDE DEF p
  <1>9. CancelOK(r.j, r.s, p)
    BY <1>3, <1>8 DEF CancelOK, Pending, FactsOK, Applied
  <1>10. IntentOK(r.j, i) /\ PhaseOK(r.j, r.s)
    BY <1>3 DEF Applied, LedgerStatus
  <1>11. FactsOK(r.j, r.s, i, p)
    BY <1>6, <1>9, <1>10 DEF FactsOK
  <1>. QED  BY <1>1, <1>3, <1>8, <1>11 DEF Applied, p, settled

\* What CommitCancellation writes.
LEMMA StopWrites ==
    ASSUME IInv, NEW w \in Workers, NEW a, a = sess[w].a, NEW j \in Journals, NEW s \in AttemptStates,
           NEW o \in Operations, NEW pc \in Pcs, CommitCancellation(w, j, s, o, pc),
           FactsOK(j, s, intent[a], o), jr[a].submitStarted => j.submitStarted,
           op[a].started => o.started
    PROVE  /\ a \in Attempts /\ Admissible(a, j, s, intent[a], o) /\ Written(a, j, s, intent[a], o)
           /\ Goto(w, pc) /\ running' \in BOOLEAN
  <1>1. Owns(w) /\ jr[a].phase = "submitted"
    BY DEF CommitCancellation
  <1>2. /\ a \in Attempts /\ a = active /\ jr[a] \in Journals /\ st[a] \in AttemptStates /\ op[a] \in Operations
        /\ FactsOK(jr[a], st[a], intent[a], op[a])
        /\ jr[a].plan => grant[a] = "consumed"
    BY <1>1, Context
  <1>3. jr[a].plan /\ jr[a].submitStarted
    BY <1>1, <1>2, WhileObserved
  <1>4. j.plan
    BY <1>3 DEF FactsOK, ValidJournal, Journals
  <1>5. intent \in [Attempts -> Intents] /\ running \in BOOLEAN /\ active \in Nat
    BY DEF IInv, TypeOK, Intents, Attempts
  <1>6. Admissible(a, j, s, intent[a], o)
    BY <1>2, <1>3, <1>4, <1>5 DEF Admissible
  <1>7. Written(a, j, s, intent[a], o) /\ Goto(w, pc) /\ running' = running
    <2>1. intent' = [intent EXCEPT ![a] = intent[a]]
      BY <1>5 DEF CommitCancellation
    <2>. QED  BY <2>1 DEF CommitCancellation, Written
  <1>. QED  BY <1>2, <1>5, <1>6, <1>7

\* A commit of the stop that leaves the session done.
LEMMA StopStep ==
    ASSUME IInv, NEW w \in Workers, NEW a, a = sess[w].a, NEW j \in Journals, NEW s \in AttemptStates,
           NEW o \in Operations, CommitCancellation(w, j, s, o, "done"), sess[w].pc # "idle",
           FactsOK(j, s, intent[a], o), jr[a].submitStarted => j.submitStarted,
           op[a].started => o.started, Truthful(a, j, s)
    PROVE  IInv'
  <1>1. /\ a \in Attempts /\ Admissible(a, j, s, intent[a], o) /\ Written(a, j, s, intent[a], o)
        /\ Goto(w, "done") /\ running' \in BOOLEAN
    BY StopWrites DEF Pcs
  <1>2. /\ sess \in [Workers -> Sessions] /\ \A v \in Workers : sess[v].pc # "answered" => sess[v].ans.kind = "none"
    BY DEF IInv, TypeOK, SessInv, SessOK
  <1>3. /\ sess' \in [Workers -> Sessions] /\ Quieter(sess'[w], sess[w])
        /\ sess'[w].ans = NoAnswer /\ sess'[w].pc = "done"
        /\ \A v \in Workers : v # w => sess'[v] = sess[v]
    BY <1>1, <1>2, GotoFacts DEF Pcs
  <1>4. \A v \in Workers : Quieter(sess'[v], sess[v])
    BY <1>2, <1>3, LostFacts
  <1>5. ASSUME NEW v \in Workers, sess'[v].a = a PROVE OwnerOK(v)'
    <2>1. CASE v = w
      BY <1>3, <2>1, OwnerRests, Starting
    <2>2. CASE v # w
      <3>1. ~Owns(v)'
        BY <1>3, <1>5, <2>2 DEF Owns, CommitCancellation
      <3>. QED  BY <3>1 DEF OwnerOK
    <2>. QED  BY <2>1, <2>2
  <1>. QED  BY <1>1, <1>3, <1>4, <1>5, WriteStep

\* The commit that permits Cancel.
LEMMA BeginStopStep ==
    ASSUME IInv, NEW w \in Workers, BeginStop(w)
    PROVE  IInv'
  <1>1. PICK a : a = sess[w].a
    OBVIOUS
  <1>2. /\ sess[w].pc # "idle" /\ Pending(op[a]) /\ ~op[a].started /\ jr[a].phase = "submitted" /\ Owns(w)
    BY <1>1 DEF BeginStop, StopDue, CommitCancellation
  <1>3. /\ a \in Attempts /\ jr[a] \in Journals /\ st[a] \in AttemptStates /\ op[a] \in Operations
        /\ FactsOK(jr[a], st[a], intent[a], op[a]) /\ RunOK(a)
    BY <1>1, <1>2, Context
  <1>4. CASE CancelSupported
    <2>1. PICK s : s = [st[a] EXCEPT !.cancel = "requesting"]
      OBVIOUS
    <2>2. PICK o : o = [op[a] EXCEPT !.cancel = "running", !.started = TRUE]
      OBVIOUS
    <2>3. PICK j : j = jr[a]
      OBVIOUS
    <2>4. CommitCancellation(w, j, s, o, "stop") /\ st[a].cancel = "requested" /\ ValidState(s)
      BY <1>1, <1>4, <2>1, <2>2, <2>3 DEF BeginStop, CommitCancellation, ValidTransition
    <2>5. o \in Operations /\ o.cancel = "running" /\ o.started /\ o.polls = op[a].polls
      BY <1>3, <2>2 DEF Operations
    <2>6. /\ FactsOK(j, s, intent[a], o) /\ s \in AttemptStates
          /\ s.exec = st[a].exec /\ s.remote = st[a].remote
      <3>1. CancellationPending(st[a]) /\ "requesting" \in {"requesting", "accepted"}
        BY <2>4 DEF CancellationPending
      <3>. QED  BY <1>2, <1>3, <2>1, <2>3, <2>4, <2>5, <3>1, PursuedStopFacts
    <2>7. /\ Admissible(a, j, s, intent[a], o) /\ Written(a, j, s, intent[a], o)
          /\ Goto(w, "stop") /\ running' \in BOOLEAN
      BY <1>1, <1>3, <2>3, <2>4, <2>5, <2>6, StopWrites DEF Pcs
    <2>8. Truthful(a, j, s)
      BY <1>3, <2>3, <2>6, SameEvidence
    <2>9. PICK i : i = intent[a]
      OBVIOUS
    <2>. QED  BY <1>1, <1>2, <1>3, <2>5, <2>7, <2>8, <2>9, PermitStep
  <1>5. CASE ~CancelSupported
    <2>1. PICK s : s = Manual(st[a])
      OBVIOUS
    <2>2. PICK o : o = [op[a] EXCEPT !.cancel = "manual"]
      OBVIOUS
    <2>3. PICK j : j = jr[a]
      OBVIOUS
    <2>4. CommitCancellation(w, j, s, o, "done") /\ ValidState(s)
      BY <1>1, <1>5, <2>1, <2>2, <2>3 DEF BeginStop, CommitCancellation, ValidTransition
    <2>5. /\ FactsOK(j, s, intent[a], o) /\ s \in AttemptStates /\ o \in Operations /\ o.started = op[a].started
          /\ s.exec = st[a].exec /\ s.remote = st[a].remote
      BY <1>2, <1>3, <2>1, <2>2, <2>3, <2>4, ManualStopFacts
    <2>6. Truthful(a, j, s)
      BY <1>3, <2>3, <2>5, SameEvidence
    <2>. QED  BY <1>1, <1>2, <1>3, <2>3, <2>4, <2>5, <2>6, StopStep
  <1>. QED  BY <1>4, <1>5

\* The outcome of Cancel is recorded.
LEMMA CommitStopStep ==
    ASSUME IInv, NEW w \in Workers, CommitStop(w)
    PROVE  IInv'
  <1>1. PICK a : a = sess[w].a
    OBVIOUS
  <1>2. /\ sess[w].pc # "idle" /\ sess[w].ans.kind = "stop" /\ Pending(op[a]) /\ jr[a].phase = "submitted" /\ Owns(w)
    BY <1>1 DEF CommitStop, Answered, CommitCancellation
  <1>3. /\ a \in Attempts /\ jr[a] \in Journals /\ st[a] \in AttemptStates /\ op[a] \in Operations
        /\ FactsOK(jr[a], st[a], intent[a], op[a]) /\ RunOK(a) /\ SessOK(w)
    BY <1>1, <1>2, Context
  <1>4. CASE sess[w].ans.val = "manual"
    <2>1. PICK s : s = Manual(st[a])
      OBVIOUS
    <2>2. PICK o : o = [op[a] EXCEPT !.cancel = "manual"]
      OBVIOUS
    <2>3. PICK j : j = jr[a]
      OBVIOUS
    <2>4. CommitCancellation(w, j, s, o, "done") /\ ValidState(s)
      BY <1>1, <1>4, <2>1, <2>2, <2>3 DEF CommitStop, CommitCancellation, ValidTransition
    <2>5. /\ FactsOK(j, s, intent[a], o) /\ s \in AttemptStates /\ o \in Operations /\ o.started = op[a].started
          /\ s.exec = st[a].exec /\ s.remote = st[a].remote
      BY <1>2, <1>3, <2>1, <2>2, <2>3, <2>4, ManualStopFacts
    <2>6. Truthful(a, j, s)
      BY <1>3, <2>3, <2>5, SameEvidence
    <2>. QED  BY <1>1, <1>2, <1>3, <2>3, <2>4, <2>5, <2>6, StopStep
  <1>5. CASE sess[w].ans.val = "accepted"
    <2>1. PICK s : s = [st[a] EXCEPT !.cancel = "accepted"]
      OBVIOUS
    <2>2. PICK o : o = op[a]
      OBVIOUS
    <2>3. PICK j : j = jr[a]
      OBVIOUS
    <2>4. CommitCancellation(w, j, s, o, "done") /\ ValidState(s) /\ st[a].cancel = "requesting"
      BY <1>1, <1>5, <2>1, <2>2, <2>3 DEF CommitStop, CommitCancellation, ValidTransition
    <2>5. o.cancel = "running" /\ CancellationPending(st[a])
      BY <1>2, <1>3, <2>2, <2>4 DEF FactsOK, CancelOK, CancellationPending
    <2>6. /\ FactsOK(j, s, intent[a], o) /\ s \in AttemptStates
          /\ s.exec = st[a].exec /\ s.remote = st[a].remote
      BY <1>2, <1>3, <2>1, <2>2, <2>3, <2>4, <2>5, PursuedStopFacts
    <2>7. Truthful(a, j, s)
      BY <1>3, <2>3, <2>6, SameEvidence
    <2>. QED  BY <1>1, <1>2, <1>3, <2>2, <2>3, <2>4, <2>6, <2>7, StopStep
  <1>6. CASE sess[w].ans.val \notin {"manual", "accepted"}
    <2>1. PICK r : r = ObservationSeen(jr[a], st[a], Confirmed)
      OBVIOUS
    <2>2. PICK o : o = Finish(r.j, r.s, [op[a] EXCEPT !.cancel = "succeeded"], "observed").o
      OBVIOUS
    <2>3. CommitCancellation(w, r.j, r.s, o, "done") /\ ValidState(r.s)
      BY <1>1, <1>6, <2>1, <2>2 DEF CommitStop, CommitCancellation, ValidTransition
    <2>4. /\ FactsOK(r.j, r.s, intent[a], o) /\ r.j \in Journals /\ r.s \in AttemptStates /\ o \in Operations
          /\ o.started = op[a].started /\ r.j.absence = jr[a].absence
          /\ r.s.exec = "cancelled" /\ r.s.remote = "inactive" /\ r.j.submitStarted
      BY <1>2, <1>3, <2>1, <2>2, <2>3, ConfirmedStopFacts
    <2>5. world[a].exec \in {"cancelled", "gone"}
      BY <1>1, <1>2, <1>3, <1>6 DEF SessOK, AnswerTrue
    <2>6. Truthful(a, r.j, r.s)
      <3>1. ~Live(world[a]) /\ ~StartPending(a)
        BY <1>3, <2>5, OverTrue DEF ExecutionTerminal
      <3>. QED  BY <1>3, <2>4, <2>5, <3>1, Names DEF Truthful, RunOK, ExecutionActive
    <2>. QED  BY <1>1, <1>2, <1>3, <2>3, <2>4, <2>6, StopStep
  <1>. QED  BY <1>4, <1>5, <1>6

-----------------------------------------------------------------------------
(* Answers and calls.                                                      *)

\* A session takes an answer that is true, and that no write has overtaken.
LEMMA HoldStep ==
    ASSUME IInv, NEW w \in Workers, NEW a, a = sess[w].a, sess[w].pc # "idle", NEW ans \in Answers, Hold(w, ans),
           UNCHANGED <<durable, lease, running, expired, world>>,
           AnswerTrue(ans, world[a]), ans.kind = "absent" => world[a].exec \notin Landed,
           Owns(w) => /\ ans.kind = "unready" => UnconfirmedPreparation(jr[a])
                      /\ ans.kind = "absent" => jr[a].phase = "submitting"
                      /\ ans.kind = "start" => jr[a].absence = "unset" /\ st[a].cancel = "not_requested"
    PROVE  IInv'
  <1>0. sess \in [Workers -> Sessions] /\ sess[w] \in Sessions /\ a \in Attempts
    BY DEF IInv, TypeOK, Sessions
  <1>1. /\ sess' \in [Workers -> Sessions] /\ sess'[w].pc = "answered" /\ sess'[w].ans = ans
        /\ sess'[w].a = a /\ sess'[w].fresh = sess[w].fresh
        /\ \A v \in Workers : v # w => sess'[v] = sess[v]
    <2>. DEFINE x == [sess[w] EXCEPT !.pc = "answered", !.ans = ans]
    <2>1. x \in Sessions /\ x.pc = "answered" /\ x.ans = ans /\ x.a = a /\ x.fresh = sess[w].fresh
      BY <1>0 DEF Sessions, Pcs
    <2>2. sess' = [sess EXCEPT ![w] = x]
      BY <1>0 DEF Hold, Sessions
    <2>. HIDE DEF x
    <2>. QED  BY <1>0, <2>1, <2>2
  <1>2. /\ UNCHANGED <<st, jr, grant, intent, op, active, world, lease>>
    BY DEF durable
  <1>3. TypeOK' /\ RecordInv' /\ AgeInv' /\ EffectInv'
    <2>1. TypeOK'
      BY <1>1, <1>2 DEF IInv, TypeOK
    <2>2. RecordInv' /\ AgeInv'
      BY <1>2 DEF IInv, RecordInv, RecordOK, AgeInv, AgeOK
    <2>3. EffectInv'
      BY <1>2 DEF IInv, EffectInv, EffectOK
    <2>. QED  BY <2>1, <2>2, <2>3
  <1>4. ASSUME NEW v \in Workers PROVE SessOK(v)'
    <2>1. SessOK(v) /\ SessOK(w)
      BY DEF IInv, SessInv
    <2>2. CASE v = w
      BY <1>1, <1>2, <2>1, <2>2 DEF SessOK
    <2>3. CASE v # w
      BY <1>1, <1>2, <2>1, <2>3 DEF SessOK
    <2>. QED  BY <2>2, <2>3
  <1>5. AloneInv'
    BY <1>1 DEF IInv, AloneInv, AloneOK
  <1>6. ASSUME NEW b \in Attempts PROVE RunOK(b)'
    <2>1. ~StartPending(b) => ~StartPending(b)'
      BY <1>1, <1>2 DEF StartPending
    <2>2. ~OutdatedInventory(b) => ~OutdatedInventory(b)'
      BY <1>1, <1>2 DEF OutdatedInventory
    <2>. QED  BY <1>2, <2>1, <2>2 DEF IInv, RunInv, RunOK
  <1>7. ASSUME NEW v \in Workers PROVE OwnerOK(v)'
    <2>1. OwnerOK(v) /\ (Owns(v)' <=> Owns(v))
      BY <1>1, <1>2 DEF IInv, OwnerInv, Owns
    <2>2. CASE v = w
      BY <1>1, <1>2, <2>1, <2>2 DEF OwnerOK
    <2>3. CASE v # w
      BY <1>1, <1>2, <2>1, <2>3 DEF OwnerOK
    <2>. QED  BY <2>2, <2>3
  <1>. QED  BY <1>3, <1>4, <1>5, <1>6, <1>7 DEF IInv, SessInv, RunInv, OwnerInv

\* What an answer of each reply is.
LEMMA AnswerFacts ==
    ASSUME NEW k \in {"fault", "unready", "prepared", "start", "found", "absent", "gone", "observed", "stop"},
           NEW v \in {"none", "open", "permanent", "named", "answered", "unanswered",
                      "pending", "ready", "public", "accepted", "rejected", "expired",
                      "unknown", "confirmed", "manual"} \cup Executions \cup Windows
    PROVE  Answer(k, v) \in Answers /\ Answer(k, v).kind = k /\ Answer(k, v).val = v
  BY DEF Answer, Answers

\* Failures carry nothing that could be false.
LEMMA FaultStepHold ==
    ASSUME IInv, NEW w \in Workers, sess[w].pc # "idle", NEW ans, Hold(w, ans), ans \in Faults \cup {Answer("fault", "named")},
           UNCHANGED <<durable, lease, running, expired, world>>
    PROVE  IInv'
  <1>1. PICK a : a = sess[w].a
    OBVIOUS
  <1>2. ans \in Answers /\ ans.kind = "fault"
    BY AnswerFacts DEF Faults
  <1>3. AnswerTrue(ans, world[a])
    BY <1>2 DEF AnswerTrue
  <1>. QED  BY <1>1, <1>2, <1>3, HoldStep

\* The staging area reports its readiness.
LEMMA StagingStep ==
    ASSUME IInv, NEW w \in Workers, sess[w].pc # "idle", NEW ans, Hold(w, ans), ans \in StagingAnswers(sess[w].a),
           UNCHANGED <<durable, lease, running, expired, world>>
    PROVE  IInv'
  <1>1. PICK a : a = sess[w].a
    OBVIOUS
  <1>2. PICK p \in {"pending", "ready", "public"} : ans = Answer("prepared", p)
    BY DEF StagingAnswers
  <1>3. ans \in Answers /\ ans.kind = "prepared" /\ ans.val = p
    BY <1>2, AnswerFacts
  <1>4. AnswerTrue(ans, world[a])
    BY <1>3 DEF AnswerTrue
  <1>. QED  BY <1>1, <1>3, <1>4, HoldStep

\* Prepare returns what the provider staged, or a fault.
LEMMA PrepareReturnsStep ==
    ASSUME IInv, NEW w \in Workers, PrepareReturns(w)
    PROVE  IInv'
  <1>1. PICK ans \in StagingAnswers(sess[w].a) \cup Faults : Hold(w, ans)
    BY DEF PrepareReturns
  <1>2. sess[w].pc # "idle" /\ UNCHANGED <<durable, lease, running, expired, world>>
    BY DEF PrepareReturns
  <1>. QED  BY <1>1, <1>2, FaultStepHold, StagingStep

\* A pass fails before the provider is asked anything.
LEMMA PassFailsStep ==
    ASSUME IInv, NEW w \in Workers, PassFails(w)
    PROVE  IInv'
  <1>0. PICK a : a = sess[w].a
    OBVIOUS
  <1>1. PICK ans \in NotReady(a) : Hold(w, ans)
    BY <1>0 DEF PassFails
  <1>2. sess[w].pc # "idle" /\ UNCHANGED <<durable, lease, running, expired, world>>
    BY DEF PassFails
  <1>3. CASE ~UnconfirmedPreparation(jr[a])
    BY <1>1, <1>2, <1>3, FaultStepHold DEF NotReady
  <1>4. CASE UnconfirmedPreparation(jr[a])
    <2>1. ans \in Answers /\ ans.kind = "unready"
      BY <1>1, <1>4, AnswerFacts DEF NotReady
    <2>2. AnswerTrue(ans, world[a])
      BY <2>1 DEF AnswerTrue
    <2>. QED  BY <1>0, <1>1, <1>2, <1>4, <2>1, <2>2, HoldStep
  <1>. QED  BY <1>3, <1>4

\* A staging that may exist is read instead of being made again.
LEMMA ReadStagingStep ==
    ASSUME IInv, NEW w \in Workers, ReadStaging(w)
    PROVE  IInv'
  <1>1. PICK ans \in StagingAnswers(sess[w].a) : Hold(w, ans)
    BY DEF ReadStaging
  <1>2. sess[w].pc # "idle" /\ UNCHANGED <<durable, lease, running, expired, world>>
    BY DEF ReadStaging, At
  <1>. QED  BY <1>1, <1>2, StagingStep

\* Start returns, truthfully or not knowing.
LEMMA StartReturnsStep ==
    ASSUME IInv, NEW w \in Workers, StartReturns(w)
    PROVE  IInv'
  <1>0. PICK a : a = sess[w].a
    OBVIOUS
  <1>1. PICK val \in {"unknown", "named", "accepted", "rejected", "expired"} :
            /\ Hold(w, Answer("start", val))
            /\ val = "accepted" => world[a].exec \in Landed
            /\ val \in {"rejected", "expired"} => world[a].exec = "lost"
    BY <1>0 DEF StartReturns
  <1>2. sess[w].pc \in {"start", "starting"} /\ UNCHANGED <<durable, lease, running, expired, world>>
    BY DEF StartReturns
  <1>3. PICK ans : ans = Answer("start", val)
    OBVIOUS
  <1>4. ans \in Answers /\ ans.kind = "start" /\ ans.val = val
    BY <1>3, AnswerFacts
  <1>5. AnswerTrue(ans, world[a])
    BY <1>1, <1>4 DEF AnswerTrue
  <1>6. Owns(w) => jr[a].absence = "unset" /\ st[a].cancel = "not_requested"
    BY <1>0, <1>2 DEF IInv, OwnerInv, OwnerOK
  <1>. QED  BY <1>0, <1>1, <1>2, <1>3, <1>4, <1>5, <1>6, HoldStep

\* A submission that may exist is looked for instead of being sent again.
LEMMA ReadSubmissionStep ==
    ASSUME IInv, NEW w \in Workers, ReadSubmission(w)
    PROVE  IInv'
  <1>0. PICK a : a = sess[w].a
    OBVIOUS
  <1>1. PICK ans : /\ Hold(w, ans)
                   /\ \/ ans = Answer("fault", "named")
                      \/ world[a].exec \in Landed /\ ans = Answer("found", "none")
                      \/ world[a].exec \notin Landed /\ ans = Answer("absent", jr[a].absence)
    BY <1>0 DEF ReadSubmission
  <1>2. sess[w].pc # "idle" /\ jr[a].phase = "submitting" /\ UNCHANGED <<durable, lease, running, expired, world>>
    BY <1>0 DEF ReadSubmission, At
  <1>3. CASE ans = Answer("fault", "named")
    BY <1>1, <1>2, <1>3, FaultStepHold
  <1>4. CASE world[a].exec \in Landed /\ ans = Answer("found", "none")
    <2>1. ans \in Answers /\ ans.kind = "found" /\ ans.val = "none"
      BY <1>4, AnswerFacts
    <2>2. AnswerTrue(ans, world[a])
      BY <1>4, <2>1 DEF AnswerTrue
    <2>. QED  BY <1>0, <1>1, <1>2, <2>1, <2>2, HoldStep
  <1>5. CASE world[a].exec \notin Landed /\ ans = Answer("absent", jr[a].absence)
    <2>0. jr[a].absence \in Windows
      BY <1>0 DEF IInv, TypeOK, Sessions, Journals
    <2>1. ans \in Answers /\ ans.kind = "absent"
      BY <1>5, <2>0, AnswerFacts
    <2>2. AnswerTrue(ans, world[a])
      BY <2>1 DEF AnswerTrue
    <2>. QED  BY <1>0, <1>1, <1>2, <1>5, <2>1, <2>2, HoldStep
  <1>. QED  BY <1>1, <1>3, <1>4, <1>5

\* The run is observed, or found to be gone.
LEMMA ReadExecutionStep ==
    ASSUME IInv, NEW w \in Workers, ReadExecution(w)
    PROVE  IInv'
  <1>0. PICK a : a = sess[w].a
    OBVIOUS
  <1>1. PICK ans : /\ Hold(w, ans)
                   /\ \/ \E e \in Reports(world[a]) : ans = Answer("observed", e)
                      \/ world[a].exec = "gone" /\ ans = Answer("gone", "none")
    BY <1>0 DEF ReadExecution
  <1>2. sess[w].pc # "idle" /\ UNCHANGED <<durable, lease, running, expired, world>>
    BY DEF ReadExecution, At
  <1>3. CASE \E e \in Reports(world[a]) : ans = Answer("observed", e)
    <2>1. PICK e \in Reports(world[a]) : ans = Answer("observed", e)
      BY <1>3
    <2>2. /\ e \in Executions \ {"not_submitted"}
          /\ e \in ExecutionActive => world[a].exec \in Landed
          /\ e \in ExecutionTerminal => world[a].exec = e
      <3>1. \/ world[a].exec = "queued" /\ e \in {"queued", "unknown"}
            \/ world[a].exec = "running" /\ e \in {"queued", "starting", "running", "unknown"}
            \/ world[a].exec \in ExecutionTerminal /\ e \in {"running", "unknown", world[a].exec}
        BY DEF Reports
      <3>. QED  BY <3>1, Names DEF Landed, Executions, ExecutionActive, ExecutionTerminal
    <2>3. ans \in Answers /\ ans.kind = "observed" /\ ans.val = e
      BY <2>1, <2>2, AnswerFacts
    <2>4. AnswerTrue(ans, world[a])
      BY <2>2, <2>3 DEF AnswerTrue
    <2>. QED  BY <1>0, <1>1, <1>2, <2>3, <2>4, HoldStep
  <1>4. CASE world[a].exec = "gone" /\ ans = Answer("gone", "none")
    <2>1. ans \in Answers /\ ans.kind = "gone"
      BY <1>4, AnswerFacts
    <2>2. AnswerTrue(ans, world[a])
      BY <1>4, <2>1 DEF AnswerTrue
    <2>. QED  BY <1>0, <1>1, <1>2, <2>1, <2>2, HoldStep
  <1>. QED  BY <1>1, <1>3, <1>4

\* Cancel returns, with a confirmation only for a run that was cancelled.
LEMMA CancelReturnsStep ==
    ASSUME IInv, NEW w \in Workers, CancelReturns(w)
    PROVE  IInv'
  <1>0. PICK a : a = sess[w].a
    OBVIOUS
  <1>1. PICK val \in {"manual", "accepted", "confirmed"} :
            /\ Hold(w, Answer("stop", val))
            /\ val = "confirmed" => world[a].exec = "cancelled"
    BY <1>0 DEF CancelReturns
  <1>2. sess[w].pc # "idle" /\ UNCHANGED <<durable, lease, running, expired, world>>
    BY DEF CancelReturns
  <1>3. PICK ans : ans = Answer("stop", val)
    OBVIOUS
  <1>4. ans \in Answers /\ ans.kind = "stop" /\ ans.val = val
    BY <1>3, AnswerFacts
  <1>5. AnswerTrue(ans, world[a])
    BY <1>1, <1>4 DEF AnswerTrue
  <1>. QED  BY <1>0, <1>1, <1>2, <1>3, <1>4, <1>5, HoldStep

\* How a run goes on at the provider.
Moved(from, to) ==
    \/ to = from
    \/ from = "none" /\ to = "inflight"
    \/ from = "inflight" /\ to \in {"queued", "lost"}
    \/ from = "queued" /\ to = "running"
    \/ from \in {"queued", "running"} /\ to \in ExecutionTerminal
    \/ from \in Landed /\ to = "gone"

\* A session makes its call, or stays as it is.
Called(x, y) ==
    /\ x.a = y.a /\ x.fresh = y.fresh /\ (x.ans = y.ans \/ x.ans = NoAnswer)
    /\ \/ x.pc = y.pc
       \/ y.pc = "prepare" /\ x.pc = "preparing"
       \/ y.pc = "start" /\ x.pc = "starting"
       \/ y.pc = "stop" /\ x.pc = "stopping"

\* What was answered stays true of the run.
LEMMA AnswerKeeps ==
    ASSUME NEW ans, NEW x, NEW y, AnswerTrue(ans, x), Moved(x.exec, y.exec)
    PROVE  AnswerTrue(ans, y)
  BY DEF AnswerTrue, Moved, Landed, ExecutionTerminal

\* A call reaches the provider, or the run goes on.
LEMMA WorldStep ==
    ASSUME IInv, NEW a \in Attempts, NEW x \in Worlds, world' = [world EXCEPT ![a] = x],
           UNCHANGED <<durable, lease, running, expired>>, a <= active,
           Moved(world[a].exec, x.exec), x.exec = "inflight" => StartPending(a),
           st[a].exec = "not_submitted" => x.exec \in {"none", "lost", "gone"},
           x.prepares \in 0..1, x.starts \in 0..1, x.cancels \in 0..1,
           x.prepares = 1 => jr[a].plan, x.starts = 1 => jr[a].submitStarted,
           x.cancels = 1 => op[a].started, x.starts = 0 => x.exec = "none",
           sess' \in [Workers -> Sessions],
           \A v \in Workers : /\ Called(sess'[v], sess[v])
                              /\ sess'[v].a = a => /\ sess'[v].pc = "prepare" => x.prepares = 0
                                                   /\ sess'[v].pc = "start" => x.starts = 0
                                                   /\ sess'[v].pc = "stop" => x.cancels = 0
    PROVE  IInv'
  <1>1. /\ UNCHANGED <<st, jr, grant, intent, op, active, lease>> /\ world \in [Attempts -> Worlds]
        /\ world'[a] = x /\ \A b \in Attempts : b # a => world'[b] = world[b]
    BY DEF durable, IInv, TypeOK
  <1>2. TypeOK'
    BY <1>1 DEF IInv, TypeOK
  <1>3. RecordInv'
    BY <1>1 DEF IInv, RecordInv, RecordOK
  <1>4. AgeInv'
    <2>1. active \in Nat /\ a \in Nat
      BY DEF IInv, TypeOK, Attempts
    <2>2. ASSUME NEW b \in Attempts PROVE AgeOK(b)'
      <3>1. AgeOK(b) /\ b \in Nat
        BY DEF IInv, AgeInv, Attempts
      <3>2. b > active => b # a
        BY <2>1, <3>1
      <3>. QED  BY <1>1, <3>1, <3>2 DEF AgeOK
    <2>. QED  BY <2>2 DEF AgeInv
  <1>5. EffectInv'
    BY <1>1 DEF IInv, EffectInv, EffectOK
  <1>6. ASSUME NEW v \in Workers PROVE SessOK(v)'
    <2>1. SessOK(v) /\ Called(sess'[v], sess[v]) /\ sess'[v] \in Sessions
      BY DEF IInv, SessInv
    <2>2. sess'[v].a \in Attempts /\ sess'[v].a = sess[v].a
      BY <2>1 DEF Called, Sessions
    <2>3. AnswerTrue(sess'[v].ans, world'[sess'[v].a])
      <3>1. AnswerTrue(sess'[v].ans, world[sess'[v].a])
        <4>1. AnswerTrue(NoAnswer, world[sess'[v].a])
          BY Starting DEF AnswerTrue
        <4>. QED  BY <2>1, <4>1 DEF SessOK, Called
      <3>. QED  BY <1>1, <2>2, <3>1, AnswerKeeps
    <2>4. LET b == sess'[v].a
          IN  /\ sess'[v].pc = "prepare" => jr'[b].plan /\ world'[b].prepares = 0
              /\ sess'[v].pc = "start" => jr'[b].submitStarted /\ world'[b].starts = 0
              /\ sess'[v].pc = "stop" => op'[b].started /\ world'[b].cancels = 0
      <3>1. CASE sess'[v].a = a
        BY <1>1, <2>1, <3>1 DEF SessOK, Called
      <3>2. CASE sess'[v].a # a
        BY <1>1, <2>1, <2>2, <3>2 DEF SessOK, Called
      <3>. QED  BY <3>1, <3>2
    <2>5. /\ sess'[v].pc # "idle" => sess'[v].a <= active'
          /\ sess'[v].pc # "answered" => sess'[v].ans.kind = "none"
      BY <1>1, <2>1, Starting DEF SessOK, Called
    <2>. QED  BY <2>3, <2>4, <2>5 DEF SessOK
  <1>7. AloneInv'
    BY DEF IInv, AloneInv, AloneOK, Called
  <1>8. ASSUME NEW b \in Attempts PROVE RunOK(b)'
    <2>1. RunOK(b) /\ RunOK(a)
      BY DEF IInv, RunInv
    <2>2. CASE b # a
      <3>1. ~StartPending(b) => ~StartPending(b)'
        BY <1>1, <2>2 DEF StartPending, Called
      <3>2. ~OutdatedInventory(b) => ~OutdatedInventory(b)'
        BY <1>1, <2>2, Starting DEF OutdatedInventory, Called
      <3>. QED  BY <1>1, <2>1, <2>2, <3>1, <3>2 DEF RunOK
    <2>3. CASE b = a
      <3>1. ~StartPending(a) => ~StartPending(a)' /\ x.exec # "inflight"
        BY <1>1 DEF StartPending, Called
      <3>2. ~StartPending(a) /\ ~OutdatedInventory(a) => ~OutdatedInventory(a)'
        BY <1>1, Starting DEF OutdatedInventory, Called, Moved, StartPending, Landed
      <3>3. ~StartPending(a) /\ ~Live(world[a]) => ~Live(x)
        BY <3>1 DEF Live, Moved, ExecutionTerminal, Landed
      <3>4. /\ st[a].exec \in ExecutionTerminal => x.exec \in {st[a].exec, "gone"}
            /\ st[a].exec \in ExecutionActive => x.exec \in Landed \cup {"gone"}
        BY <2>1 DEF RunOK, Moved, ExecutionTerminal, Landed
      <3>. QED  BY <1>1, <2>1, <2>3, <3>1, <3>2, <3>3, <3>4 DEF RunOK
    <2>. QED  BY <2>2, <2>3
  <1>9. ASSUME NEW v \in Workers PROVE OwnerOK(v)'
    <2>1. OwnerOK(v) /\ Called(sess'[v], sess[v])
      BY DEF IInv, OwnerInv
    <2>2. Owns(v)' <=> Owns(v)
      BY <1>1, <2>1 DEF Owns, Called
    <2>. QED  BY <1>1, <2>1, <2>2, Starting DEF OwnerOK, Called
  <1>. QED  BY <1>2, <1>3, <1>4, <1>5, <1>6, <1>7, <1>8, <1>9 DEF IInv, SessInv, RunInv, OwnerInv

\* The session that calls: its permit is used up.
LEMMA CallFacts ==
    ASSUME IInv, NEW w \in Workers, NEW from, NEW to,
           <<from, to>> \in {<<"prepare", "preparing">>, <<"start", "starting">>, <<"stop", "stopping">>},
           sess[w].pc = from, Goto(w, to)
    PROVE  /\ sess[w].a \in Attempts /\ sess[w].a <= active /\ sess' \in [Workers -> Sessions]
           /\ \A v \in Workers : /\ Called(sess'[v], sess[v])
                                 /\ sess'[v].a = sess[w].a => sess'[v].pc # from
           /\ world[sess[w].a] \in Worlds /\ EffectOK(sess[w].a) /\ SessOK(w)
  <1>1. /\ sess \in [Workers -> Sessions] /\ sess[w] \in Sessions /\ sess[w].a \in Attempts
        /\ world[sess[w].a] \in Worlds /\ EffectOK(sess[w].a) /\ SessOK(w)
    BY DEF IInv, TypeOK, Sessions, EffectInv, SessInv
  <1>2. to \in Pcs /\ from # "idle" /\ from # "answered" /\ to # from
    BY DEF Pcs
  <1>3. /\ sess' \in [Workers -> Sessions]
        /\ sess'[w].pc = to /\ sess'[w].ans = NoAnswer /\ sess'[w].a = sess[w].a
        /\ sess'[w].fresh = sess[w].fresh
        /\ \A v \in Workers : v # w => sess'[v] = sess[v]
    BY <1>1, <1>2, GotoFacts
  <1>4. sess[w].a <= active
    BY <1>1, <1>2 DEF SessOK
  <1>. QED  BY <1>1, <1>2, <1>3, <1>4 DEF Called, IInv, AloneInv, AloneOK

\* A submission whose run is not known to be over is held against the account, whatever
\* the attempt went through.
LEMMA Outstanding ==
    ASSUME NEW j \in Journals, NEW s \in AttemptStates, NEW o \in Operations, NEW i,
           FactsOK(j, s, i, o), j.submitStarted, s.remote # "inactive"
    PROVE  /\ j.plan /\ s.exec \in {"unknown"} \cup ExecutionActive
           /\ s.orch \notin OrchestrationTerminal
  <1>1. j.plan /\ j.phase \notin {"local", "staging", "ready", "prevented", "failed"} /\ j.phase \in Phases
    BY DEF FactsOK, ValidJournal, Journals
  <1>2. PhaseOK(j, s) /\ ValidState(s)
    BY DEF FactsOK
  <1>3. j.phase \in {"submitting", "submitted", "attention"}
    BY <1>1, <1>2 DEF Phases, PhaseOK, ValidState, ExecutionConsistent
  <1>4. s.exec \in {"unknown"} \cup ExecutionActive
    BY <1>2, <1>3 DEF PhaseOK, Submitted, Untouched
  <1>5. s.orch \notin OrchestrationTerminal
    BY <1>2, <1>3 DEF PhaseOK, OrchestrationTerminal
  <1>. QED  BY <1>1, <1>4, <1>5

\* A start that is pending, or has become a run that goes on.
LEMMA Pursued ==
    ASSUME IInv, NEW a \in Attempts, StartPending(a) \/ Live(world[a])
    PROVE  /\ jr[a].submitStarted /\ jr[a].plan /\ st[a].remote # "inactive"
           /\ st[a].exec \in {"unknown"} \cup ExecutionActive
           /\ st[a].orch \notin OrchestrationTerminal
           /\ a = active
  <1>1. /\ jr[a] \in Journals /\ st[a] \in AttemptStates /\ op[a] \in Operations
        /\ FactsOK(jr[a], st[a], intent[a], op[a]) /\ RunOK(a) /\ AgeOK(a) /\ active \in Nat /\ a \in Nat
    BY DEF IInv, TypeOK, RecordInv, RecordOK, RunInv, AgeInv, Attempts
  <1>2. jr[a].submitStarted /\ st[a].remote # "inactive"
    BY <1>1, Unstarted DEF RunOK, Live
  <1>3. /\ jr[a].plan /\ st[a].exec \in {"unknown"} \cup ExecutionActive
        /\ st[a].orch \notin OrchestrationTerminal
    BY <1>1, <1>2, Outstanding
  <1>4. a = active
    BY <1>1, <1>2, <1>3 DEF AgeOK, InitialJournal
  <1>. QED  BY <1>2, <1>3, <1>4

\* Prepare reaches the provider, once.
LEMMA CallPrepareStep ==
    ASSUME IInv, NEW w \in Workers, CallPrepare(w)
    PROVE  IInv'
  <1>1. PICK a : a = sess[w].a
    OBVIOUS
  <1>2. PICK staged \in BOOLEAN : world' = [world EXCEPT ![a].staged = staged, ![a].prepares = @ + 1]
    BY <1>1 DEF CallPrepare
  <1>3. sess[w].pc = "prepare" /\ Goto(w, "preparing") /\ UNCHANGED <<durable, lease, running, expired>>
    BY DEF CallPrepare
  <1>4. /\ a \in Attempts /\ a <= active /\ sess' \in [Workers -> Sessions]
        /\ \A v \in Workers : Called(sess'[v], sess[v]) /\ (sess'[v].a = a => sess'[v].pc # "prepare")
        /\ world[a] \in Worlds /\ EffectOK(a) /\ SessOK(w)
    BY <1>1, <1>3, CallFacts
  <1>5. jr[a].plan /\ world[a].prepares = 0
    BY <1>1, <1>3, <1>4 DEF SessOK
  <1>6. PICK x : x = [world[a] EXCEPT !.staged = staged, !.prepares = 1]
    OBVIOUS
  <1>7. /\ x \in Worlds /\ x.exec = world[a].exec /\ x.prepares = 1 /\ x.starts = world[a].starts
        /\ x.cancels = world[a].cancels
    <2>1. world[a] \in Worlds /\ 1 \in 0..2
      BY <1>4
    <2>. QED  BY <1>6, <2>1 DEF Worlds
  <1>8. world' = [world EXCEPT ![a] = x]
    <2>1. world \in [Attempts -> Worlds] /\ world[a].prepares + 1 = 1
      BY <1>5 DEF IInv, TypeOK
    <2>2. [world EXCEPT ![a].staged = staged, ![a].prepares = @ + 1]
            = [world EXCEPT ![a] = [world[a] EXCEPT !.staged = staged, !.prepares = world[a].prepares + 1]]
      BY <1>4, <2>1 DEF Worlds
    <2>. QED  BY <1>2, <1>6, <2>1, <2>2
  <1>9. /\ RunOK(a) /\ Moved(world[a].exec, x.exec) /\ (x.exec = "inflight" => StartPending(a))
    BY <1>4, <1>7 DEF IInv, RunInv, Moved, StartPending
  <1>10. \A v \in Workers : sess'[v].a = a => /\ sess'[v].pc = "start" => x.starts = 0
                                              /\ sess'[v].pc = "stop" => x.cancels = 0
    BY <1>4, <1>7 DEF Called, IInv, SessInv, SessOK
  <1>11. /\ st[a].exec = "not_submitted" => x.exec \in {"none", "lost", "gone"}
         /\ x.starts \in 0..1 /\ x.cancels \in 0..1 /\ x.prepares \in 0..1
         /\ x.starts = 1 => jr[a].submitStarted
         /\ x.cancels = 1 => op[a].started
         /\ x.starts = 0 => x.exec = "none"
    BY <1>4, <1>7, <1>9 DEF RunOK, EffectOK
  <1>12. \A v \in Workers : /\ Called(sess'[v], sess[v])
                            /\ sess'[v].a = a => /\ sess'[v].pc = "prepare" => x.prepares = 0
                                                 /\ sess'[v].pc = "start" => x.starts = 0
                                                 /\ sess'[v].pc = "stop" => x.cancels = 0
    BY <1>4, <1>10
  <1>13. a \in Attempts /\ a <= active /\ sess' \in [Workers -> Sessions]
    BY <1>4
  <1>. QED  BY <1>3, <1>5, <1>7, <1>8, <1>9, <1>11, <1>12, <1>13, WorldStep

\* Start reaches the provider, once.
LEMMA CallStartStep ==
    ASSUME IInv, NEW w \in Workers, CallStart(w)
    PROVE  IInv'
  <1>1. PICK a : a = sess[w].a
    OBVIOUS
  <1>2. world' = [world EXCEPT ![a].exec = "inflight", ![a].starts = @ + 1]
    BY <1>1 DEF CallStart
  <1>3. sess[w].pc = "start" /\ Goto(w, "starting") /\ UNCHANGED <<durable, lease, running, expired>>
    BY DEF CallStart
  <1>4. /\ a \in Attempts /\ a <= active /\ sess' \in [Workers -> Sessions]
        /\ \A v \in Workers : Called(sess'[v], sess[v]) /\ (sess'[v].a = a => sess'[v].pc # "start")
        /\ world[a] \in Worlds /\ EffectOK(a) /\ SessOK(w)
    BY <1>1, <1>3, CallFacts
  <1>5. jr[a].submitStarted /\ world[a].starts = 0 /\ world[a].exec = "none"
    BY <1>1, <1>3, <1>4 DEF SessOK, EffectOK
  <1>6. PICK x : x = [world[a] EXCEPT !.exec = "inflight", !.starts = 1]
    OBVIOUS
  <1>7. /\ x \in Worlds /\ x.exec = "inflight" /\ x.prepares = world[a].prepares /\ x.starts = 1
        /\ x.cancels = world[a].cancels
    <2>1. world[a] \in Worlds /\ 1 \in 0..2
      BY <1>4
    <2>. QED  BY <1>6, <2>1 DEF Worlds
  <1>8. world' = [world EXCEPT ![a] = x]
    <2>1. world \in [Attempts -> Worlds] /\ world[a].starts + 1 = 1
      BY <1>5 DEF IInv, TypeOK
    <2>2. [world EXCEPT ![a].exec = "inflight", ![a].starts = @ + 1]
            = [world EXCEPT ![a] = [world[a] EXCEPT !.exec = "inflight", !.starts = world[a].starts + 1]]
      BY <1>4, <2>1 DEF Worlds
    <2>. QED  BY <1>2, <1>6, <2>1, <2>2
  <1>9. StartPending(a) /\ Moved(world[a].exec, x.exec)
    BY <1>1, <1>3, <1>5, <1>7 DEF Moved, StartPending
  <1>10. st[a].exec # "not_submitted"
    BY <1>4, <1>9, Pursued, Names
  <1>11. \A v \in Workers : sess'[v].a = a => /\ sess'[v].pc = "prepare" => x.prepares = 0
                                              /\ sess'[v].pc = "stop" => x.cancels = 0
    BY <1>4, <1>7 DEF Called, IInv, SessInv, SessOK
  <1>12. /\ x.starts \in 0..1 /\ x.cancels \in 0..1 /\ x.prepares \in 0..1
         /\ x.prepares = 1 => jr[a].plan
         /\ x.cancels = 1 => op[a].started
    BY <1>4, <1>7 DEF EffectOK
  <1>13. \A v \in Workers : /\ Called(sess'[v], sess[v])
                            /\ sess'[v].a = a => /\ sess'[v].pc = "prepare" => x.prepares = 0
                                                 /\ sess'[v].pc = "start" => x.starts = 0
                                                 /\ sess'[v].pc = "stop" => x.cancels = 0
    BY <1>4, <1>11
  <1>14. a \in Attempts /\ a <= active /\ sess' \in [Workers -> Sessions]
    BY <1>4
  <1>15. /\ st[a].exec = "not_submitted" => x.exec \in {"none", "lost", "gone"}
         /\ x.exec = "inflight" => StartPending(a)
         /\ x.starts = 1 => jr[a].submitStarted
         /\ x.starts = 0 => x.exec = "none"
    BY <1>5, <1>7, <1>9, <1>10
  <1>16. x \in Worlds /\ Moved(world[a].exec, x.exec)
    BY <1>7, <1>9
  <1>. QED  BY <1>3, <1>8, <1>12, <1>13, <1>14, <1>15, <1>16, WorldStep

\* Cancel reaches the provider, once.
LEMMA CallCancelStep ==
    ASSUME IInv, NEW w \in Workers, CallCancel(w)
    PROVE  IInv'
  <1>1. PICK a : a = sess[w].a
    OBVIOUS
  <1>2. world' = [world EXCEPT ![a].cancels = @ + 1]
    BY <1>1 DEF CallCancel
  <1>3. sess[w].pc = "stop" /\ Goto(w, "stopping") /\ UNCHANGED <<durable, lease, running, expired>>
    BY DEF CallCancel
  <1>4. /\ a \in Attempts /\ a <= active /\ sess' \in [Workers -> Sessions]
        /\ \A v \in Workers : Called(sess'[v], sess[v]) /\ (sess'[v].a = a => sess'[v].pc # "stop")
        /\ world[a] \in Worlds /\ EffectOK(a) /\ SessOK(w)
    BY <1>1, <1>3, CallFacts
  <1>5. op[a].started /\ world[a].cancels = 0
    BY <1>1, <1>3, <1>4 DEF SessOK
  <1>6. PICK x : x = [world[a] EXCEPT !.cancels = 1]
    OBVIOUS
  <1>7. /\ x \in Worlds /\ x.exec = world[a].exec /\ x.prepares = world[a].prepares /\ x.starts = world[a].starts
        /\ x.cancels = 1
    <2>1. world[a] \in Worlds /\ 1 \in 0..2
      BY <1>4
    <2>. QED  BY <1>6, <2>1 DEF Worlds
  <1>8. world' = [world EXCEPT ![a] = x]
    <2>1. world \in [Attempts -> Worlds] /\ world[a].cancels + 1 = 1
      BY <1>5 DEF IInv, TypeOK
    <2>2. [world EXCEPT ![a].cancels = @ + 1]
            = [world EXCEPT ![a] = [world[a] EXCEPT !.cancels = world[a].cancels + 1]]
      BY <1>4, <2>1 DEF Worlds
    <2>. QED  BY <1>2, <1>6, <2>1, <2>2
  <1>9. /\ RunOK(a) /\ Moved(world[a].exec, x.exec) /\ (x.exec = "inflight" => StartPending(a))
    BY <1>4, <1>7 DEF IInv, RunInv, Moved, StartPending
  <1>10. \A v \in Workers : sess'[v].a = a => /\ sess'[v].pc = "prepare" => x.prepares = 0
                                              /\ sess'[v].pc = "start" => x.starts = 0
    BY <1>4, <1>7 DEF Called, IInv, SessInv, SessOK
  <1>11. /\ st[a].exec = "not_submitted" => x.exec \in {"none", "lost", "gone"}
         /\ x.starts \in 0..1 /\ x.cancels \in 0..1 /\ x.prepares \in 0..1
         /\ x.starts = 1 => jr[a].submitStarted
         /\ x.prepares = 1 => jr[a].plan
         /\ x.starts = 0 => x.exec = "none"
    BY <1>4, <1>7, <1>9 DEF RunOK, EffectOK
  <1>12. \A v \in Workers : /\ Called(sess'[v], sess[v])
                            /\ sess'[v].a = a => /\ sess'[v].pc = "prepare" => x.prepares = 0
                                                 /\ sess'[v].pc = "start" => x.starts = 0
                                                 /\ sess'[v].pc = "stop" => x.cancels = 0
    BY <1>4, <1>10
  <1>13. a \in Attempts /\ a <= active /\ sess' \in [Workers -> Sessions]
    BY <1>4
  <1>. QED  BY <1>3, <1>5, <1>7, <1>8, <1>9, <1>11, <1>12, <1>13, WorldStep

\* The run moves on at the provider while the engine looks away.
LEMMA WorldMovesStep ==
    ASSUME IInv, NEW a \in Attempts, WorldMoves(a)
    PROVE  IInv'
  <1>1. PICK e : /\ world' = [world EXCEPT ![a].exec = e]
                 /\ \/ world[a].exec = "inflight" /\ e \in {"queued", "lost"}
                    \/ world[a].exec = "queued" /\ e = "running"
                    \/ world[a].exec \in {"queued", "running"} /\ e \in Outcomes
                    \/ world[a].exec \in Landed /\ e = "gone"
    BY DEF WorldMoves
  <1>2. UNCHANGED <<durable, lease, running, expired>> /\ sess' = sess
    BY DEF WorldMoves
  <1>3. /\ sess \in [Workers -> Sessions] /\ world[a] \in Worlds /\ EffectOK(a) /\ RunOK(a) /\ AgeOK(a)
        /\ active \in Nat /\ a \in Nat /\ world \in [Attempts -> Worlds]
    BY DEF IInv, TypeOK, EffectInv, RunInv, AgeInv, Attempts
  <1>4. Moved(world[a].exec, e) /\ e # "inflight" /\ e \in {"lost", "gone"} \cup Landed
    BY <1>1, DispatchAssumption DEF Moved, Landed, ExecutionTerminal
  <1>5. PICK x : x = [world[a] EXCEPT !.exec = e]
    OBVIOUS
  <1>6. /\ x \in Worlds /\ x.exec = e /\ x.prepares = world[a].prepares /\ x.starts = world[a].starts
        /\ x.cancels = world[a].cancels
    BY <1>3, <1>4, <1>5 DEF Worlds
  <1>7. world' = [world EXCEPT ![a] = x]
    BY <1>1, <1>3, <1>5 DEF Worlds
  <1>8. world[a].exec # "none" /\ world[a].starts # 0
    BY <1>1, <1>3 DEF Landed, ExecutionTerminal, EffectOK
  <1>9. a <= active
    BY <1>3, <1>8 DEF AgeOK, NoWorld
  <1>10. /\ st[a].exec = "not_submitted" => x.exec \in {"none", "lost", "gone"}
         /\ x.starts \in 0..1 /\ x.cancels \in 0..1 /\ x.prepares \in 0..1
         /\ x.starts = 1 => jr[a].submitStarted
         /\ x.prepares = 1 => jr[a].plan
         /\ x.cancels = 1 => op[a].started
         /\ x.starts = 0 => x.exec = "none"
    BY <1>1, <1>3, <1>6, <1>8 DEF RunOK, EffectOK, Landed, ExecutionTerminal
  <1>11. \A v \in Workers : /\ Called(sess'[v], sess[v])
                            /\ sess'[v].a = a => /\ sess'[v].pc = "prepare" => x.prepares = 0
                                                 /\ sess'[v].pc = "start" => x.starts = 0
                                                 /\ sess'[v].pc = "stop" => x.cancels = 0
    BY <1>2, <1>6 DEF Called, IInv, SessInv, SessOK
  <1>. QED  BY <1>2, <1>3, <1>4, <1>6, <1>7, <1>9, <1>10, <1>11, WorldStep

-----------------------------------------------------------------------------
(* Claims, passes and failures.                                            *)

\* Steps that only move a session on, or end its pass.
LEMMA PassSteps ==
    ASSUME IInv, NEW w \in Workers,
           Load(w) \/ Interrupt(w) \/ ExpiredMutation(w) \/ PrepareExpires(w)
    PROVE  IInv'
  <1>1. running \in BOOLEAN
    BY DEF IInv, TypeOK
  <1>2. CASE Load(w)
    <2>1. PICK pc \in {"expire", "loaded"} : Goto(w, pc)
      BY <1>2 DEF Load
    <2>. QED  BY <1>1, <1>2, <2>1, PassStep DEF Load
  <1>3. CASE Interrupt(w)
    BY <1>1, <1>3, PassStep DEF Interrupt
  <1>4. CASE ExpiredMutation(w)
    BY <1>1, <1>4, PassStep DEF ExpiredMutation, At
  <1>5. CASE PrepareExpires(w)
    BY <1>1, <1>5, PassStep DEF PrepareExpires
  <1>. QED  BY <1>2, <1>3, <1>4, <1>5

\* Consent is consumed before anything is prepared.
LEMMA ConsumeStep ==
    ASSUME IInv, NEW w \in Workers, ConsumeAuthorization(w)
    PROVE  IInv'
  <1>1. PICK a : a = sess[w].a
    OBVIOUS
  <1>2. /\ grant' = [grant EXCEPT ![a] = "consumed"] /\ Goto(w, "consented") /\ sess[w].pc # "idle" /\ Owns(w)
        /\ UNCHANGED <<st, jr, intent, op, active, lease, running, expired, world>>
    BY <1>1 DEF ConsumeAuthorization, At
  <1>3. a = active /\ a \in Nat /\ a \in Attempts
    BY <1>1, <1>2 DEF Owns, IInv, TypeOK, Attempts
  <1>4. grant \in [Attempts -> {"none", "granted", "consumed"}] /\ running \in BOOLEAN
        /\ \A b \in Attempts : jr[b].plan => grant[b] = "consumed"
    BY DEF IInv, TypeOK, RecordInv, RecordOK
  <1>5. grant' \in [Attempts -> {"none", "granted", "consumed"}]
    BY <1>2, <1>4
  <1>6. \A b \in Attempts : (jr[b].plan => grant'[b] = "consumed") /\ (b > active => grant'[b] = grant[b])
    BY <1>2, <1>3, <1>4
  <1>. QED  BY <1>2, <1>4, <1>5, <1>6, GotoStep

\* The owner consents to an attempt that has done nothing.
LEMMA AuthorizeStep ==
    ASSUME IInv, NEW a \in Attempts, AuthorizeExecution(a)
    PROVE  IInv'
  <1>1. /\ grant' = [grant EXCEPT ![a] = "granted"] /\ a = active /\ jr[a] = InitialJournal
        /\ UNCHANGED <<st, jr, intent, op, active, lease, sess, running, expired, world>>
    BY DEF AuthorizeExecution
  <1>2. /\ grant \in [Attempts -> {"none", "granted", "consumed"}] /\ running \in BOOLEAN /\ expired \in BOOLEAN
        /\ lease \in [Attempts -> Workers \cup {NoWorker}] /\ active \in Nat
        /\ sess \in [Workers -> Sessions]
        /\ \A b \in Attempts : jr[b].plan => grant[b] = "consumed"
        /\ \A v \in Workers : sess[v].pc # "answered" => sess[v].ans.kind = "none"
    BY DEF IInv, TypeOK, RecordInv, RecordOK, Attempts, SessInv, SessOK
  <1>3. grant' \in [Attempts -> {"none", "granted", "consumed"}]
    BY <1>1, <1>2
  <1>4. \A b \in Attempts : (jr[b].plan => grant'[b] = "consumed") /\ (b > active => grant'[b] = grant[b])
    BY <1>1, <1>2 DEF InitialJournal
  <1>5. \A v \in Workers : Quieter(sess'[v], sess[v])
    BY <1>1, <1>2, LostFacts
  <1>. QED  BY <1>1, <1>2, <1>3, <1>4, <1>5, QuietStep

\* Steps that lose a session, a lease, the process or time.
LEMMA RestSteps ==
    ASSUME IInv, \/ \E w \in Workers : Yield(w) \/ Abandon(w)
                 \/ \E a \in Attempts : LeaseExpires(a)
                 \/ Crash \/ Shutdown \/ Restart \/ DeadlinePasses \/ UNCHANGED vars
    PROVE  IInv'
  <1>0. /\ running \in BOOLEAN /\ expired \in BOOLEAN /\ NoWorker \notin Workers
        /\ lease \in [Attempts -> Workers \cup {NoWorker}] /\ sess \in [Workers -> Sessions]
        /\ \A v \in Workers : sess[v].pc # "answered" => sess[v].ans.kind = "none"
    BY DispatchAssumption DEF IInv, TypeOK, SessInv, SessOK
  <1>1. \A v \in Workers : /\ Quieter(sess[v], sess[v]) /\ Quieter(Idle, sess[v])
                           /\ Quieter(Lost(sess[v]), sess[v]) /\ Lost(sess[v]) \in Sessions
    BY <1>0, LostFacts
  <1>2. ASSUME NEW w \in Workers, Yield(w) PROVE IInv'
    <2>1. /\ lease' = [lease EXCEPT ![sess[w].a] = NoWorker] /\ sess' = [sess EXCEPT ![w] = Idle]
          /\ UNCHANGED <<durable, running, expired, world>>
      BY <1>2 DEF Yield
    <2>. QED  BY <1>0, <1>1, <2>1, Starting, RestStep
  <1>3. ASSUME NEW w \in Workers, Abandon(w) PROVE IInv'
    <2>1. sess' = [sess EXCEPT ![w] = Idle] /\ UNCHANGED <<durable, lease, running, expired, world>>
      BY <1>3 DEF Abandon
    <2>. QED  BY <1>0, <1>1, <2>1, Starting, RestStep
  <1>4. ASSUME NEW a \in Attempts, LeaseExpires(a) PROVE IInv'
    <2>1. PICK w : w = lease[a]
      OBVIOUS
    <2>2. /\ w \in Workers /\ lease' = [lease EXCEPT ![a] = NoWorker]
          /\ sess' = [sess EXCEPT ![w] = IF sess[w].a = a THEN Lost(sess[w]) ELSE sess[w]]
          /\ UNCHANGED <<durable, running, expired, world>>
      BY <1>0, <1>4, <2>1 DEF LeaseExpires
    <2>3. PICK x : x = IF sess[w].a = a THEN Lost(sess[w]) ELSE sess[w]
      OBVIOUS
    <2>4. x \in Sessions /\ Quieter(x, sess[w]) /\ sess' = [sess EXCEPT ![w] = x]
      BY <1>0, <1>1, <2>2, <2>3
    <2>5. sess' \in [Workers -> Sessions] /\ \A v \in Workers : Quieter(sess'[v], sess[v])
      BY <1>0, <1>1, <2>2, <2>4
    <2>6. lease' \in [Attempts -> Workers \cup {NoWorker}] /\ \A b \in Attempts : lease'[b] \in {lease[b], NoWorker}
      BY <1>0, <2>2
    <2>. QED  BY <1>0, <2>2, <2>5, <2>6, RestStep
  <1>5. CASE Crash
    <2>1. sess' = [w \in Workers |-> Idle] /\ running' = TRUE /\ UNCHANGED <<durable, lease, expired, world>>
      BY <1>5 DEF Crash
    <2>. QED  BY <1>0, <1>1, <2>1, Starting, RestStep
  <1>6. CASE Shutdown \/ Restart \/ DeadlinePasses \/ UNCHANGED vars
    <2>1. UNCHANGED <<durable, lease, sess, world>> /\ running' \in BOOLEAN /\ expired' \in BOOLEAN
      BY <1>0, <1>6 DEF Shutdown, Restart, DeadlinePasses, vars, durable
    <2>. QED  BY <1>0, <1>1, <2>1, RestStep
  <1>. QED  BY <1>2, <1>3, <1>4, <1>5, <1>6

\* A worker takes the lease of the active attempt, with the state s.
LEMMA Claims ==
    ASSUME IInv, NEW w \in Workers, NEW a \in Attempts, sess[w].pc = "idle", a = active, lease[a] = NoWorker,
           Claim(w, a), NEW s \in AttemptStates, st' = [st EXCEPT ![a] = s],
           FactsOK(jr[a], s, intent[a], op[a]), s.exec = st[a].exec, s.remote = st[a].remote,
           UNCHANGED <<jr, grant, intent, op, active, running, expired, world>>
    PROVE  IInv'
  <1>0. /\ sess \in [Workers -> Sessions] /\ lease \in [Attempts -> Workers \cup {NoWorker}] /\ active \in Nat
        /\ st \in [Attempts -> AttemptStates] /\ NoWorker \notin Workers
    BY DispatchAssumption DEF IInv, TypeOK, Attempts
  <1>1. /\ sess' \in [Workers -> Sessions] /\ sess'[w].pc = "claimed" /\ sess'[w].a = a /\ sess'[w].ans = NoAnswer
        /\ \A v \in Workers : v # w => sess'[v] = sess[v]
    <2>. DEFINE x == [Idle EXCEPT !.pc = "claimed", !.a = a]
    <2>1. x \in Sessions /\ x.pc = "claimed" /\ x.a = a /\ x.ans = NoAnswer
      BY Starting DEF Sessions, Pcs
    <2>2. sess' = [sess EXCEPT ![w] = x]
      BY DEF Claim
    <2>. HIDE DEF x
    <2>. QED  BY <1>0, <2>1, <2>2
  <1>2. /\ lease' \in [Attempts -> Workers \cup {NoWorker}] /\ lease'[a] = w
        /\ \A b \in Attempts : b # a => lease'[b] = lease[b]
    BY <1>0 DEF Claim
  <1>3. st' \in [Attempts -> AttemptStates] /\ st'[a] = s /\ \A b \in Attempts : b # a => st'[b] = st[b]
    BY <1>0
  <1>4. TypeOK'
    BY <1>1, <1>2, <1>3 DEF IInv, TypeOK
  <1>5. RecordInv'
    BY <1>3 DEF IInv, RecordInv, RecordOK
  <1>6. AgeInv'
    <2>1. ASSUME NEW b \in Attempts PROVE AgeOK(b)'
      <3>1. AgeOK(b) /\ b \in Nat
        BY DEF IInv, AgeInv, Attempts
      <3>2. b > active \/ b < active => b # a
        BY <1>0, <3>1
      <3>. QED  BY <1>3, <3>1, <3>2 DEF AgeOK
    <2>. QED  BY <2>1 DEF AgeInv
  <1>7. EffectInv'
    BY DEF IInv, EffectInv, EffectOK
  <1>8. ASSUME NEW v \in Workers PROVE SessOK(v)'
    <2>1. SessOK(v)
      BY DEF IInv, SessInv
    <2>2. CASE v = w
      BY <1>0, <1>1, <2>2, Starting DEF SessOK, AnswerTrue
    <2>3. CASE v # w
      BY <1>1, <2>1, <2>3 DEF SessOK
    <2>. QED  BY <2>2, <2>3
  <1>9. AloneInv'
    BY <1>1 DEF IInv, AloneInv, AloneOK
  <1>10. ASSUME NEW b \in Attempts PROVE RunOK(b)'
    <2>1. ~StartPending(b) => ~StartPending(b)'
      BY <1>1 DEF StartPending
    <2>2. ~OutdatedInventory(b) => ~OutdatedInventory(b)'
      BY <1>1, Starting DEF OutdatedInventory
    <2>3. st'[b].exec = st[b].exec /\ st'[b].remote = st[b].remote /\ RunOK(b)
      BY <1>3 DEF IInv, RunInv
    <2>. QED  BY <2>1, <2>2, <2>3 DEF RunOK
  <1>11. ASSUME NEW v \in Workers PROVE OwnerOK(v)'
    <2>1. CASE v = w
      BY <1>1, <2>1, Starting, OwnerRests
    <2>2. CASE v # w
      <3>1. sess[v] \in Sessions /\ sess[v].a \in Attempts /\ OwnerOK(v)
        BY <1>0 DEF Sessions, IInv, OwnerInv
      <3>2. CASE sess[v].a = a
        <4>1. ~Owns(v)'
          BY <1>1, <1>2, <2>2, <3>2 DEF Owns
        <4>. QED  BY <4>1 DEF OwnerOK
      <3>3. CASE sess[v].a # a
        <4>1. Owns(v)' => Owns(v)
          BY <1>1, <1>2, <2>2, <3>1, <3>3 DEF Owns
        <4>. QED  BY <1>1, <1>3, <2>2, <3>1, <3>3, <4>1 DEF OwnerOK
      <3>. QED  BY <3>2, <3>3
    <2>. QED  BY <2>1, <2>2
  <1>. QED  BY <1>4, <1>5, <1>6, <1>7, <1>8, <1>9, <1>10, <1>11 DEF IInv, SessInv, RunInv, OwnerInv

\* A worker claims an attempt nobody holds.
LEMMA ClaimSteps ==
    ASSUME IInv, NEW w \in Workers, ClaimStep(w)
    PROVE  IInv'
  <1>1. PICK a \in Attempts : ClaimRecovery(w, a) \/ ClaimNext(w, a)
    BY DEF ClaimStep
  <1>2. /\ jr[a] \in Journals /\ st[a] \in AttemptStates /\ op[a] \in Operations
        /\ FactsOK(jr[a], st[a], intent[a], op[a]) /\ st \in [Attempts -> AttemptStates]
    BY DEF IInv, TypeOK, RecordInv, RecordOK
  <1>3. sess[w].pc = "idle" /\ a = active /\ lease[a] = NoWorker /\ Claim(w, a)
    BY <1>1 DEF ClaimRecovery, ClaimNext, Claimable
  <1>4. CASE ClaimRecovery(w, a)
    <2>1. PICK s : s = st[a]
      OBVIOUS
    <2>2. st' = [st EXCEPT ![a] = s] /\ UNCHANGED <<jr, grant, intent, op, active, running, expired, world>>
      BY <1>2, <1>4, <2>1 DEF ClaimRecovery, durable
    <2>. QED  BY <1>2, <1>3, <2>1, <2>2, Claims
  <1>5. CASE ClaimNext(w, a)
    <2>1. PICK s : s = [st[a] EXCEPT !.orch = "preparing"]
      OBVIOUS
    <2>2. /\ st' = [st EXCEPT ![a] = s] /\ ~jr[a].plan /\ LocalOnly(st[a])
          /\ UNCHANGED <<jr, grant, intent, op, active, running, expired, world>>
      BY <1>2, <1>5, <2>1 DEF ClaimNext, AttemptStates
    <2>3. /\ s \in AttemptStates /\ s.exec = st[a].exec /\ s.remote = st[a].remote /\ s.release = st[a].release
          /\ s.cancel = st[a].cancel /\ s.result = st[a].result /\ s.deadline = st[a].deadline
          /\ s.orch = "preparing"
      BY <1>2, <2>1 DEF AttemptStates, Orchestrations
    <2>4. LocalOnly(s)
      BY <2>2, <2>3 DEF LocalOnly, ValidState, ExecutionConsistent, ResultConsistent,
         CancellationConsistent, ReleaseConsistent, OrchestrationConsistent, OrchestrationTerminal,
         ExecutionTerminal, ExecutionActive
    <2>5. jr[a].phase = "local" /\ st[a].release = "unknown"
      BY <1>2, <2>2 DEF FactsOK, ValidJournal, PhaseOK, LocalOnly, OrchestrationTerminal
    <2>6. PhaseOK(jr[a], s)
      BY <2>2, <2>3, <2>4, <2>5 DEF PhaseOK
    <2>7. CancelOK(jr[a], s, op[a])
      BY <1>2, <2>3 DEF FactsOK, CancelOK, CancellationPending
    <2>8. FactsOK(jr[a], s, intent[a], op[a])
      BY <1>2, <2>4, <2>6, <2>7 DEF FactsOK, LocalOnly
    <2>. QED  BY <1>2, <1>3, <2>2, <2>3, <2>8, Claims
  <1>. QED  BY <1>1, <1>4, <1>5

-----------------------------------------------------------------------------
(* Requests and collection.                                                *)

\* What holds of one attempt.
LEMMA Known ==
    ASSUME IInv, NEW a \in Attempts
    PROVE  /\ jr[a] \in Journals /\ st[a] \in AttemptStates /\ op[a] \in Operations
           /\ intent \in [Attempts -> Intents] /\ intent[a] \in Intents
           /\ FactsOK(jr[a], st[a], intent[a], op[a])
           /\ jr[a].plan => grant[a] = "consumed"
           /\ RunOK(a) /\ AgeOK(a) /\ a \in Nat /\ active \in Nat
  BY DEF IInv, TypeOK, RecordInv, RecordOK, RunInv, AgeInv, Attempts, Intents

\* A fenced session relies on nothing; one that is only claimed has loaded nothing.
LEMMA FenceFacts ==
    ASSUME IInv, NEW a \in Attempts, NEW revised \in BOOLEAN, Fence(a, revised)
    PROVE  /\ sess' \in [Workers -> Sessions]
           /\ \A v \in Workers : Quieter(sess'[v], sess[v]) /\ (sess'[v].a = a => OwnerOK(v)')
  <1>1. /\ sess \in [Workers -> Sessions]
        /\ \A v \in Workers : sess[v].pc # "answered" => sess[v].ans.kind = "none"
    BY DEF IInv, TypeOK, SessInv, SessOK
  <1>2. \A v \in Workers : /\ Lost(sess[v]) \in Sessions /\ Quieter(Lost(sess[v]), sess[v])
                           /\ Quieter(sess[v], sess[v])
                           /\ Lost(sess[v]).pc = "idle" \/ ~Lost(sess[v]).fresh
    BY <1>1, LostFacts
  <1>3. \A v \in Workers : sess'[v] = IF sess[v].a = a /\ (revised \/ sess[v].pc # "claimed")
                                      THEN Lost(sess[v]) ELSE sess[v]
    BY DEF Fence
  <1>4. sess' \in [Workers -> Sessions]
    <2>. DEFINE x(v) == IF sess[v].a = a /\ (revised \/ sess[v].pc # "claimed")
                        THEN Lost(sess[v]) ELSE sess[v]
    <2>1. \A v \in Workers : x(v) \in Sessions
      BY <1>1, <1>2
    <2>2. sess' = [v \in Workers |-> x(v)]
      BY DEF Fence
    <2>. HIDE DEF x
    <2>. QED  BY <2>1, <2>2
  <1>5. ASSUME NEW v \in Workers PROVE Quieter(sess'[v], sess[v])
    BY <1>2, <1>3
  <1>6. ASSUME NEW v \in Workers, sess'[v].a = a PROVE OwnerOK(v)'
    <2>1. CASE sess'[v] = Lost(sess[v])
      <3>1. CASE sess'[v].pc = "idle"
        <4>1. sess[v].pc = "idle"
          BY <1>1, <1>2, <2>1, <3>1, Starting DEF Lost, Calling, Sessions
        <4>2. sess'[v].ans.kind = "none"
          BY <1>1, <2>1, <4>1 DEF Lost
        <4>. QED  BY <3>1, <4>2, OwnerRests
      <3>2. CASE ~sess'[v].fresh
        BY <3>2 DEF OwnerOK, Owns
      <3>. QED  BY <1>2, <2>1, <3>1, <3>2
    <2>2. CASE sess'[v] = sess[v] /\ sess[v].pc = "claimed"
      BY <1>1, <2>2, OwnerRests
    <2>. QED  BY <1>3, <1>6, <2>1, <2>2
  <1>. QED  BY <1>4, <1>5, <1>6

\* A control write of admissible, truthful facts.
LEMMA ControlFrame ==
    ASSUME IInv, NEW a \in Attempts, NEW j \in Journals, NEW s \in AttemptStates, NEW o \in Operations,
           NEW i \in Intents, ControlWrite(a, j, s, o), intent' = [intent EXCEPT ![a] = i],
           FactsOK(j, s, i, o), j.plan = jr[a].plan, j.submitStarted = jr[a].submitStarted,
           o.started = op[a].started, a = active \/ (a < active /\ s.orch \in OrchestrationTerminal),
           Truthful(a, j, s)
    PROVE  IInv'
  <1>1. Written(a, j, s, i, o) /\ running' = running /\ running \in BOOLEAN
    BY DEF ControlWrite, Written, IInv, TypeOK
  <1>2. Admissible(a, j, s, i, o)
    BY Known DEF Admissible
  <1>3. /\ sess' \in [Workers -> Sessions]
        /\ \A v \in Workers : Quieter(sess'[v], sess[v]) /\ (sess'[v].a = a => OwnerOK(v)')
    <2>1. PICK revised \in BOOLEAN : Fence(a, revised)
      <3>1. Fence(a, s # st[a]) /\ (s # st[a]) \in BOOLEAN
        BY DEF ControlWrite
      <3>. QED  BY <3>1
    <2>. QED  BY <2>1, FenceFacts
  <1>. QED  BY <1>1, <1>2, <1>3, WriteStep

\* The operation that a cancel request leaves.
LEMMA RequestFacts ==
    ASSUME NEW a, op[a] \in Operations, NEW status \in {"accepted", "succeeded", "manual"}
    PROVE  /\ CancelOperation(a, status) \in Operations
           /\ CancelOperation(a, status).cancel = status /\ CancelOperation(a, status).polls = 0
           /\ CancelOperation(a, status).started = op[a].started
  <1>1. 0 \in 0..MaxFailures
    BY MaxFailuresAssumption
  <1>. QED  BY <1>1 DEF CancelOperation, Operations

\* Settled operations ask nothing of the attempt.
LEMMA SettledFacts ==
    ASSUME NEW j, NEW s, NEW i, NEW o \in Operations, FactsOK(j, s, i, o),
           NEW k, NEW t, NEW p, ~Pending(p), p.started = o.started, k.submitStarted = j.submitStarted
    PROVE  CancelOK(k, t, p)
  BY DEF FactsOK, CancelOK

\* A request for a settled attempt keeps what was settled.
LEMMA CancelSettledStep ==
    ASSUME IInv, NEW a \in Attempts, CancelSettled(a)
    PROVE  IInv'
  <1>1. PICK o : o = CancelOperation(a, "succeeded")
    OBVIOUS
  <1>2. PICK j : j = jr[a]
    OBVIOUS
  <1>3. PICK i : i = intent[a]
    OBVIOUS
  <1>4. o \in Operations /\ o.cancel = "succeeded" /\ o.started = op[a].started
    BY <1>1, Known, RequestFacts
  <1>5. intent' = [intent EXCEPT ![a] = i]
    BY <1>3, Known DEF CancelSettled
  <1>6. \A t : CancelOK(j, t, o)
    BY <1>2, <1>4, Known, SettledFacts DEF Pending
  <1>7. CASE /\ st[a].orch \in OrchestrationTerminal
             /\ ControlWrite(a, jr[a], st[a], CancelOperation(a, "succeeded"))
    <2>1. PICK s : s = st[a]
      OBVIOUS
    <2>2. ControlWrite(a, j, s, o)
      BY <1>1, <1>2, <1>7, <2>1
    <2>3. FactsOK(j, s, i, o)
      BY <1>2, <1>3, <1>6, <2>1, Known DEF FactsOK
    <2>4. a = active \/ (a < active /\ s.orch \in OrchestrationTerminal)
      BY <1>7, <2>1, Known DEF AgeOK, InitialAttemptState, OrchestrationTerminal
    <2>5. Truthful(a, j, s)
      BY <1>2, <2>1, Known, SameEvidence
    <2>. QED  BY <1>2, <1>3, <1>4, <1>5, <2>1, <2>2, <2>3, <2>4, <2>5, Known, ControlFrame
  <1>8. CASE /\ st[a].orch \notin OrchestrationTerminal /\ a = active /\ st[a].exec \in ExecutionTerminal
             /\ LET t == [st[a] EXCEPT !.cancel = IF st[a].exec = "cancelled" THEN "confirmed" ELSE "too_late"]
                IN  ValidState(t) /\ ControlWrite(a, jr[a], t, CancelOperation(a, "succeeded"))
    <2>1. PICK c : c = IF st[a].exec = "cancelled" THEN "confirmed" ELSE "too_late"
      OBVIOUS
    <2>2. PICK s : s = [st[a] EXCEPT !.cancel = c]
      OBVIOUS
    <2>3. ControlWrite(a, j, s, o) /\ ValidState(s)
      BY <1>1, <1>2, <1>8, <2>1, <2>2
    <2>4. /\ s \in AttemptStates /\ s.exec = st[a].exec /\ s.remote = st[a].remote
          /\ s.cancel \in {"confirmed", "too_late"}
      BY <2>1, <2>2, Known DEF AttemptStates, Cancellations
    <2>5. j.phase = "collectible"
      BY <1>2, <1>8, Known, Names DEF FactsOK, PhaseOK, LocalOnly, Untouched, Submitted, Journals, Phases
    <2>6. PhaseOK(j, s)
      BY <1>2, <1>8, <2>4, <2>5, Known DEF FactsOK, PhaseOK
    <2>7. FactsOK(j, s, i, o)
      BY <1>2, <1>3, <1>6, <2>3, <2>6, Known DEF FactsOK
    <2>8. Truthful(a, j, s)
      BY <1>2, <2>4, Known, SameEvidence
    <2>. QED  BY <1>2, <1>3, <1>4, <1>5, <1>8, <2>3, <2>4, <2>7, <2>8, Known, ControlFrame
  <1>. QED  BY <1>7, <1>8 DEF CancelSettled, ValidTransition

\* A request before the submission ends the attempt without one.
LEMMA CancelPreventsStep ==
    ASSUME IInv, NEW a \in Attempts, CancelPrevents(a)
    PROVE  IInv'
  <1>1. PICK o : o = CancelOperation(a, "succeeded")
    OBVIOUS
  <1>2. PICK j : j = [jr[a] EXCEPT !.phase = "prevented"]
    OBVIOUS
  <1>3. PICK s : s = [st[a] EXCEPT !.orch = "cancelled", !.cancel = "prevented", !.release = "not_applicable"]
    OBVIOUS
  <1>4. PICK i : i = intent[a]
    OBVIOUS
  <1>5. /\ ControlWrite(a, j, s, o) /\ a = active /\ ValidJournal(j) /\ ValidState(s) /\ ~jr[a].submitStarted
        /\ st[a].orch \notin OrchestrationTerminal
    BY <1>1, <1>2, <1>3 DEF CancelPrevents, PreventDispatch, PreventDispatchAllowed, Commits, ValidTransition
  <1>6. intent' = [intent EXCEPT ![a] = i]
    BY <1>4, Known DEF CancelPrevents
  <1>7. o \in Operations /\ o.cancel = "succeeded" /\ o.started = op[a].started
    BY <1>1, Known, RequestFacts
  <1>8. /\ j \in Journals /\ j.phase = "prevented" /\ j.plan = jr[a].plan /\ j.submitStarted = jr[a].submitStarted
        /\ j.absence = jr[a].absence /\ j.remote = jr[a].remote
    BY <1>2, Known DEF Journals, Phases
  <1>9. /\ s \in AttemptStates /\ s.exec = st[a].exec /\ s.remote = st[a].remote
        /\ s.orch = "cancelled"
    BY <1>3, Known DEF AttemptStates, Orchestrations, OrchestrationTerminal, Cancellations, ReleaseEvidences
  <1>10. st[a].exec = "not_submitted" /\ st[a].remote = "not_started"
    BY <1>5, Known, BeforeSubmission
  <1>11. PhaseOK(j, s)
    BY <1>8, <1>9, <1>10 DEF PhaseOK, OrchestrationTerminal
  <1>12. IntentOK(j, i)
    BY <1>4, <1>5, <1>8, Known DEF FactsOK, IntentOK
  <1>13. CancelOK(j, s, o)
    BY <1>7, <1>8, Known, SettledFacts DEF Pending
  <1>14. FactsOK(j, s, i, o)
    BY <1>5, <1>11, <1>12, <1>13 DEF FactsOK
  <1>15. Truthful(a, j, s)
    BY <1>8, <1>9, Known, SameEvidence
  <1>. QED  BY <1>4, <1>5, <1>6, <1>7, <1>8, <1>9, <1>14, <1>15, Known, ControlFrame

\* A reopened journal goes on where its evidence stands.
LEMMA ReopenFacts ==
    ASSUME NEW j \in Journals, NEW s, NEW owner \in BOOLEAN, NEW k, k = RequestReconciliation(j, s, owner).j
    PROVE  /\ k \in Journals /\ k.plan = j.plan /\ k.submitStarted = j.submitStarted /\ k.remote = j.remote
           /\ k.phase = IF ~j.submitStarted THEN "staging" ELSE IF j.remote THEN "submitted" ELSE "submitting"
           /\ k.absence = "elapsed" => j.absence = "elapsed"
  <1>. DEFINE c == Cleared(j)
              phase == IF ~j.submitStarted THEN "staging" ELSE IF j.remote THEN "submitted" ELSE "submitting"
              present == j.ownerPresent \/ owner
              absence == IF owner THEN "unset" ELSE j.absence
  <1>1. c \in Journals /\ SameCourse(j, c)
    BY Conditions DEF Problems
  <1>2. k = [c EXCEPT !.phase = phase, !.ownerPresent = present, !.absence = absence]
    BY <1>1 DEF RequestReconciliation, SameCourse
  <1>3. phase \in Phases /\ present \in BOOLEAN /\ absence \in Windows /\ (absence = "elapsed" => j.absence = "elapsed")
    BY DEF Phases, Windows, Journals
  <1>. HIDE DEF c, phase, present, absence
  <1>4. /\ k \in Journals /\ k.plan = c.plan /\ k.submitStarted = c.submitStarted /\ k.remote = c.remote
        /\ k.phase = phase /\ k.absence = absence
    BY <1>1, <1>2, <1>3 DEF Journals
  <1>. QED  BY <1>1, <1>3, <1>4 DEF SameCourse, phase

\* After the submission, an attempt that has not ended is submitting, observed or stuck.
LEMMA LiveSubmission ==
    ASSUME NEW j \in Journals, NEW s \in AttemptStates, NEW o \in Operations, NEW i,
           FactsOK(j, s, i, o), j.submitStarted,
           s.orch \notin OrchestrationTerminal, s.exec \notin ExecutionTerminal
    PROVE  /\ j.phase \in {"submitting", "submitted", "attention"}
           /\ s.exec \in {"unknown"} \cup ExecutionActive /\ s.result = "not_available"
           /\ j.phase = "submitting" => ~j.remote
           /\ j.phase = "submitted" => j.remote
           /\ ~j.remote => Submitted(s)
           /\ j.remote /\ ~RemoteAbsence(j) =>
                s.remote \in {"possible", "active"} /\ s.release \in {"unknown", "not_observable"}
  <1>1. PhaseOK(j, s) /\ ValidJournal(j) /\ ValidState(s) /\ j.phase \in Phases /\ j.remote \in BOOLEAN
    BY DEF FactsOK, Journals
  <1>2. j.phase \in {"submitting", "submitted", "attention"}
    BY <1>1 DEF PhaseOK, ValidJournal, Phases
  <1>3. (j.phase = "submitting" => ~j.remote) /\ (j.phase = "submitted" => j.remote)
    BY <1>1 DEF ValidJournal
  <1>4. ~j.remote => Submitted(s)
    BY <1>1, <1>2, <1>3 DEF PhaseOK
  <1>5. s.exec \in {"unknown"} \cup ExecutionActive
    BY <1>1, <1>2, <1>4 DEF PhaseOK, Submitted
  <1>6. s.result = "not_available"
    BY <1>1 DEF ValidState, ResultConsistent
  <1>7. j.remote /\ ~RemoteAbsence(j) =>
          s.remote \in {"possible", "active"} /\ s.release \in {"unknown", "not_observable"}
    BY <1>1, <1>2, <1>3 DEF PhaseOK, RemoteAbsence
  <1>. QED  BY <1>2, <1>3, <1>4, <1>5, <1>6, <1>7

\* A request after the submission waits for a worker, or goes to the owner.
LEMMA CancelRequestedStep ==
    ASSUME IInv, NEW a \in Attempts, CancelRequested(a)
    PROVE  IInv'
  <1>1. PICK i : i = intent[a]
    OBVIOUS
  <1>2. PICK s : s = [st[a] EXCEPT !.cancel = "requested", !.orch = "cancelling"]
    OBVIOUS
  <1>3. PICK k : k = RequestReconciliation(jr[a], s, FALSE).j
    OBVIOUS
  <1>4. intent' = [intent EXCEPT ![a] = i]
    BY <1>1, Known DEF CancelRequested
  <1>5. /\ a = active /\ jr[a].submitStarted /\ ValidState(s)
        /\ st[a].orch \notin OrchestrationTerminal /\ st[a].exec \notin ExecutionTerminal
    BY <1>2 DEF CancelRequested, ValidTransition
  <1>6. /\ s \in AttemptStates /\ s.exec = st[a].exec /\ s.remote = st[a].remote /\ s.release = st[a].release
        /\ s.result = st[a].result /\ s.cancel = "requested" /\ s.orch = "cancelling"
    BY <1>2, Known DEF AttemptStates, Cancellations, Orchestrations
  <1>7. /\ jr[a].phase \in {"submitting", "submitted", "attention"}
        /\ s.exec \in {"unknown"} \cup ExecutionActive /\ s.result = "not_available"
        /\ jr[a].phase = "submitting" => ~jr[a].remote
        /\ jr[a].phase = "submitted" => jr[a].remote
        /\ ~jr[a].remote => Submitted(st[a])
        /\ jr[a].remote /\ ~RemoteAbsence(jr[a]) =>
             s.remote \in {"possible", "active"} /\ s.release \in {"unknown", "not_observable"}
    BY <1>5, <1>6, Known, LiveSubmission
  <1>8. ~jr[a].remote => Submitted(s)
    BY <1>6, <1>7 DEF Submitted
  <1>9. CASE ControlWrite(a, jr[a], Manual(s), CancelOperation(a, "manual")) /\ jr[a].phase = "attention"
    <2>1. PICK t : t = Manual(s)
      OBVIOUS
    <2>2. PICK o : o = CancelOperation(a, "manual")
      OBVIOUS
    <2>3. PICK j : j = jr[a]
      OBVIOUS
    <2>4. ControlWrite(a, j, t, o)
      BY <1>9, <2>1, <2>2, <2>3
    <2>5. o \in Operations /\ o.cancel = "manual" /\ o.started = op[a].started
      BY <2>2, Known, RequestFacts
    <2>6. t \in AttemptStates /\ ValidState(t)
      BY <1>5, <1>6, <1>7, <2>1, ManualState, Names
    <2>7. /\ t.exec = st[a].exec /\ t.remote = st[a].remote /\ t.release = st[a].release
          /\ t.result = st[a].result /\ t.cancel = "manual_required" /\ t.orch = "needs_attention"
      BY <1>6, <2>1 DEF Manual, AttemptStates
    <2>8. PhaseOK(j, t)
      <3>1. PhaseOK(jr[a], st[a])
        BY Known DEF FactsOK
      <3>. QED  BY <1>5, <1>7, <1>9, <2>3, <2>7, <3>1 DEF PhaseOK, Submitted
    <2>9. CancelOK(j, t, o)
      BY <2>3, <2>5, Known, SettledFacts DEF Pending
    <2>10. FactsOK(j, t, i, o)
      BY <1>1, <2>3, <2>6, <2>8, <2>9, Known DEF FactsOK
    <2>11. Truthful(a, j, t)
      BY <2>3, <2>7, Known, SameEvidence
    <2>. QED  BY <1>1, <1>4, <1>5, <2>3, <2>4, <2>5, <2>6, <2>10, <2>11, Known, ControlFrame
  <1>10. ASSUME NEW j \in Journals, ValidJournal(j), ControlWrite(a, j, s, CancelOperation(a, "accepted")),
                j.plan = jr[a].plan, j.submitStarted = jr[a].submitStarted, j.remote = jr[a].remote,
                j.absence = "elapsed" => jr[a].absence = "elapsed",
                j.phase = IF jr[a].remote THEN "submitted" ELSE "submitting", ~RemoteAbsence(jr[a])
         PROVE  IInv'
    <2>1. PICK o : o = CancelOperation(a, "accepted")
      OBVIOUS
    <2>2. o \in Operations /\ o.cancel = "accepted" /\ o.started = op[a].started /\ o.polls = 0
      BY <2>1, Known, RequestFacts
    <2>3. PhaseOK(j, s)
      BY <1>6, <1>7, <1>8, <1>10 DEF PhaseOK, CancellationPending
    <2>4. CancelOK(j, s, o)
      BY <1>5, <1>6, <1>10, <2>2, MaxFailuresAssumption DEF CancelOK, CancellationPending, Pending
    <2>5. IntentOK(j, i)
      <3>1. IntentOK(jr[a], i) /\ jr[a].phase # "rejected"
        BY <1>1, <1>7, Known DEF FactsOK
      <3>. QED  BY <1>10, <3>1 DEF IntentOK
    <2>6. FactsOK(j, s, i, o)
      BY <1>5, <1>10, <2>3, <2>4, <2>5 DEF FactsOK
    <2>7. Truthful(a, j, s)
      BY <1>6, <1>10, Known, SameEvidence
    <2>. QED  BY <1>1, <1>4, <1>5, <1>6, <1>10, <2>1, <2>2, <2>6, <2>7, Known, ControlFrame
  <1>11. CASE /\ ControlWrite(a, k, s, CancelOperation(a, "accepted")) /\ jr[a].phase = "attention"
              /\ RequestReconciliationAllowed(jr[a], s, FALSE) /\ ValidJournal(k)
    <2>0. PICK owner \in BOOLEAN : owner = FALSE
      OBVIOUS
    <2>1. k = RequestReconciliation(jr[a], s, owner).j
      BY <1>3, <2>0
    <2>2. /\ k \in Journals /\ k.plan = jr[a].plan /\ k.submitStarted = jr[a].submitStarted
          /\ k.remote = jr[a].remote /\ (k.absence = "elapsed" => jr[a].absence = "elapsed")
          /\ k.phase = IF ~jr[a].submitStarted THEN "staging"
                       ELSE IF jr[a].remote THEN "submitted" ELSE "submitting"
      <3>1. jr[a] \in Journals
        BY Known
      <3>. QED  BY <2>1, <3>1, ReopenFacts
    <2>3. ~RemoteAbsence(jr[a])
      BY <1>11 DEF RequestReconciliationAllowed
    <2>. QED  BY <1>5, <1>10, <1>11, <2>2, <2>3
  <1>12. CASE ControlWrite(a, jr[a], s, CancelOperation(a, "accepted")) /\ jr[a].phase # "attention"
    <2>1. ~RemoteAbsence(jr[a]) /\ ValidJournal(jr[a]) /\ jr[a] \in Journals
      BY <1>12, Known DEF RemoteAbsence, FactsOK
    <2>2. jr[a].phase = IF jr[a].remote THEN "submitted" ELSE "submitting"
      BY <1>7, <1>12
    <2>. QED  BY <1>10, <1>12, <2>1, <2>2
  <1>. QED
    <2>. DEFINE r == RequestReconciliation(jr[a], s, FALSE)
                reopens == RequestReconciliationAllowed(jr[a], s, FALSE) /\ Commits(s, r)
    <2>1. IF jr[a].phase = "attention" /\ ~reopens
          THEN ControlWrite(a, jr[a], Manual(s), CancelOperation(a, "manual"))
          ELSE ControlWrite(a, IF jr[a].phase = "attention" THEN r.j ELSE jr[a], s,
                            CancelOperation(a, "accepted"))
      BY <1>2 DEF CancelRequested
    <2>2. CASE jr[a].phase = "attention" /\ ~reopens
      BY <1>9, <2>1, <2>2
    <2>3. CASE jr[a].phase = "attention" /\ reopens
      <3>1. ControlWrite(a, k, s, CancelOperation(a, "accepted"))
        BY <1>3, <2>1, <2>3
      <3>2. ValidJournal(k) /\ RequestReconciliationAllowed(jr[a], s, FALSE)
        BY <1>3, <2>3 DEF Commits
      <3>. QED  BY <1>11, <2>3, <3>1, <3>2
    <2>4. CASE jr[a].phase # "attention"
      BY <1>12, <2>1, <2>4
    <2>. QED  BY <2>2, <2>3, <2>4

\* A reconcile request resumes observation where the evidence stands.
LEMMA ReconcileStep ==
    ASSUME IInv, NEW a \in Attempts, NEW owner \in BOOLEAN, Reconcile(a, owner)
    PROVE  IInv'
  <1>1. PICK i : i = intent[a]
    OBVIOUS
  <1>2. PICK j : j = RequestReconciliation(jr[a], st[a], owner).j
    OBVIOUS
  <1>3. PICK s : s = RequestReconciliation(jr[a], st[a], owner).s
    OBVIOUS
  <1>4. PICK o : o = [op[a] EXCEPT !.reconcile = TRUE]
    OBVIOUS
  <1>5. /\ ControlWrite(a, j, s, o) /\ a = active /\ ValidJournal(j) /\ ValidState(s)
        /\ RequestReconciliationAllowed(jr[a], st[a], owner)
    BY <1>2, <1>3, <1>4 DEF Reconcile, Commits, ValidTransition
  <1>6. intent' = [intent EXCEPT ![a] = i]
    BY <1>1, Known DEF Reconcile
  <1>7. o \in Operations /\ o.cancel = op[a].cancel /\ o.started = op[a].started /\ o.polls = op[a].polls
    BY <1>4, Known DEF Operations
  <1>8. /\ j \in Journals /\ j.plan = jr[a].plan /\ j.submitStarted = jr[a].submitStarted
        /\ j.remote = jr[a].remote /\ (j.absence = "elapsed" => jr[a].absence = "elapsed")
        /\ j.phase = IF ~jr[a].submitStarted THEN "staging"
                     ELSE IF jr[a].remote THEN "submitted" ELSE "submitting"
    BY <1>2, Known, ReopenFacts
  <1>9. /\ s \in AttemptStates /\ s.exec = st[a].exec /\ s.remote = st[a].remote /\ s.release = st[a].release
        /\ s.result = st[a].result /\ s.cancel = st[a].cancel /\ s.deadline = st[a].deadline
        /\ s.orch = IF CancellationPending(st[a]) THEN "cancelling" ELSE "reconciling"
    <2>. DEFINE x == IF CancellationPending(st[a]) THEN "cancelling" ELSE "reconciling"
    <2>1. x \in Orchestrations /\ s = [st[a] EXCEPT !.orch = x]
      BY <1>3 DEF RequestReconciliation, Orchestrations
    <2>. HIDE DEF x
    <2>2. /\ s \in AttemptStates /\ s.exec = st[a].exec /\ s.remote = st[a].remote /\ s.release = st[a].release
          /\ s.result = st[a].result /\ s.cancel = st[a].cancel /\ s.deadline = st[a].deadline /\ s.orch = x
      BY <2>1, Known DEF AttemptStates
    <2>. QED  BY <2>2 DEF x
  <1>10. /\ ~RemoteAbsence(jr[a]) /\ st[a].orch \notin OrchestrationTerminal /\ st[a].exec \notin ExecutionTerminal
    BY <1>5 DEF RequestReconciliationAllowed
  <1>11. PhaseOK(j, s) /\ (Pending(op[a]) => j.phase = jr[a].phase)
    <2>1. CASE ~jr[a].submitStarted
      <3>1. Untouched(st[a]) /\ ~Pending(op[a])
        BY <1>10, <2>1, Known, BeforeSubmission
      <3>2. s.orch = "reconciling" /\ Untouched(s)
        BY <1>9, <3>1 DEF Untouched, CancellationPending
      <3>. QED  BY <1>8, <2>1, <3>1, <3>2 DEF PhaseOK
    <2>2. CASE jr[a].submitStarted
      <3>1. /\ jr[a].phase \in {"submitting", "submitted", "attention"}
            /\ st[a].exec \in {"unknown"} \cup ExecutionActive
            /\ jr[a].phase = "submitting" => ~jr[a].remote
            /\ jr[a].phase = "submitted" => jr[a].remote
            /\ ~jr[a].remote => Submitted(st[a])
            /\ jr[a].remote => st[a].remote \in {"possible", "active"} /\ st[a].release \in {"unknown", "not_observable"}
        BY <1>10, <2>2, Known, LiveSubmission
      <3>2. CASE ~jr[a].remote
        <4>1. Submitted(s) /\ s.orch \in {"reconciling", "cancelling"}
          BY <1>9, <3>1, <3>2 DEF Submitted
        <4>2. j.phase = "submitting" /\ (Pending(op[a]) => jr[a].phase = "submitting")
          BY <1>8, <2>2, <3>1, <3>2, Known DEF FactsOK, CancelOK
        <4>3. s.orch = "cancelling" => CancellationPending(s)
          BY <1>9 DEF CancellationPending
        <4>. QED  BY <4>1, <4>2, <4>3 DEF PhaseOK
      <3>3. CASE jr[a].remote
        <4>1. j.phase = "submitted" /\ (Pending(op[a]) => jr[a].phase = "submitted")
          BY <1>8, <2>2, <3>1, <3>3, Known DEF FactsOK, CancelOK
        <4>2. s.orch \in {"reconciling", "cancelling"} /\ (s.orch = "cancelling" => CancellationPending(s))
          BY <1>9 DEF CancellationPending
        <4>3. s.cancel \in {"not_requested", "requested", "requesting", "accepted", "manual_required"}
          BY <1>9, <3>1, <3>3, Known DEF FactsOK, PhaseOK
        <4>. QED  BY <1>9, <3>1, <3>3, <4>1, <4>2, <4>3 DEF PhaseOK
      <3>. QED  BY <3>2, <3>3
    <2>. QED  BY <2>1, <2>2
  <1>12. CancelOK(j, s, o)
    BY <1>7, <1>8, <1>9, <1>11, Known DEF FactsOK, CancelOK, Pending, CancellationPending
  <1>13. IntentOK(j, i)
    <2>1. IntentOK(jr[a], i) /\ (jr[a].submitStarted => jr[a].phase # "rejected")
      BY <1>1, <1>10, Known, LiveSubmission DEF FactsOK
    <2>2. j.phase # "rejected"
      BY <1>8
    <2>. QED  BY <1>8, <2>1, <2>2 DEF IntentOK
  <1>14. FactsOK(j, s, i, o)
    BY <1>5, <1>11, <1>12, <1>13 DEF FactsOK
  <1>15. Truthful(a, j, s)
    BY <1>8, <1>9, Known, SameEvidence
  <1>. QED  BY <1>1, <1>5, <1>6, <1>7, <1>8, <1>9, <1>14, <1>15, Known, ControlFrame

\* The owner says, truthfully, that nothing was submitted.
LEMMA OwnerResolvesStep ==
    ASSUME IInv, NEW a \in Attempts, OwnerResolvesAbsent(a)
    PROVE  IInv'
  <1>1. PICK expire \in BOOLEAN : expire = FALSE
    OBVIOUS
  <1>2. PICK r : r = SubmissionRejected(jr[a], st[a], expire)
    OBVIOUS
  <1>3. PICK i : i = "rejected"
    OBVIOUS
  <1>4. PICK o : o = op[a]
    OBVIOUS
  <1>5. /\ ControlWrite(a, r.j, r.s, o) /\ intent' = [intent EXCEPT ![a] = i] /\ a = active
        /\ jr[a].phase = "attention" /\ jr[a].submitStarted /\ ~jr[a].remote /\ ~StartPending(a)
        /\ world[a].exec \notin Landed /\ ValidJournal(r.j) /\ ValidState(r.s)
    BY <1>1, <1>2, <1>3, <1>4 DEF OwnerResolvesAbsent, OwnerSubmissionAbsent, OwnerSubmissionAbsentAllowed,
       AbsenceAllowed, Commits, ValidTransition
  <1>6. jr[a].phase \in {"submitting", "attention"} /\ "absence" \in {"submission", "absence"}
    BY <1>5
  <1>7. jr[a].plan /\ ~Pending(o)
    BY <1>4, <1>5, <1>6, Known, AfterSubmission
  <1>8. /\ r.j \in Journals /\ r.s \in AttemptStates /\ PhaseOK(r.j, r.s)
        /\ r.j.phase = "rejected" /\ r.j.submitStarted /\ ~r.j.remote /\ r.j.plan = jr[a].plan
        /\ r.s.exec = "not_submitted" /\ r.j.absence = jr[a].absence
    <2>1. jr[a] \in Journals /\ st[a] \in AttemptStates /\ op[a] \in Operations
          /\ FactsOK(jr[a], st[a], intent[a], op[a])
      BY Known
    <2>. QED  BY <1>2, <1>5, <1>6, <2>1, RejectedFacts
  <1>9. IntentOK(r.j, i) /\ i \in Intents
    BY <1>3, <1>8 DEF IntentOK, Intents
  <1>10. o \in Operations /\ o.started = op[a].started /\ CancelOK(r.j, r.s, o)
    BY <1>4, <1>5, <1>7, <1>8, Known DEF CancelOK
  <1>11. FactsOK(r.j, r.s, i, o)
    BY <1>5, <1>8, <1>9, <1>10 DEF FactsOK
  <1>12. Truthful(a, r.j, r.s)
    <2>1. world[a].exec \in {"none", "lost", "gone"}
      BY <1>5 DEF StartPending, IInv, TypeOK, Worlds
    <2>. QED  BY <1>5, <1>8, <2>1, RejectionTrue
  <1>13. r.j.submitStarted = jr[a].submitStarted
    BY <1>5, <1>8, Known DEF Journals
  <1>. QED  BY <1>5, <1>8, <1>9, <1>10, <1>11, <1>12, <1>13, ControlFrame

\* The collector writes of an attempt whose run has ended; the evidence stays.
LEMMA CollectionStep ==
    ASSUME IInv, NEW a \in Attempts, NEW j \in Journals, NEW s \in AttemptStates,
           st[a].exec \in ExecutionTerminal, st[a].orch \notin OrchestrationTerminal,
           ControlWrite(a, j, s, op[a]), UNCHANGED intent, ValidState(s),
           SameCourse(jr[a], j), j.problem # "remote_absent" \/ j = jr[a],
           s.exec = st[a].exec, s.remote = st[a].remote, s.cancel = st[a].cancel
    PROVE  IInv'
  <1>1. PICK i : i = intent[a]
    OBVIOUS
  <1>2. PICK o : o = op[a]
    OBVIOUS
  <1>3. ControlWrite(a, j, s, o) /\ intent' = [intent EXCEPT ![a] = i] /\ o \in Operations
    BY <1>1, <1>2, Known
  <1>4. /\ FactsOK(jr[a], st[a], i, o) /\ jr[a] \in Journals /\ j.failures \in 0..MaxFailures
    BY <1>1, <1>2, Known DEF Journals
  <1>5. jr[a].phase = "collectible"
    BY <1>4, Names DEF FactsOK, PhaseOK, LocalOnly, Untouched, Submitted, Journals, Phases
  <1>6. a = active
    BY <1>5, Known DEF AgeOK, InitialJournal
  <1>7. ValidJournal(j)
    BY <1>4, <1>5 DEF FactsOK, ValidJournal, SameCourse, RemoteAbsence
  <1>8. PhaseOK(j, s)
    BY <1>4, <1>5 DEF FactsOK, PhaseOK, SameCourse
  <1>9. IntentOK(j, i) /\ CancelOK(j, s, o)
    BY <1>4, <1>5 DEF FactsOK, IntentOK, CancelOK, SameCourse
  <1>10. FactsOK(j, s, i, o)
    BY <1>7, <1>8, <1>9 DEF FactsOK
  <1>11. Truthful(a, j, s)
    BY Known, SameEvidence DEF SameCourse
  <1>12. j.plan = jr[a].plan /\ j.submitStarted = jr[a].submitStarted /\ o.started = op[a].started /\ i \in Intents
    BY <1>1, <1>2, Known DEF SameCourse
  <1>. QED  BY <1>3, <1>6, <1>10, <1>11, <1>12, ControlFrame

\* A ticket opens the transfer.
LEMMA ClaimCollectionStep ==
    ASSUME IInv, NEW a \in Attempts, ClaimCollection(a)
    PROVE  IInv'
  <1>1. PICK s : s = [st[a] EXCEPT !.result = "collecting", !.orch = "collecting"]
    OBVIOUS
  <1>2. PICK j : j = jr[a]
    OBVIOUS
  <1>3. /\ ControlWrite(a, j, s, op[a]) /\ UNCHANGED intent /\ ValidState(s)
        /\ st[a].exec \in ExecutionTerminal /\ st[a].orch \notin OrchestrationTerminal
    BY <1>1, <1>2 DEF ClaimCollection, ValidTransition
  <1>4. s \in AttemptStates /\ s.exec = st[a].exec /\ s.remote = st[a].remote /\ s.cancel = st[a].cancel
    BY <1>1, Known DEF AttemptStates, Orchestrations, Results
  <1>5. j \in Journals /\ SameCourse(jr[a], j)
    BY <1>2, Known DEF SameCourse
  <1>. QED  BY <1>2, <1>3, <1>4, <1>5, CollectionStep

\* The end of a transfer settles the condition of the journal.
LEMMA EndCollectionStep ==
    ASSUME IInv, NEW a \in Attempts, NEW s \in AttemptStates, NEW problem \in {"none", "open"},
           EndCollection(a, s, problem),
           s.exec = st[a].exec, s.remote = st[a].remote, s.cancel = st[a].cancel
    PROVE  IInv'
  <1>1. PICK j : j = Problem(jr[a], problem)
    OBVIOUS
  <1>2. /\ ControlWrite(a, j, s, op[a]) /\ UNCHANGED intent /\ ValidState(s) /\ ValidState(st[a])
        /\ st[a].orch = "collecting"
    BY <1>1 DEF EndCollection, Problem, ValidTransition
  <1>3. j \in Journals /\ SameCourse(jr[a], j) /\ j.problem = problem
    <2>1. jr[a] \in Journals /\ problem \in Problems
      BY Known DEF Problems
    <2>. QED  BY <1>1, <2>1, Conditions
  <1>4. st[a].exec \in ExecutionTerminal /\ st[a].orch \notin OrchestrationTerminal
    BY <1>2 DEF ValidState, OrchestrationConsistent, OrchestrationTerminal
  <1>. QED  BY <1>2, <1>3, <1>4, CollectionStep

\* CompleteCollection and FailCollection.
LEMMA EndCollectionSteps ==
    ASSUME IInv, NEW a \in Attempts, CompleteCollection(a) \/ FailCollection(a)
    PROVE  IInv'
  <1>1. CASE CompleteCollection(a)
    <2>1. PICK completed \in BOOLEAN : EndCollection(a, FinalState(st[a], completed), "none")
      BY <1>1 DEF CompleteCollection
    <2>2. PICK s : s = FinalState(st[a], completed)
      OBVIOUS
    <2>3. PICK orch \in Orchestrations : s = [st[a] EXCEPT !.result = "available", !.orch = orch,
                                                 !.deadline = st[a].deadline \/ orch = "timed_out"]
      <3>. DEFINE ordinary == st[a].cancel \in {"not_requested", "too_late"}
                  orch == CASE ordinary /\ st[a].exec = "succeeded" ->
                                 IF completed THEN "succeeded" ELSE "failed"
                            [] ordinary /\ st[a].exec = "failed" -> "failed"
                            [] ordinary /\ st[a].exec = "timed_out" -> "timed_out"
                            [] st[a].exec = "cancelled" /\ st[a].cancel = "confirmed" -> "cancelled"
                            [] OTHER -> "needs_attention"
      <3>1. orch \in Orchestrations
        BY DEF Orchestrations, OrchestrationTerminal
      <3>2. s = [st[a] EXCEPT !.result = "available", !.orch = orch,
                              !.deadline = st[a].deadline \/ orch = "timed_out"]
        BY <2>2 DEF FinalState
      <3>. QED  BY <3>1, <3>2
    <2>4. /\ s \in AttemptStates /\ s.exec = st[a].exec /\ s.remote = st[a].remote /\ s.cancel = st[a].cancel
      <3>1. PICK d \in BOOLEAN : d = (st[a].deadline \/ orch = "timed_out")
        OBVIOUS
      <3>2. s = [st[a] EXCEPT !.result = "available", !.orch = orch, !.deadline = d]
        BY <2>3, <3>1
      <3>. QED  BY <3>2, Known DEF AttemptStates, Results
    <2>5. PICK problem \in {"none", "open"} : problem = "none"
      OBVIOUS
    <2>6. EndCollection(a, s, problem)
      BY <2>1, <2>2, <2>5
    <2>. QED  BY <2>4, <2>5, <2>6, EndCollectionStep
  <1>2. CASE FailCollection(a)
    <2>1. PICK result \in {"incomplete", "invalid"} :
            EndCollection(a, [st[a] EXCEPT !.orch = "needs_attention", !.result = result], "open")
      BY <1>2 DEF FailCollection
    <2>2. PICK s : s = [st[a] EXCEPT !.orch = "needs_attention", !.result = result]
      OBVIOUS
    <2>3. /\ s \in AttemptStates /\ s.exec = st[a].exec /\ s.remote = st[a].remote /\ s.cancel = st[a].cancel
      BY <2>2, Known DEF AttemptStates, Orchestrations, Results
    <2>4. PICK problem \in {"none", "open"} : problem = "open"
      OBVIOUS
    <2>5. EndCollection(a, s, problem)
      BY <2>1, <2>2, <2>4
    <2>. QED  BY <2>3, <2>4, <2>5, EndCollectionStep
  <1>. QED  BY <1>1, <1>2

\* Time passes for a journal that no session is fenced from.
LEMMA WindowStep ==
    ASSUME IInv, NEW a \in Attempts, WindowElapses(a)
    PROVE  IInv'
  <1>1. PICK j : /\ \/ jr[a].localWindow = "open" /\ j = [jr[a] EXCEPT !.localWindow = "elapsed"]
                    \/ jr[a].prepWindow = "open" /\ j = [jr[a] EXCEPT !.prepWindow = "elapsed"]
                    \/ /\ jr[a].absence = "open" /\ ~StartPending(a) /\ ~OutdatedInventory(a)
                       /\ j = [jr[a] EXCEPT !.absence = "elapsed"]
                 /\ jr' = [jr EXCEPT ![a] = j]
    BY DEF WindowElapses
  <1>2. UNCHANGED <<st, grant, intent, op, active, lease, sess, running, expired, world>>
    BY DEF WindowElapses
  <1>3. PICK s : s = st[a]
    OBVIOUS
  <1>4. PICK i : i = intent[a]
    OBVIOUS
  <1>5. PICK o : o = op[a]
    OBVIOUS
  <1>6. /\ j \in Journals /\ j.phase = jr[a].phase /\ j.plan = jr[a].plan /\ j.prepared = jr[a].prepared
        /\ j.submitStarted = jr[a].submitStarted /\ j.named = jr[a].named /\ j.remote = jr[a].remote
        /\ j.obs = jr[a].obs /\ j.problem = jr[a].problem /\ j.failures = jr[a].failures
        /\ j.prepWindow # "unset" => jr[a].prepWindow # "unset"
        /\ j.absence # "unset" => jr[a].absence # "unset"
        /\ j.absence = "elapsed" => jr[a].absence = "elapsed" \/ (~StartPending(a) /\ ~OutdatedInventory(a))
    BY <1>1, Known DEF Journals, Windows
  <1>7. Written(a, j, s, i, o)
    <2>1. st \in [Attempts -> AttemptStates] /\ op \in [Attempts -> Operations] /\ intent \in [Attempts -> Intents]
      BY DEF IInv, TypeOK, Intents
    <2>. QED  BY <1>1, <1>2, <1>3, <1>4, <1>5, <2>1 DEF Written
  <1>8. FactsOK(j, s, i, o)
    <2>1. FactsOK(jr[a], s, i, o)
      BY <1>3, <1>4, <1>5, Known
    <2>2. ValidJournal(j)
      BY <1>6, <2>1 DEF FactsOK, ValidJournal, RemoteAbsence
    <2>3. PhaseOK(j, s)
      BY <1>6, <2>1 DEF FactsOK, PhaseOK
    <2>4. IntentOK(j, i) /\ CancelOK(j, s, o)
      BY <1>6, <2>1 DEF FactsOK, IntentOK, CancelOK
    <2>. QED  BY <2>1, <2>2, <2>3, <2>4 DEF FactsOK
  <1>9. a <= active /\ (a < active => s.orch \in OrchestrationTerminal)
    BY <1>1, <1>3, Known DEF AgeOK, InitialJournal
  <1>10. Admissible(a, j, s, i, o)
    BY <1>3, <1>4, <1>5, <1>6, <1>8, <1>9, Known DEF Admissible
  <1>11. Truthful(a, j, s)
    BY <1>3, <1>6, Known DEF RunOK, Truthful
  <1>12. ASSUME NEW v \in Workers
         PROVE  Quieter(sess'[v], sess[v]) /\ (sess'[v].a = a => OwnerOK(v)')
    <2>1. sess[v] \in Sessions /\ SessOK(v) /\ OwnerOK(v)
      BY DEF IInv, TypeOK, SessInv, OwnerInv
    <2>2. Quieter(sess'[v], sess[v])
      BY <1>2 DEF Quieter
    <2>3. ASSUME sess'[v].a = a PROVE OwnerOK(v)'
      <3>1. (Owns(v)' <=> Owns(v)) /\ sess'[v] = sess[v] /\ sess[v].a = a
        BY <1>2, <2>3 DEF Owns
      <3>2. jr'[a] = j /\ st'[a] = st[a]
        BY <1>1, <1>2 DEF IInv, TypeOK
      <3>3. UnconfirmedPreparation(jr[a]) => UnconfirmedPreparation(j)
        BY <1>6 DEF UnconfirmedPreparation
      <3>4. jr[a].absence = "unset" => j.absence = "unset"
        BY <1>6
      <3>. QED  BY <1>6, <2>1, <3>1, <3>2, <3>3, <3>4 DEF OwnerOK
    <2>. QED  BY <2>2, <2>3
  <1>13. running' \in BOOLEAN /\ sess' \in [Workers -> Sessions]
    BY <1>2 DEF IInv, TypeOK
  <1>. QED  BY <1>7, <1>10, <1>11, <1>12, <1>13, WriteStep

\* The next attempt begins when this one is resolved; no session works on it yet.
LEMMA RetryStep ==
    ASSUME IInv, NEW a \in Attempts, Retry(a)
    PROVE  IInv'
  <1>1. /\ a = active /\ active' = a + 1 /\ active' \in Attempts /\ active \in Nat /\ active <= active'
        /\ st[a].orch \in OrchestrationTerminal
        /\ UNCHANGED <<st, jr, grant, intent, op, lease, sess, running, expired, world>>
    BY DispatchAssumption DEF Retry, RetryAllowed, Attempts
  <1>2. TypeOK'
    BY <1>1 DEF IInv, TypeOK
  <1>3. RecordInv' /\ EffectInv'
    BY <1>1 DEF IInv, RecordInv, RecordOK, EffectInv, EffectOK
  <1>4. AgeInv'
    <2>1. ASSUME NEW b \in Attempts PROVE AgeOK(b)'
      <3>1. AgeOK(b) /\ b \in Nat
        BY Known
      <3>2. (b > active' => b > active) /\ (b < active' => b < active \/ b = a)
        BY <1>1, <3>1
      <3>. QED  BY <1>1, <3>1, <3>2 DEF AgeOK
    <2>. QED  BY <2>1 DEF AgeInv
  <1>5. /\ sess' \in [Workers -> Sessions] /\ \A v \in Workers : Quieter(sess'[v], sess[v])
    BY <1>1 DEF IInv, TypeOK, Quieter
  <1>6. /\ SessInv' /\ AloneInv'
        /\ \A b \in Attempts : /\ ~StartPending(b) => ~StartPending(b)'
                               /\ ~OutdatedInventory(b) => ~OutdatedInventory(b)'
    BY <1>1, <1>5, QuietSessions
  <1>7. RunInv'
    BY <1>1, <1>6 DEF IInv, RunInv, RunOK
  <1>8. ASSUME NEW v \in Workers PROVE OwnerOK(v)'
    <2>1. SessOK(v) /\ sess[v].a \in Attempts /\ sess'[v] = sess[v]
      BY <1>1 DEF IInv, SessInv, TypeOK, Sessions
    <2>2. CASE sess[v].pc = "idle"
      BY <2>1, <2>2, OwnerRests DEF SessOK
    <2>3. CASE sess[v].pc # "idle"
      <3>1. sess[v].a # active'
        BY <1>1, <2>1, <2>3 DEF SessOK, Attempts
      <3>. QED  BY <2>1, <3>1 DEF OwnerOK, Owns
    <2>. QED  BY <2>2, <2>3
  <1>. QED  BY <1>2, <1>3, <1>4, <1>6, <1>7, <1>8 DEF IInv, OwnerInv

-----------------------------------------------------------------------------
(* The invariant.                                                          *)

\* Nothing has happened yet.
LEMMA InitInv == Init => IInv
  <1>. SUFFICES ASSUME Init PROVE IInv
    OBVIOUS
  <1>1. 0 \in 0..MaxFailures /\ 0 \in 0..2 /\ 0 \in 0..1
    BY MaxFailuresAssumption
  <1>2. /\ InitialAttemptState \in AttemptStates /\ InitialJournal \in Journals /\ NoOperation \in Operations
        /\ NoWorld \in Worlds
    BY <1>1 DEF InitialAttemptState, AttemptStates, Orchestrations, Executions, Results, Cancellations,
       RemoteActivities, ReleaseEvidences, InitialJournal, Journals, Phases, Windows, Problems,
       NoOperation, Operations, NoWorld, Worlds
  <1>3. TypeOK
    BY <1>2, Starting DEF Init, TypeOK
  <1>4. ValidState(InitialAttemptState)
    BY DEF InitialAttemptState, ValidState, ExecutionConsistent, ResultConsistent, CancellationConsistent,
       ReleaseConsistent, OrchestrationConsistent, OrchestrationTerminal, ExecutionTerminal, ExecutionActive
  <1>5. FactsOK(InitialJournal, InitialAttemptState, "none", NoOperation)
    <2>1. ValidJournal(InitialJournal)
      BY <1>1 DEF ValidJournal, InitialJournal
    <2>2. PhaseOK(InitialJournal, InitialAttemptState)
      BY <1>4 DEF PhaseOK, InitialJournal, InitialAttemptState, LocalOnly
    <2>3. IntentOK(InitialJournal, "none") /\ CancelOK(InitialJournal, InitialAttemptState, NoOperation)
      BY DEF IntentOK, CancelOK, InitialJournal, NoOperation, Pending
    <2>. QED  BY <1>4, <2>1, <2>2, <2>3 DEF FactsOK
  <1>6. RecordInv
    BY <1>5 DEF Init, RecordInv, RecordOK, InitialJournal
  <1>7. AgeInv
    BY DEF Init, AgeInv, AgeOK, Attempts
  <1>8. EffectInv
    BY <1>1 DEF Init, EffectInv, EffectOK, NoWorld
  <1>9. RunInv
    <2>1. \A a \in Attempts : ~StartPending(a)
      BY Starting DEF Init, StartPending, NoWorld
    <2>. QED  BY <2>1 DEF Init, RunInv, RunOK, NoWorld, InitialAttemptState, InitialJournal, ExecutionTerminal,
              ExecutionActive
  <1>10. SessInv /\ OwnerInv
    BY Starting DEF Init, SessInv, SessOK, AnswerTrue, OwnerInv, OwnerOK
  <1>11. AloneInv
    BY Starting DEF Init, AloneInv, AloneOK
  <1>. QED  BY <1>3, <1>6, <1>7, <1>8, <1>9, <1>10, <1>11 DEF IInv

\* Every step keeps the invariant.
LEMMA NextInv == IInv /\ [Next]_vars => IInv'
  <1>. SUFFICES ASSUME IInv, [Next]_vars PROVE IInv'
    OBVIOUS
  <1>1. ASSUME NEW w \in Workers, SessionStep(w) PROVE IInv'
    <2>1. CASE Load(w) \/ Interrupt(w) \/ ExpiredMutation(w) \/ PrepareExpires(w)
      BY <2>1, PassSteps
    <2>2. CASE Yield(w) \/ Abandon(w)
      BY <2>2, RestSteps
    <2>3. CASE Expire(w)
      BY <2>3, ExpireStep
    <2>4. CASE Refuse(w)
      BY <2>4, RefuseStep
    <2>5. CASE ConsumeAuthorization(w)
      BY <2>5, ConsumeStep
    <2>6. CASE CommitPreparation(w)
      BY <2>6, CommitPreparationStep
    <2>7. CASE CallPrepare(w)
      BY <2>7, CallPrepareStep
    <2>8. CASE PrepareReturns(w)
      BY <2>8, PrepareReturnsStep
    <2>9. CASE PassFails(w)
      BY <2>9, PassFailsStep
    <2>10. CASE ReadStaging(w)
      BY <2>10, ReadStagingStep
    <2>11. CASE CommitSubmission(w)
      BY <2>11, CommitSubmissionStep
    <2>12. CASE CallStart(w)
      BY <2>12, CallStartStep
    <2>13. CASE StartReturns(w)
      BY <2>13, StartReturnsStep
    <2>14. CASE ReadSubmission(w)
      BY <2>14, ReadSubmissionStep
    <2>15. CASE ReadExecution(w)
      BY <2>15, ReadExecutionStep
    <2>16. CASE CommitAnswer(w)
      <3>1. CASE CommitFault(w)
        BY <3>1, CommitFaultStep
      <3>2. CASE CommitUnready(w)
        BY <3>2, CommitUnreadyStep
      <3>3. CASE CommitPrepared(w)
        BY <3>3, CommitPreparedStep
      <3>4. CASE CommitOutcome(w)
        BY <3>4, CommitOutcomeStep
      <3>5. CASE CommitAbsent(w)
        BY <3>5, CommitAbsentStep
      <3>6. CASE CommitGone(w)
        BY <3>6, CommitGoneStep
      <3>7. CASE CommitObservation(w)
        BY <3>7, CommitObservationStep
      <3>8. CASE CommitStop(w)
        BY <3>8, CommitStopStep
      <3>. QED  BY <2>16, <3>1, <3>2, <3>3, <3>4, <3>5, <3>6, <3>7, <3>8 DEF CommitAnswer
    <2>17. CASE BeginStop(w)
      BY <2>17, BeginStopStep
    <2>18. CASE CallCancel(w)
      BY <2>18, CallCancelStep
    <2>19. CASE CancelReturns(w)
      BY <2>19, CancelReturnsStep
    <2>. QED  BY <1>1, <2>1, <2>2, <2>3, <2>4, <2>5, <2>6, <2>7, <2>8, <2>9, <2>10, <2>11, <2>12, <2>13, <2>14,
                 <2>15, <2>16, <2>17, <2>18, <2>19 DEF SessionStep
  <1>2. ASSUME NEW w \in Workers, ClaimStep(w) PROVE IInv'
    BY <1>2, ClaimSteps
  <1>3. ASSUME NEW a \in Attempts, ControlStep(a) PROVE IInv'
    <2>1. CASE AuthorizeExecution(a)
      BY <2>1, AuthorizeStep
    <2>2. CASE CancelSettled(a)
      BY <2>2, CancelSettledStep
    <2>3. CASE CancelPrevents(a)
      BY <2>3, CancelPreventsStep
    <2>4. CASE CancelRequested(a)
      BY <2>4, CancelRequestedStep
    <2>5. ASSUME NEW owner \in BOOLEAN, Reconcile(a, owner) PROVE IInv'
      BY <2>5, ReconcileStep
    <2>6. CASE OwnerResolvesAbsent(a)
      BY <2>6, OwnerResolvesStep
    <2>7. CASE Retry(a)
      BY <2>7, RetryStep
    <2>8. CASE ClaimCollection(a)
      BY <2>8, ClaimCollectionStep
    <2>9. CASE CompleteCollection(a) \/ FailCollection(a)
      BY <2>9, EndCollectionSteps
    <2>. QED  BY <1>3, <2>1, <2>2, <2>3, <2>4, <2>5, <2>6, <2>7, <2>8, <2>9 DEF ControlStep
  <1>4. ASSUME NEW a \in Attempts, OutsideStep(a) PROVE IInv'
    <2>1. CASE WindowElapses(a)
      BY <2>1, WindowStep
    <2>2. CASE WorldMoves(a)
      BY <2>2, WorldMovesStep
    <2>3. CASE LeaseExpires(a)
      BY <2>3, RestSteps
    <2>. QED  BY <1>4, <2>1, <2>2, <2>3 DEF OutsideStep
  <1>5. CASE Crash \/ Shutdown \/ Restart \/ DeadlinePasses \/ UNCHANGED vars
    BY <1>5, RestSteps
  <1>. QED  BY <1>1, <1>2, <1>3, <1>4, <1>5 DEF Next

\* The invariant holds of every state the engine reaches.
THEOREM Invariance == Spec => []IInv
  <1>. QED  BY InitInv, NextInv, PTL DEF Spec

-----------------------------------------------------------------------------
(* What it shows.                                                          *)

\* Types of the durable facts, of the sessions and of the outside.
THEOREM TypeCorrect == Spec => []TypeOK
  <1>1. IInv => TypeOK
    BY DEF IInv
  <1>. QED  BY <1>1, Invariance, PTL

\* Prepare, Start and Cancel reach the provider at most once per attempt, each only
\* behind consumed consent and its own durable intent (process, CommitDispatch).
THEOREM EffectsOnce == Spec => []OneShotEffects
  <1>1. ASSUME IInv PROVE OneShotEffects
    <2>1. ASSUME NEW a \in Attempts
          PROVE  /\ world[a].prepares <= 1 /\ world[a].starts <= 1 /\ world[a].cancels <= 1
                 /\ world[a].prepares > 0 => jr[a].plan /\ grant[a] = "consumed"
                 /\ world[a].starts > 0 => jr[a].submitStarted /\ intent[a] # "none"
                 /\ world[a].cancels > 0 => op[a].started /\ jr[a].submitStarted
      <3>1. EffectOK(a) /\ RecordOK(a)
        BY <1>1 DEF IInv, EffectInv, RecordInv
      <3>2. /\ jr[a].plan => grant[a] = "consumed"
            /\ jr[a].submitStarted => intent[a] # "none"
            /\ op[a].started => jr[a].submitStarted
        BY <3>1 DEF RecordOK, FactsOK, IntentOK, CancelOK
      <3>. QED  BY <3>1, <3>2 DEF EffectOK
    <2>. QED  BY <2>1 DEF OneShotEffects
  <1>. QED  BY <1>1, Invariance, PTL

\* A run that exists, or may still appear, is counted against the account (HoldsAccount).
THEOREM CapacityKept == Spec => []CapacityHeld
  <1>1. ASSUME IInv PROVE CapacityHeld
    <2>1. ASSUME NEW a \in Attempts, StartPending(a) \/ Live(world[a]) PROVE HoldsAccount(st[a], jr[a].plan)
      <3>1. /\ jr[a].plan /\ st[a].remote # "inactive" /\ st[a].orch \notin OrchestrationTerminal
        BY <1>1, <2>1, Pursued
      <3>. QED  BY <3>1 DEF HoldsAccount
    <2>. QED  BY <2>1 DEF CapacityHeld
  <1>. QED  BY <1>1, Invariance, PTL

\* At most one attempt of the job has a run, or a start that may become one (retryInputs).
THEOREM RunsApart == Spec => []NoOverlap
  <1>1. ASSUME IInv PROVE NoOverlap
    BY <1>1, Pursued DEF NoOverlap
  <1>. QED  BY <1>1, Invariance, PTL

\* loadDispatch never finds the facts it treats as corrupt.
THEOREM FactsAgree == Spec => []NeverCorrupt
  <1>1. ASSUME IInv PROVE NeverCorrupt
    <2>1. ASSUME NEW a \in Attempts
          PROVE  /\ ValidState(st[a]) /\ ValidJournal(jr[a])
                 /\ jr[a].plan => grant[a] = "consumed"
                 /\ jr[a].submitStarted <=> intent[a] # "none"
                 /\ jr[a].submitStarted =>
                      CASE jr[a].remote -> intent[a] = "accepted"
                        [] ~jr[a].remote /\ jr[a].phase = "rejected" -> intent[a] = "rejected"
                        [] OTHER -> intent[a] \in {"started", "unknown"}
                 /\ ~jr[a].plan /\ jr[a].phase \notin {"failed", "prevented"} => LocalOnly(st[a])
      <3>1. /\ FactsOK(jr[a], st[a], intent[a], op[a]) /\ jr[a] \in Journals
            /\ jr[a].plan => grant[a] = "consumed"
        BY <1>1, Known
      <3>2. ASSUME ~jr[a].plan, jr[a].phase \notin {"failed", "prevented"} PROVE LocalOnly(st[a])
        BY <3>1, <3>2 DEF FactsOK, ValidJournal, PhaseOK
      <3>3. jr[a].remote \in BOOLEAN
        BY <3>1 DEF Journals
      <3>. QED  BY <3>1, <3>2, <3>3 DEF FactsOK, IntentOK
    <2>. QED  BY <2>1 DEF NeverCorrupt
  <1>. QED  BY <1>1, Invariance, PTL

\* What an attempt says about the remote run is true of it (Apply, absence and collection).
THEOREM EvidenceHolds == Spec => []EvidenceTrue
  <1>1. ASSUME IInv PROVE EvidenceTrue
    <2>1. ASSUME NEW a \in Attempts PROVE st[a].orch = "succeeded" => st[a].exec = "succeeded"
      <3>1. ValidState(st[a])
        BY <1>1, Known DEF FactsOK
      <3>. QED  BY <3>1 DEF ValidState, OrchestrationConsistent
    <2>. QED  BY <1>1, <2>1 DEF IInv, RunInv, RunOK, EvidenceTrue, ExecutionTerminal
  <1>. QED  BY <1>1, Invariance, PTL

\* A pending cancel request still has a live attempt that some commit will settle: the
\* first half of NothingStuck (finishObservedOperations).
THEOREM CancelKept == Spec => []CancelNeverOrphaned
  <1>1. ASSUME IInv PROVE CancelNeverOrphaned
    <2>1. ASSUME NEW a \in Attempts, Pending(op[a])
          PROVE  /\ st[a].orch \notin OrchestrationTerminal
                 /\ CancellationPending(st[a])
                 /\ jr[a].phase \in {"submitting", "submitted"}
                 /\ op[a].cancel = "running" <=> st[a].cancel \in {"requesting", "accepted"}
      <3>1. /\ CancelOK(jr[a], st[a], op[a]) /\ PhaseOK(jr[a], st[a])
        BY <1>1, Known DEF FactsOK
      <3>. QED  BY <2>1, <3>1 DEF CancelOK, PhaseOK, OrchestrationTerminal
    <2>. QED  BY <2>1 DEF CancelNeverOrphaned
  <1>. QED  BY <1>1, Invariance, PTL

-----------------------------------------------------------------------------
(* The promise of EffectLedger.                                            *)

\* The effects of an attempt as the ledger sees them.
PrepareOf(a) == Effect(jr[a].plan, world[a].prepares)
StartOf(a) == Effect(jr[a].submitStarted, world[a].starts)
StopOf(a) == Effect(op[a].started, world[a].cancels)
EndedOf(a) == st[a].orch \in OrchestrationTerminal

\* The ledger is what these say of every attempt.
LEMMA LedgerSame ==
    ASSUME grant' = grant, active' = active,
           \A b \in Attempts : /\ PrepareOf(b)' = PrepareOf(b) /\ StartOf(b)' = StartOf(b)
                               /\ StopOf(b)' = StopOf(b) /\ EndedOf(b)' = EndedOf(b)
    PROVE  UNCHANGED Ledger!ledger
  BY DEF Ledger!ledger, PrepareOf, StartOf, StopOf, EndedOf

\* The attempt that works ends.
LEMMA LedgerEnds ==
    ASSUME NEW a \in Attempts, a = active, grant' = grant, active' = active, ~EndedOf(a), EndedOf(a)',
           \A b \in Attempts : /\ PrepareOf(b)' = PrepareOf(b) /\ StartOf(b)' = StartOf(b)
                               /\ StopOf(b)' = StopOf(b)
                               /\ b # a => EndedOf(b)' = EndedOf(b)
    PROVE  Ledger!Next
  <1>1. Ledger!Working(a)
    BY DEF Ledger!Working, EndedOf
  <1>2. Ledger!End(a)
    BY <1>1 DEF Ledger!End, PrepareOf, StartOf, StopOf, EndedOf
  <1>. QED  BY <1>2 DEF Ledger!Next, Ledger!Numbers, Attempts


\* A preparation is permitted, behind consent.
LEMMA LedgerOpensPrepare ==
    ASSUME NEW a \in Attempts, a = active, ~EndedOf(a), grant' = grant, active' = active,
           grant[a] = "consumed",
           PrepareOf(a) = "closed", PrepareOf(a)' = "open",
           \A b \in Attempts : /\ b # a => PrepareOf(b)' = PrepareOf(b)
                               /\ StartOf(b)' = StartOf(b) /\ StopOf(b)' = StopOf(b)
                               /\ EndedOf(b)' = EndedOf(b)
    PROVE  Ledger!Next
  <1>1. Ledger!Working(a)
    BY DEF Ledger!Working, EndedOf
  <1>2. Ledger!OpenPrepare(a)
    BY <1>1 DEF Ledger!OpenPrepare, PrepareOf, StartOf, StopOf, EndedOf
  <1>. QED  BY <1>2 DEF Ledger!Next, Ledger!Numbers, Attempts

\* A start is permitted, behind the preparation.
LEMMA LedgerOpensStart ==
    ASSUME NEW a \in Attempts, a = active, ~EndedOf(a), grant' = grant, active' = active,
           PrepareOf(a) # "closed",
           StartOf(a) = "closed", StartOf(a)' = "open",
           \A b \in Attempts : /\ b # a => StartOf(b)' = StartOf(b)
                               /\ PrepareOf(b)' = PrepareOf(b) /\ StopOf(b)' = StopOf(b)
                               /\ EndedOf(b)' = EndedOf(b)
    PROVE  Ledger!Next
  <1>1. Ledger!Working(a)
    BY DEF Ledger!Working, EndedOf
  <1>2. Ledger!OpenStart(a)
    BY <1>1 DEF Ledger!OpenStart, PrepareOf, StartOf, StopOf, EndedOf
  <1>. QED  BY <1>2 DEF Ledger!Next, Ledger!Numbers, Attempts

\* A stop is permitted, behind the start.
LEMMA LedgerOpensStop ==
    ASSUME NEW a \in Attempts, a = active, ~EndedOf(a), grant' = grant, active' = active,
           StartOf(a) # "closed",
           StopOf(a) = "closed", StopOf(a)' = "open",
           \A b \in Attempts : /\ b # a => StopOf(b)' = StopOf(b)
                               /\ PrepareOf(b)' = PrepareOf(b) /\ StartOf(b)' = StartOf(b)
                               /\ EndedOf(b)' = EndedOf(b)
    PROVE  Ledger!Next
  <1>1. Ledger!Working(a)
    BY DEF Ledger!Working, EndedOf
  <1>2. Ledger!OpenStop(a)
    BY <1>1 DEF Ledger!OpenStop, PrepareOf, StartOf, StopOf, EndedOf
  <1>. QED  BY <1>2 DEF Ledger!Next, Ledger!Numbers, Attempts

\* The preparation is called.
LEMMA LedgerCallsPrepare ==
    ASSUME NEW a \in Attempts, grant' = grant, active' = active,
           PrepareOf(a) = "open", PrepareOf(a)' = "called",
           \A b \in Attempts : /\ b # a => PrepareOf(b)' = PrepareOf(b)
                               /\ StartOf(b)' = StartOf(b) /\ StopOf(b)' = StopOf(b)
                               /\ EndedOf(b)' = EndedOf(b)
    PROVE  Ledger!Next
  <1>2. Ledger!CallPrepare(a)
    BY DEF Ledger!CallPrepare, PrepareOf, StartOf, StopOf, EndedOf
  <1>. QED  BY <1>2 DEF Ledger!Next, Ledger!Numbers, Attempts

\* The start is called, of the attempt that works.
LEMMA LedgerCallsStart ==
    ASSUME NEW a \in Attempts, a = active, ~EndedOf(a), grant' = grant, active' = active,
           StartOf(a) = "open", StartOf(a)' = "called",
           \A b \in Attempts : /\ b # a => StartOf(b)' = StartOf(b)
                               /\ PrepareOf(b)' = PrepareOf(b) /\ StopOf(b)' = StopOf(b)
                               /\ EndedOf(b)' = EndedOf(b)
    PROVE  Ledger!Next
  <1>1. Ledger!Working(a)
    BY DEF Ledger!Working, EndedOf
  <1>2. Ledger!CallStart(a)
    BY <1>1 DEF Ledger!CallStart, PrepareOf, StartOf, StopOf, EndedOf
  <1>. QED  BY <1>2 DEF Ledger!Next, Ledger!Numbers, Attempts

\* The stop is called.
LEMMA LedgerCallsStop ==
    ASSUME NEW a \in Attempts, grant' = grant, active' = active,
           StopOf(a) = "open", StopOf(a)' = "called",
           \A b \in Attempts : /\ b # a => StopOf(b)' = StopOf(b)
                               /\ PrepareOf(b)' = PrepareOf(b) /\ StartOf(b)' = StartOf(b)
                               /\ EndedOf(b)' = EndedOf(b)
    PROVE  Ledger!Next
  <1>2. Ledger!CallStop(a)
    BY DEF Ledger!CallStop, PrepareOf, StartOf, StopOf, EndedOf
  <1>. QED  BY <1>2 DEF Ledger!Next, Ledger!Numbers, Attempts

\* The owner consents, or the consent is used up.
LEMMA LedgerConsents ==
    ASSUME NEW a \in Attempts, a = active, ~EndedOf(a), UNCHANGED <<st, jr, op, active, world>>,
           \/ grant[a] = "none" /\ grant' = [grant EXCEPT ![a] = "granted"]
           \/ grant[a] = "granted" /\ grant' = [grant EXCEPT ![a] = "consumed"]
    PROVE  Ledger!Next
  <1>1. Ledger!Working(a)
    BY DEF Ledger!Working, EndedOf
  <1>2. Ledger!Consent(a)
    BY <1>1 DEF Ledger!Consent
  <1>. QED  BY <1>2 DEF Ledger!Next, Ledger!Numbers, Attempts

\* A step that touches no fact and no call.
LEMMA LedgerRests ==
    ASSUME UNCHANGED <<durable, world>>
    PROVE  [Ledger!Next]_(Ledger!ledger)
  <1>1. UNCHANGED Ledger!ledger
    BY LedgerSame DEF durable, PrepareOf, StartOf, StopOf, EndedOf
  <1>. QED  BY <1>1

\* A write that opens nothing, of the active attempt or of one that stays ended.
LEMMA LedgerWrite ==
    ASSUME IInv, NEW a \in Attempts, NEW j, NEW s, NEW o,
           jr' = [jr EXCEPT ![a] = j], st' = [st EXCEPT ![a] = s], op' = [op EXCEPT ![a] = o],
           UNCHANGED <<grant, active, world>>,
           j.plan = jr[a].plan, j.submitStarted = jr[a].submitStarted, o.started = op[a].started,
           EndedOf(a) => s.orch \in OrchestrationTerminal, a = active \/ EndedOf(a)
    PROVE  [Ledger!Next]_(Ledger!ledger)
  <1>1. /\ jr'[a] = j /\ st'[a] = s /\ op'[a] = o
        /\ \A b \in Attempts : b # a => jr'[b] = jr[b] /\ st'[b] = st[b] /\ op'[b] = op[b]
    BY DEF IInv, TypeOK
  <1>2. \A b \in Attempts : /\ PrepareOf(b)' = PrepareOf(b) /\ StartOf(b)' = StartOf(b)
                            /\ StopOf(b)' = StopOf(b)
                            /\ b # a => EndedOf(b)' = EndedOf(b)
    BY <1>1 DEF PrepareOf, StartOf, StopOf, EndedOf
  <1>3. CASE EndedOf(a)' = EndedOf(a)
    <2>1. \A b \in Attempts : EndedOf(b)' = EndedOf(b)
      BY <1>2, <1>3
    <2>. QED  BY <1>2, <2>1, LedgerSame
  <1>4. CASE EndedOf(a)' # EndedOf(a)
    <2>1. ~EndedOf(a) /\ EndedOf(a)' /\ a = active
      BY <1>1, <1>4 DEF EndedOf
    <2>. QED  BY <1>2, <2>1, LedgerEnds
  <1>. QED  BY <1>3, <1>4

\* An attempt that has ended moves no more.
LEMMA EndIsFinal ==
    ASSUME NEW s, NEW t, ValidTransition(s, t), s.orch \in OrchestrationTerminal
    PROVE  t.orch = s.orch
  BY DEF ValidTransition, Moves, OrchestrationTransitions, Orchestrations, OrchestrationTerminal

\* Facts that permit no more than the journal j.
NoMore(j, r) == r.j.plan = j.plan /\ r.j.submitStarted = j.submitStarted

\* What Apply computes opens nothing, unless it begins something.
LEMMA Unopened ==
    ASSUME NEW j \in Journals, NEW s
    PROVE  /\ NoMore(j, ExpireDispatch(j, s)) /\ NoMore(j, RefuseNewWork(j, s))
           /\ NoMore(j, EndUnconfirmedPreparation(j, s)) /\ NoMore(j, SubmissionAccepted(j, s))
           /\ NoMore(j, SubmissionAbsenceSeen(j, s)) /\ NoMore(j, RemoteAbsenceSeen(j, s))
           /\ NoMore(j, PreventDispatch(j, s))
           /\ \A x, y : NoMore(j, Fault(j, s, x, y))
           /\ \A x : /\ NoMore(j, PreparationSeen(j, s, x)) /\ NoMore(j, SubmissionRejected(j, s, x))
                     /\ NoMore(j, SubmissionUnknown(j, s, x)) /\ NoMore(j, ObservationSeen(j, s, x))
                     /\ NoMore(j, RequestReconciliation(j, s, x))
  <1>1. /\ ExpireDispatch(j, s).j.plan = j.plan /\ ExpireDispatch(j, s).j.submitStarted = j.submitStarted
        /\ RefuseNewWork(j, s).j.plan = j.plan /\ RefuseNewWork(j, s).j.submitStarted = j.submitStarted
        /\ EndUnconfirmedPreparation(j, s).j.plan = j.plan
        /\ EndUnconfirmedPreparation(j, s).j.submitStarted = j.submitStarted
        /\ SubmissionAccepted(j, s).j.plan = j.plan /\ SubmissionAccepted(j, s).j.submitStarted = j.submitStarted
        /\ RemoteAbsenceSeen(j, s).j.plan = j.plan /\ RemoteAbsenceSeen(j, s).j.submitStarted = j.submitStarted
        /\ PreventDispatch(j, s).j.plan = j.plan /\ PreventDispatch(j, s).j.submitStarted = j.submitStarted
    BY DEF ExpireDispatch, RefuseNewWork, EndUnconfirmedPreparation, SubmissionAccepted, RemoteAbsenceSeen,
       PreventDispatch, Problem, Cleared, Journals
  <1>2. ASSUME NEW k \in Journals, NEW x
        PROVE  /\ SubmissionRejected(k, s, x).j.plan = k.plan
               /\ SubmissionRejected(k, s, x).j.submitStarted = k.submitStarted
    BY DEF SubmissionRejected, Problem, Journals
  <1>3. SubmissionAbsenceSeen(j, s).j.plan = j.plan /\ SubmissionAbsenceSeen(j, s).j.submitStarted = j.submitStarted
    <2>. DEFINE k == [j EXCEPT !.named = TRUE]
    <2>1. k \in Journals /\ k.plan = j.plan /\ k.submitStarted = j.submitStarted
      BY DEF Journals
    <2>2. CASE j.absence = "elapsed"
      <3>0. PICK x : x = FALSE
        OBVIOUS
      <3>1. SubmissionAbsenceSeen(j, s) = SubmissionRejected(k, s, x)
        BY <2>2, <3>0 DEF SubmissionAbsenceSeen
      <3>. HIDE DEF k
      <3>. QED  BY <1>2, <2>1, <3>1
    <2>3. CASE j.absence # "elapsed"
      BY <2>3 DEF SubmissionAbsenceSeen, Problem, Journals
    <2>. QED  BY <2>2, <2>3
  <1>4. ASSUME NEW x, NEW y
        PROVE  Fault(j, s, x, y).j.plan = j.plan /\ Fault(j, s, x, y).j.submitStarted = j.submitStarted
    <2>. DEFINE k == IF y /\ j.submitStarted /\ ~j.remote THEN [j EXCEPT !.named = TRUE] ELSE j
    <2>1. k \in Journals /\ k.plan = j.plan /\ k.submitStarted = j.submitStarted
      BY DEF Journals
    <2>2. Fault(j, s, x, y) = IF j.plan THEN RemoteFault(k, s, x) ELSE LocalFault(k, s, x)
      BY DEF Fault
    <2>. HIDE DEF k
    <2>3. /\ RemoteFault(k, s, x).j.plan = k.plan /\ RemoteFault(k, s, x).j.submitStarted = k.submitStarted
          /\ LocalFault(k, s, x).j.plan = k.plan /\ LocalFault(k, s, x).j.submitStarted = k.submitStarted
      BY <2>1 DEF RemoteFault, LocalFault, Journals
    <2>. QED  BY <2>1, <2>2, <2>3
  <1>5. ASSUME NEW x
        PROVE  /\ PreparationSeen(j, s, x).j.plan = j.plan
               /\ PreparationSeen(j, s, x).j.submitStarted = j.submitStarted
               /\ SubmissionUnknown(j, s, x).j.plan = j.plan
               /\ SubmissionUnknown(j, s, x).j.submitStarted = j.submitStarted
               /\ RequestReconciliation(j, s, x).j.plan = j.plan
               /\ RequestReconciliation(j, s, x).j.submitStarted = j.submitStarted
    BY DEF PreparationSeen, SubmissionUnknown, RequestReconciliation, Problem, Cleared, Journals
  <1>6. ASSUME NEW x
        PROVE  /\ ObservationSeen(j, s, x).j.plan = j.plan
               /\ ObservationSeen(j, s, x).j.submitStarted = j.submitStarted
    <2>. DEFINE c == Cleared(j)
                k == [c EXCEPT !.obs = x.exec]
    <2>1. c \in Journals /\ SameCourse(j, c)
      BY Conditions DEF Problems
    <2>2. PICK n : n = IF j.failures < MaxFailures THEN j.failures + 1 ELSE MaxFailures
      OBVIOUS
    <2>3. CASE x.exec \in ExecutionTerminal
      <3>1. ObservationSeen(j, s, x).j = [k EXCEPT !.phase = "collectible"]
        BY <2>3, Names DEF ObservationSeen
      <3>. HIDE DEF c
      <3>. QED  BY <2>1, <3>1 DEF SameCourse, Journals
    <2>4. CASE x.exec \notin ExecutionTerminal
      <3>1. ObservationSeen(j, s, x) =
              CASE x.exec = "unknown" /\ n = MaxFailures ->
                     [j |-> [k EXCEPT !.problem = "open", !.failures = n, !.phase = "attention"],
                      s |-> [ObservedState(s, x) EXCEPT !.orch = "needs_attention", !.cancel = ManualIfPending(s)]]
                [] x.exec = "unknown" /\ n < MaxFailures ->
                     [j |-> [k EXCEPT !.problem = "open", !.failures = n], s |-> ObservedState(s, x)]
                [] OTHER -> [j |-> k, s |-> ObservedState(s, x)]
        BY <2>2, <2>4 DEF ObservationSeen
      <3>2. (x.exec = "unknown" /\ n = MaxFailures) => ~(x.exec = "unknown" /\ n < MaxFailures)
        BY MaxFailuresAssumption
      <3>. HIDE DEF c
      <3>3. CASE x.exec = "unknown" /\ n = MaxFailures
        <4>1. ObservationSeen(j, s, x).j = [k EXCEPT !.problem = "open", !.failures = n, !.phase = "attention"]
          BY <3>1, <3>2, <3>3
        <4>. QED  BY <2>1, <4>1 DEF SameCourse, Journals
      <3>4. CASE x.exec = "unknown" /\ n < MaxFailures
        <4>1. ObservationSeen(j, s, x).j = [k EXCEPT !.problem = "open", !.failures = n]
          BY <3>1, <3>2, <3>4
        <4>. QED  BY <2>1, <4>1 DEF SameCourse, Journals
      <3>5. CASE ~(x.exec = "unknown" /\ n = MaxFailures) /\ ~(x.exec = "unknown" /\ n < MaxFailures)
        BY <2>1, <3>1, <3>5 DEF SameCourse, Journals
      <3>. QED  BY <3>3, <3>4, <3>5
    <2>. QED  BY <2>3, <2>4
  <1>. QED  BY <1>1, <1>2, <1>3, <1>4, <1>5, <1>6 DEF NoMore

\* A commit of a session that opens nothing.
LEMMA CommitLedger ==
    ASSUME IInv, NEW w \in Workers, NEW a, a = sess[w].a, NEW r, NEW kind, NEW pc,
           CommitDispatch(w, r, kind, pc), NoMore(jr[a], r)
    PROVE  [Ledger!Next]_(Ledger!ledger)
  <1>1. /\ a \in Attempts /\ a = active /\ op[a] \in Operations /\ FactsOK(jr[a], st[a], intent[a], op[a])
    BY Context DEF CommitDispatch
  <1>2. CASE Commits(st[a], r)
    <2>1. PICK f : f = Finish(r.j, r.s, op[a], kind)
      OBVIOUS
    <2>2. /\ jr' = [jr EXCEPT ![a] = r.j] /\ st' = [st EXCEPT ![a] = f.s] /\ op' = [op EXCEPT ![a] = f.o]
          /\ UNCHANGED <<grant, active, world>>
      BY <1>2, <2>1 DEF CommitDispatch
    <2>3. f.o.started = op[a].started
      BY <1>1, <2>1 DEF Finish, Operations
    <2>4. ASSUME EndedOf(a) PROVE f.s.orch \in OrchestrationTerminal
      <3>1. ~Pending(op[a])
        BY <1>1, <2>4 DEF FactsOK, CancelOK, PhaseOK, EndedOf, OrchestrationTerminal
      <3>2. f.s = r.s
        BY <2>1, <3>1 DEF Finish, Polled
      <3>3. r.s.orch = st[a].orch
        BY <1>2, <2>4, EndIsFinal DEF Commits, EndedOf
      <3>. QED  BY <2>4, <3>2, <3>3 DEF EndedOf
    <2>5. r.j.plan = jr[a].plan /\ r.j.submitStarted = jr[a].submitStarted
      BY DEF NoMore
    <2>. QED  BY <1>1, <2>2, <2>3, <2>4, <2>5, LedgerWrite
  <1>3. CASE ~Commits(st[a], r)
    <2>1. UNCHANGED <<durable, world>>
      BY <1>3 DEF CommitDispatch, durable
    <2>. QED  BY <2>1, LedgerRests
  <1>. QED  BY <1>2, <1>3

\* Every commit of an answer, an expiry or a refusal keeps the promise.
LEMMA AnswersLedger ==
    ASSUME IInv, NEW w \in Workers,
           \/ Expire(w) \/ Refuse(w) \/ CommitFault(w) \/ CommitUnready(w) \/ CommitPrepared(w)
           \/ CommitOutcome(w) \/ CommitAbsent(w) \/ CommitGone(w) \/ CommitObservation(w)
    PROVE  [Ledger!Next]_(Ledger!ledger)
  <1>1. PICK a : a = sess[w].a
    OBVIOUS
  <1>2. jr[a] \in Journals
    BY <1>1 DEF IInv, TypeOK, Sessions
  <1>3. PICK j : j = jr[a]
    OBVIOUS
  <1>4. PICK s : s = st[a]
    OBVIOUS
  <1>5. PICK val : val = sess[w].ans.val
    OBVIOUS
  <1>6. ASSUME NEW r, NEW kind, CommitDispatch(w, r, kind, "done"), NoMore(j, r)
        PROVE  [Ledger!Next]_(Ledger!ledger)
    BY <1>1, <1>3, <1>6, CommitLedger
  <1>7. CASE Expire(w) \/ Refuse(w)
    <2>1. PICK r \in {ExpireDispatch(j, s), RefuseNewWork(j, s)}, kind \in {"expire", "refuse"} :
            CommitDispatch(w, r, kind, "done")
      BY <1>1, <1>3, <1>4, <1>7 DEF Expire, Refuse
    <2>2. NoMore(j, r)
      BY <1>2, <1>3, <2>1, Unopened
    <2>. QED  BY <1>6, <2>1, <2>2
  <1>8. CASE CommitFault(w)
    <2>1. PICK x : x = (val = "permanent")
      OBVIOUS
    <2>2. PICK y : y = (val = "named")
      OBVIOUS
    <2>3. PICK r : r = Fault(j, s, x, y)
      OBVIOUS
    <2>4. CommitDispatch(w, r, "fault", "done")
      BY <1>1, <1>3, <1>4, <1>5, <1>8, <2>1, <2>2, <2>3 DEF CommitFault
    <2>5. NoMore(j, r)
      BY <1>2, <1>3, <2>3, Unopened
    <2>. QED  BY <1>6, <2>4, <2>5
  <1>9. CASE CommitUnready(w) \/ CommitAbsent(w) \/ CommitGone(w)
    <2>1. PICK x : x = FALSE
      OBVIOUS
    <2>2. PICK f : f = Fault(j, s, x, x)
      OBVIOUS
    <2>3. PICK r \in {f, EndUnconfirmedPreparation(j, s), SubmissionAbsenceSeen(j, s), RemoteAbsenceSeen(j, s)},
               kind \in {"fault", "end", "absence", "gone"} :
            CommitDispatch(w, r, kind, "done")
      BY <1>1, <1>3, <1>4, <1>9, <2>1, <2>2 DEF CommitUnready, CommitAbsent, CommitGone
    <2>4. NoMore(j, r)
      BY <1>2, <1>3, <2>2, <2>3, Unopened
    <2>. QED  BY <1>6, <2>3, <2>4
  <1>10. CASE CommitPrepared(w)
    <2>1. PICK r : r = PreparationSeen(j, s, val)
      OBVIOUS
    <2>2. CommitDispatch(w, r, "prepared", "done")
      BY <1>1, <1>3, <1>4, <1>5, <1>10, <2>1 DEF CommitPrepared
    <2>3. NoMore(j, r)
      BY <1>2, <1>3, <2>1, Unopened
    <2>. QED  BY <1>6, <2>2, <2>3
  <1>11. CASE CommitOutcome(w)
    <2>1. PICK x : x = (val = "expired")
      OBVIOUS
    <2>2. PICK y : y = (val = "named")
      OBVIOUS
    <2>3. PICK r : r = CASE val \in {"accepted", "none"} -> SubmissionAccepted(j, s)
                         [] val \in {"rejected", "expired"} -> SubmissionRejected(j, s, x)
                         [] OTHER -> SubmissionUnknown(j, s, y)
      OBVIOUS
    <2>4. CommitDispatch(w, r, "submission", "done")
      BY <1>1, <1>3, <1>4, <1>5, <1>11, <2>1, <2>2, <2>3 DEF CommitOutcome
    <2>5. r \in {SubmissionAccepted(j, s), SubmissionRejected(j, s, x), SubmissionUnknown(j, s, y)}
      BY <2>3
    <2>6. NoMore(j, r)
      BY <1>2, <1>3, <2>5, Unopened
    <2>. QED  BY <1>6, <2>4, <2>6
  <1>12. CASE CommitObservation(w)
    <2>1. PICK o : o = Observation(val)
      OBVIOUS
    <2>2. PICK r : r = ObservationSeen(j, s, o)
      OBVIOUS
    <2>3. CASE CommitDispatch(w, r, "observed", "done")
      <3>1. NoMore(j, r)
        BY <1>2, <1>3, <2>2, Unopened
      <3>. QED  BY <1>6, <2>3, <3>1
    <2>4. CASE UNCHANGED <<durable, world>>
      BY <2>4, LedgerRests
    <2>. QED  BY <1>1, <1>3, <1>4, <1>5, <1>12, <2>1, <2>2, <2>3, <2>4 DEF CommitObservation
  <1>. QED  BY <1>7, <1>8, <1>9, <1>10, <1>11, <1>12

\* The commits that permit a call, and those of the stop.
LEMMA PermitsLedger ==
    ASSUME IInv, NEW w \in Workers,
           CommitPreparation(w) \/ CommitSubmission(w) \/ BeginStop(w) \/ CommitStop(w)
    PROVE  [Ledger!Next]_(Ledger!ledger)
  <1>1. PICK a : a = sess[w].a
    OBVIOUS
  <1>2. Owns(w)
    BY DEF CommitPreparation, CommitSubmission, BeginStop, CommitStop, CommitDispatch, CommitCancellation
  <1>3. /\ a \in Attempts /\ a = active /\ jr[a] \in Journals /\ st[a] \in AttemptStates /\ op[a] \in Operations
        /\ FactsOK(jr[a], st[a], intent[a], op[a]) /\ EffectOK(a)
    BY <1>1, <1>2, Context
  <1>4. \A b \in Attempts : b # a => \A x, y, z : /\ [jr EXCEPT ![a] = x][b] = jr[b]
                                                  /\ [st EXCEPT ![a] = y][b] = st[b]
                                                  /\ [op EXCEPT ![a] = z][b] = op[b]
    BY DEF IInv, TypeOK
  <1>5. \A x, y, z : [jr EXCEPT ![a] = x][a] = x /\ [st EXCEPT ![a] = y][a] = y /\ [op EXCEPT ![a] = z][a] = z
    BY <1>3 DEF IInv, TypeOK
  <1>6. ASSUME NEW r, NEW kind \in {"begin", "submit"}, NEW pc, CommitDispatch(w, r, kind, pc), Commits(st[a], r),
               r.s.orch \notin OrchestrationTerminal, ~EndedOf(a)
        PROVE  /\ jr'[a] = r.j /\ EndedOf(a)' = EndedOf(a) /\ StopOf(a)' = StopOf(a)
               /\ UNCHANGED <<grant, active, world>>
               /\ \A b \in Attempts : b # a => /\ PrepareOf(b)' = PrepareOf(b) /\ StartOf(b)' = StartOf(b)
                                               /\ StopOf(b)' = StopOf(b) /\ EndedOf(b)' = EndedOf(b)
    <2>1. PICK f : f = Finish(r.j, r.s, op[a], kind)
      OBVIOUS
    <2>2. /\ jr' = [jr EXCEPT ![a] = r.j] /\ st' = [st EXCEPT ![a] = f.s] /\ op' = [op EXCEPT ![a] = f.o]
          /\ UNCHANGED <<grant, active, world>>
      BY <1>1, <1>6, <2>1 DEF CommitDispatch
    <2>3. f.o.started = op[a].started /\ f.s = r.s
      BY <1>3, <1>6, <2>1 DEF Finish, Polled, Operations
    <2>. QED  BY <1>4, <1>5, <1>6, <2>2, <2>3 DEF PrepareOf, StartOf, StopOf, EndedOf
  <1>7. ASSUME NEW r, NEW kind, NEW pc, CommitDispatch(w, r, kind, pc), ~Commits(st[a], r)
        PROVE  [Ledger!Next]_(Ledger!ledger)
    <2>1. UNCHANGED <<durable, world>>
      BY <1>1, <1>7 DEF CommitDispatch, durable
    <2>. QED  BY <2>1, LedgerRests
  <1>8. CASE CommitPreparation(w)
    <2>1. PICK r : r = BeginPreparation(jr[a], st[a])
      OBVIOUS
    <2>2. CommitDispatch(w, r, "begin", "prepare") /\ grant[a] = "consumed" /\ LocalOnly(st[a]) /\ ~jr[a].plan
      BY <1>1, <1>8, <2>1 DEF CommitPreparation, BeginPreparationAllowed
    <2>3. r.j.plan /\ r.j.submitStarted = jr[a].submitStarted /\ r.s.orch = "preparing"
      BY <1>3, <2>1 DEF BeginPreparation, Cleared, Problem, Journals, AttemptStates
    <2>4. r.s.orch \notin OrchestrationTerminal /\ ~EndedOf(a)
      BY <2>2, <2>3 DEF LocalOnly, EndedOf, OrchestrationTerminal
    <2>5. CASE Commits(st[a], r)
      <3>1. /\ jr'[a] = r.j /\ EndedOf(a)' = EndedOf(a) /\ StopOf(a)' = StopOf(a)
            /\ UNCHANGED <<grant, active, world>>
            /\ \A b \in Attempts : b # a => /\ PrepareOf(b)' = PrepareOf(b) /\ StartOf(b)' = StartOf(b)
                                            /\ StopOf(b)' = StopOf(b) /\ EndedOf(b)' = EndedOf(b)
        BY <1>6, <2>2, <2>4, <2>5
      <3>2. world[a].prepares = 0
        BY <1>3, <2>2 DEF EffectOK
      <3>3. PrepareOf(a) = "closed" /\ PrepareOf(a)' = "open" /\ StartOf(a)' = StartOf(a)
        BY <2>2, <2>3, <3>1, <3>2 DEF PrepareOf, StartOf, Effect
      <3>. QED  BY <1>3, <2>2, <2>4, <3>1, <3>3, LedgerOpensPrepare
    <2>. QED  BY <1>7, <2>2, <2>5
  <1>9. CASE CommitSubmission(w)
    <2>1. PICK r : r = BeginSubmission(jr[a], st[a])
      OBVIOUS
    <2>2. CommitDispatch(w, r, "submit", "start") /\ LocalOnly(st[a]) /\ ~jr[a].submitStarted /\ jr[a].phase = "ready"
      BY <1>1, <1>9, <2>1 DEF CommitSubmission, BeginSubmissionAllowed
    <2>3. r.j.submitStarted /\ r.j.plan = jr[a].plan /\ r.s.orch = "dispatching"
      BY <1>3, <2>1 DEF BeginSubmission, Cleared, Problem, Journals, AttemptStates
    <2>4. r.s.orch \notin OrchestrationTerminal /\ ~EndedOf(a)
      BY <2>2, <2>3 DEF LocalOnly, EndedOf, OrchestrationTerminal
    <2>5. CASE Commits(st[a], r)
      <3>1. /\ jr'[a] = r.j /\ EndedOf(a)' = EndedOf(a) /\ StopOf(a)' = StopOf(a)
            /\ UNCHANGED <<grant, active, world>>
            /\ \A b \in Attempts : b # a => /\ PrepareOf(b)' = PrepareOf(b) /\ StartOf(b)' = StartOf(b)
                                            /\ StopOf(b)' = StopOf(b) /\ EndedOf(b)' = EndedOf(b)
        BY <1>6, <2>2, <2>4, <2>5
      <3>2. world[a].starts = 0 /\ jr[a].plan
        BY <1>3, <2>2 DEF EffectOK, FactsOK, ValidJournal
      <3>3. StartOf(a) = "closed" /\ StartOf(a)' = "open"
        BY <2>2, <2>3, <3>1, <3>2 DEF StartOf, Effect
      <3>4. PrepareOf(a)' = PrepareOf(a)
        BY <2>3, <3>1 DEF PrepareOf
      <3>5. PrepareOf(a) # "closed"
        BY <3>2 DEF PrepareOf, Effect
      <3>. QED  BY <1>3, <2>4, <3>1, <3>3, <3>4, <3>5, LedgerOpensStart
    <2>. QED  BY <1>7, <2>2, <2>5
  <1>10. ASSUME NEW j, NEW s, NEW o, NEW pc, CommitCancellation(w, j, s, o, pc),
                j.plan = jr[a].plan, j.submitStarted = jr[a].submitStarted, o.started = op[a].started
         PROVE  [Ledger!Next]_(Ledger!ledger)
    <2>1. /\ jr' = [jr EXCEPT ![a] = j] /\ st' = [st EXCEPT ![a] = s] /\ op' = [op EXCEPT ![a] = o]
          /\ UNCHANGED <<grant, active, world>> /\ ValidTransition(st[a], s)
      BY <1>1, <1>10 DEF CommitCancellation
    <2>2. EndedOf(a) => s.orch \in OrchestrationTerminal
      BY <2>1, EndIsFinal DEF EndedOf
    <2>. QED  BY <1>3, <1>10, <2>1, <2>2, LedgerWrite
  <1>11. CASE BeginStop(w)
    <2>1. CASE CancelSupported
      <3>1. PICK s : s = [st[a] EXCEPT !.cancel = "requesting"]
        OBVIOUS
      <3>2. PICK o : o = [op[a] EXCEPT !.cancel = "running", !.started = TRUE]
        OBVIOUS
      <3>3. PICK j : j = jr[a]
        OBVIOUS
      <3>4. CommitCancellation(w, j, s, o, "stop") /\ ~op[a].started /\ jr[a].phase = "submitted"
        BY <1>1, <1>11, <2>1, <3>1, <3>2, <3>3 DEF BeginStop, StopDue
      <3>5. /\ jr' = [jr EXCEPT ![a] = j] /\ st' = [st EXCEPT ![a] = s] /\ op' = [op EXCEPT ![a] = o]
            /\ UNCHANGED <<grant, active, world>>
        BY <1>1, <3>4 DEF CommitCancellation
      <3>6. s.orch = st[a].orch /\ o.started
        BY <1>3, <3>1, <3>2 DEF AttemptStates, Operations
      <3>7. jr[a].submitStarted /\ ~EndedOf(a)
        BY <1>3, <3>4, WhileObserved DEF EndedOf
      <3>8. world[a].cancels = 0
        BY <1>3, <3>4 DEF EffectOK
      <3>9. /\ StopOf(a) = "closed" /\ StopOf(a)' = "open" /\ StartOf(a) # "closed"
            /\ \A b \in Attempts : /\ b # a => StopOf(b)' = StopOf(b)
                                   /\ PrepareOf(b)' = PrepareOf(b) /\ StartOf(b)' = StartOf(b)
                                   /\ EndedOf(b)' = EndedOf(b)
        <4>1. jr' = jr
          BY <1>3, <3>3, <3>5 DEF IInv, TypeOK
        <4>2. StopOf(a) = "closed" /\ StopOf(a)' = "open" /\ StartOf(a) # "closed"
          BY <1>5, <3>4, <3>5, <3>6, <3>7, <3>8 DEF StopOf, StartOf, Effect
        <4>3. ASSUME NEW b \in Attempts
              PROVE  /\ b # a => StopOf(b)' = StopOf(b)
                     /\ PrepareOf(b)' = PrepareOf(b) /\ StartOf(b)' = StartOf(b) /\ EndedOf(b)' = EndedOf(b)
          BY <1>4, <1>5, <3>5, <3>6, <4>1 DEF StopOf, PrepareOf, StartOf, EndedOf
        <4>. QED  BY <4>2, <4>3
      <3>. QED  BY <1>3, <3>5, <3>7, <3>9, LedgerOpensStop
    <2>2. CASE ~CancelSupported
      <3>1. PICK o : o = [op[a] EXCEPT !.cancel = "manual"]
        OBVIOUS
      <3>2. CommitCancellation(w, jr[a], Manual(st[a]), o, "done")
        BY <1>1, <1>11, <2>2, <3>1 DEF BeginStop
      <3>3. o.started = op[a].started
        BY <1>3, <3>1 DEF Operations
      <3>. QED  BY <1>10, <3>2, <3>3
    <2>. QED  BY <2>1, <2>2
  <1>12. CASE CommitStop(w)
    <2>1. PICK r : r = ObservationSeen(jr[a], st[a], Confirmed)
      OBVIOUS
    <2>2. PICK settled : settled = [op[a] EXCEPT !.cancel = "succeeded"]
      OBVIOUS
    <2>3. PICK p : p = Finish(r.j, r.s, settled, "observed").o
      OBVIOUS
    <2>4. PICK m : m = [op[a] EXCEPT !.cancel = "manual"]
      OBVIOUS
    <2>5. settled \in Operations /\ settled.started = op[a].started /\ m.started = op[a].started
      BY <1>3, <2>2, <2>4 DEF Operations
    <2>6. p.started = op[a].started
      BY <2>3, <2>5 DEF Finish, Operations
    <2>7. r.j.plan = jr[a].plan /\ r.j.submitStarted = jr[a].submitStarted
      <3>1. NoMore(jr[a], r)
        BY <1>3, <2>1, Unopened
      <3>. QED  BY <3>1 DEF NoMore
    <2>8. \/ CommitCancellation(w, jr[a], Manual(st[a]), m, "done")
          \/ CommitCancellation(w, jr[a], [st[a] EXCEPT !.cancel = "accepted"], op[a], "done")
          \/ CommitCancellation(w, r.j, r.s, p, "done")
      BY <1>1, <1>12, <2>1, <2>2, <2>3, <2>4 DEF CommitStop
    <2>. QED  BY <1>10, <2>5, <2>6, <2>7, <2>8
  <1>. QED  BY <1>8, <1>9, <1>11, <1>12

\* A call reaches the provider once, behind its permit.
LEMMA CallsLedger ==
    ASSUME IInv, NEW w \in Workers, CallPrepare(w) \/ CallStart(w) \/ CallCancel(w)
    PROVE  [Ledger!Next]_(Ledger!ledger)
  <1>1. PICK a : a = sess[w].a
    OBVIOUS
  <1>2. /\ a \in Attempts /\ SessOK(w) /\ world \in [Attempts -> Worlds] /\ world[a] \in Worlds
    BY <1>1 DEF IInv, TypeOK, Sessions, SessInv
  <1>3. UNCHANGED durable
    BY DEF CallPrepare, CallStart, CallCancel
  <1>4. \A b \in Attempts : EndedOf(b)' = EndedOf(b)
    BY <1>3 DEF EndedOf, durable
  <1>5. CASE CallPrepare(w)
    <2>1. PICK staged \in BOOLEAN : world' = [world EXCEPT ![a].staged = staged, ![a].prepares = @ + 1]
      BY <1>1, <1>5 DEF CallPrepare
    <2>2. jr[a].plan /\ world[a].prepares = 0
      BY <1>1, <1>2, <1>5 DEF SessOK, CallPrepare
    <2>3. /\ world'[a].prepares = 1 /\ world'[a].starts = world[a].starts /\ world'[a].cancels = world[a].cancels
          /\ \A b \in Attempts : b # a => world'[b] = world[b]
      BY <1>2, <2>1, <2>2 DEF Worlds
    <2>4. PrepareOf(a) = "open" /\ PrepareOf(a)' = "called"
      BY <1>3, <2>2, <2>3 DEF PrepareOf, Effect, durable
    <2>5. \A b \in Attempts : /\ b # a => PrepareOf(b)' = PrepareOf(b)
                              /\ StartOf(b)' = StartOf(b) /\ StopOf(b)' = StopOf(b)
      BY <1>3, <2>3 DEF PrepareOf, StartOf, StopOf, durable
    <2>. QED  BY <1>2, <1>3, <1>4, <2>4, <2>5, LedgerCallsPrepare DEF durable
  <1>6. CASE CallStart(w)
    <2>1. world' = [world EXCEPT ![a].exec = "inflight", ![a].starts = @ + 1] /\ sess[w].pc = "start"
      BY <1>1, <1>6 DEF CallStart
    <2>2. jr[a].submitStarted /\ world[a].starts = 0
      BY <1>1, <1>2, <2>1 DEF SessOK
    <2>3. /\ world'[a].starts = 1 /\ world'[a].prepares = world[a].prepares /\ world'[a].cancels = world[a].cancels
          /\ \A b \in Attempts : b # a => world'[b] = world[b]
      BY <1>2, <2>1, <2>2 DEF Worlds
    <2>4. StartOf(a) = "open" /\ StartOf(a)' = "called"
      BY <1>3, <2>2, <2>3 DEF StartOf, Effect, durable
    <2>5. \A b \in Attempts : /\ b # a => StartOf(b)' = StartOf(b)
                              /\ PrepareOf(b)' = PrepareOf(b) /\ StopOf(b)' = StopOf(b)
      BY <1>3, <2>3 DEF PrepareOf, StartOf, StopOf, durable
    <2>6. a = active /\ ~EndedOf(a)
      <3>1. StartPending(a)
        BY <1>1, <2>1 DEF StartPending
      <3>. QED  BY <1>2, <3>1, Pursued DEF EndedOf
    <2>. QED  BY <1>2, <1>3, <1>4, <2>4, <2>5, <2>6, LedgerCallsStart DEF durable
  <1>7. CASE CallCancel(w)
    <2>1. world' = [world EXCEPT ![a].cancels = @ + 1] /\ sess[w].pc = "stop"
      BY <1>1, <1>7 DEF CallCancel
    <2>2. op[a].started /\ world[a].cancels = 0
      BY <1>1, <1>2, <2>1 DEF SessOK
    <2>3. /\ world'[a].cancels = 1 /\ world'[a].prepares = world[a].prepares /\ world'[a].starts = world[a].starts
          /\ \A b \in Attempts : b # a => world'[b] = world[b]
      BY <1>2, <2>1, <2>2 DEF Worlds
    <2>4. StopOf(a) = "open" /\ StopOf(a)' = "called"
      BY <1>3, <2>2, <2>3 DEF StopOf, Effect, durable
    <2>5. \A b \in Attempts : /\ b # a => StopOf(b)' = StopOf(b)
                              /\ PrepareOf(b)' = PrepareOf(b) /\ StartOf(b)' = StartOf(b)
      BY <1>3, <2>3 DEF PrepareOf, StartOf, StopOf, durable
    <2>. QED  BY <1>2, <1>3, <1>4, <2>4, <2>5, LedgerCallsStop DEF durable
  <1>. QED  BY <1>5, <1>6, <1>7

\* A request, and the collector, open nothing; a retry replaces an ended attempt.
LEMMA ControlLedger ==
    ASSUME IInv, NEW a \in Attempts, ControlStep(a)
    PROVE  [Ledger!Next]_(Ledger!ledger)
  <1>1. /\ jr[a] \in Journals /\ st[a] \in AttemptStates /\ op[a] \in Operations
        /\ FactsOK(jr[a], st[a], intent[a], op[a]) /\ AgeOK(a) /\ a \in Nat /\ active \in Nat
    BY Known
  <1>2. ASSUME NEW j, NEW s, NEW o, ControlWrite(a, j, s, o), j.plan = jr[a].plan,
               j.submitStarted = jr[a].submitStarted, o.started = op[a].started,
               EndedOf(a) => s.orch \in OrchestrationTerminal, a = active \/ EndedOf(a)
        PROVE  [Ledger!Next]_(Ledger!ledger)
    <2>1. /\ jr' = [jr EXCEPT ![a] = j] /\ st' = [st EXCEPT ![a] = s] /\ op' = [op EXCEPT ![a] = o]
          /\ UNCHANGED <<grant, active, world>>
      BY <1>2 DEF ControlWrite
    <2>. QED  BY <1>2, <2>1, LedgerWrite
  <1>3. \A c \in {"accepted", "succeeded", "manual"} : CancelOperation(a, c).started = op[a].started
    BY <1>1, RequestFacts
  <1>4. CASE AuthorizeExecution(a)
    <2>1. /\ a = active /\ grant[a] = "none" /\ grant' = [grant EXCEPT ![a] = "granted"] /\ ~EndedOf(a)
          /\ UNCHANGED <<st, jr, op, active, world>>
      BY <1>4 DEF AuthorizeExecution, LocalOnly, EndedOf, OrchestrationTerminal
    <2>. QED  BY <2>1, LedgerConsents
  <1>5. CASE CancelSettled(a)
    <2>1. PICK o : o = CancelOperation(a, "succeeded")
      OBVIOUS
    <2>2. PICK s : /\ ControlWrite(a, jr[a], s, o) /\ (EndedOf(a) => s = st[a])
                   /\ a = active \/ EndedOf(a)
      BY <1>5, <2>1 DEF CancelSettled, EndedOf
    <2>. QED  BY <1>2, <1>3, <2>1, <2>2 DEF EndedOf
  <1>6. CASE CancelPrevents(a)
    <2>1. PICK r : r = PreventDispatch(jr[a], st[a])
      OBVIOUS
    <2>2. ControlWrite(a, r.j, r.s, CancelOperation(a, "succeeded")) /\ a = active /\ ~EndedOf(a)
      BY <1>6, <2>1 DEF CancelPrevents, PreventDispatchAllowed, EndedOf
    <2>3. NoMore(jr[a], r)
      BY <1>1, <2>1, Unopened
    <2>. QED  BY <1>2, <1>3, <2>2, <2>3 DEF NoMore
  <1>7. CASE CancelRequested(a)
    <2>1. PICK s : s = [st[a] EXCEPT !.cancel = "requested", !.orch = "cancelling"]
      OBVIOUS
    <2>2. PICK x : x = FALSE
      OBVIOUS
    <2>3. PICK r : r = RequestReconciliation(jr[a], s, x)
      OBVIOUS
    <2>4. NoMore(jr[a], r)
      BY <1>1, <2>3, Unopened
    <2>5. r.j.plan = jr[a].plan /\ r.j.submitStarted = jr[a].submitStarted
      BY <2>4 DEF NoMore
    <2>6. a = active /\ ~EndedOf(a)
      BY <1>7 DEF CancelRequested, EndedOf
    <2>7. PICK j \in {jr[a], r.j}, t \in {s, Manual(s)}, c \in {"accepted", "manual"} :
            ControlWrite(a, j, t, CancelOperation(a, c))
      BY <1>7, <2>1, <2>2, <2>3 DEF CancelRequested
    <2>8. PICK o : o = CancelOperation(a, c)
      OBVIOUS
    <2>9. o.started = op[a].started /\ j.plan = jr[a].plan /\ j.submitStarted = jr[a].submitStarted
      BY <1>3, <2>5, <2>7, <2>8
    <2>. QED  BY <1>2, <2>6, <2>7, <2>8, <2>9
  <1>8. ASSUME NEW owner \in BOOLEAN, Reconcile(a, owner) PROVE [Ledger!Next]_(Ledger!ledger)
    <2>1. PICK r : r = RequestReconciliation(jr[a], st[a], owner)
      OBVIOUS
    <2>2. PICK o : o = [op[a] EXCEPT !.reconcile = TRUE]
      OBVIOUS
    <2>3. ControlWrite(a, r.j, r.s, o) /\ a = active /\ ~EndedOf(a)
      BY <1>8, <2>1, <2>2 DEF Reconcile, RequestReconciliationAllowed, EndedOf
    <2>4. NoMore(jr[a], r) /\ o.started = op[a].started
      BY <1>1, <2>1, <2>2, Unopened DEF Operations
    <2>. QED  BY <1>2, <2>3, <2>4 DEF NoMore
  <1>9. CASE OwnerResolvesAbsent(a)
    <2>1. PICK x : x = FALSE
      OBVIOUS
    <2>2. PICK r : r = SubmissionRejected(jr[a], st[a], x)
      OBVIOUS
    <2>3. ControlWrite(a, r.j, r.s, op[a]) /\ a = active /\ ~EndedOf(a)
      BY <1>9, <2>1, <2>2 DEF OwnerResolvesAbsent, OwnerSubmissionAbsent, OwnerSubmissionAbsentAllowed,
         AbsenceAllowed, EndedOf
    <2>4. NoMore(jr[a], r)
      BY <1>1, <2>2, Unopened
    <2>. QED  BY <1>2, <2>3, <2>4 DEF NoMore
  <1>10. CASE Retry(a)
    <2>1. /\ a = active /\ active < MaxAttempts /\ active' = active + 1 /\ EndedOf(active)
          /\ UNCHANGED <<st, jr, grant, op, world>>
      BY <1>10 DEF Retry, RetryAllowed, EndedOf
    <2>2. Ledger!Replace
      BY <2>1 DEF Ledger!Replace, EndedOf
    <2>. QED  BY <2>2 DEF Ledger!Next
  <1>11. ASSUME NEW j, NEW s, ControlWrite(a, j, s, op[a]), NoMore(jr[a], [j |-> j, s |-> s]),
                st[a].exec \in ExecutionTerminal, ~EndedOf(a)
         PROVE  [Ledger!Next]_(Ledger!ledger)
    <2>1. jr[a] # InitialJournal
      BY <1>1, <1>11, Names DEF FactsOK, PhaseOK, LocalOnly, InitialJournal
    <2>2. a = active
      BY <1>1, <1>11, <2>1 DEF AgeOK, EndedOf
    <2>3. j.plan = jr[a].plan /\ j.submitStarted = jr[a].submitStarted
      BY <1>11 DEF NoMore
    <2>. QED  BY <1>2, <1>11, <2>2, <2>3
  <1>12. CASE ClaimCollection(a)
    <2>1. PICK s : s = [st[a] EXCEPT !.result = "collecting", !.orch = "collecting"]
      OBVIOUS
    <2>2. ControlWrite(a, jr[a], s, op[a]) /\ st[a].exec \in ExecutionTerminal /\ ~EndedOf(a)
      BY <1>12, <2>1 DEF ClaimCollection, EndedOf
    <2>3. NoMore(jr[a], [j |-> jr[a], s |-> s])
      BY DEF NoMore
    <2>. QED  BY <1>11, <2>2, <2>3
  <1>13. CASE CompleteCollection(a) \/ FailCollection(a)
    <2>1. PICK s, problem : EndCollection(a, s, problem)
      BY <1>13 DEF CompleteCollection, FailCollection
    <2>2. PICK j : j = [jr[a] EXCEPT !.problem = problem, !.localWindow = "unset"]
      OBVIOUS
    <2>3. ControlWrite(a, j, s, op[a]) /\ st[a].orch = "collecting"
      BY <2>1, <2>2 DEF EndCollection
    <2>4. st[a].exec \in ExecutionTerminal /\ ~EndedOf(a)
      BY <1>1, <2>3 DEF FactsOK, ValidState, OrchestrationConsistent, EndedOf, OrchestrationTerminal
    <2>5. NoMore(jr[a], [j |-> j, s |-> s])
      BY <1>1, <2>2 DEF NoMore, Journals
    <2>. QED  BY <1>11, <2>3, <2>4, <2>5
  <1>. QED  BY <1>4, <1>5, <1>6, <1>7, <1>8, <1>9, <1>10, <1>12, <1>13 DEF ControlStep

\* Every step of the engine keeps the promise.
LEMMA LedgerNext == IInv /\ [Next]_vars => [Ledger!Next]_(Ledger!ledger)
  <1>. SUFFICES ASSUME IInv, [Next]_vars PROVE [Ledger!Next]_(Ledger!ledger)
    OBVIOUS
  <1>1. ASSUME NEW w \in Workers, SessionStep(w) PROVE [Ledger!Next]_(Ledger!ledger)
    <2>1. CASE \/ Load(w) \/ Yield(w) \/ Abandon(w) \/ Interrupt(w) \/ ExpiredMutation(w) \/ PrepareReturns(w)
               \/ PrepareExpires(w) \/ PassFails(w) \/ ReadStaging(w) \/ StartReturns(w) \/ ReadSubmission(w)
               \/ ReadExecution(w) \/ CancelReturns(w)
      <3>1. UNCHANGED <<durable, world>>
        BY <2>1 DEF Load, Yield, Abandon, Interrupt, ExpiredMutation, PrepareReturns, PrepareExpires, PassFails,
           ReadStaging, StartReturns, ReadSubmission, ReadExecution, CancelReturns
      <3>. QED  BY <3>1, LedgerRests
    <2>2. CASE \/ Expire(w) \/ Refuse(w) \/ CommitFault(w) \/ CommitUnready(w) \/ CommitPrepared(w)
               \/ CommitOutcome(w) \/ CommitAbsent(w) \/ CommitGone(w) \/ CommitObservation(w)
      BY <2>2, AnswersLedger
    <2>3. CASE CommitPreparation(w) \/ CommitSubmission(w) \/ BeginStop(w) \/ CommitStop(w)
      BY <2>3, PermitsLedger
    <2>4. CASE CallPrepare(w) \/ CallStart(w) \/ CallCancel(w)
      BY <2>4, CallsLedger
    <2>5. CASE ConsumeAuthorization(w)
      <3>1. PICK a : a = sess[w].a
        OBVIOUS
      <3>2. /\ a \in Attempts /\ a = active /\ ~EndedOf(a) /\ UNCHANGED <<st, jr, intent, op, active, world>>
            /\ grant[a] # "none" /\ grant' = [grant EXCEPT ![a] = "consumed"]
        BY <2>5, <3>1 DEF ConsumeAuthorization, At, Owns, IInv, TypeOK, LocalOnly, EndedOf, OrchestrationTerminal
      <3>3. grant \in [Attempts -> {"none", "granted", "consumed"}]
        BY DEF IInv, TypeOK
      <3>4. CASE grant[a] = "granted"
        BY <3>2, <3>4, LedgerConsents
      <3>5. CASE grant[a] = "consumed"
        <4>1. grant' = grant
          BY <3>2, <3>3, <3>5
        <4>. QED  BY <3>2, <4>1, LedgerRests DEF durable
      <3>. QED  BY <3>2, <3>3, <3>4, <3>5
    <2>. QED  BY <1>1, <2>1, <2>2, <2>3, <2>4, <2>5 DEF SessionStep, CommitAnswer
  <1>2. ASSUME NEW w \in Workers, ClaimStep(w) PROVE [Ledger!Next]_(Ledger!ledger)
    <2>1. PICK a \in Attempts : ClaimRecovery(w, a) \/ ClaimNext(w, a)
      BY <1>2 DEF ClaimStep
    <2>2. CASE ClaimRecovery(w, a)
      BY <2>2, LedgerRests DEF ClaimRecovery
    <2>3. CASE ClaimNext(w, a)
      <3>1. PICK s : s = [st[a] EXCEPT !.orch = "preparing"]
        OBVIOUS
      <3>2. /\ st' = [st EXCEPT ![a] = s] /\ a = active /\ ~EndedOf(a)
            /\ UNCHANGED <<jr, grant, op, active, world>>
        BY <2>3, <3>1 DEF ClaimNext, Claimable, LocalOnly, EndedOf, OrchestrationTerminal
      <3>3. PICK j : j = jr[a]
        OBVIOUS
      <3>4. PICK o : o = op[a]
        OBVIOUS
      <3>5. jr' = [jr EXCEPT ![a] = j] /\ op' = [op EXCEPT ![a] = o]
        BY <3>2, <3>3, <3>4 DEF IInv, TypeOK
      <3>. QED  BY <3>2, <3>3, <3>4, <3>5, LedgerWrite
    <2>. QED  BY <2>1, <2>2, <2>3
  <1>3. ASSUME NEW a \in Attempts, ControlStep(a) PROVE [Ledger!Next]_(Ledger!ledger)
    BY <1>3, ControlLedger
  <1>4. ASSUME NEW a \in Attempts, OutsideStep(a) PROVE [Ledger!Next]_(Ledger!ledger)
    <2>1. CASE LeaseExpires(a)
      BY <2>1, LedgerRests DEF LeaseExpires
    <2>2. CASE WindowElapses(a)
      <3>1. jr \in [Attempts -> Journals]
        BY DEF IInv, TypeOK
      <3>2. PICK j : /\ \/ j = [jr[a] EXCEPT !.localWindow = "elapsed"]
                        \/ j = [jr[a] EXCEPT !.prepWindow = "elapsed"]
                        \/ j = [jr[a] EXCEPT !.absence = "elapsed"]
                     /\ jr' = [jr EXCEPT ![a] = j]
        BY <2>2 DEF WindowElapses
      <3>3. j.plan = jr[a].plan /\ j.submitStarted = jr[a].submitStarted
        BY <3>1, <3>2 DEF Journals
      <3>4. UNCHANGED <<st, op, grant, active, world>>
        BY <2>2 DEF WindowElapses
      <3>5. \A b \in Attempts : jr'[b].plan = jr[b].plan /\ jr'[b].submitStarted = jr[b].submitStarted
        BY <3>1, <3>2, <3>3
      <3>. QED  BY <3>4, <3>5, LedgerSame DEF PrepareOf, StartOf, StopOf, EndedOf
    <2>3. CASE WorldMoves(a)
      <3>1. world \in [Attempts -> Worlds]
        BY DEF IInv, TypeOK
      <3>2. PICK e : world' = [world EXCEPT ![a].exec = e]
        BY <2>3 DEF WorldMoves
      <3>3. \A b \in Attempts : /\ world'[b].prepares = world[b].prepares /\ world'[b].starts = world[b].starts
                                /\ world'[b].cancels = world[b].cancels
        BY <3>1, <3>2 DEF Worlds
      <3>4. UNCHANGED durable
        BY <2>3 DEF WorldMoves
      <3>. QED  BY <3>3, <3>4, LedgerSame DEF PrepareOf, StartOf, StopOf, EndedOf, durable
    <2>. QED  BY <1>4, <2>1, <2>2, <2>3 DEF OutsideStep
  <1>5. CASE Crash \/ Shutdown \/ Restart \/ DeadlinePasses \/ UNCHANGED vars
    BY <1>5, LedgerRests DEF Crash, Shutdown, Restart, DeadlinePasses, vars, durable
  <1>. QED  BY <1>1, <1>2, <1>3, <1>4, <1>5 DEF Next

\* The dispatch of a job implements the promise made to the owner of the account: each
\* effect is opened and called at most once, in order, and ended attempts stay ended.
THEOREM LedgerKept == Spec => KeepsLedger
  <1>1. ASSUME Init PROVE Ledger!Init
    <2>1. \A a \in Attempts : /\ PrepareOf(a) = "closed" /\ StartOf(a) = "closed" /\ StopOf(a) = "closed"
                              /\ EndedOf(a) = FALSE
      BY <1>1 DEF Init, PrepareOf, StartOf, StopOf, EndedOf, Effect, InitialJournal, NoWorld, NoOperation,
         InitialAttemptState, OrchestrationTerminal
    <2>2. grant = [a \in Attempts |-> "none"] /\ active = 1
      BY <1>1 DEF Init
    <2>. QED  BY <2>1, <2>2 DEF Ledger!Init, Ledger!Numbers, Attempts, PrepareOf, StartOf, StopOf, EndedOf
  <1>. QED  BY <1>1, LedgerNext, Invariance, PTL DEF Spec, KeepsLedger, Ledger!Spec
=============================================================================
