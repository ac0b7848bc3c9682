----------------------------- MODULE ResultLife -----------------------------
(***************************************************************************)
(* The life of one attempt's results: collectors bring them in, cleaners   *)
(* delete the remote side, retention expires the local side, and the       *)
(* application's requests (collect, cancel, cleanup, release) meet all of  *)
(* them.  One process runs every worker: a crash ends all sessions, while  *)
(* leases, tombstones and delete requests on the wire survive it.          *)
(***************************************************************************)
EXTENDS Collection, Cleanup

VARIABLE sweep   \* the deletion under way: Sweeper.mu admits one at a time

vars == <<ledger, local, provider, faults, work, job, sweep>>

Resting == [pc |-> "idle", file |-> Nobody]

-----------------------------------------------------------------------------
(* Requests of the application: AdmitOperation.                            *)

\* A pending ticket, a cleanup in progress or available results end the request early.
RequestCollect ==
    /\ "collect" \in Requests
    /\ tickets < MaxTickets
    /\ ticket # "accepted"
    /\ ~Cleaning
    /\ Executed
    /\ s.result \notin {"available", "expired"}
    /\ ~PendingCleanup
    /\ ticket' = "accepted"
    /\ tickets' = tickets + 1
    /\ UNCHANGED <<s, pin, pub, tomb, cleanups, rule, lease, hold, local, provider, faults,
                   work, job, sweep>>

Answered == [s EXCEPT !.cancel = IF s.exec = "cancelled" THEN "confirmed" ELSE "too_late"]

\* admitCancellation after the end of execution: only the request is answered.
RequestCancel ==
    /\ "cancel" \in Requests
    /\ s.cancel = "not_requested"
    /\ s.orch \notin OrchestrationTerminal
    /\ ~Cleaning
    /\ s' = Answered
    /\ lease' = Overtaken(lease)
    /\ UNCHANGED <<ticket, tickets, pin, pub, tomb, cleanups, rule, hold, local, provider,
                   faults, work, job, sweep>>

\* Accepted, running and succeeded cleanups answer a new request themselves.
RequestCleanup(discard) ==
    /\ (IF discard THEN "discard" ELSE "cleanup") \in Requests
    /\ Latest < MaxExplicit
    /\ \A i \in DOMAIN cleanups : cleanups[i].status = "failed"
    /\ AdmitCleanup(discard, FALSE)
    /\ UNCHANGED <<tickets, pin, pub, tomb, rule, local, provider, faults, work, job, sweep>>

-----------------------------------------------------------------------------
(* Declared remote retention.                                              *)

Tick(kind) ==
    /\ rule[kind] = "waiting"
    /\ rule' = [rule EXCEPT ![kind] = "due"]
    /\ UNCHANGED <<s, ticket, tickets, pin, pub, tomb, cleanups, lease, hold, local, provider,
                   faults, work, job, sweep>>

\* Mutant: only an intent still running counts as ambiguous.
RunningPrior ==
    \E i \in DOMAIN cleanups :
        /\ cleanups[i].status = "failed"
        /\ \E role \in DOMAIN cleanups[i].res : cleanups[i].res[role] = "running"

\* ambiguousPriorCleanup: some failed cleanup may have deleted more than it knows.
AmbiguousPrior ==
    \E i \in DOMAIN cleanups :
        /\ cleanups[i].status = "failed"
        /\ \E role \in DOMAIN cleanups[i].res : cleanups[i].res[role] \in {"running", "unknown"}

RuleApplies(kind) == (kind = "collected") <=> (pub # 0)

\* Mutant: a rule that has to wait is dropped.
Dropped(kind) == [rule EXCEPT ![kind] = "scheduled"]

\* deferRemoteDeadline
Deferred(kind) == [rule EXCEPT ![kind] = "waiting"]

\* ScheduleRetention: a due rule becomes an ordinary cleanup, or waits another round.
ScheduleRetention(kind) ==
    /\ rule[kind] = "due"
    /\ RuleApplies(kind)
    /\ \A i \in DOMAIN cleanups : cleanups[i].status = "failed"
    /\ IF AmbiguousPrior \/ ~Eligible(kind = "uncollected", 0)
       THEN /\ rule' = Deferred(kind)
            /\ UNCHANGED <<s, ticket, cleanups, lease, hold>>
       ELSE /\ rule' = [rule EXCEPT ![kind] = "scheduled"]
            /\ AdmitCleanup(kind = "uncollected", TRUE)
    /\ UNCHANGED <<tickets, pin, pub, tomb, local, provider, faults, work, job, sweep>>

-----------------------------------------------------------------------------
(* Local retention: tombstones first, bytes afterwards.                    *)

\* retentionReference and ReleaseBlocker.  A lease counts as busy until it is given
\* back, run out or not.
Releasable ==
    /\ lease.owner = Nobody /\ others \subseteq {"object"}
    /\ ticket # "accepted"
    /\ s.orch \in OrchestrationTerminal
    /\ pub # 0
    /\ s.result \in {"available", "expired"}

\* ExpireRetention when the window has passed, AdmitResultRelease before that.
Tombstone ==
    /\ "release" \in Requests
    /\ Releasable
    /\ s.result = "available"
    /\ s' = [s EXCEPT !.result = "expired"]
    /\ tomb' = [f \in Everything |-> "expired"]
    /\ lease' = Overtaken(lease)
    /\ UNCHANGED <<ticket, tickets, pin, pub, cleanups, rule, hold, local, provider, faults,
                   work, job, sweep>>

\* Mutant: only objects still in place are picked.
PickPresent(f) ==
    /\ sweep.pc = "idle"
    /\ tomb[f] = "expired"
    /\ <<f, pub>> \in blobs
    /\ sweep' = [pc |-> "delete", file |-> f]
    /\ UNCHANGED <<ledger, local, provider, faults, work, job>>

\* PendingRetention and the release's own page name one committed tombstone.
PickTombstone(f) ==
    /\ sweep.pc = "idle"
    /\ tomb[f] = "expired"
    /\ sweep' = [pc |-> "delete", file |-> f]
    /\ UNCHANGED <<ledger, local, provider, faults, work, job>>

Unswept == UNCHANGED <<ledger, provider, faults, work, job>>

\* Mutant: an object found absent is reported without finishing its quarantine.
HastyDelete ==
    LET blob == <<sweep.file, pub>>
    IN  /\ sweep.pc = "delete"
        /\ IF blob \in blobs
           THEN /\ blobs' = blobs \ {blob}
                /\ retired' = retired \cup {blob}
                /\ sweep' = [sweep EXCEPT !.pc = "remove"]
           ELSE /\ sweep' = [sweep EXCEPT !.pc = "complete"]
                /\ UNCHANGED local
        /\ Unswept

\* blobfs.Delete: one rename into quarantine; an absent object has its quarantine removed.
Delete ==
    LET blob == <<sweep.file, pub>>
    IN  /\ sweep.pc = "delete"
        /\ IF blob \in blobs
           THEN /\ blob \notin retired
                /\ blobs' = blobs \ {blob}
                /\ retired' = retired \cup {blob}
                /\ sweep' = [sweep EXCEPT !.pc = "remove"]
           ELSE /\ retired' = retired \ {blob}
                /\ sweep' = [sweep EXCEPT !.pc = "complete"]
                /\ UNCHANGED blobs
        /\ Unswept

RemoveRetired ==
    /\ sweep.pc = "remove"
    /\ retired' = retired \ {<<sweep.file, pub>>}
    /\ sweep' = [sweep EXCEPT !.pc = "complete"]
    /\ UNCHANGED blobs
    /\ Unswept

CompleteRetention ==
    /\ sweep.pc = "complete"
    /\ tomb' = [tomb EXCEPT ![sweep.file] = "deleted"]
    /\ sweep' = Resting
    /\ UNCHANGED <<s, ticket, tickets, pin, pub, cleanups, rule, lease, hold, local, provider,
                   faults, work, job>>

\* A failed rename, removal or acknowledgement: the tombstone stays for a later pass.
SweepError ==
    /\ sweep.pc # "idle"
    /\ faults < MaxFaults
    /\ faults' = faults + 1
    /\ sweep' = Resting
    /\ UNCHANGED <<ledger, local, provider, work, job>>

-----------------------------------------------------------------------------
(* The world outside.                                                      *)

\* The run's output is replaced while nobody is looking.
Rewrite ==
    /\ "rewrite" \in Requests
    /\ Target("execution") \in remote
    /\ out < MaxVersion
    /\ out' = out + 1
    /\ UNCHANGED <<ledger, local, remote, doomed, asked, others, faults, work, job, sweep>>

\* Another attempt of the account records the same object.
Share ==
    /\ "share" \in Requests
    /\ "object" \notin others
    /\ others' = others \cup {"object"}
    /\ UNCHANGED <<ledger, local, remote, out, doomed, asked, faults, work, job, sweep>>

\* The session that recorded the end yields its lease.  When it died, or another
\* transaction has moved the attempt, the lease only runs out: a settled attempt is not
\* claimed again, so nobody gives it back.
DispatchEnds ==
    /\ "dispatch" \in others
    /\ \E given \in {{"dispatch", "unreleased"}, {"dispatch"}} : others' = others \ given
    /\ UNCHANGED <<ledger, local, remote, out, doomed, asked, faults, work, job, sweep>>

\* The process stops and starts again; openRoot clears the quarantine.
Crash ==
    /\ faults < MaxFaults
    /\ faults' = faults + 1
    /\ work' = [c \in Collectors |-> NoWork]
    /\ job' = [k \in Cleaners |-> NoJob]
    /\ sweep' = Resting
    /\ retired' = {}
    /\ UNCHANGED <<ledger, blobs, provider>>

Init ==
    /\ LedgerInit
    /\ work = [c \in Collectors |-> NoWork]
    /\ job = [k \in Cleaners |-> NoJob]
    /\ sweep = Resting

SweepStep == (\E f \in Everything : PickTombstone(f)) \/ Delete \/ RemoveRetired \/ CompleteRetention

Next ==
    \/ CollectionNext /\ UNCHANGED <<job, sweep>>
    \/ CleanupNext /\ UNCHANGED <<work, sweep>>
    \/ RequestCollect \/ RequestCancel \/ (\E discard \in BOOLEAN : RequestCleanup(discard))
    \/ (\E kind \in Kinds : Tick(kind) \/ ScheduleRetention(kind))
    \/ Tombstone \/ SweepStep \/ SweepError
    \/ Rewrite \/ Share \/ DispatchEnds \/ Crash

Spec == Init /\ [][Next]_vars

-----------------------------------------------------------------------------
(* Fairness.  Workers and the sweeper poll for as long as the process runs *)
(* and every provider call has a deadline; leases and deadlines run out by *)
(* the clock.  Only Call and Reply choose their outcome freely.            *)

CollectorStep(c) ==
    \/ ClaimCollection(c) \/ List(c) \/ FetchManifest(c) \/ PinCollection(c)
    \/ StartTransfer(c) \/ (\E f \in Everything : Transfer(c, f)) \/ Verify(c)
    \/ CompleteCollection(c) \/ FailCollection(c) \/ LoseCollection(c)

CleanerStep(k) ==
    \/ ClaimCleanup(k) \/ Look(k) \/ BeginCleanupResource(k) \/ Call(k) \/ Reply(k)
    \/ Record(k) \/ CompleteCleanup(k) \/ LoseCleanup(k)

LiveSpec ==
    /\ Spec
    /\ \A c \in Collectors : WF_vars(CollectorStep(c) /\ UNCHANGED <<job, sweep>>)
    /\ \A k \in Cleaners : WF_vars(CleanerStep(k) /\ UNCHANGED <<work, sweep>>)
    /\ WF_vars(ExpireCollectionLease /\ UNCHANGED <<job, sweep>>)
    /\ WF_vars(ExpireCleanupLease /\ UNCHANGED <<work, sweep>>)
    /\ \A kind \in Kinds : WF_vars(Tick(kind)) /\ WF_vars(ScheduleRetention(kind))
    /\ WF_vars(SweepStep) /\ WF_vars(Tombstone) /\ WF_vars(DispatchEnds)

-----------------------------------------------------------------------------
(* Properties.                                                             *)

\* The ledger, the two stores and every session hold values of their kind.
TypeOK ==
    /\ LedgerTypeOK
    /\ work \in [Collectors -> Works]
    /\ \A k \in Cleaners :
         /\ job[k].pc \in {"idle", "look", "begin", "call", "reply", "record", "finish"}
         /\ job[k].op \in 0..Latest
         /\ Busy(k) => job[k].item \in DOMAIN Roles /\ job[k].loaded \in UNION
                         {[roles -> ResourceStates] : roles \in {RoleSet, {"staging"}}}
         /\ job[k].outcome \in ResourceStates
         /\ job[k].unresolved \in BOOLEAN /\ job[k].collected \in BOOLEAN
    /\ sweep \in [pc : {"idle", "delete", "remove", "complete"}, file : Everything \cup {Nobody}]

\* While a collector may still write (its lease has not run out), no deletion of the
\* source is requested, under way, or possibly done: ClaimCollection and eligibleCleanup
\* exclude each other although neither side can see the other's calls.
TransferExcludesDeletion == lease.live => ~PendingCleanup /\ doomed = {}

\* Once the execution's remote object is gone or a delete is on its way, its results are
\* published and kept locally (or expired by retention), unless a discard was accepted:
\* ErrUncollected is what stands between the user and the loss of a finished run.
ResultsSurviveCleanup ==
    /\ Executed
    /\ Target("execution") \notin remote \ doomed
    /\ \A i \in DOMAIN cleanups : ~cleanups[i].discard
    => /\ pub # 0
       /\ \A f \in Everything : Present(f, pub) \/ tomb[f] \in {"expired", "deleted"}

\* Where they are two objects, the inputs of an executed attempt outlive its outputs:
\* nothing deletes the staging object, or asks for it, while the execution object still
\* exists (BeginCleanupResource: "Execution/output deletion must be confirmed before staging/input deletion").
StagingOutlivesExecution ==
    ~OneObject /\ Executed /\ "execution" \in remote => "staging" \in remote \ doomed

\* No deletion comes too early: neither before the results are safe nor, of the inputs,
\* before the outputs are gone.
NothingDeletedEarly == ResultsSurviveCleanup /\ StagingOutlivesExecution

\* A resource recorded as deleted or absent really is gone, and a cleanup succeeds only
\* when all of its resources are: CompleteCleanup's aggregate, across recovered sessions
\* and inherited receipts.
ConfirmedMeansGone ==
    \A i \in DOMAIN cleanups :
        /\ \A role \in DOMAIN cleanups[i].res :
             cleanups[i].res[role] \in Confirmed => Target(role) \notin remote
        /\ cleanups[i].status = "succeeded" =>
             \A role \in DOMAIN cleanups[i].res : Target(role) \notin remote

\* One cleanup request sends at most one delete per resource, whatever sessions die
\* between the intent, the call and its record (RecoverOnly).
OneDeletePerRequest ==
    \A i \in 1..MaxCleanups, role \in RoleSet : asked[i][role] <= 1

\* A declared rule never repeats a delete that an earlier cleanup had sent: an unknown
\* outcome keeps its due row "for inspection instead of being automatically retried"
\* (ambiguousPriorCleanup), a known one is inherited.
NoAutomaticRepeat ==
    \A j \in DOMAIN cleanups : \A i \in 1..(j - 1), role \in RoleSet :
        cleanups[j].auto /\ asked[j][role] > 0 => asked[i][role] = 0

\* Deletes are sent as asked: once per request, and never again by a rule.
DeletesAsAsked == OneDeletePerRequest /\ NoAutomaticRepeat

\* A published result is the pinned snapshot, whole: every file that retention has not
\* expired is in the blob store with the pinned content, although the remote output
\* changed or several sessions shared the transfer.
PublicationWhole ==
    pub # 0 => /\ pub = pin
               /\ \A f \in Everything : tomb[f] = "kept" => Present(f, pub)

\* An acknowledged tombstone means the bytes are gone, from quarantine too: failed
\* removals and restarts between rename and acknowledgement included (CompleteRetention).
ReclaimedMeansGone ==
    \A f \in Everything : tomb[f] = "deleted" => <<f, pub>> \notin blobs \cup retired

\* An accepted transfer ticket can always be claimed: were one fenced by a cleanup it
\* would stay accepted for ever and swallow every later collect request; were its attempt
\* terminal, ClaimCollection would return ErrInvalid to every worker.
TicketStaysServable ==
    ticket = "accepted" =>
        /\ ~PendingCleanup
        /\ s.orch \notin OrchestrationTerminal
        /\ s.result \notin {"available", "expired"}

\* A transfer recorded as under way has the ticket that will finish it: failure, discard
\* and cancellation never leave the result "collecting" with nobody responsible.
CollectingHasTicket == s.result = "collecting" => ticket = "accepted"

\* Tickets and transfers belong together: an accepted ticket can be served, a transfer
\* under way has one.
TicketsServable == TicketStaysServable /\ CollectingHasTicket

\* Every accepted transfer ticket settles: crashes, lost leases and cancellations of the
\* attempt (which overtake the session's revision) only delay it.
TicketSettles == ticket = "accepted" ~> ticket # "accepted"

\* Every accepted cleanup settles, even when its sessions die between intent and record.
CleanupSettles == Cleaning ~> ~Cleaning

\* Whatever a worker was asked to do settles, the transfers as well as the deletions.
WorkSettles == TicketSettles /\ CleanupSettles

\* Every expired file is eventually reclaimed and acknowledged.
TombstonesReclaimed == \A f \in Everything : tomb[f] = "expired" ~> tomb[f] = "deleted"

DeletionScheduled == \E i \in DOMAIN cleanups : cleanups[i].auto \/ cleanups[i].status # "failed"

\* The declared lifetime of uncollected data ends: with publication, with an accepted
\* cleanup, or with an outcome or an owner that needs inspection.  Neither a transfer
\* ticket left idle by a dead session nor the lease of a dead dispatcher extends it; a
\* reconcile request that was left open does, for ever (DeclaredLifetimeEnds).
UncollectedLifetimeEnds ==
    rule["uncollected"] = "waiting" ~>
        \/ pub # 0 \/ AmbiguousPrior \/ DeletionScheduled
        \/ others \cap {"object", "reconcile"} # {}

\* Published results expire locally once their window has passed, unless the lease of
\* the dispatcher that recorded the end was never given back (ResultsExpire).
LocalLifetimeEnds ==
    s.result = "available" /\ s.orch \in OrchestrationTerminal ~>
        s.result = "expired" \/ "unreleased" \in others

\* Lifetimes end, and truly: due data is scheduled for deletion, published results expire,
\* expired bytes are reclaimed, and what is acknowledged as reclaimed is gone.
LifetimesEnd ==
    UncollectedLifetimeEnds /\ LocalLifetimeEnds /\ TombstonesReclaimed /\ []ReclaimedMeansGone

\* docs/results-and-cleanup.md on uncollected_max_seconds: the data of an attempt that
\* never started, without published results, is deleted when the time is over.  The code
\* defers for ever while a reconcile request of the attempt is open.
DeclaredLifetimeEnds ==
    rule["uncollected"] = "waiting" ~>
        pub # 0 \/ AmbiguousPrior \/ DeletionScheduled \/ "object" \in others

\* docs/operations.md on local retention: verified results of completed work are deleted
\* after seven days.  The code keeps them while a dispatch lease that ran out is held.
ResultsExpire ==
    s.result = "available" /\ s.orch \in OrchestrationTerminal ~> s.result = "expired"
=============================================================================
