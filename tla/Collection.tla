----------------------------- MODULE Collection -----------------------------
(***************************************************************************)
(* collection.Engine: the workers that move the results of a finished      *)
(* attempt from the provider into the local blob store and publish them.   *)
(* A session is one RunOnce; each action is one store transaction, one     *)
(* provider call or one blob.  Every store error ends the session without  *)
(* a record (Abandon); the ticket stays accepted and the lease runs out.   *)
(*                                                                         *)
(* A blob is named by its path and digest, so a version identifies it; a   *)
(* Put verifies both and publishes with one rename.  A session whose lease *)
(* has run out may still put blobs until the next claim; from then on its  *)
(* heartbeat's refused renewal has cancelled the context every Put checks. *)
(***************************************************************************)
EXTENDS ResultLedger

VARIABLE work    \* the session of each collector

NoWork == [pc |-> "idle", version |-> 0, left |-> {}, invalid |-> FALSE]

Works == [pc : {"idle", "list", "manifest", "pin", "start", "transfer", "verify",
                "publish", "fail"},
          version : 0..MaxVersion, left : SUBSET Everything, invalid : BOOLEAN]

At(c, pc) == work[c].pc = pc
Go(c, w) == work' = [work EXCEPT ![c] = w]
Step(c, pc) == Go(c, [work[c] EXCEPT !.pc = pc])
Failing(c, invalid) == Go(c, [work[c] EXCEPT !.pc = "fail", !.invalid = invalid])

\* checkedCollection: the fence of every write of a collector.
OwnsCollection(c) ==
    /\ lease.owner = c /\ lease.live /\ lease.fresh
    /\ ticket = "accepted"
    /\ s.result = "collecting" /\ s.orch = "collecting"
    /\ ~PendingCleanup

-----------------------------------------------------------------------------

\* ensureInitialCollection: the first ticket of an automatic job.
InitialTicketDue ==
    /\ Automatic
    /\ tickets = 0
    /\ s.orch = "collecting" /\ s.result = "not_available"
    /\ ~PendingCleanup

Collecting == [s EXCEPT !.result = "collecting", !.orch = "collecting"]

\* Mutant: only a released lease can be claimed.
ReleasedLease == lease.owner = Nobody

\* The lease was released, or its holder let it run out.
LeaseFree == ~lease.live

ClaimCollection(c) ==
    /\ At(c, "idle")
    /\ ticket = "accepted" \/ (InitialTicketDue /\ tickets < MaxTickets)
    /\ LeaseFree
    /\ ~PendingCleanup
    /\ s.orch \notin OrchestrationTerminal
    /\ s.result \in {"not_available", "collecting", "incomplete", "invalid"}
    /\ ValidTransition(s, Collecting)
    /\ s' = Collecting
    /\ ticket' = "accepted"
    /\ tickets' = IF ticket = "accepted" THEN tickets ELSE tickets + 1
    /\ lease' = Held(c)
    /\ Go(c, [NoWork EXCEPT !.pc = IF pin = 0 THEN "list" ELSE "start", !.version = pin])
    /\ UNCHANGED <<pin, pub, tomb, cleanups, rule, hold, local, provider, faults>>

Serving == Target("execution") \in remote

\* resolve, Verify and ListArtifacts: the catalog names one version of every file.
List(c) ==
    /\ At(c, "list")
    /\ IF Serving
       THEN Go(c, [work[c] EXCEPT !.pc = "manifest", !.version = out])
       ELSE Failing(c, FALSE)
    /\ UNCHANGED <<ledger, local, provider, faults>>

\* discover: the manifest's bytes must match the catalog's digest.
FetchManifest(c) ==
    /\ At(c, "manifest")
    /\ CASE ~Serving -> Failing(c, FALSE)
         [] Serving /\ out # work[c].version -> Failing(c, TRUE)
         [] Serving /\ out = work[c].version -> Step(c, "pin")
    /\ UNCHANGED <<ledger, local, provider, faults>>

PinCollection(c) ==
    /\ At(c, "pin")
    /\ OwnsCollection(c)
    /\ pin \in {0, work[c].version}
    /\ pin' = work[c].version
    /\ Step(c, "start")
    /\ UNCHANGED <<s, ticket, tickets, pub, tomb, cleanups, rule, lease, hold, local,
                   provider, faults>>

\* The forced progress checkpoint before the first byte.
StartTransfer(c) ==
    /\ At(c, "start")
    /\ OwnsCollection(c)
    /\ Go(c, [work[c] EXCEPT !.pc = "transfer", !.left = Everything])
    /\ UNCHANGED <<ledger, local, provider, faults>>

Present(f, v) == <<f, v>> \in blobs

\* One file: already present, or fetched and put.  The manifest comes from the pin.
Transfer(c, f) ==
    LET v == work[c].version
    IN  /\ At(c, "transfer")
        /\ lease.owner = c
        /\ f \in work[c].left
        /\ CASE Present(f, v) \/ f = Manifest \/ (Serving /\ out = v) ->
                  /\ blobs' = blobs \cup {<<f, v>>}
                  /\ Go(c, [work[c] EXCEPT !.left = @ \ {f}])
             [] OTHER ->
                  /\ Failing(c, Serving)
                  /\ UNCHANGED blobs
        /\ UNCHANGED <<ledger, retired, provider, faults>>

\* Mutant: files left over by the transfer are not looked at again.
SkipVerification(c) ==
    /\ At(c, "transfer")
    /\ OwnsCollection(c)
    /\ Step(c, "publish")
    /\ UNCHANGED <<ledger, local, provider, faults>>

\* The forced checkpoint "verifying".  Each blob is reopened and hashed after its
\* Put; one test of all of them here stands for those.
Verify(c) ==
    /\ At(c, "transfer")
    /\ work[c].left = {}
    /\ IF \A f \in Everything : Present(f, work[c].version)
       THEN OwnsCollection(c) /\ Step(c, "publish")
       ELSE Failing(c, FALSE)
    /\ UNCHANGED <<ledger, local, provider, faults>>

\* A provider failure, the artifact budget or a panic, at any step before publication.
CollectionError(c) ==
    /\ work[c].pc \in {"list", "manifest", "start", "transfer"}
    /\ \E invalid \in BOOLEAN : Failing(c, invalid)
    /\ UNCHANGED <<ledger, local, provider, faults>>

\* CompleteCollection: publication, inventory, deadline, state and ticket at once.
CompleteCollection(c) ==
    LET final == FinalState(s, work[c].version \in Completed)
    IN  /\ At(c, "publish")
        /\ OwnsCollection(c)
        /\ work[c].version = pin
        /\ pub = 0
        /\ ValidTransition(s, final)
        /\ pub' = pin
        /\ tomb' = [f \in Everything |-> "kept"]
        /\ rule' = [rule EXCEPT !["collected"] =
                      IF @ = "none" /\ "collected" \in Declared THEN "waiting" ELSE @]
        /\ s' = final
        /\ ticket' = "succeeded"
        /\ lease' = Free
        /\ Go(c, NoWork)
        /\ UNCHANGED <<tickets, pin, cleanups, hold, local, provider, faults>>

\* Mutant: the failed collection leaves the attempt collecting.
FailTicketOnly(c) ==
    /\ At(c, "fail")
    /\ OwnsCollection(c)
    /\ ticket' = "failed"
    /\ lease' = Free
    /\ Go(c, NoWork)
    /\ UNCHANGED <<s, tickets, pin, pub, tomb, cleanups, rule, hold, local, provider, faults>>

FailCollection(c) ==
    LET failed == [s EXCEPT !.orch = "needs_attention",
                            !.result = IF work[c].invalid THEN "invalid" ELSE "incomplete"]
    IN  /\ At(c, "fail")
        /\ OwnsCollection(c)
        /\ ValidTransition(s, failed)
        /\ s' = failed
        /\ ticket' = "failed"
        /\ lease' = Free
        /\ Go(c, NoWork)
        /\ UNCHANGED <<tickets, pin, pub, tomb, cleanups, rule, hold, local, provider, faults>>

\* ErrLeaseLost from a write or from the heartbeat: the session ends, nothing is recorded.
LoseCollection(c) ==
    /\ work[c].pc # "idle"
    /\ ~OwnsCollection(c)
    /\ Go(c, NoWork)
    /\ UNCHANGED <<ledger, local, provider, faults>>

\* A local store error: the ticket stays accepted, the lease is left to run out.
AbandonCollection(c) ==
    /\ work[c].pc # "idle"
    /\ faults < MaxFaults
    /\ faults' = faults + 1
    /\ Go(c, NoWork)
    /\ UNCHANGED <<ledger, local, provider>>

\* Heartbeats renew the lease while its session owns the work; a stalled one is a fault.
ExpireCollectionLease ==
    LET stalled == lease.owner \in Collectors /\ work[lease.owner].pc # "idle"
                   /\ OwnsCollection(lease.owner)
    IN  /\ lease.live
        /\ stalled => faults < MaxFaults
        /\ faults' = IF stalled THEN faults + 1 ELSE faults
        /\ lease' = [lease EXCEPT !.live = FALSE]
        /\ UNCHANGED <<s, ticket, tickets, pin, pub, tomb, cleanups, rule, hold, local,
                       provider, work>>

CollectionNext ==
    \/ \E c \in Collectors :
         \/ ClaimCollection(c) \/ List(c) \/ FetchManifest(c) \/ PinCollection(c)
         \/ StartTransfer(c) \/ (\E f \in Everything : Transfer(c, f)) \/ Verify(c)
         \/ CollectionError(c) \/ CompleteCollection(c) \/ FailCollection(c)
         \/ LoseCollection(c) \/ AbandonCollection(c)
    \/ ExpireCollectionLease
=============================================================================
