----------------------------- MODULE HostLedger -----------------------------
(***************************************************************************)
(* The store's records of one machine's storage: the generations of one    *)
(* content key, the pins and mount receipts of attempts, the reservations  *)
(* that bound the bytes, the scans of the machine and the operations that  *)
(* delete from it.  An operator below is one transaction, or the condition *)
(* under which a transaction goes through.  One generation and one attempt *)
(* each cost one unit of the byte budget.                                  *)
(***************************************************************************)
EXTENDS DockerHost, FiniteSetsExt

CONSTANTS Soft, Hard,    \* the effective budget
          VolumeLimit    \* cacheVolumeLimit

ASSUME BudgetAssumption == Soft \in Nat /\ Hard \in Nat /\ Soft < Hard /\ VolumeLimit \in Nat

VARIABLES
    gen,   \* host_cache_generations
    pin,   \* host_cache_pins of the key
    rcpt,  \* host_cache_mount_receipts: the generation an attempt mounts
    res,   \* committed reservations, by the generation they pay for
    prov,  \* a provisional reservation of the key
    att,   \* reservations of class attempt
    scan,  \* the latest row of host_storage_scans with its objects
    op     \* host_storage_cleanup_operations, the latest of each object

ledger == <<gen, pin, rcpt, res, prov, att, scan, op>>

\* What an operation deletes: a volume or an attempt's container.
Targets == Gens \cup Attempts

WritePhases == {"none", "intent", "begun", "finished"}
Generation == [st : {"none", "claimed", "verified", "retired"}, ph : WritePhases,
               owner : Attempts \cup {NoGen}]
PinStates == {"none", "live", "released"}
Receipt == 0..MaxGen
AttemptReservation == {"none", "held", "released"}
Scan == [state : {"none", "complete", "incomplete"}, fresh : BOOLEAN,
         vols : SUBSET Gens, boxes : SUBSET Attempts]
Operation == [st : {"none", "accepted", "running", "succeeded", "failed"},
              res : {"none", "pending", "running", "deleted", "absent", "retained", "unknown"},
              since : BOOLEAN]

LedgerTypeOK ==
    /\ gen \in [Gens -> Generation]
    /\ pin \in [Attempts -> PinStates]
    /\ rcpt \in [Attempts -> Receipt]
    /\ res \in [Gens -> {"none", "committed", "released"}]
    /\ prov \in BOOLEAN
    /\ att \in [Attempts -> AttemptReservation]
    /\ scan \in Scan
    /\ op \in [Targets -> Operation]

LedgerInit ==
    /\ gen = [g \in Gens |-> [st |-> "none", ph |-> "none", owner |-> NoGen]]
    /\ pin = [a \in Attempts |-> "none"]
    /\ rcpt = [a \in Attempts |-> NoGen]
    /\ res = [g \in Gens |-> "none"]
    /\ prov = FALSE
    /\ att = [a \in Attempts |-> "none"]
    /\ scan = [state |-> "none", fresh |-> FALSE, vols |-> {}, boxes |-> {}]
    /\ op = [t \in Targets |-> [st |-> "none", res |-> "none", since |-> FALSE]]

-----------------------------------------------------------------------------
(* Generations of the key.                                                 *)

Active == {g \in Gens : gen[g].st \in {"claimed", "verified"}}
Free == {g \in Gens : gen[g].st = "none"}
Pinned == \E a \in Attempts : pin[a] = "live"

\* storageContentFencedInTx: an operation on any generation is open or unsettled.
Fenced == \E g \in Gens : op[g].st \in {"accepted", "running"} \/ op[g].res = "unknown"

\* Claim: an active generation is returned, else one is created for the owner.
Claim(a) ==
    /\ pin[a] = "live" /\ Active = {} /\ Free # {}
    /\ gen' = [gen EXCEPT ![Min(Free)] = [st |-> "claimed", ph |-> "intent", owner |-> a]]

\* FinishWrite: only a call that is known to have ended.
FinishWrite(a, g) ==
    /\ gen[g].owner = a /\ gen[g].st = "claimed" /\ gen[g].ph = "begun"
    /\ gen' = [gen EXCEPT ![g].ph = "finished"]

\* Verify: complete content, and a writer that began.
Verify(g) ==
    /\ gen[g].st \in {"claimed", "verified"} /\ gen[g].ph # "intent"
    /\ gen' = [gen EXCEPT ![g].st = "verified", ![g].ph = "finished"]

\* Retire: an unfinished writer may still complete the volume.
Retirable(g) == gen[g].st = "retired" \/ gen[g].st = "verified" \/ gen[g].ph = "finished"
Retire(g) ==
    /\ Retirable(g)
    /\ gen' = [gen EXCEPT ![g].st = "retired"]

\* RecordMount: one receipt per attempt, of a verified generation it pins.
MountAllowed(a, g) ==
    /\ gen[g].st = "verified" /\ pin[a] = "live"
    /\ rcpt[a] \in {NoGen, g}

-----------------------------------------------------------------------------
(* The charge.                                                             *)

Known == scan.state = "complete"

\* A deletion confirmed since the latest complete scan supersedes that scan.
DeletedSince(t) == Known /\ op[t].res \in {"deleted", "absent"} /\ op[t].since

\* Retirement is no deletion: only a complete scan without it discharges a volume.
ByLedger(g) ==
    /\ gen[g].st # "none" /\ ~DeletedSince(g)
    /\ ~(gen[g].st = "retired" /\ Known /\ g \notin scan.vols)
ByScan(g) == Known /\ g \in scan.vols /\ ~DeletedSince(g)
ByReservation(g) == res[g] = "committed"

Charged == {g \in Gens : ByLedger(g) \/ ByScan(g) \/ ByReservation(g)}
ChargedAttempts ==
    {a \in Attempts : att[a] = "held" \/ (Known /\ a \in scan.boxes /\ ~DeletedSince(a))}

\* A provisional reservation is charged to the key's active generation, if any.
ChargedBytes ==
    Cardinality(Charged) + Cardinality(ChargedAttempts) + IF prov /\ Active = {} THEN 1 ELSE 0

\* freshStorageChargeInTx: only a fresh complete scan answers for the machine.
FreshCharge == Known /\ scan.fresh

\* checkStorageNewWork
RoomForNewWork == FreshCharge /\ ChargedBytes < Hard

-----------------------------------------------------------------------------
(* Pins and reservations of attempts.                                      *)

\* What admission adds to the charge: the attempt, and content nobody has yet.
Proposed == 1 + IF Active = {} /\ ~prov THEN 1 ELSE 0

\* storageAdmissionInTx
StorageAdmission(a) ==
    /\ FreshCharge
    /\ ChargedBytes + Proposed < Hard
    /\ att' = [att EXCEPT ![a] = "held"]
    /\ prov' = (prov \/ Active = {})

\* pinHostCacheAdmission: content whose deletion is open or unsettled is refused.
PinAdmission(a) ==
    /\ ~Fenced
    /\ pin' = [pin EXCEPT ![a] = "live"]

\* pinHostCacheRetry: the pins of the old attempt, released ones too.  It does not
\* ask for a deletion; the trigger host_storage_cache_pin_delete_fence refuses it.
PinRetry(old, a) ==
    /\ pin[old] # "none"
    /\ ~Fenced
    /\ pin' = [pin EXCEPT ![a] = "live"]

\* releaseAttemptStorageResourcesInTx, with the pins of the attempt released:
\* a provisional reservation goes when no pin is left and nobody ever wrote.
ReleaseAttempt(a) ==
    /\ pin' = [pin EXCEPT ![a] = IF @ = "live" THEN "released" ELSE @]
    /\ att' = [att EXCEPT ![a] = IF @ = "held" THEN "released" ELSE @]
    /\ prov' = (prov /\ \/ \E b \in Attempts \ {a} : pin[b] = "live"
                        \/ \E g \in Gens : gen[g].st # "none")

\* The provisional reservation pays for the write, else one more that must fit.
WriteFits(g) == prov \/ (FreshCharge /\ ChargedBytes + (IF g \in Charged THEN 0 ELSE 1) < Hard)

\* commitStorageReservationInTx
CommitReservation(g) ==
    /\ WriteFits(g)
    /\ res' = [res EXCEPT ![g] = "committed"]
    /\ prov' = FALSE

\* BeginWrite: the one permission for a remote write.
BeginWrite(a, g) ==
    /\ gen[g] = [st |-> "claimed", ph |-> "intent", owner |-> a]
    /\ ~Fenced
    /\ CommitReservation(g)
    /\ gen' = [gen EXCEPT ![g].ph = "begun"]

-----------------------------------------------------------------------------
(* Scans.                                                                  *)

\* Mutant: every retired generation a scan does not list is taken for deleted.
DischargedUnlisted(g, listed, after) == gen[g].st = "retired" /\ g \notin listed

\* releaseAbsentStorageReservationsInTx: retired and finished, not listed, and
\* not retired after the scan was stamped.
Discharged(g, listed, after) ==
    gen[g].st = "retired" /\ gen[g].ph = "finished" /\ g \notin listed /\ g \notin after

RecordStorageScan(vols, boxes, after) ==
    /\ scan' = [state |-> "complete", fresh |-> TRUE, vols |-> vols, boxes |-> boxes]
    /\ res' = [g \in Gens |-> IF res[g] = "committed" /\ Discharged(g, vols, after)
                              THEN "released" ELSE res[g]]
    /\ op' = [t \in Targets |-> [op[t] EXCEPT !.since = FALSE]]

\* An incomplete scan hides the last complete one and proves nothing absent.
RecordIncompleteScan ==
    scan' = [state |-> "incomplete", fresh |-> TRUE, vols |-> {}, boxes |-> {}]

-----------------------------------------------------------------------------
(* Deletions.                                                              *)

\* storageEligibleInTx for a volume: nobody pins the key, no writer is left.
Evictable(g) ==
    /\ gen[g].st \in {"verified", "retired"} /\ gen[g].ph = "finished"
    /\ ~Pinned

Blocked(t) ==
    \/ op[t].st \in {"accepted", "running"} \/ op[t].res = "unknown"
    \/ op[t].res \in {"deleted", "absent"} /\ op[t].since

Candidates == {g \in scan.vols : Evictable(g) /\ ~Blocked(g)}

\* Above the soft limit by bytes or above the limit by count.
Excess == Max({0} \cup {n \in 1..(MaxGen + Cardinality(Attempts) + 1) :
                   ChargedBytes >= Soft + n \/ Cardinality(scan.vols) >= VolumeLimit + n})

Accepted == [st |-> "accepted", res |-> "pending", since |-> FALSE]

\* QueueStorageEvictions: as many as are over, the least recently used first
\* (the order is left open).
QueueStorageEvictions ==
    \E E \in SUBSET Candidates :
        /\ Cardinality(E) = Min({Excess, Cardinality(Candidates)})
        /\ FreshCharge \/ E = {}
        /\ op' = [t \in Targets |-> IF t \in E THEN Accepted ELSE op[t]]

\* BeginStorageCleanup: the durable intent to delete, once.
BeginStorageCleanup(t, eligible) ==
    /\ op[t].st = "running" /\ op[t].res = "pending"
    /\ eligible
    /\ op' = [op EXCEPT ![t].res = "running"]

\* CompleteStorageCleanup: a confirmed deletion retires the volume and frees its bytes.
CompleteStorageCleanup(t, outcome) ==
    LET gone == outcome \in {"deleted", "absent"} IN
    /\ op[t].st = "running" /\ op[t].res \in {"pending", "running"}
    /\ op' = [op EXCEPT ![t] = [st |-> IF gone THEN "succeeded" ELSE "failed",
                                res |-> outcome, since |-> gone]]
    /\ gen' = [g \in Gens |-> IF gone /\ g = t /\ gen[g].st = "verified"
                              THEN [gen[g] EXCEPT !.st = "retired"] ELSE gen[g]]
    /\ res' = [g \in Gens |-> IF gone /\ g = t /\ res[g] = "committed"
                              THEN "released" ELSE res[g]]
=============================================================================
