---------------------------- MODULE HostStorage -----------------------------
(***************************************************************************)
(* Shared storage of one SSH host: attempts stage the same content through *)
(* the adapter, the storage guard scans the machine and queues evictions,  *)
(* the cleanup engine deletes, and all of them race over one content key.  *)
(* A call of the adapter is cut into its remote commands and its store     *)
(* transactions; a connection may drop in any command, a crash cuts every  *)
(* call.  Dispatch and ResultLife model the journal and the leases of an   *)
(* attempt in full; here an attempt has the phases that storage sees.      *)
(***************************************************************************)
EXTENDS HostLedger

VARIABLES
    job,     \* per attempt: what the journal records
    call,    \* per attempt: the adapter call that is under way
    sample,  \* the storage scan that is under way
    work,    \* the storage cleanup that is under way
    seen     \* history: writers and deletions that were sent, and the generations
             \* a scan missed that were retired before it was stamped

vars == <<host, ledger, job, call, sample, work, seen>>

\* A submission whose outcome is unknown stays "submitting" after its call.
Phases == {"none", "queued", "withdrawn", "preparing", "abandoned", "prepared", "submitting",
           "submitted", "rejected", "ended", "cleaning", "cleaned"}
\* The journal holds the container's exact ID: the attempt's own cleanup owns it.
Recorded == Phases \ {"none", "queued", "withdrawn", "preparing", "abandoned"}

Idle == [pc |-> "idle", g |-> NoGen, tries |-> 0]
Call == [pc : {"idle", "look", "resolve", "wait", "claimed", "begun", "made", "written", "bound",
               "boxed", "failing", "staged", "checked"},
         g : 0..MaxGen, tries : 0..1]
Sample == [pc : {"idle", "listed", "stamped", "recorded"}, vols : SUBSET Gens,
           boxes : SUBSET Attempts, after : SUBSET Gens]
NoSample == [pc |-> "idle", vols |-> {}, boxes |-> {}, after |-> {}]
NoTarget == 0
Work == [pc : {"idle", "observe", "observed", "begun", "recover", "done"},
         t : Targets \cup {NoTarget}, out : {"none", "deleted", "absent", "retained", "unknown"}]
NoWork == [pc |-> "idle", t |-> NoTarget, out |-> "none"]
History == [writes : [Gens -> 0..2], rms : [Targets -> 0..2], blind : SUBSET Gens]

TypeOK ==
    /\ HostTypeOK /\ LedgerTypeOK
    /\ job \in [Attempts -> Phases]
    /\ call \in [Attempts -> Call]
    /\ sample \in Sample
    /\ work \in Work
    /\ seen \in History

Init ==
    /\ HostInit /\ LedgerInit
    /\ job = [a \in Attempts |-> "none"]
    /\ call = [a \in Attempts |-> Idle]
    /\ sample = NoSample
    /\ work = NoWork
    /\ seen = [writes |-> [g \in Gens |-> 0], rms |-> [t \in Targets |-> 0], blind |-> {}]

At(a, pc) == call[a].pc = pc
Goto(a, pc) == call' = [call EXCEPT ![a].pc = pc]
Return(a) == call' = [call EXCEPT ![a] = Idle]

\* A generation retired while a stamped scan awaits its commit is newer than the scan;
\* one retired between the listing and the stamp passes for older.
NoteRetired(g) ==
    /\ sample' = IF sample.pc = "stamped" THEN [sample EXCEPT !.after = @ \cup {g}] ELSE sample
    /\ seen' = IF sample.pc = "listed" /\ g \notin sample.vols
               THEN [seen EXCEPT !.blind = @ \cup {g}] ELSE seen

-----------------------------------------------------------------------------
(* Attempts come and go.                                                   *)

Admit(a) ==
    /\ job[a] = "none"
    /\ PinAdmission(a)
    /\ StorageAdmission(a)
    /\ job' = [job EXCEPT ![a] = "queued"]
    /\ UNCHANGED <<host, gen, rcpt, res, scan, op, call, sample, work, seen>>

\* A retry inherits the pins of the attempt it repeats.
Retry(old, a) ==
    /\ job[a] = "none" /\ job[old] \in {"withdrawn", "abandoned", "rejected", "ended", "cleaning", "cleaned"}
    /\ PinRetry(old, a)
    /\ StorageAdmission(a)
    /\ job' = [job EXCEPT ![a] = "queued"]
    /\ UNCHANGED <<host, gen, rcpt, res, scan, op, call, sample, work, seen>>

\* Mutant: pins go with the attempt, whether or not it crossed the barrier.
WithdrawAnytime(a) ==
    /\ job[a] \in {"queued", "preparing"}
    /\ ReleaseAttempt(a)
    /\ job' = [job EXCEPT ![a] = "withdrawn"]
    /\ UNCHANGED <<host, gen, rcpt, res, scan, op, call, sample, work, seen>>

\* Cancelled or expired before the preparation barrier: nothing can be mounted.
Withdraw(a) ==
    /\ job[a] = "queued"
    /\ ReleaseAttempt(a)
    /\ job' = [job EXCEPT ![a] = "withdrawn"]
    /\ UNCHANGED <<host, gen, rcpt, res, scan, op, call, sample, work, seen>>

\* The barrier is committed, then the one Prepare call is made.
BeginPreparation(a) ==
    /\ job[a] = "queued"
    /\ RoomForNewWork
    /\ job' = [job EXCEPT ![a] = "preparing"]
    /\ call' = [call EXCEPT ![a].pc = "look"]
    /\ UNCHANGED <<host, ledger, sample, work, seen>>

-----------------------------------------------------------------------------
(* Prepare: the cache.                                                     *)

\* waitForPeerGeneration: on with a finished generation, or with none at all.
Settled == \A g \in Active : gen[g].st = "verified" \/ gen[g].ph = "finished"

\* A call that cannot go on returns an error: no connection, a peer that does not
\* finish in time, no permission to write, or a name that is taken already.
Fail(a) ==
    LET g == call[a].g IN
    /\ call[a].pc \in {"look", "resolve", "wait", "claimed", "begun", "made", "written", "bound"}
    /\ \/ Drop
       \/ /\ \/ ~Reach
             \/ (At(a, "look") \/ At(a, "wait")) /\ ~Settled
             \/ At(a, "claimed") /\ (Fenced \/ ~WriteFits(g))
             \/ At(a, "begun") /\ g \in Listed
             \/ At(a, "bound") /\ a \in Boxes
          /\ UNCHANGED net
    /\ Return(a)
    /\ UNCHANGED <<vol, box, late, ledger, job, sample, work, seen>>

\* resolveGeneration tries twice.
NextTry(c) == IF c.tries = 1 THEN Idle ELSE [c EXCEPT !.pc = "resolve", !.tries = @ + 1]

\* The active generation is observed: complete is bound, else it is retired.
UseActive(a) ==
    /\ At(a, "look") \/ At(a, "resolve")
    /\ Reach /\ Settled
    /\ \E g \in Active :
         LET o == ObserveVolume(g) IN
         \/ /\ o = "complete" /\ Verify(g)
            /\ call' = [call EXCEPT ![a].pc = "bound", ![a].g = g]
            /\ UNCHANGED <<sample, seen>>
         \/ /\ o # "complete" /\ Retire(g) /\ NoteRetired(g)
            /\ call' = [call EXCEPT ![a] = IF @.pc = "look" THEN [@ EXCEPT !.pc = "resolve"]
                                           ELSE NextTry(@)]
    /\ UNCHANGED <<host, pin, rcpt, res, prov, att, scan, op, job, work>>

\* Nothing is active: resolveGeneration is to claim a generation.
LookEmpty(a) ==
    /\ At(a, "look") /\ Active = {}
    /\ Goto(a, "resolve")
    /\ UNCHANGED <<host, ledger, job, sample, work, seen>>

ClaimGeneration(a) ==
    /\ At(a, "resolve")
    /\ Claim(a)
    /\ call' = [call EXCEPT ![a].pc = "claimed", ![a].g = Min(Free)]
    /\ UNCHANGED <<host, pin, rcpt, res, prov, att, scan, op, job, sample, work, seen>>

\* The claim was somebody else's by the time of the read.
WaitForPeer(a) ==
    /\ At(a, "resolve") /\ ~Settled
    /\ Goto(a, "wait")
    /\ UNCHANGED <<host, ledger, job, sample, work, seen>>

\* The peer finished: the generation is resolved a second and last time.
PeerSettled(a) ==
    /\ At(a, "wait") /\ Settled
    /\ call' = [call EXCEPT ![a] = NextTry(@)]
    /\ UNCHANGED <<host, ledger, job, sample, work, seen>>

BeginGeneration(a) ==
    /\ At(a, "claimed")
    /\ BeginWrite(a, call[a].g)
    /\ Goto(a, "begun")
    /\ UNCHANGED <<host, pin, rcpt, att, scan, op, job, sample, work, seen>>

\* The volume must be absent, is created and read back; a lost answer stops the call.
CreateVolume(a) ==
    LET g == call[a].g IN
    /\ At(a, "begun") /\ Reach /\ g \notin Listed
    /\ \/ vol' = VolumeCreated(vol, g) /\ Goto(a, "made") /\ UNCHANGED <<late, net>>
       \/ Drop /\ late' = late \cup {<<"volume create", g>>} /\ Return(a) /\ UNCHANGED vol
    /\ UNCHANGED <<box, ledger, job, sample, work, seen>>

\* Mutant: a writer whose connection broke is started again.
RewriteVolume(a) ==
    LET g == call[a].g IN
    /\ At(a, "made") /\ Reach
    /\ seen' = [seen EXCEPT !.writes[g] = IF @ < 2 THEN @ + 1 ELSE @]
    /\ \/ /\ \E content \in {"partial", "whole"} : vol' = VolumeWritten(vol, g, content)
          /\ Goto(a, "written") /\ UNCHANGED <<late, net>>
       \/ Drop /\ late' = late \cup {<<"write", g>>} /\ UNCHANGED <<vol, call>>
    /\ UNCHANGED <<box, ledger, job, sample, work>>

\* The one writer: it ends with the content or without, or its connection breaks.
WriteVolume(a) ==
    LET g == call[a].g IN
    /\ At(a, "made") /\ Reach
    /\ seen' = [seen EXCEPT !.writes[g] = IF @ < 2 THEN @ + 1 ELSE @]
    /\ \/ /\ \E content \in {"partial", "whole"} : vol' = VolumeWritten(vol, g, content)
          /\ Goto(a, "written") /\ UNCHANGED <<late, net>>
       \/ Drop /\ late' = late \cup {<<"write", g>>} /\ Return(a) /\ UNCHANGED vol
    /\ UNCHANGED <<box, ledger, job, sample, work>>

\* The writer ended: finished, then observed, verified or retired.
FinishGeneration(a) ==
    LET g == call[a].g IN
    /\ At(a, "written")
    /\ \/ /\ FinishWrite(a, g) /\ UNCHANGED <<call, sample, seen>>
       \/ /\ gen[g].ph = "finished" /\ Reach /\ ObserveVolume(g) = "complete"
          /\ Verify(g) /\ Goto(a, "bound") /\ UNCHANGED <<sample, seen>>
       \/ /\ gen[g].ph = "finished" /\ Reach /\ ObserveVolume(g) # "complete"
          /\ Retire(g) /\ NoteRetired(g) /\ Return(a)
    /\ UNCHANGED <<host, pin, rcpt, res, prov, att, scan, op, job, work>>

-----------------------------------------------------------------------------
(* Prepare: the container.                                                 *)

\* The name must be free; a volume that is gone is replaced by a bare one.
CreateBox(a) ==
    LET g == call[a].g IN
    /\ At(a, "bound") /\ Reach /\ a \notin Boxes
    /\ \/ /\ box' = BoxCreated(box, a, g) /\ vol' = Mounted(vol, g)
          /\ Goto(a, "boxed") /\ UNCHANGED <<late, net>>
       \/ /\ Drop /\ late' = late \cup {<<"container create", <<a, g>>>>}
          /\ Return(a) /\ UNCHANGED <<vol, box>>
    /\ UNCHANGED <<ledger, job, sample, work, seen>>

\* Mutant: the labels of the mount are enough.
MountNamed(a) == a \in Boxes /\ ~Started(a) /\ MountAllowed(a, box[a].mount)

\* verifyCacheMounts: the mounted generation is still the active one, its volume
\* is read again, and the receipt is allowed.
MountVerified(a) ==
    LET g == box[a].mount IN
    /\ a \in Boxes /\ ~Started(a)
    /\ Active = {g} /\ ObserveVolume(g) = "complete"
    /\ MountAllowed(a, g)

\* stageWithRetry: the files are copied and read back, the mounts verified, the
\* marker written last.  A transfer that breaks, the marker's answer included, is
\* repeated into the same container while a try is left.
Stage(a) ==
    /\ At(a, "boxed")
    /\ \/ /\ Reach /\ MountVerified(a)
          /\ rcpt' = [rcpt EXCEPT ![a] = box[a].mount]
          /\ \/ box' = BoxReady(box, a) /\ Goto(a, "staged") /\ UNCHANGED net
             \/ /\ Drop /\ box' \in {box, BoxReady(box, a)}
                /\ Goto(a, "failing") \/ UNCHANGED call
       \/ Drop /\ (Goto(a, "failing") \/ UNCHANGED call) /\ UNCHANGED <<box, rcpt>>
       \/ ~(Reach /\ MountVerified(a)) /\ Goto(a, "failing") /\ UNCHANGED <<box, rcpt, net>>
    /\ UNCHANGED <<vol, late, gen, pin, res, prov, att, scan, op, job, sample, work, seen>>

\* A failed staging removes its container, at most once and whatever comes of it.
RemoveFailed(a) ==
    /\ At(a, "failing")
    /\ \/ Reach /\ box' = BoxRemoved(box, a) /\ UNCHANGED <<late, net>>
       \/ Drop /\ late' = late \cup {<<"container rm", a>>} /\ UNCHANGED box
       \/ ~Reach /\ UNCHANGED <<box, late, net>>
    /\ Return(a)
    /\ UNCHANGED <<vol, ledger, job, sample, work, seen>>

\* The journal takes the exact ID of the container.
RecordPrepared(a) ==
    /\ At(a, "staged")
    /\ job' = [job EXCEPT ![a] = "prepared"]
    /\ Return(a)
    /\ UNCHANGED <<host, ledger, sample, work, seen>>

\* ReconcilePrepare: only a container with its marker and verified mounts is found.
ReconcilePrepare(a) ==
    /\ job[a] = "preparing" /\ At(a, "idle") /\ Reach
    /\ box[a].ready /\ MountVerified(a)
    /\ rcpt' = [rcpt EXCEPT ![a] = box[a].mount]
    /\ job' = [job EXCEPT ![a] = "prepared"]
    /\ UNCHANGED <<host, gen, pin, res, prov, att, scan, op, call, sample, work, seen>>

\* Not found: the attempt ends.  It crossed the barrier, so its pins stay.
Abandon(a) ==
    /\ job[a] = "preparing" /\ At(a, "idle") /\ Reach
    /\ ~(a \in Boxes /\ box[a].ready)
    /\ job' = [job EXCEPT ![a] = "abandoned"]
    /\ UNCHANGED <<host, ledger, call, sample, work, seen>>

-----------------------------------------------------------------------------
(* Submission, observation and the attempt's own cleanup.                  *)

\* The barrier is committed and the one Submit call begins.  checkCachedStart: what
\* was verified at preparation is verified again; a failure before the start rejects.
BeginSubmission(a) ==
    /\ job[a] = "prepared" /\ At(a, "idle")
    /\ \/ /\ Reach /\ box[a].ready /\ MountVerified(a)
          /\ Goto(a, "checked") /\ job' = [job EXCEPT ![a] = "submitting"]
          /\ UNCHANGED net
       \/ /\ Drop \/ (~(Reach /\ box[a].ready /\ MountVerified(a)) /\ UNCHANGED net)
          /\ job' = [job EXCEPT ![a] = IF Reach /\ Started(a) THEN "submitting" ELSE "rejected"]
          /\ UNCHANGED call
    /\ UNCHANGED <<vol, box, late, ledger, sample, work, seen>>

\* Mutant: a start whose answer was lost counts as one that was refused.
SendStartRefused(a) ==
    /\ At(a, "checked")
    /\ \/ /\ a \in Boxes /\ box' = BoxStarted(box, a) /\ UNCHANGED <<late, net>>
          /\ job' = [job EXCEPT ![a] = "submitted"]
       \/ /\ Drop /\ late' = late \cup {<<"container start", a>>} /\ UNCHANGED box
          /\ job' = [job EXCEPT ![a] = "rejected"]
    /\ Return(a)
    /\ UNCHANGED <<vol, ledger, sample, work, seen>>

\* From the first byte of the start on, a failure is an unknown outcome.
SendStart(a) ==
    /\ At(a, "checked")
    /\ \/ /\ a \in Boxes /\ box' = BoxStarted(box, a) /\ UNCHANGED <<late, net>>
          /\ job' = [job EXCEPT ![a] = "submitted"]
       \/ Drop /\ late' = late \cup {<<"container start", a>>} /\ UNCHANGED <<box, job>>
       \/ a \notin Boxes /\ UNCHANGED <<box, late, net, job>>
    /\ Return(a)
    /\ UNCHANGED <<vol, ledger, sample, work, seen>>

\* Reconcile: Docker says it was started.
Reconcile(a) ==
    /\ job[a] = "submitting" /\ At(a, "idle") /\ Reach
    /\ Started(a)
    /\ job' = [job EXCEPT ![a] = "submitted"]
    /\ UNCHANGED <<host, ledger, call, sample, work, seen>>

\* Observe: an exit, or absence proved by the exact ID on the verified engine.
Observe(a) ==
    /\ job[a] = "submitted" /\ Reach
    /\ a \notin Boxes \/ box[a].st = "exited"
    /\ job' = [job EXCEPT ![a] = "ended"]
    /\ UNCHANGED <<host, ledger, call, sample, work, seen>>

\* Cancel: the container is stopped; its end is for Observe to see.
Cancel(a) ==
    /\ job[a] = "submitted" /\ Reach /\ box[a].st = "running"
    /\ box' = BoxStopped(box, a)
    /\ UNCHANGED <<vol, late, net, ledger, job, call, sample, work, seen>>

\* The attempt's own cleanup: one removal by exact ID, none of a running container.
SendCleanup(a) ==
    /\ job[a] \in {"rejected", "ended"} /\ Reach
    /\ ~(a \in Boxes /\ box[a].st = "running")
    /\ job' = [job EXCEPT ![a] = "cleaning"]
    /\ \/ box' = BoxRemoved(box, a) /\ UNCHANGED <<late, net>>
       \/ Drop /\ late' = late \cup {<<"container rm", a>>} /\ UNCHANGED box
    /\ UNCHANGED <<vol, ledger, call, sample, work, seen>>

\* Recovery only looks: absence confirms the deletion and releases pins and bytes.
ConfirmCleanup(a) ==
    /\ job[a] = "cleaning" /\ Reach /\ a \notin Boxes
    /\ ReleaseAttempt(a)
    /\ job' = [job EXCEPT ![a] = "cleaned"]
    /\ UNCHANGED <<host, gen, rcpt, res, scan, op, call, sample, work, seen>>

-----------------------------------------------------------------------------
(* The storage guard.                                                      *)

ScanList ==
    /\ sample.pc = "idle" /\ Reach
    /\ sample' = [pc |-> "listed", vols |-> Listed, boxes |-> Boxes, after |-> {}]
    /\ UNCHANGED <<host, ledger, job, call, work, seen>>

\* ObservedAt is read when every listing has ended.
ScanStamp ==
    /\ sample.pc = "listed"
    /\ sample' = [sample EXCEPT !.pc = "stamped"]
    /\ UNCHANGED <<host, ledger, job, call, work, seen>>

RecordScan ==
    /\ sample.pc = "stamped"
    /\ RecordStorageScan(sample.vols, sample.boxes, sample.after)
    /\ sample' = [NoSample EXCEPT !.pc = "recorded"]
    /\ UNCHANGED <<host, gen, pin, rcpt, prov, att, job, call, work, seen>>

QueueEvictions ==
    /\ sample.pc = "recorded"
    /\ QueueStorageEvictions
    /\ sample' = NoSample
    /\ seen' = [seen EXCEPT !.rms = [t \in Targets |-> IF op'[t] # op[t] THEN 0 ELSE @[t]]]
    /\ UNCHANGED <<host, gen, pin, rcpt, res, prov, att, scan, job, call, work>>

ScanFails ==
    /\ sample.pc \in {"idle", "listed"}
    /\ Drop \/ (~Reach /\ UNCHANGED net)
    /\ RecordIncompleteScan
    /\ sample' = NoSample
    /\ UNCHANGED <<vol, box, late, gen, pin, rcpt, res, prov, att, op, job, call, work, seen>>

\* The scan is older than ScanFreshness.
Age ==
    /\ Fault("age") /\ scan.fresh
    /\ scan' = [scan EXCEPT !.fresh = FALSE]
    /\ UNCHANGED <<vol, box, late, gen, pin, rcpt, res, prov, att, op, job, call, sample, work, seen>>

-----------------------------------------------------------------------------
(* The deletion of volumes and of containers no journal knows.             *)

\* observeStorageTarget
Present(t) == t \in Listed \cup Boxes
Removable(t) == IF t \in Gens THEN ~Referenced(t) ELSE box[t].st # "running"

\* storageEligibleInTx
LedgerEligible(t) == IF t \in Gens THEN Evictable(t) ELSE job[t] \notin Recorded

\* AdmitStorageCleanup: an operator deletes a container of the latest scan.
AdmitStorageCleanup(a) ==
    /\ FreshCharge /\ a \in scan.boxes
    /\ job[a] \notin Recorded
    /\ Reach /\ Present(a) /\ Removable(a)
    /\ op[a].st \notin {"accepted", "running"}
    /\ op' = [op EXCEPT ![a] = Accepted]
    /\ seen' = [seen EXCEPT !.rms[a] = 0]
    /\ UNCHANGED <<host, gen, pin, rcpt, res, prov, att, scan, job, call, sample, work>>

\* An operation whose deletion may have been sent is only recovered.
ClaimStorageCleanup(t) ==
    /\ work.pc = "idle" /\ op[t].st \in {"accepted", "running"}
    /\ op' = [op EXCEPT ![t].st = "running"]
    /\ work' = [pc |-> IF op[t].res = "running" THEN "recover" ELSE "observe", t |-> t, out |-> "none"]
    /\ UNCHANGED <<host, gen, pin, rcpt, res, prov, att, scan, job, call, sample, seen>>

Outcome(o) == work' = [work EXCEPT !.pc = "done", !.out = o]

ObserveTarget ==
    LET t == work.t IN
    /\ work.pc = "observe"
    /\ \/ Drop /\ Outcome("retained")
       \/ /\ \/ ~Reach /\ Outcome("retained")
             \/ Reach /\ ~Present(t) /\ Outcome("absent")
             \/ Reach /\ Present(t) /\ ~Removable(t) /\ Outcome("retained")
             \/ Reach /\ Present(t) /\ Removable(t) /\ work' = [work EXCEPT !.pc = "observed"]
          /\ UNCHANGED net
    /\ UNCHANGED <<vol, box, late, ledger, job, call, sample, seen>>

BeginDelete ==
    LET t == work.t IN
    /\ work.pc = "observed"
    /\ \/ /\ BeginStorageCleanup(t, LedgerEligible(t))
          /\ work' = [work EXCEPT !.pc = "begun"]
       \/ /\ ~LedgerEligible(t) /\ Outcome("retained") /\ UNCHANGED op
    /\ UNCHANGED <<host, gen, pin, rcpt, res, prov, att, scan, job, call, sample, seen>>

\* The one unforced removal.  A broken connection leaves its outcome unknown, or
\* costs the lease as well, and then the operation is found open again.
SendDelete ==
    LET t == work.t
        rm == <<IF t \in Gens THEN "volume rm" ELSE "container rm", t>> IN
    /\ seen' = [seen EXCEPT !.rms[t] = IF @ < 2 THEN @ + 1 ELSE @]
    /\ \/ /\ vol' = IF t \in Gens THEN VolumeRemoved(vol, t) ELSE vol
          /\ box' = IF t \in Gens THEN box ELSE BoxRemoved(box, t)
          /\ Outcome("deleted") /\ UNCHANGED <<late, net>>
       \/ /\ Drop /\ late' = late \cup {rm}
          /\ Outcome("unknown") \/ work' = NoWork
          /\ UNCHANGED <<vol, box>>

\* One more look precedes the removal.
Delete ==
    LET t == work.t IN
    /\ work.pc = "begun"
    /\ \/ /\ Reach /\ Present(t) /\ Removable(t) /\ SendDelete
       \/ /\ \/ ~Reach /\ Outcome("unknown")
             \/ Reach /\ ~Present(t) /\ Outcome("absent")
             \/ Reach /\ Present(t) /\ ~Removable(t) /\ Outcome("retained")
          /\ UNCHANGED <<host, seen>>
       \/ Drop /\ Outcome("unknown") /\ UNCHANGED <<vol, box, late, seen>>
    /\ UNCHANGED <<ledger, job, call, sample>>

\* Mutant: a recovered operation sends its removal again.
RecoverAndRepeat ==
    /\ work.pc = "recover" /\ Reach
    /\ IF Present(work.t) /\ Removable(work.t)
       THEN SendDelete
       ELSE /\ Outcome(IF Present(work.t) THEN "retained" ELSE "absent")
            /\ UNCHANGED <<host, seen>>
    /\ UNCHANGED <<ledger, job, call, sample>>

\* recoverOnly: a target that is still there, or a look that fails, stays unknown;
\* where the engine cannot be verified first, the operation is left for later.
Recover ==
    LET t == work.t IN
    /\ work.pc = "recover"
    /\ \/ Reach /\ Drop /\ Outcome("unknown")
       \/ /\ IF Reach
             THEN Outcome(IF ~Present(t) THEN "absent" ELSE IF Removable(t) THEN "unknown" ELSE "retained")
             ELSE work' = NoWork
          /\ UNCHANGED net
    /\ UNCHANGED <<vol, box, late, ledger, job, call, sample, seen>>

CompleteDelete ==
    LET t == work.t IN
    /\ work.pc = "done"
    /\ CompleteStorageCleanup(t, work.out)
    /\ IF t \in Gens /\ gen' # gen THEN NoteRetired(t) ELSE UNCHANGED <<sample, seen>>
    /\ work' = NoWork
    /\ UNCHANGED <<host, pin, rcpt, prov, att, scan, job, call>>

-----------------------------------------------------------------------------
\* The process dies: calls, the scan and the worker are gone, commands may not be.
Crash ==
    /\ Fault("crash")
    /\ call' = [a \in Attempts |-> Idle]
    /\ sample' = NoSample
    /\ work' = NoWork
    /\ UNCHANGED <<vol, box, late, ledger, job, seen>>

Machine == HostStep /\ UNCHANGED <<ledger, job, call, sample, work, seen>>

Attempt(a) ==
    \/ Admit(a) \/ (\E old \in Attempts \ {a} : Retry(old, a)) \/ Withdraw(a)
    \/ BeginPreparation(a) \/ Fail(a) \/ UseActive(a) \/ LookEmpty(a) \/ ClaimGeneration(a) \/ WaitForPeer(a)
    \/ PeerSettled(a) \/ BeginGeneration(a) \/ CreateVolume(a) \/ WriteVolume(a) \/ FinishGeneration(a)
    \/ CreateBox(a) \/ Stage(a) \/ RemoveFailed(a) \/ RecordPrepared(a)
    \/ ReconcilePrepare(a) \/ Abandon(a)
    \/ BeginSubmission(a) \/ SendStart(a) \/ Reconcile(a)
    \/ Observe(a) \/ Cancel(a) \/ SendCleanup(a) \/ ConfirmCleanup(a)

Guard == ScanList \/ ScanStamp \/ RecordScan \/ QueueEvictions \/ ScanFails \/ Age

Janitor ==
    \/ \E a \in Attempts : AdmitStorageCleanup(a)
    \/ \E t \in Targets : ClaimStorageCleanup(t)
    \/ ObserveTarget \/ BeginDelete \/ Delete \/ Recover \/ CompleteDelete

Next ==
    \/ \E a \in Attempts : Attempt(a)
    \/ Guard \/ Janitor \/ Machine \/ Crash

Spec == Init /\ [][Next]_vars

-----------------------------------------------------------------------------
(* Properties.                                                             *)

\* A container that carries its marker, or runs, mounts the whole content: no
\* eviction, no lost writer and no replacement of a generation takes it away.
MountedStaysWhole ==
    \A a \in Attempts : box[a].ready => vol[box[a].mount] = "whole"

\* A container exists only while its attempt pins the content, also one that a
\* lost command creates long after its call returned.
PinHeldWhileMounted ==
    \A a \in Attempts : box[a].st # "none" => pin[a] = "live"

\* A generation has one writer, whatever crashed or was retried.
WrittenOnce == \A g \in Gens : seen.writes[g] <= 1

\* One operation sends one removal, also across lost answers and restarts.
DeletedOnce == \A t \in Targets : seen.rms[t] <= 1

\* Nothing on the machine is written or removed twice for one decision of the store.
MutationsOnce == WrittenOnce /\ DeletedOnce

\* What an operation reports as gone is gone and does not come back.
ConfirmedGone ==
    /\ \A g \in Gens : op[g].st = "succeeded" => vol[g] \in {"absent", "bare"}
    /\ \A a \in Attempts : op[a].st = "succeeded" => box[a].st = "none"

\* Every labelled volume on the machine is charged, scanned or not, except one a
\* scan missed that was retired before that scan was stamped.
ChargeCoversMachine ==
    \A g \in Gens : vol[g] \in {"empty", "partial", "whole"} => g \in Charged \cup seen.blind

\* An attempt that is recorded as over has nothing running and nothing to start.
OverMeansOver ==
    \A a \in Attempts : job[a] \in {"rejected", "ended", "abandoned", "cleaned"} =>
        box[a].st # "running" /\ <<"container start", a>> \notin late

\* What the ledger calls finished stays finished on the machine, late commands included.
EndsAreFinal == ConfirmedGone /\ OverMeansOver
=============================================================================
