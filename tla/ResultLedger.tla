---------------------------- MODULE ResultLedger ----------------------------
(***************************************************************************)
(* What the store keeps about the results of one attempt whose execution   *)
(* has ended, and the checks that every transaction over it repeats: the   *)
(* transfer ticket and the snapshot it is pinned to, the publication and   *)
(* its local tombstones, the cleanup requests with one outcome per remote  *)
(* resource, the declared deadlines, and the two work leases.              *)
(*                                                                         *)
(* Beside it stand the two places the results live: the provider's objects *)
(* (with the delete requests still on their way to them) and the local     *)
(* blob store.  Collection and Cleanup are the workers; ResultLife adds    *)
(* the requests, retention and the local sweep, and states the properties. *)
(*                                                                         *)
(* WorkLease models a lease itself.  Here it is three facts: who claimed   *)
(* it last, whether it has run out, and whether the attempt still has the  *)
(* revision it was claimed at.                                             *)
(***************************************************************************)
EXTENDS AttemptState, Naturals, Sequences, FiniteSets

CONSTANTS Collectors,
          Cleaners,
          Nobody,
          Files,         \* files of the result besides its manifest
          Manifest,      \* the manifest, whose bytes the pinned snapshot carries
          MaxVersion,    \* contents the remote output takes, one after the other
          Completed,     \* the versions whose manifest says phase completed
          OneObject,     \* both roles address one object (a container), or two
          Automatic,     \* result_collection of the job: automatic or manual
          Declared,      \* retention rules of the job
          Executions0,   \* executions the attempt may have ended with
          MaxTickets,
          MaxCleanups,
          MaxExplicit,   \* of them, those the application may request; the rest are the rules'
          MaxFaults,     \* crashes, store failures and stalled heartbeats
          Leftovers,     \* what dispatch may leave behind of an attempt
          Requests       \* the requests that are made at all

Kinds == {"collected", "uncollected"}

ASSUME ResultAssumption ==
    /\ Nobody \notin Collectors \cup Cleaners
    /\ Manifest \notin Files
    /\ MaxVersion \in Nat \ {0}
    /\ Completed \subseteq 1..MaxVersion
    /\ OneObject \in BOOLEAN
    /\ Automatic \in BOOLEAN
    /\ Declared \subseteq Kinds
    /\ Executions0 \subseteq ExecutionTerminal \cup {"not_submitted"}
    /\ MaxTickets \in Nat /\ MaxCleanups \in Nat /\ MaxFaults \in Nat
    /\ MaxExplicit \in 0..MaxCleanups
    /\ Leftovers \subseteq {"dispatch", "reconcile"}
    /\ Requests \subseteq {"collect", "cancel", "cleanup", "discard", "release",
                           "rewrite", "share"}

VARIABLES
    s,         \* attempts.state
    ticket,    \* the latest collect operation
    tickets,   \* collect operations so far
    pin,       \* collection_snapshots: the version pinned, 0 before
    pub,       \* collection_publications: the version published, 0 before
    tomb,      \* retention_inventory of each published file
    cleanups,  \* cleanup operations with their cleanup_resources, oldest first
    rule,      \* remote_retention_deadlines of each kind
    lease,     \* the collection lease of the attempt
    hold,      \* the cleanup lease of the latest cleanup operation
    blobs,     \* objects of the local blob store
    retired,   \* objects renamed into quarantine
    remote,    \* the provider's objects
    out,       \* the version the execution object serves
    doomed,    \* objects some delete request may still reach
    asked,     \* delete requests sent for each cleanup and role
    others,    \* what others still hold of the attempt
    faults     \* crashes, store failures and stalled heartbeats so far

ledger == <<s, ticket, tickets, pin, pub, tomb, cleanups, rule, lease, hold>>
local == <<blobs, retired>>
provider == <<remote, out, doomed, asked, others>>

Everything == Files \cup {Manifest}
Versions == 1..MaxVersion

Free == [owner |-> Nobody, live |-> FALSE, fresh |-> FALSE]
Held(who) == [owner |-> who, live |-> TRUE, fresh |-> TRUE]
Leases(workers) == [owner : workers \cup {Nobody}, live : BOOLEAN, fresh : BOOLEAN]

\* Another transaction moved the attempt: its revision no longer matches.
Overtaken(l) == [l EXCEPT !.fresh = FALSE]

Executed == s.exec # "not_submitted"

\* An attempt that never ran has only its staging resource.
Roles == IF Executed THEN <<"execution", "staging">> ELSE <<"staging">>
RoleSet == {"execution", "staging"}
Target(role) == IF OneObject THEN "container" ELSE role
Objects == {Target(role) : role \in RoleSet}

ResourceStates == {"pending", "running", "deleted", "absent", "retained", "failed", "unknown"}
Confirmed == {"deleted", "absent"}
OpenOps == {"accepted", "running"}
SettledOps == {"succeeded", "failed"}

CleanupOps == [status : OpenOps \cup SettledOps, discard : BOOLEAN, auto : BOOLEAN,
               res : UNION {[roles -> ResourceStates] : roles \in {RoleSet, {"staging"}}}]

Cleaning == \E i \in DOMAIN cleanups : cleanups[i].status \in OpenOps
Latest == Len(cleanups)

\* Mutant: a failed cleanup no longer fences transfers, whatever it did.
StatusOnlyPending ==
    \E i \in DOMAIN cleanups : cleanups[i].status \in OpenOps \cup {"succeeded"}

\* pendingCleanup: deletion of the remote data was requested or may have happened.
PendingCleanup ==
    \E i \in DOMAIN cleanups :
        \/ cleanups[i].status \in OpenOps \cup {"succeeded"}
        \/ \E role \in DOMAIN cleanups[i].res :
             cleanups[i].res[role] \in Confirmed \cup {"running", "unknown"}

\* dispatch: the lease of the session that recorded the end is live; unreleased: it was
\* not given back, run out or not; reconcile: a reconcile request is still open; object:
\* another attempt's ledger names one of the objects.  A cancellation is never left open.
Holds == {"dispatch", "unreleased", "reconcile", "object"}

Collected == pub # 0 /\ s.result \in {"available", "expired"}

\* Mutant: a lease that ran out keeps the attempt busy until it is given back.
NeverHeld == others = {}

\* Of the leases only a live one counts, of the requests any open one.
Unclaimed == others \subseteq {"unreleased"}

\* Mutant: a discard request is not needed for uncollected results.
UncheckedEligible(discard, self) ==
    /\ ~lease.live /\ Unclaimed
    /\ discard \/ ticket # "accepted"
    /\ \A i \in DOMAIN cleanups : cleanups[i].status \in OpenOps => i = self
    /\ \/ s.orch \in OrchestrationTerminal
       \/ Executed /\ s.remote = "inactive" /\ s.orch \in {"needs_attention", "collecting"}

\* eligibleCleanup: no worker or control owns the attempt, its execution is settled,
\* its results are here or given up, and every recorded resource is its own.
Eligible(discard, self) ==
    /\ ~lease.live /\ Unclaimed
    /\ discard \/ ticket # "accepted"
    /\ \A i \in DOMAIN cleanups : cleanups[i].status \in OpenOps => i = self
    /\ \/ s.orch \in OrchestrationTerminal
       \/ Executed /\ s.remote = "inactive" /\ s.orch \in {"needs_attention", "collecting"}
    /\ Executed => Collected \/ discard

\* Mutant: an outcome that was never learnt is taken for a deletion.
InheritedUnknown(role) ==
    LET earlier == {cleanups[i].res[role] : i \in DOMAIN cleanups}
    IN  IF earlier \cap {"deleted", "absent", "unknown"} # {} THEN "deleted" ELSE "pending"

\* inheritConfirmedCleanupResources: the earliest receipt of a deletion, else of an
\* absence, is carried over; everything else is tried again.
Inherited(role) ==
    LET earlier == {cleanups[i].res[role] : i \in DOMAIN cleanups}
    IN  CASE "deleted" \in earlier -> "deleted"
          [] "deleted" \notin earlier /\ "absent" \in earlier -> "absent"
          [] OTHER -> "pending"

\* discardPendingCollection: an idle ticket does not outlive an authorized discard.
GivenUp == [s EXCEPT !.orch = "needs_attention",
                     !.result = IF @ = "collecting" THEN "incomplete" ELSE @]

\* Mutant: the idle ticket stays, for a collector to claim later.
AdmitKeepingTicket(discard, auto) ==
    /\ Latest < MaxCleanups
    /\ Eligible(discard, 0)
    /\ cleanups' = Append(cleanups,
         [status |-> "accepted", discard |-> discard, auto |-> auto,
          res |-> [role \in {Roles[i] : i \in DOMAIN Roles} |-> Inherited(role)]])
    /\ hold' = Free
    /\ UNCHANGED <<s, ticket, lease>>

\* admitCleanupOperation: the one acceptance path of requests and due rules (auto).
AdmitCleanup(discard, auto) ==
    /\ Latest < MaxCleanups
    /\ Eligible(discard, 0)
    /\ cleanups' = Append(cleanups,
         [status |-> "accepted", discard |-> discard, auto |-> auto,
          res |-> [role \in {Roles[i] : i \in DOMAIN Roles} |-> Inherited(role)]])
    /\ hold' = Free
    /\ IF discard /\ ~Collected /\ ticket = "accepted"
       THEN /\ ValidTransition(s, GivenUp)
            /\ s' = GivenUp
            /\ ticket' = "failed"
            /\ lease' = Overtaken(lease)
       ELSE UNCHANGED <<s, ticket, lease>>

LedgerTypeOK ==
    /\ s \in AttemptStates /\ ValidState(s)
    /\ ticket \in {"none", "accepted"} \cup SettledOps
    /\ tickets \in 0..MaxTickets
    /\ pin \in 0..MaxVersion /\ pub \in 0..MaxVersion
    /\ tomb \in [Everything -> {"none", "kept", "expired", "deleted"}]
    /\ \A i \in DOMAIN cleanups : cleanups[i] \in CleanupOps
    /\ rule \in [Kinds -> {"none", "waiting", "due", "scheduled"}]
    /\ lease \in Leases(Collectors)
    /\ hold \in Leases(Cleaners)
    /\ blobs \subseteq Everything \X Versions
    /\ retired \subseteq Everything \X Versions
    /\ remote \subseteq Objects /\ doomed \subseteq Objects
    /\ out \in Versions
    /\ asked \in [1..MaxCleanups -> [RoleSet -> Nat]]
    /\ others \subseteq Holds
    /\ faults \in 0..MaxFaults

LedgerInit ==
    /\ \E exec \in Executions0 :
         IF exec = "not_submitted"
         THEN \E orch \in {"failed", "cancelled"} :
                s = [InitialAttemptState EXCEPT
                       !.orch = orch, !.release = "not_applicable",
                       !.cancel = IF orch = "cancelled" THEN "prevented" ELSE @]
         ELSE \E cancel \in {"not_requested",
                             IF exec = "cancelled" THEN "confirmed" ELSE "too_late"} :
                s = [InitialAttemptState EXCEPT
                       !.orch = "collecting", !.exec = exec, !.remote = "inactive",
                       !.cancel = cancel, !.deadline = exec = "timed_out"]
    /\ ticket = "none" /\ tickets = 0
    /\ pin = 0 /\ pub = 0
    /\ tomb = [f \in Everything |-> "none"]
    /\ cleanups = <<>>
    /\ rule = [k \in Kinds |-> IF k = "uncollected" /\ k \in Declared THEN "waiting" ELSE "none"]
    /\ lease = Free /\ hold = Free
    /\ blobs = {} /\ retired = {}
    /\ remote = {Target(Roles[i]) : i \in DOMAIN Roles}
    /\ out = 1
    /\ doomed = {}
    /\ asked = [i \in 1..MaxCleanups |-> [role \in RoleSet |-> 0]]
    /\ \E left \in SUBSET Leftovers :
         /\ "reconcile" \in left => s.orch = "cancelled"
         /\ others = left \cup (IF "dispatch" \in left THEN {"unreleased"} ELSE {})
    /\ faults = 0
=============================================================================
