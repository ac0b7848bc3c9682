----------------------------- MODULE Scheduler ------------------------------
(***************************************************************************)
(* scheduler.Select and the transactions around it: which queued attempt   *)
(* may start next, under worker slots, frozen and current account limits,  *)
(* the machine shared by several accounts, and the accelerator quota.      *)
(*                                                                         *)
(* An attempt is kept as the class its state falls into: "local" (LocalOnly*)
(* without a barrier), "held" (HoldsAccount: prepared, running or          *)
(* uncertain), "ended" (neither).  Rows are numbered by queue_seq and      *)
(* workspaces by the order of their identifiers.  One row stands for one   *)
(* attempt; a retry is a new row.                                          *)
(***************************************************************************)
EXTENDS Integers, FiniteSets, FiniteSetsExt

CONSTANTS
    Workspaces, Accounts, Machines,
    MaxRows,          \* rows admitted at most
    WorkspaceOf,      \* of each row
    AccountOf,        \* of each row: frozen at admission
    Frozen,           \* of each row: MaxActiveAttempts of its profile revision
    Wall,             \* of each row: requested wall time, in units of quota
    Gpu,              \* rows that need the accelerator quota
    MachineOf,        \* of each account: the machine its resource scope names
    NoMachine,        \* of an account whose provider names none
    Configurations,   \* settings the operator may choose between
    Policies,         \* account policies the operator may choose between
    MaxQuota          \* bound on the quota a provider reports

Rows == 1..MaxRows

ASSUME SchedulerAssumption ==
    /\ MaxRows \in Nat \ {0}
    /\ Workspaces \subseteq Nat \ {0} /\ IsFiniteSet(Workspaces)
    /\ WorkspaceOf \in [Rows -> Workspaces]
    /\ AccountOf \in [Rows -> Accounts]
    /\ Frozen \in [Rows -> Nat \ {0}]
    /\ Wall \in [Rows -> Nat \ {0}]
    /\ Gpu \subseteq Rows
    /\ NoMachine \notin Machines
    /\ MachineOf \in [Accounts -> Machines \cup {NoMachine}]
    /\ Configurations \subseteq [paused : BOOLEAN, workers : Nat \ {0}, active : Nat \ {0}]
    /\ Policies \subseteq [disabled : BOOLEAN, active : Nat \ {0}]
    /\ MaxQuota \in Nat

VARIABLES
    row,        \* scheduler_queue, attempt class, grant and dispatch lease of each row
    last,       \* scheduler_control.last_workspace, 0 before the first claim
    settings,   \* scheduler_control.settings
    policy,     \* scheduler_accounts
    quota,      \* scheduler_quotas of each account
    covered,    \* accounts whose latest observation covered what was outstanding
    bypass      \* claims that passed over a workspace whose head was eligible

vars == <<row, last, settings, policy, quota, covered, bypass>>

Phases == {"absent", "local", "held", "ended"}

\* fresh: known and younger than QuotaFreshFor; exhausted: the durable latch.
Quotas == [remaining : 0..MaxQuota, fresh : BOOLEAN, exhausted : BOOLEAN]

Init ==
    /\ row = [q \in Rows |-> [phase |-> "absent", granted |-> FALSE, live |-> FALSE,
                              deferred |-> FALSE]]
    /\ last = 0
    /\ settings \in Configurations
    /\ policy \in [Accounts -> Policies]
    /\ quota = [a \in Accounts |-> [remaining |-> 0, fresh |-> FALSE, exhausted |-> FALSE]]
    /\ covered = Accounts
    /\ bypass = [w \in Workspaces |-> 0]

\* Accelerator time that was consented to and has not ended.
Outstanding(a) ==
    MapThenSumSet(LAMBDA q : Wall[q],
        {q \in Gpu : AccountOf[q] = a /\ row[q].granted /\ row[q].phase # "ended"})

-----------------------------------------------------------------------------
(* Select                                                                  *)

\* HoldsCapacity: claimed preparation and possibly active remote work.
HoldsCapacity(q) == row[q].phase = "held" \/ (row[q].phase = "local" /\ row[q].live)

AccountHolders(a) == {q \in Rows : HoldsCapacity(q) /\ AccountOf[q] = a}
MachineHolders(m) == {q \in Rows : HoldsCapacity(q) /\ MachineOf[AccountOf[q]] = m}

LiveWorkers == Cardinality({q \in Rows : row[q].live})

\* The row's own limit: current policy and frozen profile, whichever is lower.
RowLimit(q) == Min({policy[AccountOf[q]].active, Frozen[q]})

\* managedResourceLimit: the lowest limit of the connections to the machine.
MachineLimit(m) == Min({policy[a].active : a \in {b \in Accounts : MachineOf[b] = m}})

MachineRowLimit(q) == Min({MachineLimit(MachineOf[AccountOf[q]]), RowLimit(q)})

\* EffectiveLimits: what holders were promised when they started still binds.
AccountLimit(q, holders) == Min({settings.active, RowLimit(q)} \cup {RowLimit(p) : p \in holders})

\* Mutant: the limits of the holders are forgotten.
CurrentResourceLimits(q, holders) == Min({settings.active, MachineRowLimit(q)})

ResourceLimit(q, holders) ==
    Min({settings.active, MachineRowLimit(q)} \cup {MachineRowLimit(p) : p \in holders})

\* Mutant: consent alone reserves nothing.
ReservedByHolders(q) == HoldsCapacity(q)

\* managedReserved: consent waiting for dispatch, and work that may be active.
ManagedReserved(q) ==
    (row[q].phase = "local" /\ row[q].granted) \/ row[q].phase = "held"

Reserved(a, without) ==
    MapThenSumSet(LAMBDA q : Wall[q],
        {q \in Gpu \ without : AccountOf[q] = a /\ ManagedReserved(q)})

\* reserveManagedQuota and Quota.Decide: accelerator work needs fresh quota beyond
\* every other reservation of the account; other work passes with a warning.
QuotaDecides(q) ==
    LET o == quota[AccountOf[q]]
        left == o.remaining - Reserved(AccountOf[q], {q})
    IN  q \in Gpu => ~o.exhausted /\ o.fresh /\ left > 0 /\ left >= Wall[q]

Waiting(q) == row[q].phase = "local" /\ ~row[q].live

\* Mutant: a head that waits for a delay lets the next one pass.
ReadyHead(q) ==
    /\ Waiting(q)
    /\ \A p \in Rows :
         Waiting(p) /\ ~row[p].deferred /\ WorkspaceOf[p] = WorkspaceOf[q] => q <= p

\* The earliest waiting row of its workspace.
Head(q) ==
    /\ Waiting(q)
    /\ \A p \in Rows : Waiting(p) /\ WorkspaceOf[p] = WorkspaceOf[q] => q <= p

\* The reasons for which a head waits, each as the condition under which it does not.
Eligible(q) ==
    LET a == AccountOf[q]
        m == MachineOf[a]
    IN  /\ Head(q)
        /\ row[q].granted
        /\ ~settings.paused
        /\ ~policy[a].disabled
        /\ ~row[q].deferred
        /\ LiveWorkers < settings.workers
        /\ Cardinality(AccountHolders(a)) < AccountLimit(q, AccountHolders(a))
        /\ m # NoMachine =>
             Cardinality(MachineHolders(m)) < ResourceLimit(q, MachineHolders(m))
        /\ QuotaDecides(q)

EligibleSpaces == {WorkspaceOf[q] : q \in {p \in Rows : Eligible(p)}}

\* Mutant: the cursor is ignored.
FirstSpace(spaces) == Min(spaces)

\* Round robin: the first eligible workspace after the cursor, else the first one.
NextSpace(spaces) ==
    LET after == {w \in spaces : w > last}
    IN  IF after # {} THEN Min(after) ELSE Min(spaces)

\* The value ClaimNext saves as last_workspace.
Cursor(q) == WorkspaceOf[q]

Selected(q) == Eligible(q) /\ WorkspaceOf[q] = NextSpace(EligibleSpaces)

-----------------------------------------------------------------------------
(* Transactions                                                            *)

\* A job, or the retry of one, enters at the end of the queue.
Admit(q) ==
    /\ row[q].phase = "absent"
    /\ \A p \in Rows : p < q => row[p].phase # "absent"
    /\ row' = [row EXCEPT ![q].phase = "local"]
    /\ UNCHANGED <<last, settings, policy, quota, covered, bypass>>

\* AuthorizeExecution with authorizationQuota.
AuthorizeExecution(q) ==
    LET a == AccountOf[q]
    IN  /\ row[q].phase = "local"
        /\ ~row[q].granted
        /\ q \in Gpu => /\ quota[a].fresh
                        /\ ~quota[a].exhausted
                        /\ quota[a].remaining - Reserved(a, {}) >= Wall[q]
        /\ row' = [row EXCEPT ![q].granted = TRUE]
        /\ UNCHANGED <<last, settings, policy, quota, covered, bypass>>

\* ClaimNext: the lease and the cursor are written with the claim, or not at all.
ClaimNext(q) ==
    /\ Selected(q)
    /\ row' = [row EXCEPT ![q].live = TRUE]
    /\ last' = Cursor(q)
    /\ bypass' = [w \in Workspaces |->
                    IF w \in EligibleSpaces \ {WorkspaceOf[q]} THEN bypass[w] + 1 ELSE 0]
    /\ UNCHANGED <<settings, policy, quota, covered>>

\* ClaimRecovery: held work is observed again, under the worker limit only.
ClaimRecovery(q) ==
    /\ row[q].phase = "held"
    /\ ~row[q].live
    /\ ~row[q].deferred
    /\ LiveWorkers < settings.workers
    /\ row' = [row EXCEPT ![q].live = TRUE]
    /\ UNCHANGED <<last, settings, policy, quota, covered, bypass>>

\* newMutationPolicy: what was true at the claim is tested again at the mutation.
MutationPolicy(q) ==
    LET a == AccountOf[q]
    IN  /\ ~settings.paused
        /\ ~policy[a].disabled
        /\ LiveWorkers <= settings.workers
        /\ Cardinality(AccountHolders(a)) <= Min({settings.active, RowLimit(q)})
        /\ QuotaDecides(q)

\* BeginPreparation by the lease holder raises the dispatch barrier.
BeginPreparation(q) ==
    /\ row[q].phase = "local"
    /\ row[q].live
    /\ MutationPolicy(q)
    /\ row' = [row EXCEPT ![q].phase = "held"]
    /\ UNCHANGED <<last, settings, policy, quota, covered, bypass>>

\* YieldDispatch with a delay, or the lease simply runs out.
Yield(q) ==
    /\ row[q].live
    /\ \E deferred \in BOOLEAN :
         row' = [row EXCEPT ![q].live = FALSE, ![q].deferred = deferred]
    /\ UNCHANGED <<last, settings, policy, quota, covered, bypass>>

NotBeforePasses(q) ==
    /\ row[q].deferred
    /\ row' = [row EXCEPT ![q].deferred = FALSE]
    /\ UNCHANGED <<last, settings, policy, quota, covered, bypass>>

\* Terminal or inactive evidence; a lease may outlive it.
End(q) ==
    /\ row[q].phase \in {"local", "held"}
    /\ row' = [row EXCEPT ![q].phase = "ended"]
    /\ UNCHANGED <<last, settings, policy, quota, covered, bypass>>

\* writeDispatchLedger: a submission rejected for quota latches the account, and the
\* observation that is left says nothing of what remains.
RejectedForQuota(q) ==
    LET a == AccountOf[q]
    IN  /\ q \in Gpu
        /\ row[q].phase = "held"
        /\ row[q].live
        /\ row' = [row EXCEPT ![q].phase = "ended"]
        /\ quota' = [quota EXCEPT ![a] =
             [remaining |-> 0, fresh |-> FALSE, exhausted |-> TRUE]]
        /\ covered' = covered \ {a}
        /\ UNCHANGED <<last, settings, policy, bypass>>

ConfigureScheduler ==
    /\ settings' \in Configurations
    /\ UNCHANGED <<row, last, policy, quota, covered, bypass>>

ConfigureAccount(a) ==
    /\ \E p \in Policies : policy' = [policy EXCEPT ![a] = p]
    /\ UNCHANGED <<row, last, settings, quota, covered, bypass>>

\* RecordQuota of a newer observation of an account that runs accelerator work.  The
\* latch falls with recent positive evidence: recent by the operator's setting, while
\* fresh is capped at five minutes besides.
RecordQuota(a) ==
    \E remaining \in 0..MaxQuota, recent \in BOOLEAN, fresh \in BOOLEAN :
        /\ \E q \in Gpu : AccountOf[q] = a
        /\ fresh => recent
        /\ quota' = [quota EXCEPT ![a] =
             [remaining |-> remaining, fresh |-> fresh,
              exhausted |-> remaining = 0 \/ (@.exhausted /\ ~recent)]]
        /\ covered' = IF Outstanding(a) <= remaining THEN covered \cup {a} ELSE covered \ {a}
        /\ UNCHANGED <<row, last, settings, policy, bypass>>

QuotaAges(a) ==
    /\ quota[a].fresh
    /\ quota' = [quota EXCEPT ![a].fresh = FALSE]
    /\ UNCHANGED <<row, last, settings, policy, covered, bypass>>

Next ==
    \/ \E q \in Rows :
         \/ Admit(q) \/ AuthorizeExecution(q) \/ ClaimNext(q) \/ ClaimRecovery(q)
         \/ BeginPreparation(q) \/ Yield(q) \/ NotBeforePasses(q) \/ End(q)
         \/ RejectedForQuota(q)
    \/ ConfigureScheduler
    \/ \E a \in Accounts : ConfigureAccount(a) \/ RecordQuota(a) \/ QuotaAges(a)

Spec == Init /\ [][Next]_vars

-----------------------------------------------------------------------------
(* Properties                                                              *)

\* Types of the queue, the configuration and the quotas.
TypeOK ==
    /\ row \in [Rows -> [phase : Phases, granted : BOOLEAN, live : BOOLEAN,
                         deferred : BOOLEAN]]
    /\ last \in Workspaces \cup {0}
    /\ settings \in Configurations
    /\ policy \in [Accounts -> Policies]
    /\ quota \in [Accounts -> Quotas]
    /\ covered \subseteq Accounts
    /\ bypass \in [Workspaces -> Nat]

\* Whenever an account or a machine gains a holder, all its holders together fit the
\* frozen limit of each of them and the limits in force, also after limits were raised
\* or lowered and leases were lost in between.
NoOvercommitment ==
    /\ \A a \in Accounts :
         ~(AccountHolders(a)' \subseteq AccountHolders(a)) =>
             \A q \in AccountHolders(a)' :
                 Cardinality(AccountHolders(a)') <=
                     Min({settings.active, policy[a].active, Frozen[q]})
    /\ \A m \in Machines :
         ~(MachineHolders(m)' \subseteq MachineHolders(m)) =>
             \A q \in MachineHolders(m)' :
                 Cardinality(MachineHolders(m)') <=
                     Min({settings.active, Frozen[q], MachineLimit(m)})

\* Within a workspace attempts start in queue order: while the head waits, for consent,
\* capacity or a delay, no later attempt of the workspace is claimed.
QueueOrder ==
    \A q \in Rows :
        Waiting(q) /\ row'[q].live =>
            \A p \in Rows :
                p < q /\ WorkspaceOf[p] = WorkspaceOf[q] => ~(row[p].phase = "local" /\ ~row[p].live)

\* Select starts nothing that the limits or the queue forbid: it never overcommits an
\* account or a machine, and never lets a later attempt of a workspace pass its head.
StartsAllowed == [][NoOvercommitment /\ QueueOrder]_vars

\* Round robin over workspaces: one whose head stays eligible is passed over by fewer
\* claims than there are workspaces.
BoundedBypass == \A w \in Workspaces : bypass[w] < Cardinality(Workspaces)

\* Consent never outruns quota: as long as the latest observation covered what was
\* outstanding, all consented and active accelerator work of an account fits it, so no
\* grant waits for quota that another grant already took (authorizationQuota).
GrantsFitQuota ==
    \A a \in covered : Outstanding(a) <= quota[a].remaining
=============================================================================
