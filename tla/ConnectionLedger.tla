-------------------------- MODULE ConnectionLedger --------------------------
(***************************************************************************)
(* What the store keeps about managed connections, and the transactions of *)
(* store/sqlite/managed_*.go that change it: a connection with its active  *)
(* credential generation and published selection, its one operation under  *)
(* way, the generations and deletion intents of its secrets, the machine   *)
(* an account is bound to, and the work admitted through it.               *)
(*                                                                         *)
(* Every accepted request raises the revision, so the operation, the       *)
(* credential generation and the selection it creates all carry the number *)
(* of that revision; 0 stands for none.                                    *)
(***************************************************************************)
EXTENDS Integers, FiniteSets, Sequences, Functions

CONSTANTS
    Conn,           \* connections
    Account,        \* canonical accounts a credential may log in to
    Machine,        \* native identities of hosts
    None,
    MaxRev,         \* bound: accepted requests per connection
    MaxOps,         \* bound: accepted requests in all, those for the watchdog included
    ImageLimit      \* runnerImageInstallLimit

ASSUME LedgerAssumption ==
    /\ None \notin Account \cup Machine
    /\ MaxRev \in Nat /\ MaxOps \in Nat /\ ImageLimit \in Nat

VARIABLES
    conn,       \* managed_connections
    op,         \* managed_connection_operations: the latest of each connection
    gens,       \* managed_credential_generations
    doomed,     \* managed_secret_deletions
    vault,      \* generations whose bytes the protected store holds
    sel,        \* profile_revisions: the generation each selection was published with
    bound,      \* managed_resource_accounts
    work,       \* the attempt admitted through the connection, and its selection
    installs,   \* accepted installations of the execution image
    wd          \* host_watchdog_operations, oldest first

ledger == <<conn, op, gens, doomed, vault, sel, bound, work, installs, wd>>

Revs == 0..MaxRev
Actions == {"create", "check", "replace_credential", "disable", "enable", "remove",
            "configure", "install_image"}
WithSecret == {"create", "replace_credential"}

Connection == [rev : Revs, auth : {"pending", "verified", "rejected", "unavailable"},
               new : {"absent", "enabled", "disabled", "removed"},
               account : Account \cup {None}, cred : Revs, profile : Revs, pending : BOOLEAN]
Operation == [act : Actions, stage : {"waiting_secret", "ready", "installing", "done"},
              status : {"accepted", "failed", "succeeded"}, key : Revs, token : BOOLEAN]
Generations == SUBSET (1..MaxRev)
Secrets == SUBSET (1..MaxRev)
Selections == [1..MaxRev -> Revs]

LedgerTypeOK ==
    /\ conn \in [Conn -> Connection]
    /\ op \in [Conn -> Operation]
    /\ gens \in [Conn -> Generations]
    /\ doomed \in [Conn -> Generations]
    /\ vault \in [Conn -> Secrets]
    /\ sel \in [Conn -> Selections]
    /\ bound \in [Account -> Machine \cup {None}]
    /\ work \in [Conn -> [state : {"none", "active", "ended"}, rev : Revs]]
    /\ installs \in 0..ImageLimit

LedgerInit ==
    /\ conn = [c \in Conn |-> [rev |-> 0, auth |-> "pending", new |-> "absent", account |-> None,
                               cred |-> 0, profile |-> 0, pending |-> FALSE]]
    /\ op = [c \in Conn |-> [act |-> "create", stage |-> "done", status |-> "accepted",
                             key |-> 0, token |-> TRUE]]
    /\ gens = [c \in Conn |-> {}]
    /\ doomed = [c \in Conn |-> {}]
    /\ vault = [c \in Conn |-> {}]
    /\ sel = [c \in Conn |-> [r \in 1..MaxRev |-> 0]]
    /\ bound = [a \in Account |-> None]
    /\ work = [c \in Conn |-> [state |-> "none", rev |-> 0]]
    /\ installs = 0
    /\ wd = << >>

-----------------------------------------------------------------------------
(* Guards the transactions share.                                          *)

Removing(c) == conn[c].pending /\ op[c].act = "remove"

\* The machine the connection's account is bound to.
MachineOf(c) == IF conn[c].account = None THEN None ELSE bound[conn[c].account]

\* managedRemovalAllowed: no attempt is queued, running, uncertain or uncollected.
RemovalAllowed(c) == work[c].state # "active"

\* Index of the newest watchdog operation on machine m that has not failed, else 0.
LastWatchdog(m) ==
    LET live == {i \in DOMAIN wd : wd[i].m = m /\ wd[i].status # "failed"}
    IN  IF live = {} THEN 0 ELSE CHOOSE i \in live : \A j \in live : j <= i

\* Mutant: only a confirmed installation keeps the connection.
UnwatchedUnconfirmed(c) ==
    LET i == LastWatchdog(MachineOf(c))
    IN  i # 0 => ~(wd[i].act = "install_host_watchdog" /\ wd[i].status = "succeeded")

\* watchdogConnectionRetained lets go only after a confirmed removal.
Unwatched(c) ==
    LET i == LastWatchdog(MachineOf(c))
    IN  i # 0 => wd[i].act = "remove_host_watchdog" /\ wd[i].status = "succeeded"

\* managedProfileOwned: may work already admitted go on, or be retried?
ProfileOwned(c) ==
    /\ conn[c].cred # 0
    /\ conn[c].new # "removed"
    /\ ~Removing(c)

TotalOps == FoldFunctionOnSet(+, Len(wd), [c \in Conn |-> conn[c].rev], Conn)

-----------------------------------------------------------------------------
(* AcceptConnection: one request becomes the connection's pending operation. *)

\* configureManaged carries over the selection of the revision before, and only that one.
Configurable(c) == conn[c].profile \in {0, conn[c].rev}
Republished(c, act) == act = "configure" /\ conn[c].profile # 0

\* checkRunnerImageCapacity, which counts per machine: here over all machines.
ImageCapacity == installs < ImageLimit

\* bindManagedResource: an account never moves to another machine.
Rebinds(a, m) == bound[a] \notin {None, m}

Acceptable(c, act) ==
    /\ conn[c].rev < MaxRev /\ TotalOps < MaxOps
    /\ IF act = "create"
       THEN conn[c].new = "absent"
       ELSE conn[c].new \in {"enabled", "disabled"} /\ ~conn[c].pending
    /\ act = "install_image" => /\ conn[c].account # None /\ conn[c].cred # 0
                               /\ MachineOf(c) # None /\ ImageCapacity
    /\ act \in {"remove", "replace_credential"} => Unwatched(c)
    /\ act = "remove" => RemovalAllowed(c)
    /\ act = "configure" => Configurable(c)

AcceptConnection(c, act) ==
    LET old == conn[c]
        rev == old.rev + 1
        key == IF act \in WithSecret THEN rev ELSE old.cred
    IN  /\ Acceptable(c, act)
        /\ conn' = [conn EXCEPT ![c] =
             [old EXCEPT
               !.rev = rev,
               !.auth = IF act \in WithSecret THEN "pending" ELSE @,
               !.new = CASE act = "create" -> "enabled"
                         [] act \in {"disable", "remove"} -> "disabled"
                         [] OTHER -> @,
               !.profile = CASE act = "check" -> @
                             [] Republished(c, act) -> rev
                             [] OTHER -> 0,
               !.pending = act # "configure"]]
        /\ op' = [op EXCEPT ![c] =
             [act |-> act, key |-> key, token |-> TRUE,
              stage |-> CASE act \in WithSecret -> "waiting_secret"
                          [] act = "configure" -> "done"
                          [] OTHER -> "ready",
              status |-> IF act = "configure" THEN "succeeded" ELSE "accepted"]]
        /\ gens' = [gens EXCEPT ![c] = IF act \in WithSecret THEN @ \cup {key} ELSE @]
        /\ sel' = [sel EXCEPT ![c][rev] = IF Republished(c, act) THEN key ELSE 0]
        /\ installs' = IF act = "install_image" THEN installs + 1 ELSE installs
        /\ UNCHANGED <<doomed, vault, bound, work, wd>>

\* ReadyConnection, once the bytes of the reserved generation are in the vault.
ReadyConnection(c) ==
    /\ op' = [op EXCEPT ![c].stage = "ready"]
    /\ UNCHANGED <<conn, gens, doomed, vault, sel, bound, work, installs, wd>>

\* BeginConnectionInstall consumes the only permit to build.
BeginConnectionInstall(c) ==
    /\ op' = [op EXCEPT ![c].stage = "installing"]
    /\ UNCHANGED <<conn, gens, doomed, vault, sel, bound, work, installs, wd>>

-----------------------------------------------------------------------------
(* finishManaged: the operation ends and the connection is free again.     *)

Done(c, status) == [op EXCEPT ![c].stage = "done", ![c].status = status]

\* A failed check of a passing nature keeps the verified selection.
KeepsSelection(c, problem) ==
    /\ op[c].act = "check"
    /\ conn[c].profile # 0
    /\ problem = "unavailable"

\* Mutant: a check that keeps the selection still marks the connection unavailable.
FailedAuthAlways(c, problem) ==
    IF /\ op[c].act \in {"replace_credential", "install_image"}
       /\ conn[c].cred # 0 /\ conn[c].account # None
    THEN "verified"
    ELSE IF problem = "rejected" THEN "rejected" ELSE "unavailable"

FailedAuth(c, problem) ==
    IF \/ KeepsSelection(c, problem)
       \/ /\ op[c].act \in {"replace_credential", "install_image"}
          /\ conn[c].cred # 0 /\ conn[c].account # None
    THEN "verified"
    ELSE IF problem = "rejected" THEN "rejected" ELSE "unavailable"

\* Mutant: a failed removal frees the connection like any other failure.
FailRemovalToo(c, problem) ==
    /\ conn' = [conn EXCEPT ![c].auth = FailedAuth(c, problem),
                            ![c].profile = IF KeepsSelection(c, problem) THEN @ ELSE 0,
                            ![c].pending = FALSE]
    /\ doomed' = [doomed EXCEPT ![c] =
          IF op[c].key \notin {0, conn[c].cred} THEN @ \cup {op[c].key} ELSE @]
    /\ op' = Done(c, "failed")
    /\ UNCHANGED <<gens, vault, sel, bound, work, installs, wd>>

\* FailConnection. A removal keeps its intent: its secrets may be half erased.
FailConnection(c, problem) ==
    /\ IF op[c].act = "remove"
       THEN op' = [op EXCEPT ![c].status = "failed"] /\ UNCHANGED <<conn, doomed>>
       ELSE /\ conn' = [conn EXCEPT ![c].auth = FailedAuth(c, problem),
                                    ![c].profile = IF KeepsSelection(c, problem) THEN @ ELSE 0,
                                    ![c].pending = FALSE]
            /\ doomed' = [doomed EXCEPT ![c] =
                  IF op[c].key \notin {0, conn[c].cred} THEN @ \cup {op[c].key} ELSE @]
            /\ op' = Done(c, "failed")
    /\ UNCHANGED <<gens, vault, sel, bound, work, installs, wd>>

\* Success of check, enable, replace_credential, create and install_image.
FinishVerified(c, account, m, image) ==
    LET old == conn[c]
        new == IF op[c].act = "enable" THEN "enabled" ELSE old.new
        published == new = "enabled" /\ image
    IN  /\ bound' = [bound EXCEPT ![account] = m]
        /\ conn' = [conn EXCEPT ![c] =
             [old EXCEPT !.auth = "verified", !.new = new, !.account = account,
                         !.cred = op[c].key,
                         !.profile = IF published THEN old.rev ELSE 0,
                         !.pending = FALSE]]
        /\ doomed' = [doomed EXCEPT ![c] =
             IF old.cred \notin {0, op[c].key} THEN @ \cup {old.cred} ELSE @]
        /\ sel' = [sel EXCEPT ![c][old.rev] = IF published THEN op[c].key ELSE 0]
        /\ op' = Done(c, "succeeded")
        /\ UNCHANGED <<gens, vault, work, installs, wd>>

FinishDisabled(c) ==
    /\ conn' = [conn EXCEPT ![c].profile = 0, ![c].pending = FALSE]
    /\ op' = Done(c, "succeeded")
    /\ UNCHANGED <<gens, doomed, vault, sel, bound, work, installs, wd>>

FinishRemoved(c) ==
    /\ conn' = [conn EXCEPT ![c].new = "removed", ![c].cred = 0, ![c].auth = "unavailable",
                            ![c].profile = 0, ![c].pending = FALSE]
    /\ doomed' = [doomed EXCEPT ![c] = {}]
    /\ gens' = [gens EXCEPT ![c] = {}]
    /\ op' = Done(c, "succeeded")
    /\ UNCHANGED <<vault, sel, bound, work, installs, wd>>

-----------------------------------------------------------------------------
(* Work admitted through the connection.                                   *)

\* admissionSelection: the current selection, or an older one of the same generation.
AdmitWork(c, r) ==
    /\ work[c].state = "none"
    /\ conn[c].new = "enabled" /\ conn[c].auth = "verified" /\ ~conn[c].pending
    /\ conn[c].profile # 0
    /\ r = conn[c].profile \/ (sel[c][r] # 0 /\ sel[c][r] = conn[c].cred)
    /\ ProfileOwned(c)
    /\ work' = [work EXCEPT ![c] = [state |-> "active", rev |-> r]]
    /\ UNCHANGED <<conn, op, gens, doomed, vault, sel, bound, installs, wd>>

\* The attempt ends, its result kept or its execution conclusively prevented.
EndWork(c) ==
    /\ work[c].state = "active"
    /\ work' = [work EXCEPT ![c].state = "ended"]
    /\ UNCHANGED <<conn, op, gens, doomed, vault, sel, bound, installs, wd>>

\* A retry pins the job's own selection; only ownership is asked of the connection.
RetryWork(c) ==
    /\ work[c].state = "ended"
    /\ ProfileOwned(c)
    /\ work' = [work EXCEPT ![c].state = "active"]
    /\ UNCHANGED <<conn, op, gens, doomed, vault, sel, bound, installs, wd>>

WorkNext ==
    \E c \in Conn :
        \/ \E r \in 1..MaxRev : AdmitWork(c, r)
        \/ EndWork(c)
        \/ RetryWork(c)
=============================================================================
