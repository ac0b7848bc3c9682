------------------------- MODULE ConnectionsProofs --------------------------
(***************************************************************************)
(* The promises of managed connections for any number of connections,      *)
(* accounts, machines, requests and faults.  The inductive invariant says  *)
(* who may touch a connection while an operation is pending (LockInv),     *)
(* what a connection's row, its generations and its vault agree on         *)
(* (KeyInv, VaultInv), which account its selections log in to (SelInv),    *)
(* how many builds are still permitted (PermitInv), and which watchdog     *)
(* operation may still change a machine (ScriptInv, RetainInv).            *)
(***************************************************************************)
EXTENDS Connections, FiniteSetTheorems, WellFoundedInduction, TLAPS

Workers == [pc : {"idle", "verify", "build", "recover", "erase", "delete", "complete"},
            c : Conn \cup {None}, key : Revs]
Watchers == [pc : {"idle", "apply", "release", "finish"}, i : 0..MaxWatch, ok : BOOLEAN]

Types ==
    /\ LedgerTypeOK
    /\ ServiceTypeOK
    /\ wd \in Seq(WatchdogOperation) /\ Len(wd) <= MaxWatch
    /\ watched \in SUBSET Machine
    /\ ww \in Watchers
    /\ late \in SUBSET (1..MaxWatch)

\* What a request that stages a secret relies on until it leaves.
SubHolds ==
    sub.pc # "none" =>
        /\ sub.c \in Conn /\ conn[sub.c].pending
        /\ op[sub.c].stage = "waiting_secret" /\ op[sub.c].key = sub.key

\* What the worker loaded is still so when it uses it.
WkHolds ==
    /\ wk.pc # "idle" => wk.c \in Conn
    /\ wk.pc \in {"verify", "build", "recover"} =>
         /\ conn[wk.c].pending
         /\ op[wk.c].act \in Verifying \cup {"install_image"}
         /\ op[wk.c].stage = IF op[wk.c].act = "install_image" THEN "installing" ELSE "ready"
    /\ wk.pc = "erase" => Removing(wk.c)
    /\ wk.pc \in {"delete", "complete"} => wk.key \in doomed[wk.c]
    /\ wk.pc = "complete" => wk.key \notin vault[wk.c]

\* Who holds the guard, and what the two sessions may rely on while they run.
LockInv ==
    /\ guard = "submit" <=> sub.pc # "none"
    /\ guard = "worker" <=> wk.pc \in {"erase", "delete", "complete"}
    /\ SubHolds
    /\ WkHolds

\* The operation under way works on a generation nobody else disposes of: a fresh one,
\* reserved by it, or the active one.
KeyInv(c) ==
    /\ conn[c].cred <= conn[c].rev /\ conn[c].profile <= conn[c].rev
    /\ conn[c].new = "absent" => ~conn[c].pending
    /\ gens[c] \subseteq 1..conn[c].rev
    /\ doomed[c] \subseteq gens[c] /\ conn[c].cred \notin doomed[c]
    /\ conn[c].pending =>
         /\ op[c].key \notin doomed[c]
         /\ op[c].stage = "waiting_secret" => op[c].act \in WithSecret
         /\ IF op[c].act \in WithSecret
            THEN op[c].key = conn[c].rev /\ conn[c].cred < conn[c].rev /\ op[c].key \in gens[c]
            ELSE op[c].key = conn[c].cred

VaultInv(c) ==
    /\ vault[c] \subseteq gens[c]
    /\ conn[c].cred # 0 /\ ~Removing(c) => conn[c].cred \in vault[c]
    /\ \A key \in vault[c] :
         \/ key = conn[c].cred
         \/ conn[c].pending /\ op[c].key = key
         \/ key \in doomed[c]
         \/ Removing(c)

\* Everything that was ever published for the connection logs in to its one account.
SelInv(c) ==
    /\ conn[c].profile # 0 =>
         /\ conn[c].auth = "verified" /\ conn[c].new = "enabled"
         /\ conn[c].cred # 0 /\ sel[c][conn[c].profile] = conn[c].cred
    /\ \A r \in 1..MaxRev : sel[c][r] # 0 =>
         /\ r <= conn[c].rev /\ sel[c][r] <= conn[c].rev
         /\ conn[c].account # None /\ login[c][sel[c][r]] = conn[c].account
    /\ conn[c].cred # 0 => conn[c].account # None /\ login[c][conn[c].cred] = conn[c].account
    /\ work[c].state # "none" =>
         /\ work[c].rev \in 1..MaxRev /\ sel[c][work[c].rev] # 0
         /\ conn[c].pending => work[c].rev < conn[c].rev
    /\ work[c].state = "active" => ProfileOwned(c)

RowInv == \A c \in Conn : KeyInv(c) /\ VaultInv(c) /\ SelInv(c)

\* Installations whose only permit to build is unused.
Permits == {c \in Conn : /\ conn[c].pending
                         /\ op[c].act = "install_image" /\ op[c].stage = "ready"}
PermitInv ==
    /\ IsFiniteSet(Permits)
    /\ builds + Cardinality(Permits) + (IF wk.pc = "build" THEN 1 ELSE 0) <= installs

\* Nothing on the machine comes after operation i but requests of the statuses S.
After(i, S) == \A j \in DOMAIN wd : j > i /\ wd[j].m = wd[i].m => wd[j].status \in S

\* A queued or applying operation is the newest of its machine; its script is sent at
\* most once, and only an operation being applied holds a lease.
InFlight(i) == wd[i].stage \in {"queued", "applying"}
OpScript(i) ==
    /\ wd[i].stage = "queued" <=> wd[i].status = "queued"
    /\ wd[i].stage = "applying" => wd[i].status = "unknown"
    /\ InFlight(i) => After(i, {"failed"})
    /\ wd[i].stage = "queued" => wd[i].sent = 0
    /\ wd[i].sent <= 1
    /\ wd[i].lease => wd[i].stage = "applying"

\* The turn under way belongs to an operation that is being applied, under its lease
\* until the script was sent or given up.
WwScript ==
    /\ ww.pc = "idle" <=> ww.i = 0
    /\ ww.pc # "idle" => ww.i \in DOMAIN wd /\ wd[ww.i].stage = "applying"
    /\ ww.pc \in {"apply", "release"} => wd[ww.i].lease
    /\ ww.pc = "apply" => wd[ww.i].sent = 0 /\ ~ww.ok
    /\ ww.pc = "finish" => ~wd[ww.i].lease /\ ww.ok

\* A script that was cut off belongs to an operation whose outcome is unknown, or was
\* confirmed by an observation since.
LateInv == \A j \in late : j \in DOMAIN wd /\ wd[j].status \in {"unknown", "succeeded"}

ScriptInv == WwScript /\ LateInv /\ \A i \in DOMAIN wd : OpScript(i)

Undone(i) ==
    \A j \in DOMAIN wd : j >= i /\ wd[j].m = wd[i].m =>
        ~(wd[j].act = "remove_host_watchdog" /\ wd[j].status = "succeeded")

\* Unless a later removal is confirmed, whoever asked for an operation can still log in
\* to its machine; a running watchdog has an operation behind it that was sent.
RetainInv ==
    /\ \A i \in DOMAIN wd :
         /\ MachineOf(wd[i].c) = wd[i].m
         /\ wd[i].status # "failed" /\ Undone(i) => ProfileOwned(wd[i].c)
    /\ \A m \in watched : \E i \in DOMAIN wd :
         wd[i].m = m /\ wd[i].status \in {"unknown", "succeeded"}

IInv == Types /\ LockInv /\ RowInv /\ PermitInv /\ ScriptInv /\ RetainInv

-----------------------------------------------------------------------------
(* Types.                                                                  *)

\* The bounds are numbers, and requests name known actions.
LEMMA Bounds ==
    /\ MaxRev \in Nat /\ MaxOps \in Nat /\ ImageLimit \in Nat /\ MaxFaults \in Nat
    /\ MaxWatch \in Nat /\ Requests \subseteq Actions /\ 0 \in Revs
    /\ None \notin Account /\ None \notin Machine /\ Account # {} /\ Machine # {}
  BY LedgerAssumption, ServiceAssumption, WatchAssumption DEF Revs

\* An accepted request keeps the types: its revision and its installation are within
\* the bounds the transaction checks.
LEMMA AcceptTypes ==
    ASSUME LedgerTypeOK, NEW c \in Conn, NEW act \in Actions, AcceptConnection(c, act)
    PROVE  LedgerTypeOK'
  <1> DEFINE rev == conn[c].rev + 1
             key == IF act \in WithSecret THEN rev ELSE conn[c].cred
  <1>1. conn[c] \in Connection /\ op[c] \in Operation
    BY DEF LedgerTypeOK
  <1>2. conn[c].rev \in Revs /\ conn[c].cred \in Revs /\ conn[c].profile \in Revs
    BY <1>1 DEF Connection
  <1>3. rev \in 1..MaxRev /\ key \in Revs /\ rev \in Revs /\ (act \in WithSecret => key \in 1..MaxRev)
    BY <1>2, Bounds DEF AcceptConnection, Acceptable, Revs
  <1>4. conn' \in [Conn -> Connection]
    <2>1. PICK new \in Connection : conn' = [conn EXCEPT ![c] = new]
      <3> DEFINE new ==
             [conn[c] EXCEPT
               !.rev = rev,
               !.auth = IF act \in WithSecret THEN "pending" ELSE @,
               !.new = CASE act = "create" -> "enabled"
                         [] act \in {"disable", "remove"} -> "disabled"
                         [] OTHER -> @,
               !.profile = CASE act = "check" -> @
                             [] Republished(c, act) -> rev
                             [] OTHER -> 0,
               !.pending = act # "configure"]
      <3>1. conn' = [conn EXCEPT ![c] = new]
        BY DEF AcceptConnection
      <3>2. new \in Connection
        BY <1>1, <1>2, <1>3, Bounds DEF Connection
      <3> QED BY <3>1, <3>2
    <2> QED BY <2>1 DEF LedgerTypeOK
  <1>5. op' \in [Conn -> Operation]
    BY <1>3 DEF LedgerTypeOK, AcceptConnection, Operation
  <1>6. gens' \in [Conn -> Generations]
    BY <1>3 DEF LedgerTypeOK, AcceptConnection, Generations
  <1>7. sel' \in [Conn -> Selections]
    BY <1>3, Bounds DEF LedgerTypeOK, AcceptConnection, Selections
  <1>8. installs' \in 0..ImageLimit
    BY Bounds DEF LedgerTypeOK, AcceptConnection, Acceptable, ImageCapacity
  <1> QED BY <1>4, <1>5, <1>6, <1>7, <1>8 DEF LedgerTypeOK, AcceptConnection

\* ReadyConnection, BeginConnectionInstall and the two that touch an operation's
\* status or token change one field of one operation.
LEMMA OperationTypes ==
    ASSUME LedgerTypeOK, NEW c \in Conn,
           \/ op' = [op EXCEPT ![c].stage = "ready"]
           \/ op' = [op EXCEPT ![c].stage = "installing"]
           \/ op' = [op EXCEPT ![c].status = "accepted"]
           \/ op' = [op EXCEPT ![c].status = "failed"]
           \/ op' = [op EXCEPT ![c].token = FALSE]
           \/ op' = Done(c, "failed")
           \/ op' = Done(c, "succeeded")
    PROVE  op' \in [Conn -> Operation]
  <1>1. op[c] \in Operation /\ op \in [Conn -> Operation]
    BY DEF LedgerTypeOK
  <1>2. PICK new \in Operation : op' = [op EXCEPT ![c] = new]
    BY <1>1 DEF Operation, Done
  <1> QED BY <1>1, <1>2

\* A failure keeps the row's type and frees the connection.
LEMMA FreedTypes ==
    ASSUME LedgerTypeOK, NEW c \in Conn, NEW profile \in Revs,
           NEW auth \in {"pending", "verified", "rejected", "unavailable"},
           conn' = [conn EXCEPT ![c].auth = auth, ![c].profile = profile, ![c].pending = FALSE]
    PROVE  conn' \in [Conn -> Connection]
  <1>1. conn[c] \in Connection
    BY DEF LedgerTypeOK
  <1> QED BY <1>1 DEF LedgerTypeOK, Connection

\* FailConnection and the three ways to finish keep the types.
LEMMA FailTypes ==
    ASSUME LedgerTypeOK, NEW c \in Conn, NEW problem, FailConnection(c, problem)
    PROVE  LedgerTypeOK'
  <1>1. conn[c] \in Connection /\ op[c] \in Operation
    BY DEF LedgerTypeOK
  <1>2. op' \in [Conn -> Operation]
    BY OperationTypes DEF FailConnection
  <1>3. FailedAuth(c, problem) \in {"pending", "verified", "rejected", "unavailable"}
    BY DEF FailedAuth
  <1>4. conn' \in [Conn -> Connection]
    <2>1. CASE op[c].act = "remove"
      BY <2>1 DEF LedgerTypeOK, FailConnection
    <2>2. CASE op[c].act # "remove"
      <3>1. conn[c].profile \in Revs
        BY <1>1 DEF Connection
      <3> QED BY <1>3, <2>2, <3>1, FreedTypes, Bounds DEF FailConnection
    <2> QED BY <2>1, <2>2
  <1>5. op[c].key \in Revs
    BY <1>1 DEF Operation
  <1>6. doomed' \in [Conn -> Generations]
    BY <1>5, Bounds DEF LedgerTypeOK, FailConnection, Generations, Revs
  <1> QED BY <1>2, <1>4, <1>6 DEF LedgerTypeOK, FailConnection

\* Every way to finish leaves a well-formed row, selection and binding.
LEMMA FinishTypes ==
    ASSUME LedgerTypeOK, NEW c \in Conn,
           \/ \E a \in Account, m \in Machine, image \in BOOLEAN : FinishVerified(c, a, m, image)
           \/ FinishDisabled(c)
           \/ FinishRemoved(c)
    PROVE  LedgerTypeOK'
  <1>1. conn[c] \in Connection /\ op[c] \in Operation /\ op' \in [Conn -> Operation]
    BY OperationTypes DEF LedgerTypeOK, FinishVerified, FinishDisabled, FinishRemoved
  <1>2. op[c].key \in Revs /\ conn[c].rev \in Revs /\ conn[c].cred \in Revs
    BY <1>1 DEF Operation, Connection
  <1>3. ASSUME NEW a \in Account, NEW m \in Machine, NEW image \in BOOLEAN,
               FinishVerified(c, a, m, image)
        PROVE  LedgerTypeOK'
    <2>1. conn' \in [Conn -> Connection]
      <3> DEFINE new == IF op[c].act = "enable" THEN "enabled" ELSE conn[c].new
                 row == [conn[c] EXCEPT !.auth = "verified", !.new = new, !.account = a,
                           !.cred = op[c].key,
                           !.profile = IF new = "enabled" /\ image THEN conn[c].rev ELSE 0,
                           !.pending = FALSE]
      <3>1. conn' = [conn EXCEPT ![c] = row]
        BY <1>3 DEF FinishVerified
      <3>2. row \in Connection
        BY <1>1, <1>2, Bounds DEF Connection
      <3> QED BY <3>1, <3>2 DEF LedgerTypeOK
    <2>2. doomed' \in [Conn -> Generations]
      <3>1. conn[c].cred # 0 => conn[c].cred \in 1..MaxRev
        BY <1>2, Bounds DEF Revs
      <3> QED BY <1>3, <3>1 DEF LedgerTypeOK, FinishVerified, Generations
    <2>3. sel' \in [Conn -> Selections]
      BY <1>2, <1>3, Bounds DEF LedgerTypeOK, FinishVerified, Selections
    <2>4. bound' \in [Account -> Machine \cup {None}]
      BY <1>3 DEF LedgerTypeOK, FinishVerified
    <2> QED BY <1>1, <1>3, <2>1, <2>2, <2>3, <2>4 DEF LedgerTypeOK, FinishVerified
  <1>4. CASE FinishDisabled(c)
    BY <1>1, <1>4, Bounds DEF LedgerTypeOK, FinishDisabled, Connection
  <1>5. CASE FinishRemoved(c)
    <2>1. conn' \in [Conn -> Connection]
      BY <1>1, <1>5, Bounds DEF LedgerTypeOK, FinishRemoved, Connection
    <2>2. doomed' \in [Conn -> Generations] /\ gens' \in [Conn -> Generations]
      BY <1>5 DEF LedgerTypeOK, FinishRemoved, Generations
    <2> QED BY <1>1, <1>5, <2>1, <2>2 DEF LedgerTypeOK, FinishRemoved
  <1> QED BY <1>3, <1>4, <1>5

\* A request, the staging of its secret, a lost client: the types are kept.
LEMMA SubmitTypes ==
    ASSUME Types, LockInv, RowInv, SubmitNext, UNCHANGED watchdog
    PROVE  Types'
  <1> USE Bounds DEF Types, ServiceTypeOK
  <1>0. UNCHANGED <<watched, ww, late>> /\ LedgerTypeOK
    BY DEF watchdog
  <1>n. NoSub \in Submission
    BY DEF NoSub, Submission
  <1>s. sub.pc # "none" => sub.c \in Conn /\ sub.key \in 1..MaxRev
    <2> SUFFICES ASSUME sub.pc # "none" PROVE sub.c \in Conn /\ sub.key \in 1..MaxRev
      OBVIOUS
    <2>1. sub.c \in Conn /\ conn[sub.c].pending /\ op[sub.c].stage = "waiting_secret"
          /\ op[sub.c].key = sub.key
      BY DEF LockInv, SubHolds, WkHolds
    <2>2. sub.key \in gens[sub.c]
      BY <2>1 DEF RowInv, KeyInv
    <2> QED BY <1>0, <2>1, <2>2 DEF LedgerTypeOK, Generations
  <1>1. ASSUME NEW c \in Conn, NEW act \in Requests, SubmitPlain(c, act) PROVE Types'
    <2>1. LedgerTypeOK'
      BY <1>1, AcceptTypes DEF SubmitPlain
    <2>2. wd' = wd
      BY <1>1 DEF SubmitPlain, AcceptConnection
    <2> QED BY <1>0, <1>1, <2>1, <2>2 DEF SubmitPlain, service
  <1>2. ASSUME NEW c \in Conn, NEW act \in Requests, NEW account \in Account,
               SubmitSecret(c, act, account)
        PROVE  Types'
    <2>1. LedgerTypeOK'
      BY <1>2, AcceptTypes DEF SubmitSecret
    <2>2. wd' = wd
      BY <1>2 DEF SubmitSecret, AcceptConnection
    <2>3. conn[c].rev + 1 \in 1..MaxRev
      <3>1. conn[c].rev \in Nat /\ conn[c].rev < MaxRev
        BY <1>0, <1>2 DEF LedgerTypeOK, Connection, SubmitSecret, AcceptConnection, Acceptable, Revs
      <3> QED BY <3>1
    <2>4. sub' \in Submission
      BY <1>2, <2>3 DEF SubmitSecret, Submission, Revs
    <2>5. login' \in [Conn -> Logins]
      BY <1>2, <2>3 DEF SubmitSecret, Logins
    <2> QED BY <1>0, <1>2, <2>1, <2>2, <2>4, <2>5 DEF SubmitSecret, SecretHolders
  <1>3. ASSUME NEW c \in Conn, Replay(c) PROVE Types'
    <2>1. op[c].key \in Revs
      BY <1>0 DEF LedgerTypeOK, Operation
    <2>2. sub' \in Submission
      BY <1>3, <2>1 DEF Replay, Submission
    <2> QED BY <1>0, <1>3, <2>2 DEF Replay, SecretHolders, ledger, LedgerTypeOK
  <1>4. CASE CreateSecret
    <2>1. vault' \in [Conn -> Secrets]
      BY <1>0, <1>4, <1>s DEF CreateSecret, LedgerTypeOK, Secrets
    <2>2. sub' \in Submission
      BY <1>4 DEF CreateSecret, Submission
    <2> QED BY <1>0, <1>4, <2>1, <2>2 DEF CreateSecret, LedgerTypeOK
  <1>5. CASE CreateFails
    <2>1. conn[sub.c] \in Connection /\ op' \in [Conn -> Operation]
      BY <1>0, <1>5, <1>s, OperationTypes DEF CreateFails, LedgerTypeOK
    <2>2. FailedAuth(sub.c, "unavailable") \in {"pending", "verified", "rejected", "unavailable"}
      BY DEF FailedAuth
    <2>3. conn' \in [Conn -> Connection]
      BY <1>0, <1>5, <1>s, <2>2, FreedTypes DEF CreateFails
    <2>4. doomed' \in [Conn -> Generations]
      BY <1>0, <1>5, <1>s DEF CreateFails, LedgerTypeOK, Generations
    <2>5. vault' \in [Conn -> Secrets]
      BY <1>0, <1>5, <1>s DEF CreateFails, LedgerTypeOK, Secrets
    <2>6. faults' \in 0..MaxFaults
      BY <1>5 DEF CreateFails, Fault
    <2>7. LedgerTypeOK'
      BY <1>0, <1>5, <2>1, <2>3, <2>4, <2>5 DEF CreateFails, LedgerTypeOK
    <2> QED BY <1>0, <1>5, <1>n, <2>6, <2>7 DEF CreateFails, Leave, SecretHolders
  <1>6. CASE ReadySecret
    <2>1. CASE ReadyConnection(sub.c)
      <3>1. LedgerTypeOK'
        BY <1>0, <1>6, <1>s, <2>1, OperationTypes DEF ReadySecret, ReadyConnection, LedgerTypeOK
      <3> QED BY <1>0, <1>6, <1>n, <2>1, <3>1 DEF ReadySecret, ReadyConnection, Leave, SecretHolders
    <2>2. CASE UNCHANGED ledger
      BY <1>0, <1>6, <1>n, <2>2 DEF ReadySecret, Leave, SecretHolders, ledger, LedgerTypeOK
    <2> QED BY <1>6, <2>1, <2>2 DEF ReadySecret
  <1>7. CASE ClientGone
    <2>1. faults' \in 0..MaxFaults
      BY <1>7 DEF ClientGone, Fault
    <2> QED BY <1>0, <1>7, <1>n, <2>1 DEF ClientGone, Leave, SecretHolders, ledger, LedgerTypeOK
  <1> QED BY <1>1, <1>2, <1>3, <1>4, <1>5, <1>6, <1>7 DEF SubmitNext

\* The worker's session may be at any connection, at a generation or at none.
LEMMA WorkerStart ==
    ASSUME NEW c \in Conn, NEW key \in Revs,
           NEW pc \in {"idle", "verify", "build", "recover", "erase", "delete", "complete"}
    PROVE  /\ Resting \in Workers /\ [Resting EXCEPT !.pc = pc, !.c = c] \in Workers
           /\ [pc |-> pc, c |-> c, key |-> key] \in Workers
  BY Bounds DEF Resting, Workers

\* The operation worker keeps the types.
LEMMA WorkerTypes ==
    ASSUME Types, LockInv, PermitInv, WorkerNext, UNCHANGED watchdog
    PROVE  Types'
  <1> USE Bounds DEF Types, ServiceTypeOK
  <1>0. UNCHANGED <<watched, ww, late>> /\ LedgerTypeOK /\ wk \in Workers
    BY DEF watchdog, Workers
  <1>r. Resting \in Workers
    BY DEF Resting, Workers
  <1>w. Workers = [pc : {"idle", "verify", "build", "recover", "erase", "delete", "complete"},
                   c : Conn \cup {None}, key : Revs]
    BY DEF Workers
  <1>k. wk.pc # "idle" => wk.c \in Conn
    BY DEF LockInv, SubHolds, WkHolds
  <1> DEFINE Keep == LedgerTypeOK' /\ wd' = wd /\ login' = login /\ host' = host
                     /\ sub' = sub /\ faults' \in 0..MaxFaults /\ wk' \in Workers
                     /\ guard' \in SecretHolders /\ builds' \in 0..(ImageLimit + 1)
                     /\ stopped' \in {"no", "token", "resource", "work"}
  <1>e. Keep => Types'
    BY <1>0, <1>w
  <1> HIDE DEF Keep
  <1>1. ASSUME NEW c \in Conn, ResumeWaiting(c) PROVE Types'
    <2>1. CASE op[c].token
      <3>1. LedgerTypeOK' /\ wd' = wd
        BY <1>0, <1>1, <2>1, OperationTypes DEF ResumeWaiting, ReadyConnection, LedgerTypeOK
      <3> QED BY <1>0, <1>1, <1>e, <2>1, <3>1 DEF ResumeWaiting, service, Keep
    <2>2. CASE ~op[c].token
      BY <1>0, <1>1, <1>e, <1>r, <2>2 DEF ResumeWaiting, Stop, ledger, LedgerTypeOK, SecretHolders, Keep
    <2> QED BY <2>1, <2>2
  <1>2. ASSUME NEW c \in Conn, Disable(c) PROVE Types'
    <2>1. LedgerTypeOK'
      BY <1>0, <1>2, FinishTypes DEF Disable
    <2> QED BY <1>0, <1>2, <1>e, <2>1 DEF Disable, FinishDisabled, service, Keep
  <1>3. ASSUME NEW c \in Conn, BeginRemove(c) PROVE Types'
    <2>1. LedgerTypeOK'
      BY <1>0, <1>3, OperationTypes DEF BeginRemove, LedgerTypeOK
    <2>2. wk' \in Workers
      BY <1>3, <1>r, WorkerStart DEF BeginRemove, Stop
    <2> QED BY <1>0, <1>3, <1>e, <2>1, <2>2 DEF BeginRemove, Stop, SecretHolders, Keep
  <1>4. ASSUME NEW c \in Conn, BeginVerify(c) PROVE Types'
    <2>1. wk' \in Workers
      BY <1>4, WorkerStart DEF BeginVerify
    <2> QED BY <1>0, <1>4, <1>e, <2>1 DEF BeginVerify, ledger, LedgerTypeOK, Keep
  <1>5. ASSUME NEW c \in Conn, BeginInstall(c) PROVE Types'
    <2>1. wk' \in Workers
      BY <1>5, WorkerStart DEF BeginInstall
    <2>2. LedgerTypeOK' /\ wd' = wd
      BY <1>0, <1>5, OperationTypes DEF BeginInstall, BeginConnectionInstall, ledger, LedgerTypeOK
    <2> QED BY <1>0, <1>5, <1>e, <2>1, <2>2 DEF BeginInstall, Keep
  <1>6. ASSUME NEW c \in Conn, NEW key \in 1..MaxRev, NextSecretDeletion(c, key) PROVE Types'
    <2>0. key \in Revs
      BY DEF Revs
    <2>1. wk' \in Workers
      BY <1>6, <2>0, WorkerStart DEF NextSecretDeletion
    <2> QED BY <1>0, <1>6, <1>e, <2>1 DEF NextSecretDeletion, ledger, LedgerTypeOK, SecretHolders, Keep
  <1>7. CASE EraseSecret
    <2>1. vault' \in [Conn -> Secrets]
      BY <1>0, <1>7, <1>k DEF EraseSecret, LedgerTypeOK, Secrets
    <2> QED BY <1>0, <1>7, <1>e, <2>1 DEF EraseSecret, LedgerTypeOK, service, Keep
  <1>8. CASE EraseFails
    <2>1. LedgerTypeOK' /\ wd' = wd
      BY <1>0, <1>8, <1>k, FailTypes DEF EraseFails, FailConnection
    <2> QED BY <1>0, <1>8, <1>e, <1>r, <2>1 DEF EraseFails, Fault, SecretHolders, Keep
  <1>9. CASE FinishRemove
    <2>1. LedgerTypeOK' /\ wd' = wd
      BY <1>0, <1>9, <1>k, FinishTypes DEF FinishRemove, FinishRemoved, ledger, LedgerTypeOK
    <2> QED BY <1>0, <1>9, <1>e, <1>r, <2>1 DEF FinishRemove, Stop, SecretHolders, Keep
  <1>10. CASE Build
    <2>1. wk' \in Workers
      BY <1>0, <1>10 DEF Build, Workers
    <2>2. builds' \in 0..(ImageLimit + 1)
      <3>1. Cardinality(Permits) \in Nat
        BY FS_CardinalityType DEF PermitInv
      <3>2. installs \in 0..ImageLimit
        BY <1>0 DEF LedgerTypeOK
      <3> QED BY <1>10, <3>1, <3>2 DEF Build, PermitInv
    <2> QED BY <1>0, <1>10, <1>e, <2>1, <2>2 DEF Build, ledger, LedgerTypeOK, Keep
  <1>11. ASSUME NEW problem, VerifyFails(problem) PROVE Types'
    <2>1. LedgerTypeOK' /\ wd' = wd
      BY <1>0, <1>11, <1>k, FailTypes DEF VerifyFails, FailConnection, Answering
    <2> QED BY <1>0, <1>11, <1>e, <1>r, <2>1 DEF VerifyFails, Keep
  <1>12. ASSUME NEW image \in BOOLEAN, VerifyAnswers(image) PROVE Types'
    <2> DEFINE a == login[wk.c][op[wk.c].key]
               m == host[a]
    <2>1. wk.c \in Conn /\ op[wk.c].key \in vault[wk.c]
      BY <1>12, <1>k DEF VerifyAnswers, Answering
    <2>2. a \in Account /\ m \in Machine
      BY <1>0, <2>1 DEF LedgerTypeOK, Secrets, Logins, Hosts
    <2> HIDE DEF a, m
    <2>3. \/ FailConnection(wk.c, "account_changed") /\ wk' = Resting /\ UNCHANGED <<guard, stopped>>
          \/ FailConnection(wk.c, "resource_changed") /\ wk' = Resting /\ UNCHANGED <<guard, stopped>>
          \/ Stop("resource") /\ UNCHANGED ledger
          \/ FinishVerified(wk.c, a, m, image) /\ wk' = Resting /\ UNCHANGED <<guard, stopped>>
      BY <1>12 DEF VerifyAnswers, a, m
    <2>4. UNCHANGED <<sub, login, host, builds, faults>>
      BY <1>12 DEF VerifyAnswers
    <2>5. LedgerTypeOK' /\ wd' = wd
      BY <1>0, <2>1, <2>2, <2>3, FailTypes, FinishTypes
         DEF FailConnection, FinishVerified, ledger, LedgerTypeOK
    <2> QED BY <1>0, <1>e, <1>r, <2>3, <2>4, <2>5 DEF Stop, SecretHolders, Keep
  <1>13. CASE DeleteSecret
    <2>1. wk' \in Workers
      BY <1>0, <1>13 DEF DeleteSecret, Workers
    <2>2. vault' \in [Conn -> Secrets]
      BY <1>0, <1>13, <1>k DEF DeleteSecret, LedgerTypeOK, Secrets
    <2> QED BY <1>0, <1>13, <1>e, <2>1, <2>2 DEF DeleteSecret, LedgerTypeOK, Keep
  <1>14. CASE DeleteFails
    BY <1>0, <1>14, <1>e, <1>r DEF DeleteFails, Fault, ledger, LedgerTypeOK, SecretHolders, Keep
  <1>15. CASE CompleteSecretDeletion
    <2>1. doomed' \in [Conn -> Generations] /\ gens' \in [Conn -> Generations]
      BY <1>0, <1>15, <1>k DEF CompleteSecretDeletion, LedgerTypeOK, Generations
    <2> QED BY <1>0, <1>15, <1>e, <1>r, <2>1 DEF CompleteSecretDeletion, LedgerTypeOK, SecretHolders, Keep
  <1> QED BY <1>1, <1>2, <1>3, <1>4, <1>5, <1>6, <1>7, <1>8, <1>9, <1>10, <1>11, <1>12, <1>13,
             <1>14, <1>15 DEF WorkerNext

\* A bounded set of numbers that is not empty has a greatest element.
LEMMA Greatest ==
    ASSUME NEW n \in Nat, NEW S, S \subseteq 1..n, S # {}
    PROVE  \E x \in S : \A y \in S : y <= x
  <1> DEFINE T == {t \in Nat : n - t \in S}
  <1>1. \A x \in S : x \in Nat /\ n - x \in Nat /\ n - (n - x) = x
    OBVIOUS
  <1>2. T \subseteq Nat /\ T # {}
    BY <1>1
  <1>3. PICK t \in T : \A u \in T : ~(<<u, t>> \in OpToRel(<, Nat))
    BY <1>2, WFMin, NatLessThanWellFounded
  <1>4. \A u \in T : ~(u < t)
    BY <1>3 DEF OpToRel
  <1>5. n - t \in S /\ t \in Nat
    BY <1>3
  <1>6. \A y \in S : y <= n - t
    <2> TAKE y \in S
    <2>1. y \in Nat /\ n - y \in T
      BY <1>1
    <2>2. ~(n - y < t)
      BY <1>4, <2>1
    <2> QED BY <1>1, <1>5, <2>1, <2>2
  <1> QED BY <1>5, <1>6

\* LastWatchdog finds the newest operation on the machine that has not failed.
LEMMA LastIsNewest ==
    ASSUME wd \in Seq(WatchdogOperation), NEW m
    PROVE  LET i == LastWatchdog(m)
           IN  IF i = 0 THEN \A j \in DOMAIN wd : wd[j].m = m => wd[j].status = "failed"
               ELSE /\ i \in DOMAIN wd /\ wd[i].m = m /\ wd[i].status # "failed"
                    /\ \A j \in DOMAIN wd : j > i /\ wd[j].m = m => wd[j].status = "failed"
  <1> DEFINE live == {i \in DOMAIN wd : wd[i].m = m /\ wd[i].status # "failed"}
             i == LastWatchdog(m)
  <1>0. DOMAIN wd = 1..Len(wd) /\ Len(wd) \in Nat
    OBVIOUS
  <1>1. CASE live = {}
    <2>1. i = 0
      BY <1>1 DEF LastWatchdog
    <2> QED BY <1>1, <2>1
  <1>2. CASE live # {}
    <2>1. \E x \in live : \A y \in live : y <= x
      BY <1>0, <1>2, Greatest
    <2>2. i = CHOOSE x \in live : \A y \in live : y <= x
      BY <1>2 DEF LastWatchdog
    <2>3. i \in live /\ \A y \in live : y <= i
      BY <2>1, <2>2
    <2>4. i # 0 /\ i \in 1..Len(wd)
      BY <1>0, <2>3
    <2> QED BY <1>0, <2>3, <2>4
  <1> QED BY <1>1, <1>2

\* Replacing one entry of a sequence keeps its length and the other entries.
LEMMA SetEntry ==
    ASSUME NEW T, NEW s \in Seq(T), NEW i \in DOMAIN s, NEW x \in T
    PROVE  LET t == [s EXCEPT ![i] = x]
           IN  /\ t \in Seq(T) /\ Len(t) = Len(s) /\ DOMAIN t = DOMAIN s
               /\ t[i] = x /\ \A j \in DOMAIN s : j # i => t[j] = s[j]
  OBVIOUS

\* A new watchdog operation is appended, behind an unknown one that it supersedes.
LEMMA AcceptedWatchdog ==
    ASSUME Types, NEW c \in Conn, NEW act \in {"install_host_watchdog", "remove_host_watchdog"},
           AcceptWatchdog(c, act)
    PROVE  LET last == LastWatchdog(MachineOf(c))
               n == Len(wd) + 1
           IN  /\ MachineOf(c) \in Machine /\ n \in 1..MaxWatch /\ DOMAIN wd' = 1..n
               /\ wd' \in Seq(WatchdogOperation) /\ Len(wd') = n
               /\ wd'[n] = Submitted(c, act)
               /\ \A i \in DOMAIN wd :
                    /\ i \in 1..Len(wd)
                    /\ wd'[i] = IF i = last /\ wd[i].status = "unknown"
                                THEN [wd[i] EXCEPT !.stage = "done"] ELSE wd[i]
  <1> DEFINE m == MachineOf(c)
             last == LastWatchdog(m)
             n == Len(wd) + 1
             s == IF last # 0 /\ wd[last].status = "unknown"
                  THEN [wd EXCEPT ![last].stage = "done"] ELSE wd
  <1>0. wd \in Seq(WatchdogOperation) /\ Len(wd) \in Nat /\ DOMAIN wd = 1..Len(wd)
    BY DEF Types
  <1>1. conn[c] \in Connection /\ conn[c].rev \in Revs
    BY DEF Types, LedgerTypeOK, Connection
  <1>2. m \in Machine
    <2>1. conn[c].account # None /\ bound[conn[c].account] # None /\ m = bound[conn[c].account]
      BY DEF AcceptWatchdog, HasTarget, MachineOf
    <2>2. conn[c].account \in Account
      BY <1>1, <2>1 DEF Connection
    <2> QED BY <2>1, <2>2 DEF Types, LedgerTypeOK
  <1>3. Submitted(c, act) \in WatchdogOperation
    BY <1>1, <1>2 DEF Submitted, WatchdogOperation
  <1>4. n \in 1..MaxWatch
    BY <1>0, Bounds DEF AcceptWatchdog
  <1>5. CASE last # 0 /\ last \in DOMAIN wd /\ wd[last].status = "unknown"
    <2>1. wd[last] \in WatchdogOperation
      BY <1>0, <1>5
    <2>2. [wd[last] EXCEPT !.stage = "done"] \in WatchdogOperation
      BY <2>1 DEF WatchdogOperation
    <2> DEFINE t == [wd EXCEPT ![last] = [wd[last] EXCEPT !.stage = "done"]]
    <2>3. /\ t \in Seq(WatchdogOperation) /\ Len(t) = Len(wd) /\ DOMAIN t = DOMAIN wd
          /\ t[last] = [wd[last] EXCEPT !.stage = "done"]
          /\ \A j \in DOMAIN wd : j # last => t[j] = wd[j]
      BY <1>0, <1>5, <2>2, SetEntry
    <2> HIDE DEF t
    <2>4. wd' = Append(t, Submitted(c, act))
      BY <1>5 DEF AcceptWatchdog, t
    <2>5. /\ wd' \in Seq(WatchdogOperation) /\ Len(wd') = n /\ DOMAIN wd' = 1..n
          /\ wd'[n] = Submitted(c, act) /\ \A i \in 1..Len(wd) : wd'[i] = t[i]
      BY <1>0, <1>3, <2>3, <2>4
    <2> QED BY <1>0, <1>2, <1>4, <1>5, <2>3, <2>5
  <1>6. CASE ~(last # 0 /\ wd[last].status = "unknown")
    <2>1. wd' = Append(wd, Submitted(c, act))
      BY <1>6 DEF AcceptWatchdog
    <2>2. /\ wd' \in Seq(WatchdogOperation) /\ Len(wd') = n /\ DOMAIN wd' = 1..n
          /\ wd'[n] = Submitted(c, act) /\ \A i \in 1..Len(wd) : wd'[i] = wd[i]
      BY <1>0, <1>3, <2>1
    <2> QED BY <1>0, <1>2, <1>4, <1>6, <2>2
  <1>7. last = 0 \/ last \in DOMAIN wd
    BY <1>0, LastIsNewest
  <1> QED BY <1>5, <1>6, <1>7

\* A step of the watchdog's worker rewrites one operation.
LEMMA SetTypes ==
    ASSUME Types, NEW i \in DOMAIN wd, NEW x \in WatchdogOperation, SetWatchdog(i, x)
    PROVE  /\ LedgerTypeOK' /\ wd' \in Seq(WatchdogOperation) /\ Len(wd') = Len(wd)
           /\ DOMAIN wd' = DOMAIN wd
           /\ wd'[i] = x /\ \A j \in DOMAIN wd : j # i => wd'[j] = wd[j]
  <1>1. wd \in Seq(WatchdogOperation)
    BY DEF Types
  <1>2. LedgerTypeOK'
    BY DEF SetWatchdog, Types, LedgerTypeOK
  <1> QED BY <1>1, <1>2, SetEntry DEF SetWatchdog

\* What a step may write into an operation is an operation.
LEMMA OperationFields ==
    ASSUME Types, NEW i \in DOMAIN wd, wd[i].sent <= 1
    PROVE  /\ wd[i] \in WatchdogOperation
           /\ [wd[i] EXCEPT !.stage = "applying", !.status = "unknown", !.lease = TRUE]
                \in WatchdogOperation
           /\ [wd[i] EXCEPT !.stage = "done", !.status = "failed"] \in WatchdogOperation
           /\ [wd[i] EXCEPT !.status = "succeeded", !.stage = "done"] \in WatchdogOperation
           /\ [wd[i] EXCEPT !.lease = FALSE] \in WatchdogOperation
           /\ [wd[i] EXCEPT !.sent = @ + 1] \in WatchdogOperation
           /\ i \in 1..MaxWatch
  <1>1. wd[i] \in WatchdogOperation /\ i \in 1..MaxWatch
    BY Bounds DEF Types
  <1>2. wd[i].sent + 1 \in 0..2
    BY <1>1 DEF WatchdogOperation
  <1>3. [wd[i] EXCEPT !.sent = @ + 1] \in WatchdogOperation
    BY <1>1, <1>2 DEF WatchdogOperation
  <1>4. /\ [wd[i] EXCEPT !.stage = "applying", !.status = "unknown", !.lease = TRUE]
             \in WatchdogOperation
        /\ [wd[i] EXCEPT !.stage = "done", !.status = "failed"] \in WatchdogOperation
    BY <1>1 DEF WatchdogOperation
  <1>5. /\ [wd[i] EXCEPT !.status = "succeeded", !.stage = "done"] \in WatchdogOperation
        /\ [wd[i] EXCEPT !.lease = FALSE] \in WatchdogOperation
    BY <1>1 DEF WatchdogOperation
  <1> QED BY <1>1, <1>3, <1>4, <1>5

\* Requests for the watchdog, its worker, the host's scripts and leases keep the types.
LEMMA WatchdogTypes ==
    ASSUME Types, ScriptInv, WatchdogNext
    PROVE  Types'
  <1> USE Bounds DEF Types
  <1>0. ServiceTypeOK /\ LedgerTypeOK /\ ww \in Watchers
    OBVIOUS
  <1>s. service' = service => ServiceTypeOK'
    BY DEF service, ServiceTypeOK
  <1>o. \A i \in DOMAIN wd : wd[i].sent <= 1
    BY DEF ScriptInv, OpScript, WwScript
  <1>w. Watching \in Watchers
    BY DEF Watching, Watchers
  <1>i. ww.pc # "idle" => ww.i \in DOMAIN wd
    BY DEF ScriptInv, OpScript, WwScript
  <1>1. ASSUME NEW c \in Conn, NEW act \in {"install_host_watchdog", "remove_host_watchdog"},
               AcceptWatchdog(c, act)
        PROVE  Types'
    <2>1. wd' \in Seq(WatchdogOperation) /\ Len(wd') <= MaxWatch
      BY <1>1, AcceptedWatchdog
    <2> QED BY <1>0, <1>1, <1>s, <2>1 DEF AcceptWatchdog, LedgerTypeOK, watchdog
  <1>2. ASSUME NEW i \in DOMAIN wd, ClaimWatchdog(i) PROVE Types'
    <2>1. LedgerTypeOK' /\ wd' \in Seq(WatchdogOperation) /\ Len(wd') = Len(wd)
      BY <1>2, <1>o, SetTypes, OperationFields DEF ClaimWatchdog
    <2>2. i \in 0..MaxWatch
      OBVIOUS
    <2>3. [pc |-> "apply", i |-> i, ok |-> FALSE] \in Watchers
      BY <2>2 DEF Watchers
    <2>4. ww' \in Watchers
      BY <1>0, <1>2, <2>3 DEF ClaimWatchdog
    <2> QED BY <1>0, <1>2, <1>s, <2>1, <2>4 DEF ClaimWatchdog
  <1>3. ASSUME NEW i \in DOMAIN wd, ObserveWatchdog(i) PROVE Types'
    <2>0. i \in 0..MaxWatch
      OBVIOUS
    <2>1. ww' \in Watchers
      BY <1>3, <2>0 DEF ObserveWatchdog, Watchers
    <2> QED BY <1>0, <1>3, <1>s, <2>1 DEF ObserveWatchdog, ledger, LedgerTypeOK
  <1>4. CASE ApplyWatchdog
    <2>1. LedgerTypeOK' /\ wd' \in Seq(WatchdogOperation) /\ Len(wd') = Len(wd)
      BY <1>0, <1>4, <1>i, <1>o, SetTypes, OperationFields DEF ApplyWatchdog, ledger, LedgerTypeOK
    <2>2. ww' \in Watchers
      BY <1>0, <1>4 DEF ApplyWatchdog, Watchers
    <2>3. wd[ww.i].m \in Machine
      BY <1>4, <1>i, <1>o, OperationFields DEF ApplyWatchdog, WatchdogOperation
    <2>4. watched' \in SUBSET Machine
      BY <1>4, <2>3 DEF ApplyWatchdog, Landed
    <2> QED BY <1>0, <1>4, <1>s, <2>1, <2>2, <2>4 DEF ApplyWatchdog
  <1>5. CASE ReleaseWatchdog
    <2>1. LedgerTypeOK' /\ wd' \in Seq(WatchdogOperation) /\ Len(wd') = Len(wd)
      BY <1>0, <1>5, <1>i, <1>o, SetTypes, OperationFields DEF ReleaseWatchdog
    <2>2. ww' \in Watchers
      BY <1>0, <1>5, <1>w DEF ReleaseWatchdog, Watchers
    <2> QED BY <1>0, <1>5, <1>s, <2>1, <2>2 DEF ReleaseWatchdog
  <1>6. CASE FinishWatchdog
    <2>1. LedgerTypeOK' /\ wd' \in Seq(WatchdogOperation) /\ Len(wd') = Len(wd)
      BY <1>0, <1>6, <1>i, <1>o, SetTypes, OperationFields DEF FinishWatchdog
    <2> QED BY <1>0, <1>6, <1>s, <1>w, <2>1 DEF FinishWatchdog
  <1>7. ASSUME NEW i \in DOMAIN wd, LateScript(i) PROVE Types'
    <2>1. wd[i].m \in Machine
      BY <1>o, OperationFields DEF WatchdogOperation
    <2>2. watched' \in SUBSET Machine /\ late' \in SUBSET (1..MaxWatch)
      BY <1>0, <1>7, <2>1 DEF LateScript, Landed
    <2>3. LedgerTypeOK' /\ UNCHANGED <<wd, ww>>
      BY <1>0, <1>7 DEF LateScript, ledger, LedgerTypeOK
    <2> QED BY <1>0, <1>7, <1>s, <2>2, <2>3 DEF LateScript
  <1>9. CASE CutOffWatchdog
    <2>1. ww.i \in DOMAIN wd /\ [wd[ww.i] EXCEPT !.sent = @ + 1] \in WatchdogOperation
          /\ ww.i \in 1..MaxWatch
      BY <1>9, <1>i, <1>o, OperationFields DEF CutOffWatchdog, CutOff
    <2>2. LedgerTypeOK' /\ wd' \in Seq(WatchdogOperation) /\ Len(wd') = Len(wd)
      BY <1>0, <1>9, <2>1, SetTypes DEF CutOffWatchdog, CutOff
    <2>3. ww' \in Watchers /\ late' \in SUBSET (1..MaxWatch)
      BY <1>0, <1>9, <2>1 DEF CutOffWatchdog, CutOff, Watchers
    <2>4. ServiceTypeOK'
      BY <1>0, <1>9 DEF CutOffWatchdog, Fault, ServiceTypeOK
    <2> QED BY <1>0, <1>9, <2>2, <2>3, <2>4 DEF CutOffWatchdog
  <1>8. ASSUME NEW i \in DOMAIN wd, LeaseEnds(i) PROVE Types'
    <2>1. LedgerTypeOK' /\ wd' \in Seq(WatchdogOperation) /\ Len(wd') = Len(wd)
      BY <1>8, <1>o, SetTypes, OperationFields DEF LeaseEnds
    <2> QED BY <1>0, <1>8, <1>s, <2>1 DEF LeaseEnds, watchdog
  <1> QED BY <1>1, <1>2, <1>3, <1>4, <1>5, <1>6, <1>7, <1>8, <1>9
          DEF WatchdogNext, SubmitWatchdog, RunWatchdog

\* Admitted work, an expiring token, a machine that moves, a crash and a restart.
LEMMA WorldTypes ==
    ASSUME Types, LockInv, ScriptInv,
           \/ WorkNext /\ UNCHANGED <<service, watchdog>>
           \/ (\E c \in Conn : TokenExpires(c)) /\ UNCHANGED watchdog
           \/ (\E a \in Account : MachineMoves(a)) /\ UNCHANGED watchdog
           \/ Crash
           \/ Restart
    PROVE  Types'
  <1> USE Bounds DEF Types
  <1>0. LedgerTypeOK /\ ServiceTypeOK
    OBVIOUS
  <1>r. Resting \in Workers /\ NoSub \in Submission /\ Watching \in Watchers
    BY DEF Resting, Workers, NoSub, Submission, Watching, Watchers
  <1>1. CASE WorkNext /\ UNCHANGED <<service, watchdog>>
    <2>1. PICK c \in Conn : (\E r \in 1..MaxRev : AdmitWork(c, r)) \/ EndWork(c) \/ RetryWork(c)
      BY <1>1 DEF WorkNext
    <2>2. work[c] \in [state : {"none", "active", "ended"}, rev : Revs]
      BY <1>0 DEF LedgerTypeOK
    <2>3. work' \in [Conn -> [state : {"none", "active", "ended"}, rev : Revs]]
      <3>1. \A r \in 1..MaxRev : r \in Revs
        BY DEF Revs
      <3>2. CASE \E r \in 1..MaxRev : AdmitWork(c, r)
        BY <1>0, <3>1, <3>2 DEF AdmitWork, LedgerTypeOK
      <3>3. CASE EndWork(c) \/ RetryWork(c)
        BY <1>0, <2>2, <3>3 DEF EndWork, RetryWork, LedgerTypeOK
      <3> QED BY <2>1, <3>2, <3>3
    <2>4. UNCHANGED <<conn, op, gens, doomed, vault, sel, bound, installs, wd>>
      BY <2>1 DEF AdmitWork, EndWork, RetryWork
    <2> QED BY <1>0, <1>1, <2>3, <2>4 DEF LedgerTypeOK, service, watchdog, ServiceTypeOK
  <1>2. ASSUME NEW c \in Conn, TokenExpires(c), UNCHANGED watchdog PROVE Types'
    <2>1. LedgerTypeOK'
      BY <1>0, <1>2, OperationTypes DEF TokenExpires, LedgerTypeOK
    <2> QED BY <1>0, <1>2, <2>1 DEF TokenExpires, Fault, ServiceTypeOK, watchdog
  <1>3. ASSUME NEW a \in Account, MachineMoves(a), UNCHANGED watchdog PROVE Types'
    BY <1>0, <1>3 DEF MachineMoves, Fault, ServiceTypeOK, Hosts, ledger, LedgerTypeOK, watchdog
  <1>4. ASSUME UNCHANGED <<ledger, late>> \/ CutOff
        PROVE  LedgerTypeOK' /\ wd' \in Seq(WatchdogOperation) /\ Len(wd') = Len(wd)
               /\ late' \in SUBSET (1..MaxWatch)
    <2>1. CASE UNCHANGED <<ledger, late>>
      BY <1>0, <2>1 DEF ledger, LedgerTypeOK
    <2>2. CASE CutOff
      <3>1. ww.i \in DOMAIN wd /\ wd[ww.i].sent <= 1
        BY <2>2 DEF CutOff, ScriptInv, OpScript, WwScript
      <3>2. [wd[ww.i] EXCEPT !.sent = @ + 1] \in WatchdogOperation /\ ww.i \in 1..MaxWatch
        BY <3>1, OperationFields
      <3>3. late' \in SUBSET (1..MaxWatch)
        BY <2>2, <3>2 DEF CutOff
      <3> QED BY <2>2, <3>1, <3>2, <3>3, SetTypes DEF CutOff
    <2> QED BY <1>4, <2>1, <2>2
  <1>5. CASE Crash
    <2>1. ServiceTypeOK'
      BY <1>0, <1>5, <1>r DEF Crash, Fault, ServiceTypeOK, SecretHolders, Workers
    <2> QED BY <1>4, <1>5, <1>r, <2>1 DEF Crash
  <1>6. CASE Restart
    <2>1. ServiceTypeOK'
      BY <1>0, <1>6, <1>r DEF Restart, ServiceTypeOK, SecretHolders, Workers
    <2> QED BY <1>4, <1>6, <1>r, <2>1 DEF Restart
  <1> QED BY <1>1, <1>2, <1>3, <1>5, <1>6

\* No step takes the store, the service or the hosts out of their types.
LEMMA TypeStep == IInv /\ [Next]_vars => Types'
  <1> SUFFICES ASSUME IInv, [Next]_vars PROVE Types'
    OBVIOUS
  <1>0. Types /\ LockInv /\ RowInv /\ PermitInv /\ ScriptInv
    BY DEF IInv
  <1>1. CASE UNCHANGED vars
    BY <1>0, <1>1 DEF vars, ledger, service, watchdog, Types, LedgerTypeOK, ServiceTypeOK
  <1> QED BY <1>0, <1>1, SubmitTypes, WorkerTypes, WatchdogTypes, WorldTypes DEF Next

-----------------------------------------------------------------------------
(* The row of a connection.                                                *)

RowOK(c) == KeyInv(c) /\ VaultInv(c) /\ SelInv(c)
Row(c) == <<conn[c], op[c], gens[c], doomed[c], vault[c], sel[c], login[c], work[c]>>

\* A row that no step touches stays as it was.
LEMMA RowSame ==
    ASSUME NEW d, RowOK(d), Row(d)' = Row(d)
    PROVE  RowOK(d)'
  <1>1. /\ conn'[d] = conn[d] /\ op'[d] = op[d] /\ gens'[d] = gens[d]
        /\ doomed'[d] = doomed[d] /\ vault'[d] = vault[d] /\ sel'[d] = sel[d]
        /\ login'[d] = login[d] /\ work'[d] = work[d]
    BY DEF Row
  <1>3. KeyInv(d)'
    BY <1>1 DEF RowOK, KeyInv
  <1>4. VaultInv(d)'
    BY <1>1 DEF RowOK, VaultInv, Removing
  <1>5. SelInv(d)'
    BY <1>1 DEF RowOK, SelInv, Removing, ProfileOwned
  <1> QED BY <1>3, <1>4, <1>5 DEF RowOK

\* What a transaction on connection c leaves alone keeps the other rows as they were.
LEMMA RowStep ==
    ASSUME RowInv, NEW c, RowOK(c)', \A d \in Conn \ {c} : Row(d)' = Row(d)
    PROVE  RowInv'
  <1> SUFFICES ASSUME NEW d \in Conn, d # c PROVE RowOK(d)'
    BY DEF RowInv, RowOK
  <1> QED BY RowSame DEF RowInv, RowOK

\* A step that touches no row keeps them all.
LEMMA QuietRow ==
    ASSUME RowInv, UNCHANGED <<conn, op, gens, doomed, vault, sel, login, work>>
    PROVE  RowInv'
  <1> SUFFICES ASSUME NEW d \in Conn PROVE RowOK(d)'
    BY DEF RowInv, RowOK
  <1> QED BY RowSame DEF RowInv, RowOK, Row

\* The row's fields and their ranges.
LEMMA RowTypes ==
    ASSUME Types, NEW c \in Conn
    PROVE  /\ conn[c] \in Connection /\ op[c] \in Operation
           /\ conn[c].rev \in Nat /\ conn[c].cred \in Nat /\ conn[c].profile \in Nat
           /\ op[c].key \in Nat /\ conn[c].rev <= MaxRev
           /\ conn[c].pending \in BOOLEAN
           /\ gens[c] \subseteq 1..MaxRev /\ vault[c] \subseteq 1..MaxRev
           /\ DOMAIN sel[c] = 1..MaxRev /\ \A r \in 1..MaxRev : sel[c][r] \in Nat
           /\ DOMAIN login[c] = 1..MaxRev
  <1>1. conn[c] \in Connection /\ op[c] \in Operation
    BY DEF Types, LedgerTypeOK
  <1>2. /\ conn[c].rev \in Revs /\ conn[c].cred \in Revs /\ conn[c].profile \in Revs
        /\ conn[c].pending \in BOOLEAN
    BY <1>1 DEF Connection
  <1>3. op[c].key \in Revs
    BY <1>1 DEF Operation
  <1>4. gens[c] \subseteq 1..MaxRev /\ vault[c] \subseteq 1..MaxRev
    BY DEF Types, LedgerTypeOK, Generations, Secrets
  <1>5. DOMAIN sel[c] = 1..MaxRev /\ \A r \in 1..MaxRev : sel[c][r] \in Revs
    BY DEF Types, LedgerTypeOK, Selections
  <1>6. DOMAIN login[c] = 1..MaxRev
    BY DEF Types, ServiceTypeOK, Logins
  <1> QED BY <1>1, <1>2, <1>3, <1>4, <1>5, <1>6, Bounds DEF Revs

\* An accepted request reserves a fresh generation or works on the active one; it
\* publishes nothing but the selection it carries over.
LEMMA AcceptRow ==
    ASSUME Types, RowInv, NEW c \in Conn, NEW act \in Actions, AcceptConnection(c, act),
           \/ login' = login
           \/ \E account : login' = [login EXCEPT ![c][conn[c].rev + 1] = account]
    PROVE  RowInv'
  <1> DEFINE rev == conn[c].rev + 1
             key == IF act \in WithSecret THEN rev ELSE conn[c].cred
  <1>0. KeyInv(c) /\ VaultInv(c) /\ SelInv(c)
    BY DEF RowInv
  <1>1. \A d \in Conn \ {c} : Row(d)' = Row(d)
    <2> SUFFICES ASSUME NEW d \in Conn, d # c PROVE Row(d)' = Row(d)
      OBVIOUS
    <2>1. conn'[d] = conn[d] /\ op'[d] = op[d] /\ gens'[d] = gens[d] /\ sel'[d] = sel[d]
      BY DEF AcceptConnection, Types, LedgerTypeOK
    <2>2. login'[d] = login[d]
      BY DEF Types, ServiceTypeOK
    <2> QED BY <2>1, <2>2 DEF AcceptConnection, Row
  <1>2. /\ conn[c].rev \in Nat /\ conn[c].cred \in Nat /\ conn[c].profile \in Nat
        /\ rev \in 1..MaxRev /\ ~conn[c].pending /\ conn[c].pending \in BOOLEAN
    <2>1. conn[c].rev < MaxRev /\ (act = "create" => conn[c].new = "absent")
          /\ (act # "create" => ~conn[c].pending)
      BY DEF AcceptConnection, Acceptable
    <2>2. ~conn[c].pending
      BY <1>0, <2>1 DEF KeyInv
    <2> QED BY <2>1, <2>2, RowTypes, Bounds
  <1>3. /\ conn'[c].rev = rev /\ conn'[c].cred = conn[c].cred
        /\ conn'[c].account = conn[c].account
        /\ conn'[c].pending = (act # "configure")
        /\ conn'[c].new # "absent"
        /\ conn'[c].new = "removed" => conn[c].new = "removed"
    BY <1>2, RowTypes DEF AcceptConnection, Acceptable, Connection, Types, LedgerTypeOK
  <1>4. /\ act \notin {"check", "configure"} => conn'[c].profile = 0
        /\ act = "check" => conn'[c].profile = conn[c].profile
        /\ act = "configure" => conn'[c].profile = IF conn[c].profile # 0 THEN rev ELSE 0
        /\ act \in {"check", "configure"} =>
             conn'[c].auth = conn[c].auth /\ conn'[c].new = conn[c].new
    BY <1>2, RowTypes DEF AcceptConnection, Republished, Connection, Types, LedgerTypeOK, WithSecret
  <1>5. /\ op'[c].act = act /\ op'[c].key = key
        /\ op'[c].stage = "waiting_secret" => act \in WithSecret
        /\ gens'[c] = IF act \in WithSecret THEN gens[c] \cup {key} ELSE gens[c]
        /\ doomed' = doomed /\ vault' = vault /\ work' = work
    BY DEF AcceptConnection, Types, LedgerTypeOK, Operation
  <1>6. /\ \A r \in 1..MaxRev : r # rev => sel'[c][r] = sel[c][r]
        /\ sel'[c][rev] = IF act = "configure" /\ conn[c].profile # 0 THEN key ELSE 0
    BY <1>2, RowTypes DEF AcceptConnection, Types, LedgerTypeOK, Republished
  <1>7. \A r \in 1..MaxRev : r # rev => login'[c][r] = login[c][r]
    BY <1>2, RowTypes DEF Types, ServiceTypeOK, Logins
  <1>8. rev \notin gens[c] /\ 0 \notin gens[c]
    BY <1>0, <1>2 DEF KeyInv
  <1>9. act = "remove" => work[c].state # "active"
    BY DEF AcceptConnection, Acceptable, RemovalAllowed
  <1> HIDE DEF rev, key
  <1>10. KeyInv(c)'
    BY <1>0, <1>2, <1>3, <1>4, <1>5, <1>8 DEF KeyInv, rev, key
  <1>11. VaultInv(c)'
    BY <1>0, <1>2, <1>3, <1>5 DEF VaultInv, Removing, key
  <1>12. SelInv(c)'
    <2>1. conn'[c].profile # 0 =>
            /\ conn'[c].auth = "verified" /\ conn'[c].new = "enabled"
            /\ conn'[c].cred # 0 /\ sel'[c][conn'[c].profile] = conn'[c].cred
      <3>1. CASE act = "check"
        <4>1. conn[c].profile # 0 => conn[c].profile \in 1..MaxRev /\ conn[c].profile # rev
          BY <1>0, <1>2, Bounds DEF KeyInv, rev
        <4> QED BY <1>0, <1>3, <1>4, <1>6, <3>1, <4>1 DEF SelInv
      <3>2. CASE act = "configure"
        BY <1>0, <1>2, <1>3, <1>4, <1>6, <3>2 DEF SelInv, key, WithSecret
      <3> QED BY <1>4, <3>1, <3>2
    <2>2. ASSUME NEW r \in 1..MaxRev, sel'[c][r] # 0
          PROVE  /\ r <= conn'[c].rev /\ sel'[c][r] <= conn'[c].rev
                 /\ conn'[c].account # None /\ login'[c][sel'[c][r]] = conn'[c].account
      <3>1. CASE r = rev
        <4>1. sel'[c][r] = conn[c].cred /\ conn[c].cred # 0 /\ conn[c].cred <= conn[c].rev
          BY <1>0, <1>6, <2>2, <3>1 DEF KeyInv, key, WithSecret
        <4>2. conn[c].cred \in 1..MaxRev /\ conn[c].cred # rev
          BY <1>2, <4>1, Bounds DEF rev
        <4> QED BY <1>0, <1>2, <1>3, <1>7, <3>1, <4>1, <4>2 DEF SelInv, rev
      <3>2. CASE r # rev
        <4>1. sel'[c][r] = sel[c][r] /\ sel[c][r] # 0 /\ sel[c][r] \in Nat
          BY <1>6, <2>2, <3>2, RowTypes
        <4>2. /\ r <= conn[c].rev /\ sel[c][r] <= conn[c].rev /\ conn[c].account # None
              /\ login[c][sel[c][r]] = conn[c].account
          BY <1>0, <4>1 DEF SelInv
        <4>3. sel[c][r] \in 1..MaxRev /\ sel[c][r] # rev
          BY <1>2, <4>1, <4>2, Bounds DEF rev
        <4> QED BY <1>2, <1>3, <1>7, <4>1, <4>2, <4>3 DEF rev
      <3> QED BY <3>1, <3>2
    <2>3. conn'[c].cred # 0 => /\ conn'[c].account # None
                               /\ login'[c][conn'[c].cred] = conn'[c].account
      <3>1. conn[c].cred # 0 => conn[c].cred \in 1..MaxRev /\ conn[c].cred # rev
        BY <1>0, <1>2, Bounds DEF KeyInv, rev
      <3> QED BY <1>0, <1>3, <1>7, <3>1 DEF SelInv
    <2>4. work'[c].state # "none" =>
            /\ work'[c].rev \in 1..MaxRev /\ sel'[c][work'[c].rev] # 0
            /\ conn'[c].pending => work'[c].rev < conn'[c].rev
      BY <1>0, <1>2, <1>3, <1>5, <1>6 DEF SelInv, rev
    <2>5. work'[c].state = "active" => ProfileOwned(c)'
      BY <1>0, <1>3, <1>5, <1>9 DEF SelInv, ProfileOwned, Removing
    <2> QED BY <2>1, <2>2, <2>3, <2>4, <2>5 DEF SelInv
  <1> QED BY <1>1, <1>10, <1>11, <1>12, RowStep DEF RowOK

\* A step that moves the operation on and leaves its action and generation alone.
LEMMA OperationRow ==
    ASSUME Types, RowInv, NEW c \in Conn,
           op'[c].act = op[c].act, op'[c].key = op[c].key,
           op'[c].stage \in {op[c].stage, "ready", "installing"},
           \A d \in Conn \ {c} : op'[d] = op[d],
           UNCHANGED <<conn, gens, doomed, vault, sel, login, work>>
    PROVE  RowInv'
  <1>0. KeyInv(c) /\ VaultInv(c) /\ SelInv(c)
    BY DEF RowInv
  <1>1. KeyInv(c)'
    BY <1>0 DEF KeyInv
  <1>2. VaultInv(c)'
    BY <1>0 DEF VaultInv, Removing
  <1>3. SelInv(c)'
    BY <1>0 DEF SelInv, ProfileOwned, Removing
  <1> QED BY <1>1, <1>2, <1>3, RowStep DEF RowOK, Row

\* A failed operation frees the connection; the generation it had reserved is due for
\* deletion, whether or not its bytes have landed.
LEMMA FreedRow ==
    ASSUME Types, RowInv, NEW c \in Conn, conn[c].pending, op[c].act # "remove",
           NEW auth, NEW profile,
           profile = 0 \/ (profile = conn[c].profile /\ auth = "verified"),
           conn' = [conn EXCEPT ![c].auth = auth, ![c].profile = profile, ![c].pending = FALSE],
           doomed' = [doomed EXCEPT ![c] =
              IF op[c].key \notin {0, conn[c].cred} THEN @ \cup {op[c].key} ELSE @],
           vault'[c] = vault[c] \/ (vault'[c] = vault[c] \cup {op[c].key} /\ op[c].key \in gens[c]),
           \A d \in Conn \ {c} : op'[d] = op[d] /\ vault'[d] = vault[d],
           UNCHANGED <<gens, sel, login, work>>
    PROVE  RowInv'
  <1>0. KeyInv(c) /\ VaultInv(c) /\ SelInv(c)
    BY DEF RowInv
  <1>1. /\ conn[c].rev \in Nat /\ conn[c].cred \in Nat /\ conn[c].profile \in Nat
        /\ op[c].key \in Nat /\ conn[c] \in Connection
    BY RowTypes
  <1>2. /\ conn'[c].rev = conn[c].rev /\ conn'[c].cred = conn[c].cred
        /\ conn'[c].account = conn[c].account /\ conn'[c].new = conn[c].new
        /\ conn'[c].auth = auth /\ conn'[c].profile = profile /\ conn'[c].pending = FALSE
    BY <1>1 DEF Types, LedgerTypeOK, Connection
  <1>3. doomed'[c] = IF op[c].key \notin {0, conn[c].cred}
                     THEN doomed[c] \cup {op[c].key} ELSE doomed[c]
    BY DEF Types, LedgerTypeOK
  <1>4. \A d \in Conn \ {c} : Row(d)' = Row(d)
    BY DEF Types, LedgerTypeOK, Row
  <1>5. op[c].key \in gens[c] \/ op[c].key = conn[c].cred
    BY <1>0 DEF KeyInv
  <1>6. ~Removing(c) /\ ~Removing(c)'
    BY <1>2 DEF Removing
  <1>7. KeyInv(c)'
    <2>1. conn'[c].cred <= conn'[c].rev /\ conn'[c].profile <= conn'[c].rev
      BY <1>0, <1>1, <1>2 DEF KeyInv
    <2>2. doomed'[c] \subseteq gens[c] /\ conn[c].cred \notin doomed'[c]
      BY <1>0, <1>3, <1>5 DEF KeyInv
    <2>3. gens'[c] \subseteq 1..conn'[c].rev /\ ~conn'[c].pending /\ gens' = gens
      BY <1>0, <1>2 DEF KeyInv
    <2> QED BY <1>2, <2>1, <2>2, <2>3 DEF KeyInv
  <1>8. VaultInv(c)'
    <2>1. vault'[c] \subseteq gens'[c]
      BY <1>0 DEF VaultInv
    <2>2. conn'[c].cred # 0 => conn'[c].cred \in vault'[c]
      BY <1>0, <1>2, <1>6 DEF VaultInv
    <2>3. ASSUME NEW key \in vault'[c] PROVE key = conn'[c].cred \/ key \in doomed'[c]
      <3>1. key # 0
        BY <2>1, <2>3, RowTypes
      <3>2. key = op[c].key \/ key = conn[c].cred \/ key \in doomed[c]
        BY <1>0, <1>6, <2>3 DEF VaultInv
      <3> QED BY <1>2, <1>3, <3>1, <3>2
    <2> QED BY <2>1, <2>2, <2>3 DEF VaultInv
  <1>9. SelInv(c)'
    <2>1. ProfileOwned(c) => ProfileOwned(c)'
      BY <1>2, <1>6 DEF ProfileOwned
    <2> QED BY <1>0, <1>2, <2>1 DEF SelInv
  <1> QED BY <1>4, <1>7, <1>8, <1>9, RowStep DEF RowOK

\* FailConnection: a failed removal only says so.
LEMMA FailRow ==
    ASSUME Types, RowInv, NEW c \in Conn, NEW problem, FailConnection(c, problem), login' = login,
           conn[c].pending
    PROVE  RowInv'
  <1>1. CASE op[c].act = "remove"
    <2>1. op' = [op EXCEPT ![c].status = "failed"]
      BY <1>1 DEF FailConnection
    <2>2. /\ op'[c].act = op[c].act /\ op'[c].key = op[c].key /\ op'[c].stage = op[c].stage
          /\ \A d \in Conn \ {c} : op'[d] = op[d]
      BY <2>1 DEF Types, LedgerTypeOK, Operation
    <2> QED BY <1>1, <2>2, OperationRow DEF FailConnection
  <1>2. CASE op[c].act # "remove"
    <2> DEFINE auth == FailedAuth(c, problem)
               profile == IF KeepsSelection(c, problem) THEN conn[c].profile ELSE 0
    <2>1. conn' = [conn EXCEPT ![c].auth = auth, ![c].profile = profile, ![c].pending = FALSE]
      BY <1>2 DEF FailConnection
    <2>2. profile = 0 \/ (profile = conn[c].profile /\ auth = "verified")
      <3>1. CASE KeepsSelection(c, problem)
        BY <3>1 DEF FailedAuth, KeepsSelection
      <3>2. CASE ~KeepsSelection(c, problem)
        BY <3>2
      <3> QED BY <3>1, <3>2
    <2> HIDE DEF auth, profile
    <2>3. \A d \in Conn \ {c} : op'[d] = op[d]
      BY <1>2 DEF FailConnection, Done, Types, LedgerTypeOK
    <2> QED BY <1>2, <2>1, <2>2, <2>3, FreedRow DEF FailConnection
  <1> QED BY <1>1, <1>2

\* A verified login: the operation's generation becomes the active one and the former
\* one is due; what is published logs in to the same account as everything before.
LEMMA VerifiedRow ==
    ASSUME Types, RowInv, NEW c \in Conn, NEW m, NEW image \in BOOLEAN,
           conn[c].pending, op[c].act # "remove",
           op[c].key \in vault[c], login' = login,
           conn[c].account \in {None, login[c][op[c].key]}, login[c][op[c].key] \in Account,
           FinishVerified(c, login[c][op[c].key], m, image)
    PROVE  RowInv'
  <1> DEFINE a == login[c][op[c].key]
             new == IF op[c].act = "enable" THEN "enabled" ELSE conn[c].new
             pub == new = "enabled" /\ image
  <1>0. KeyInv(c) /\ VaultInv(c) /\ SelInv(c)
    BY DEF RowInv
  <1>1. /\ conn[c].rev \in Nat /\ conn[c].cred \in Nat /\ conn[c].profile \in Nat
        /\ op[c].key \in Nat /\ conn[c] \in Connection /\ op[c].key \in 1..MaxRev
    BY RowTypes
  <1>2. /\ conn'[c].rev = conn[c].rev /\ conn'[c].cred = op[c].key
        /\ conn'[c].account = a /\ conn'[c].new = new
        /\ conn'[c].auth = "verified" /\ conn'[c].pending = FALSE
        /\ conn'[c].profile = IF pub THEN conn[c].rev ELSE 0
    BY <1>1 DEF FinishVerified, Types, LedgerTypeOK, Connection
  <1>3. /\ doomed'[c] = IF conn[c].cred \notin {0, op[c].key}
                        THEN doomed[c] \cup {conn[c].cred} ELSE doomed[c]
        /\ gens' = gens /\ vault' = vault /\ work' = work
    BY DEF FinishVerified, Types, LedgerTypeOK
  <1>4. \A d \in Conn \ {c} : Row(d)' = Row(d)
    BY DEF FinishVerified, Done, Types, LedgerTypeOK, Row
  <1>5. /\ \A r \in 1..MaxRev : r # conn[c].rev => sel'[c][r] = sel[c][r]
        /\ conn[c].rev \in 1..MaxRev => sel'[c][conn[c].rev] = IF pub THEN op[c].key ELSE 0
    BY RowTypes DEF FinishVerified, Types, LedgerTypeOK
  <1>6. ~Removing(c) /\ ~Removing(c)' /\ op[c].key <= conn[c].rev /\ op[c].key \in gens[c]
    BY <1>0, <1>1, <1>2 DEF Removing, KeyInv, VaultInv
  <1>7. a # None /\ (conn[c].account # None => conn[c].account = a)
    BY Bounds
  <1>8. conn[c].rev \in 1..MaxRev
    BY <1>1, <1>6, RowTypes, Bounds
  <1> HIDE DEF a, new, pub
  <1>9. conn[c].cred # 0 => conn[c].cred \in gens[c]
    BY <1>0, <1>6 DEF VaultInv
  <1>10. KeyInv(c)'
    <2>1. op[c].key \notin doomed[c] /\ doomed[c] \subseteq gens[c] /\ gens[c] \subseteq 1..conn[c].rev
      BY <1>0 DEF KeyInv
    <2> QED BY <1>0, <1>1, <1>2, <1>3, <1>6, <1>9, <2>1 DEF KeyInv, new
  <1>11. VaultInv(c)'
    <2>1. ASSUME NEW key \in vault[c] PROVE key = op[c].key \/ key \in doomed'[c]
      <3>1. key # 0
        BY RowTypes
      <3>2. key = conn[c].cred \/ key = op[c].key \/ key \in doomed[c]
        BY <1>0, <1>6 DEF VaultInv
      <3> QED BY <1>3, <3>1, <3>2
    <2> QED BY <1>0, <1>2, <1>3, <2>1 DEF VaultInv
  <1>12. SelInv(c)'
    <2>1. conn'[c].profile # 0 =>
            /\ conn'[c].auth = "verified" /\ conn'[c].new = "enabled"
            /\ conn'[c].cred # 0 /\ sel'[c][conn'[c].profile] = conn'[c].cred
      BY <1>1, <1>2, <1>5, <1>8 DEF pub
    <2>2. ASSUME NEW r \in 1..MaxRev, sel'[c][r] # 0
          PROVE  /\ r <= conn'[c].rev /\ sel'[c][r] <= conn'[c].rev
                 /\ conn'[c].account # None /\ login'[c][sel'[c][r]] = conn'[c].account
      <3>1. CASE r = conn[c].rev
        <4>1. sel'[c][r] = op[c].key
          BY <1>5, <1>8, <2>2, <3>1
        <4> QED BY <1>1, <1>2, <1>6, <1>7, <3>1, <4>1 DEF a
      <3>2. CASE r # conn[c].rev
        <4>1. sel'[c][r] = sel[c][r] /\ sel[c][r] # 0
          BY <1>5, <2>2, <3>2
        <4> QED BY <1>0, <1>2, <1>7, <4>1 DEF SelInv
      <3> QED BY <3>1, <3>2
    <2>3. conn'[c].account # None /\ login'[c][conn'[c].cred] = conn'[c].account
      BY <1>2, <1>7 DEF a
    <2>4. work'[c].state # "none" => work'[c].rev \in 1..MaxRev /\ sel'[c][work'[c].rev] # 0
      <3> SUFFICES ASSUME work[c].state # "none"
                   PROVE  work[c].rev \in 1..MaxRev /\ sel'[c][work[c].rev] # 0
        BY <1>3
      <3>1. work[c].rev \in 1..MaxRev /\ sel[c][work[c].rev] # 0 /\ work[c].rev < conn[c].rev
        BY <1>0 DEF SelInv
      <3> QED BY <1>1, <1>5, <3>1
    <2>5. work'[c].state = "active" => ProfileOwned(c)'
      BY <1>0, <1>1, <1>2, <1>3, <1>6 DEF SelInv, ProfileOwned, new
    <2> QED BY <1>2, <2>1, <2>2, <2>3, <2>4, <2>5 DEF SelInv
  <1> QED BY <1>4, <1>10, <1>11, <1>12, RowStep DEF RowOK

\* A switched-off connection publishes nothing.
LEMMA DisabledRow ==
    ASSUME Types, RowInv, NEW c \in Conn, conn[c].pending, op[c].act = "disable",
           FinishDisabled(c), login' = login
    PROVE  RowInv'
  <1>0. KeyInv(c) /\ VaultInv(c) /\ SelInv(c)
    BY DEF RowInv
  <1>1. /\ conn'[c].rev = conn[c].rev /\ conn'[c].cred = conn[c].cred
        /\ conn'[c].account = conn[c].account /\ conn'[c].new = conn[c].new
        /\ conn'[c].profile = 0 /\ conn'[c].pending = FALSE
    BY RowTypes DEF FinishDisabled, Types, LedgerTypeOK, Connection
  <1>2. UNCHANGED <<gens, doomed, vault, sel, work, login>>
    BY DEF FinishDisabled
  <1>3. op[c].key = conn[c].cred /\ ~Removing(c) /\ ~Removing(c)'
    BY <1>0, <1>1 DEF KeyInv, WithSecret, Removing
  <1>4. KeyInv(c)'
    BY <1>0, <1>1, <1>2, RowTypes DEF KeyInv
  <1>5. VaultInv(c)'
    BY <1>0, <1>1, <1>2, <1>3 DEF VaultInv
  <1>6. SelInv(c)'
    <2>1. ProfileOwned(c) => ProfileOwned(c)'
      BY <1>1, <1>3 DEF ProfileOwned
    <2> QED BY <1>0, <1>1, <1>2, <2>1 DEF SelInv
  <1>7. \A d \in Conn \ {c} : Row(d)' = Row(d)
    BY <1>2 DEF FinishDisabled, Done, Types, LedgerTypeOK, Row
  <1> QED BY <1>4, <1>5, <1>6, <1>7, RowStep DEF RowOK

\* A connection is removed once its vault is empty and no attempt leans on it.
LEMMA RemovedRow ==
    ASSUME Types, RowInv, NEW c \in Conn, gens[c] \cap vault[c] = {}, RemovalAllowed(c),
           FinishRemoved(c), login' = login
    PROVE  RowInv'
  <1>0. KeyInv(c) /\ VaultInv(c) /\ SelInv(c)
    BY DEF RowInv
  <1>1. /\ conn'[c].rev = conn[c].rev /\ conn'[c].cred = 0
        /\ conn'[c].account = conn[c].account /\ conn'[c].new = "removed"
        /\ conn'[c].profile = 0 /\ conn'[c].pending = FALSE
    BY RowTypes DEF FinishRemoved, Types, LedgerTypeOK, Connection
  <1>2. UNCHANGED <<vault, sel, work, login>> /\ gens'[c] = {} /\ doomed'[c] = {}
    BY DEF FinishRemoved, Types, LedgerTypeOK
  <1>3. vault[c] = {} /\ work[c].state # "active"
    BY <1>0 DEF VaultInv, RemovalAllowed
  <1>4. KeyInv(c)'
    BY <1>1, <1>2, RowTypes DEF KeyInv
  <1>5. VaultInv(c)'
    BY <1>1, <1>2, <1>3 DEF VaultInv
  <1>6. SelInv(c)'
    BY <1>0, <1>1, <1>2, <1>3 DEF SelInv
  <1>7. \A d \in Conn \ {c} : Row(d)' = Row(d)
    BY <1>2 DEF FinishRemoved, Done, Types, LedgerTypeOK, Row
  <1> QED BY <1>4, <1>5, <1>6, <1>7, RowStep DEF RowOK

\* The bytes of a secret come and go where the ledger says they may: for the reserved
\* generation, during a removal, or for one that is due for deletion.
LEMMA VaultRow ==
    ASSUME Types, RowInv, NEW c \in Conn, NEW key,
           \/ /\ conn[c].pending /\ op[c].key = key /\ key \in gens[c]
              /\ vault' = [vault EXCEPT ![c] = @ \cup {key}]
           \/ /\ Removing(c) \/ key \in doomed[c]
              /\ vault' = [vault EXCEPT ![c] = @ \ {key}],
           UNCHANGED <<conn, op, gens, doomed, sel, login, work>>
    PROVE  RowInv'
  <1>0. KeyInv(c) /\ VaultInv(c) /\ SelInv(c)
    BY DEF RowInv
  <1>1. \/ conn[c].pending /\ op[c].key = key /\ key \in gens[c] /\ vault'[c] = vault[c] \cup {key}
        \/ (Removing(c) \/ key \in doomed[c]) /\ vault'[c] = vault[c] \ {key}
    BY DEF Types, LedgerTypeOK
  <1>2. KeyInv(c)'
    BY <1>0 DEF KeyInv
  <1>3. VaultInv(c)'
    BY <1>0, <1>1 DEF VaultInv, KeyInv, Removing
  <1>4. SelInv(c)'
    BY <1>0 DEF SelInv, ProfileOwned, Removing
  <1>5. \A d \in Conn \ {c} : Row(d)' = Row(d)
    BY DEF Types, LedgerTypeOK, Row
  <1> QED BY <1>2, <1>3, <1>4, <1>5, RowStep DEF RowOK

\* A deletion is complete once the bytes are gone; nobody works on that generation.
LEMMA DeletedRow ==
    ASSUME Types, RowInv, NEW c \in Conn, NEW key \in doomed[c], key \notin vault[c],
           doomed' = [doomed EXCEPT ![c] = @ \ {key}],
           gens' = [gens EXCEPT ![c] = @ \ {key}],
           UNCHANGED <<conn, op, vault, sel, login, work>>
    PROVE  RowInv'
  <1>0. KeyInv(c) /\ VaultInv(c) /\ SelInv(c)
    BY DEF RowInv
  <1>1. doomed'[c] = doomed[c] \ {key} /\ gens'[c] = gens[c] \ {key}
    BY DEF Types, LedgerTypeOK
  <1>2. KeyInv(c)'
    BY <1>0, <1>1 DEF KeyInv
  <1>3. VaultInv(c)'
    BY <1>0, <1>1 DEF VaultInv, Removing
  <1>4. SelInv(c)'
    BY <1>0 DEF SelInv, ProfileOwned, Removing
  <1>5. \A d \in Conn \ {c} : Row(d)' = Row(d)
    BY DEF Types, LedgerTypeOK, Row
  <1> QED BY <1>2, <1>3, <1>4, <1>5, RowStep DEF RowOK

\* Work is admitted with a published selection and retried with the one it has.
LEMMA WorkRow ==
    ASSUME Types, RowInv, WorkNext, login' = login
    PROVE  RowInv'
  <1>1. PICK c \in Conn : (\E r \in 1..MaxRev : AdmitWork(c, r)) \/ EndWork(c) \/ RetryWork(c)
    BY DEF WorkNext
  <1>0. KeyInv(c) /\ VaultInv(c) /\ SelInv(c)
    BY DEF RowInv
  <1>2. UNCHANGED <<conn, op, gens, doomed, vault, sel, login>>
    BY <1>1 DEF AdmitWork, EndWork, RetryWork
  <1>3. KeyInv(c)'
    BY <1>0, <1>2 DEF KeyInv
  <1>4. VaultInv(c)'
    BY <1>0, <1>2 DEF VaultInv, Removing
  <1>5. ProfileOwned(c)' <=> ProfileOwned(c)
    BY <1>2 DEF ProfileOwned, Removing
  <1>t. work \in [Conn -> [state : {"none", "active", "ended"}, rev : Revs]]
    BY DEF Types, LedgerTypeOK
  <1>6. SelInv(c)'
    <2>1. ASSUME NEW r \in 1..MaxRev, AdmitWork(c, r) PROVE SelInv(c)'
      <3>1. work'[c] = [state |-> "active", rev |-> r] /\ ~conn[c].pending
        BY <1>t, <2>1 DEF AdmitWork
      <3>2. sel[c][r] # 0
        BY <1>0, <2>1 DEF AdmitWork, SelInv
      <3>3. ProfileOwned(c)
        BY <2>1 DEF AdmitWork
      <3> QED BY <1>0, <1>2, <1>5, <3>1, <3>2, <3>3 DEF SelInv
    <2>2. CASE EndWork(c) \/ RetryWork(c)
      <3>1. /\ work[c].state # "none" /\ work'[c].rev = work[c].rev
            /\ work'[c].state = "active" => ProfileOwned(c)
        BY <1>t, <2>2 DEF EndWork, RetryWork
      <3> QED BY <1>0, <1>2, <1>5, <3>1 DEF SelInv
    <2> QED BY <1>1, <2>1, <2>2
  <1>7. \A d \in Conn \ {c} : Row(d)' = Row(d)
    BY <1>1, <1>2, <1>t DEF AdmitWork, EndWork, RetryWork, Row
  <1> QED BY <1>3, <1>4, <1>6, <1>7, RowStep DEF RowOK

\* Requests and the staging of secrets keep every row in order.
LEMMA SubmitRow ==
    ASSUME Types, LockInv, RowInv, SubmitNext
    PROVE  RowInv'
  <1>t. op \in [Conn -> Operation] /\ vault \in [Conn -> Secrets]
    BY DEF Types, LedgerTypeOK
  <1>s. sub.pc # "none" =>
          /\ sub.c \in Conn /\ conn[sub.c].pending /\ op[sub.c].key = sub.key
          /\ op[sub.c].act \in WithSecret /\ sub.key \in gens[sub.c]
          /\ conn[sub.c].cred < conn[sub.c].rev /\ sub.key = conn[sub.c].rev
    BY DEF LockInv, SubHolds, WkHolds, RowInv, KeyInv
  <1>1. ASSUME NEW c \in Conn, NEW act \in Requests, SubmitPlain(c, act) PROVE RowInv'
    BY <1>1, AcceptRow, Bounds DEF SubmitPlain, service
  <1>2. ASSUME NEW c \in Conn, NEW act \in Requests, NEW account \in Account,
               SubmitSecret(c, act, account)
        PROVE  RowInv'
    BY <1>2, AcceptRow, Bounds DEF SubmitSecret
  <1>3. ASSUME NEW c \in Conn, Replay(c) PROVE RowInv'
    BY <1>3, QuietRow DEF Replay, ledger
  <1>4. CASE CreateSecret
    BY <1>4, <1>s, VaultRow DEF CreateSecret
  <1>5. CASE CreateFails
    <2> DEFINE c == sub.c
               auth == FailedAuth(c, "unavailable")
    <2>1. c \in Conn /\ conn[c].pending /\ op[c].act # "remove" /\ op[c].key \in gens[c]
          /\ op[c].key = sub.key
      BY <1>5, <1>s DEF CreateFails, WithSecret
    <2>2. conn' = [conn EXCEPT ![c].auth = auth, ![c].profile = 0, ![c].pending = FALSE]
      BY <1>5 DEF CreateFails
    <2>3. op[c].key \notin {0, conn[c].cred}
      BY <1>5, <1>s, <2>1, RowTypes DEF CreateFails
    <2>4. doomed' = [doomed EXCEPT ![c] =
             IF op[c].key \notin {0, conn[c].cred} THEN @ \cup {op[c].key} ELSE @]
      BY <1>5, <2>1, <2>3 DEF CreateFails
    <2>5. vault'[c] = vault[c] \/ (vault'[c] = vault[c] \cup {op[c].key} /\ op[c].key \in gens[c])
      BY <1>5, <1>t, <2>1 DEF CreateFails
    <2>6. \A d \in Conn \ {c} : op'[d] = op[d] /\ vault'[d] = vault[d]
      BY <1>5, <1>t DEF CreateFails, Done
    <2>7. UNCHANGED <<gens, sel, login, work>>
      BY <1>5 DEF CreateFails
    <2> HIDE DEF c, auth
    <2> QED BY <2>1, <2>2, <2>4, <2>5, <2>6, <2>7, FreedRow
  <1>6. CASE ReadySecret
    <2>1. CASE ReadyConnection(sub.c)
      <3>1. sub.c \in Conn /\ login' = login
        BY <1>6, <1>s DEF ReadySecret
      <3>2. /\ op'[sub.c].act = op[sub.c].act /\ op'[sub.c].key = op[sub.c].key
            /\ op'[sub.c].stage = "ready" /\ \A d \in Conn \ {sub.c} : op'[d] = op[d]
        BY <1>t, <2>1, <3>1 DEF ReadyConnection, Operation
      <3> QED BY <2>1, <3>1, <3>2, OperationRow DEF ReadyConnection
    <2>2. CASE UNCHANGED ledger
      BY <1>6, <2>2, QuietRow DEF ReadySecret, ledger
    <2> QED BY <1>6, <2>1, <2>2 DEF ReadySecret
  <1>7. CASE ClientGone
    BY <1>7, QuietRow DEF ClientGone, ledger
  <1> QED BY <1>1, <1>2, <1>3, <1>4, <1>5, <1>6, <1>7 DEF SubmitNext

\* So does the operation worker, whose session relies on the guard.
LEMMA WorkerRow ==
    ASSUME Types, LockInv, RowInv, WorkerNext
    PROVE  RowInv'
  <1>t. op \in [Conn -> Operation]
    BY DEF Types, LedgerTypeOK
  <1>k. wk.pc # "idle" => wk.c \in Conn
    BY DEF LockInv, SubHolds, WkHolds
  <1>v. wk.pc \in {"verify", "build", "recover"} => conn[wk.c].pending /\ op[wk.c].act # "remove"
    BY DEF LockInv, SubHolds, WkHolds, Verifying
  <1>1. ASSUME NEW c \in Conn, ResumeWaiting(c) PROVE RowInv'
    <2>1. CASE op[c].token
      <3>1. ReadyConnection(c) /\ login' = login
        BY <1>1, <2>1 DEF ResumeWaiting, service
      <3>2. /\ op'[c].act = op[c].act /\ op'[c].key = op[c].key
            /\ op'[c].stage = "ready" /\ \A d \in Conn \ {c} : op'[d] = op[d]
        BY <1>t, <3>1 DEF ReadyConnection, Operation
      <3> QED BY <3>1, <3>2, OperationRow DEF ReadyConnection
    <2>2. CASE ~op[c].token
      BY <1>1, <2>2, QuietRow DEF ResumeWaiting, ledger
    <2> QED BY <2>1, <2>2
  <1>2. ASSUME NEW c \in Conn, Disable(c) PROVE RowInv'
    BY <1>2, DisabledRow DEF Disable, Pending, service
  <1>3. ASSUME NEW c \in Conn, BeginRemove(c) PROVE RowInv'
    <2>1. /\ op'[c].act = op[c].act /\ op'[c].key = op[c].key
          /\ op'[c].stage = op[c].stage /\ \A d \in Conn \ {c} : op'[d] = op[d]
      BY <1>t, <1>3 DEF BeginRemove, Operation
    <2> QED BY <1>3, <2>1, OperationRow DEF BeginRemove
  <1>4. ASSUME NEW c \in Conn, BeginVerify(c) PROVE RowInv'
    BY <1>4, QuietRow DEF BeginVerify, ledger
  <1>5. ASSUME NEW c \in Conn, BeginInstall(c) PROVE RowInv'
    <2>1. CASE BeginConnectionInstall(c)
      <3>1. /\ op'[c].act = op[c].act /\ op'[c].key = op[c].key
            /\ op'[c].stage = "installing" /\ \A d \in Conn \ {c} : op'[d] = op[d]
        BY <1>t, <2>1 DEF BeginConnectionInstall, Operation
      <3> QED BY <1>5, <2>1, <3>1, OperationRow DEF BeginInstall, BeginConnectionInstall
    <2>2. CASE UNCHANGED ledger
      BY <1>5, <2>2, QuietRow DEF BeginInstall, ledger
    <2> QED BY <1>5, <2>1, <2>2 DEF BeginInstall
  <1>6. ASSUME NEW c \in Conn, NEW key \in 1..MaxRev, NextSecretDeletion(c, key) PROVE RowInv'
    BY <1>6, QuietRow DEF NextSecretDeletion, ledger
  <1>7. CASE EraseSecret
    BY <1>7, <1>k, VaultRow DEF EraseSecret, LockInv, SubHolds, WkHolds, service
  <1>8. CASE EraseFails
    BY <1>8, <1>k, FailRow DEF EraseFails, LockInv, SubHolds, WkHolds, Removing
  <1>9. CASE FinishRemove
    <2>1. CASE RemovalAllowed(wk.c)
      BY <1>9, <1>k, <2>1, RemovedRow DEF FinishRemove
    <2>2. CASE ~RemovalAllowed(wk.c)
      BY <1>9, <2>2, QuietRow DEF FinishRemove, ledger
    <2> QED BY <2>1, <2>2
  <1>10. CASE Build
    BY <1>10, QuietRow DEF Build, ledger
  <1>11. ASSUME NEW problem, VerifyFails(problem) PROVE RowInv'
    BY <1>11, <1>k, <1>v, FailRow DEF VerifyFails, Answering
  <1>12. ASSUME NEW image \in BOOLEAN, VerifyAnswers(image) PROVE RowInv'
    <2> DEFINE a == login[wk.c][op[wk.c].key]
               m == host[a]
    <2>1. /\ wk.c \in Conn /\ op[wk.c].key \in vault[wk.c] /\ login' = login
          /\ conn[wk.c].pending /\ op[wk.c].act # "remove"
      BY <1>12, <1>k, <1>v DEF VerifyAnswers, Answering
    <2>2. a \in Account
      <3>1. login[wk.c] \in Logins
        BY <2>1 DEF Types, ServiceTypeOK
      <3>2. op[wk.c].key \in 1..MaxRev
        BY <2>1, RowTypes
      <3> QED BY <3>1, <3>2 DEF Logins
    <2>3. \/ FailConnection(wk.c, "account_changed")
          \/ FailConnection(wk.c, "resource_changed")
          \/ UNCHANGED ledger
          \/ conn[wk.c].account \in {None, a} /\ FinishVerified(wk.c, a, m, image)
      BY <1>12 DEF VerifyAnswers
    <2>4. CASE conn[wk.c].account \in {None, a} /\ FinishVerified(wk.c, a, m, image)
      BY <2>1, <2>2, <2>4, VerifiedRow
    <2>5. CASE UNCHANGED ledger
      BY <2>1, <2>5, QuietRow DEF ledger
    <2>6. ASSUME NEW problem, FailConnection(wk.c, problem) PROVE RowInv'
      BY <2>1, <2>6, FailRow
    <2> QED BY <2>3, <2>4, <2>5, <2>6
  <1>13. CASE DeleteSecret
    BY <1>13, <1>k, VaultRow DEF DeleteSecret, LockInv, SubHolds, WkHolds
  <1>14. CASE DeleteFails
    BY <1>14, QuietRow DEF DeleteFails, ledger
  <1>15. CASE CompleteSecretDeletion
    BY <1>15, <1>k, DeletedRow DEF CompleteSecretDeletion, LockInv, SubHolds, WkHolds
  <1> QED BY <1>1, <1>2, <1>3, <1>4, <1>5, <1>6, <1>7, <1>8, <1>9, <1>10, <1>11, <1>12, <1>13,
             <1>14, <1>15 DEF WorkerNext

\* The watchdog's steps, a crash and a restart leave the connections' rows alone.
LEMMA WatchdogQuiet ==
    ASSUME WatchdogNext \/ Crash \/ Restart
    PROVE  UNCHANGED <<conn, op, gens, doomed, vault, sel, bound, work, installs, login, host, builds>>
  <1>1. CASE SubmitWatchdog
    BY <1>1 DEF SubmitWatchdog, AcceptWatchdog, service
  <1>2. CASE RunWatchdog
    BY <1>2 DEF RunWatchdog, ClaimWatchdog, ObserveWatchdog, ApplyWatchdog, CutOffWatchdog, CutOff,
                ReleaseWatchdog, FinishWatchdog, SetWatchdog, service, ledger
  <1>3. CASE \E i \in DOMAIN wd : LateScript(i) \/ LeaseEnds(i)
    BY <1>3 DEF LateScript, LeaseEnds, SetWatchdog, service, ledger
  <1>4. CASE Crash \/ Restart
    BY <1>4 DEF Crash, Restart, CutOff, SetWatchdog, ledger
  <1> QED BY <1>1, <1>2, <1>3, <1>4 DEF WatchdogNext

\* No step breaks the agreement between a row, its generations and its vault.
LEMMA RowInvStep == IInv /\ [Next]_vars => RowInv'
  <1> SUFFICES ASSUME IInv, [Next]_vars PROVE RowInv'
    OBVIOUS
  <1>0. Types /\ LockInv /\ RowInv
    BY DEF IInv
  <1>1. CASE UNCHANGED vars
    BY <1>0, <1>1, QuietRow DEF vars, ledger, service
  <1>2. CASE WorkNext /\ UNCHANGED <<service, watchdog>>
    BY <1>0, <1>2, WorkRow DEF service
  <1>3. ASSUME NEW c \in Conn, TokenExpires(c) PROVE RowInv'
    <2>1. /\ op'[c].act = op[c].act /\ op'[c].key = op[c].key
          /\ op'[c].stage = op[c].stage /\ \A d \in Conn \ {c} : op'[d] = op[d]
      BY <1>0, <1>3 DEF TokenExpires, Operation, Types, LedgerTypeOK
    <2> QED BY <1>0, <1>3, <2>1, OperationRow DEF TokenExpires
  <1>4. ASSUME NEW a \in Account, MachineMoves(a) PROVE RowInv'
    BY <1>0, <1>4, QuietRow DEF MachineMoves, ledger
  <1>5. CASE WatchdogNext \/ Crash \/ Restart
    BY <1>0, <1>5, WatchdogQuiet, QuietRow
  <1> QED BY <1>0, <1>1, <1>2, <1>3, <1>4, <1>5, SubmitRow, WorkerRow DEF Next

-----------------------------------------------------------------------------
(* The guard and the two sessions.                                         *)

\* A step that leaves alone what the request relies on does not disturb it.
LEMMA SubKept ==
    ASSUME SubHolds, sub' = sub,
           sub.pc # "none" => /\ conn'[sub.c].pending = conn[sub.c].pending
                              /\ op'[sub.c].stage = op[sub.c].stage
                              /\ op'[sub.c].key = op[sub.c].key
    PROVE  SubHolds'
  BY DEF SubHolds

\* Likewise for the worker.
LEMMA WkKept ==
    ASSUME WkHolds, wk' = wk,
           wk.pc # "idle" => /\ conn'[wk.c].pending = conn[wk.c].pending
                             /\ op'[wk.c].stage = op[wk.c].stage
                             /\ op'[wk.c].act = op[wk.c].act
                             /\ wk.pc = "complete" => vault'[wk.c] = vault[wk.c]
                             /\ wk.pc \in {"delete", "complete"} => doomed'[wk.c] = doomed[wk.c]
    PROVE  WkHolds'
  BY DEF WkHolds, Removing

\* A transaction on a connection the two sessions are not at disturbs neither.
LEMMA ElsewhereLock ==
    ASSUME LockInv, NEW c, sub' = sub, wk' = wk, guard' = guard,
           sub.pc # "none" => sub.c # c, wk.pc # "idle" => wk.c # c,
           \A d \in Conn \ {c} : conn'[d] = conn[d] /\ op'[d] = op[d] /\ doomed'[d] = doomed[d]
                                 /\ vault'[d] = vault[d]
    PROVE  LockInv'
  <1>1. SubHolds'
    BY SubKept DEF LockInv, SubHolds
  <1>2. WkHolds'
    BY WkKept DEF LockInv, WkHolds
  <1> QED BY <1>1, <1>2 DEF LockInv

\* A request finds the guard free, and the connection it changes is not the one the
\* worker is at: that one is pending.
LEMMA SubmitLock ==
    ASSUME Types, LockInv, RowInv, SubmitNext
    PROVE  LockInv'
  <1>t. /\ conn \in [Conn -> Connection] /\ op \in [Conn -> Operation]
        /\ doomed \in [Conn -> Generations] /\ vault \in [Conn -> Secrets]
        /\ sub \in Submission
    BY DEF Types, LedgerTypeOK, ServiceTypeOK
  <1>l. SubHolds /\ WkHolds
    BY DEF LockInv
  <1>n. NoSub.pc = "none"
    BY DEF NoSub
  <1>d. wk.pc # "idle" => wk.c \in Conn /\ (guard # "worker" => conn[wk.c].pending
                            /\ op[wk.c].stage # "waiting_secret")
    <2>1. wk.pc \in {"idle", "verify", "build", "recover", "erase", "delete", "complete"}
      BY DEF Types, ServiceTypeOK
    <2> QED BY <2>1 DEF LockInv, WkHolds
  <1>a. ASSUME NEW c \in Conn, NEW act, AcceptConnection(c, act), guard = "free"
        PROVE  /\ wk.pc # "idle" => wk.c # c
               /\ \A d \in Conn \ {c} : conn'[d] = conn[d] /\ op'[d] = op[d]
               /\ doomed' = doomed /\ vault' = vault
    <2>1. ~conn[c].pending
      BY <1>a DEF AcceptConnection, Acceptable, RowInv, KeyInv
    <2> QED BY <1>a, <1>d, <1>t, <2>1 DEF AcceptConnection
  <1>1. ASSUME NEW c \in Conn, NEW act \in Requests, SubmitPlain(c, act) PROVE LockInv'
    <2>1. guard = "free" /\ AcceptConnection(c, act) /\ UNCHANGED <<guard, sub, wk>>
      BY <1>1 DEF SubmitPlain, service
    <2>2. sub.pc = "none"
      BY <2>1 DEF LockInv
    <2> QED BY <1>a, <2>1, <2>2, ElsewhereLock
  <1>2. ASSUME NEW c \in Conn, NEW act \in Requests, NEW account \in Account,
               SubmitSecret(c, act, account)
        PROVE  LockInv'
    <2>1. /\ guard = "free" /\ AcceptConnection(c, act) /\ wk' = wk /\ act \in WithSecret
          /\ guard' = "submit" /\ sub'.pc = "create" /\ sub'.c = c /\ sub'.key = conn[c].rev + 1
      BY <1>2 DEF SubmitSecret
    <2>2. WkHolds'
      BY <1>a, <1>d, <1>l, <2>1, WkKept
    <2>3. conn'[c].pending /\ op'[c].stage = "waiting_secret" /\ op'[c].key = conn[c].rev + 1
      BY <1>t, <2>1 DEF AcceptConnection, WithSecret, Connection
    <2>4. SubHolds'
      BY <2>1, <2>3 DEF SubHolds
    <2> QED BY <2>1, <2>2, <2>4 DEF LockInv
  <1>3. ASSUME NEW c \in Conn, Replay(c) PROVE LockInv'
    <2>1. WkHolds'
      BY <1>3, <1>l, WkKept DEF Replay, ledger
    <2>2. SubHolds'
      BY <1>3 DEF Replay, ledger, SubHolds
    <2> QED BY <1>3, <2>1, <2>2 DEF Replay, LockInv
  <1>4. CASE CreateSecret
    <2>0. sub.c \in Conn /\ guard = "submit" /\ wk.pc \notin {"erase", "delete", "complete"}
      BY <1>4 DEF CreateSecret, LockInv, SubHolds
    <2>1. WkHolds'
      BY <1>4, <1>l, <2>0, WkKept DEF CreateSecret
    <2>2. sub'.pc = "ready" /\ sub'.c = sub.c /\ sub'.key = sub.key
      BY <1>4, <1>t DEF CreateSecret, Submission
    <2>3. SubHolds'
      BY <1>4, <1>l, <2>2 DEF CreateSecret, SubHolds
    <2> QED BY <1>4, <2>0, <2>1, <2>2, <2>3 DEF CreateSecret, LockInv
  <1>5. CASE CreateFails
    <2>0. /\ sub.c \in Conn /\ guard = "submit" /\ op[sub.c].stage = "waiting_secret"
          /\ wk.pc \notin {"erase", "delete", "complete"}
      BY <1>5 DEF CreateFails, LockInv, SubHolds
    <2>1. wk.pc # "idle" => conn'[wk.c] = conn[wk.c] /\ op'[wk.c] = op[wk.c]
      BY <1>5, <1>d, <1>t, <2>0 DEF CreateFails, Done
    <2>2. WkHolds'
      BY <1>5, <1>l, <2>0, <2>1, WkKept DEF CreateFails
    <2> QED BY <1>5, <1>n, <2>0, <2>2 DEF CreateFails, Leave, LockInv, SubHolds
  <1>6. CASE ReadySecret
    <2>0. sub.c \in Conn /\ guard = "submit" /\ op[sub.c].stage = "waiting_secret"
      BY <1>6 DEF ReadySecret, LockInv, SubHolds
    <2>1. wk.pc # "idle" => conn'[wk.c] = conn[wk.c] /\ op'[wk.c] = op[wk.c]
      BY <1>6, <1>d, <1>t, <2>0 DEF ReadySecret, ReadyConnection, ledger
    <2>2. vault' = vault /\ doomed' = doomed
      BY <1>6 DEF ReadySecret, ReadyConnection, ledger
    <2>3. WkHolds'
      BY <1>6, <1>l, <2>1, <2>2, WkKept DEF ReadySecret
    <2> QED BY <1>6, <1>n, <2>0, <2>3 DEF ReadySecret, Leave, LockInv, SubHolds
  <1>7. CASE ClientGone
    <2>1. WkHolds'
      BY <1>7, <1>l, WkKept DEF ClientGone, ledger
    <2> QED BY <1>7, <1>n, <2>1 DEF ClientGone, Leave, LockInv, SubHolds
  <1> QED BY <1>1, <1>2, <1>3, <1>4, <1>5, <1>6, <1>7 DEF SubmitNext

\* The worker starts at rest and ends at rest; on the way it alone holds the guard, or
\* is at a connection that no request can be at.
LEMMA WorkerLock ==
    ASSUME Types, LockInv, RowInv, WorkerNext
    PROVE  LockInv'
  <1>t. /\ conn \in [Conn -> Connection] /\ op \in [Conn -> Operation]
        /\ doomed \in [Conn -> Generations] /\ vault \in [Conn -> Secrets]
        /\ wk.pc \in {"idle", "verify", "build", "recover", "erase", "delete", "complete"}
        /\ wk \in Workers /\ guard \in SecretHolders
    BY DEF Types, LedgerTypeOK, ServiceTypeOK, Workers
  <1>l. SubHolds /\ WkHolds
    BY DEF LockInv
  <1>r. Resting.pc = "idle"
    BY DEF Resting
  <1>g. guard # "submit" => sub.pc = "none"
    BY DEF LockInv
  <1>h. guard = "worker" <=> wk.pc \in {"erase", "delete", "complete"}
    BY DEF LockInv
  \* A session that ends: the guard, if the worker held it, is free again.
  <1>e. ASSUME SubHolds', sub' = sub, wk'.pc = "idle",
               guard' = IF guard = "worker" THEN "free" ELSE guard
        PROVE  LockInv'
    <2>1. WkHolds'
      BY <1>e DEF WkHolds
    <2> QED BY <1>e, <2>1 DEF LockInv
  <1>q. ASSUME sub' = sub, UNCHANGED ledger PROVE SubHolds'
    BY <1>l, <1>q, SubKept DEF ledger
  <1>f. ASSUME NEW c \in Conn, NEW problem, FailConnection(c, problem), sub' = sub,
               guard = "worker" \/ op[c].stage # "waiting_secret"
        PROVE  SubHolds'
    <2>1. sub.pc # "none" => sub.c \in Conn /\ sub.c # c
      BY <1>f, <1>g DEF LockInv, SubHolds
    <2>2. \A d \in Conn \ {c} : conn'[d] = conn[d] /\ op'[d] = op[d]
      BY <1>f, <1>t DEF FailConnection, Done
    <2> QED BY <1>f, <1>l, <2>1, <2>2, SubKept
  <1>1. ASSUME NEW c \in Conn, ResumeWaiting(c) PROVE LockInv'
    <2>0. guard = "free" /\ sub.pc = "none" /\ wk.pc = "idle" /\ sub' = sub
      BY <1>1, <1>g DEF ResumeWaiting, Pending, service
    <2>1. SubHolds'
      BY <2>0 DEF SubHolds
    <2>2. wk'.pc = "idle" /\ guard' = "free"
      BY <1>1, <1>r, <2>0 DEF ResumeWaiting, Stop, service
    <2> QED BY <1>e, <2>0, <2>1, <2>2
  <1>2. ASSUME NEW c \in Conn, Disable(c) PROVE LockInv'
    <2>0. /\ wk.pc = "idle" /\ UNCHANGED <<guard, sub, wk>> /\ op[c].stage = "ready"
          /\ FinishDisabled(c)
      BY <1>2 DEF Disable, Pending, service
    <2>1. sub.pc # "none" => sub.c # c
      BY <1>l, <2>0 DEF SubHolds
    <2>2. \A d \in Conn \ {c} : conn'[d] = conn[d] /\ op'[d] = op[d] /\ doomed'[d] = doomed[d]
                                 /\ vault'[d] = vault[d]
      BY <1>t, <2>0 DEF FinishDisabled, Done
    <2> QED BY <2>0, <2>1, <2>2, ElsewhereLock
  <1>3. ASSUME NEW c \in Conn, BeginRemove(c) PROVE LockInv'
    <2>0. guard = "free" /\ sub.pc = "none" /\ wk.pc = "idle" /\ sub' = sub
      BY <1>3, <1>g DEF BeginRemove, Pending
    <2>1. SubHolds'
      BY <2>0 DEF SubHolds
    <2>2. CASE RemovalAllowed(c)
      <3>1. guard' = "worker" /\ wk'.pc = "erase" /\ wk'.c = c
        BY <1>3, <2>2 DEF BeginRemove, Resting
      <3>2. conn'[c].pending /\ op'[c].act = "remove"
        BY <1>3, <1>t DEF BeginRemove, Pending, Operation
      <3>3. WkHolds'
        BY <3>1, <3>2 DEF WkHolds, Removing
      <3> QED BY <2>0, <2>1, <3>1, <3>3 DEF LockInv
    <2>3. CASE ~RemovalAllowed(c)
      <3>1. wk'.pc = "idle" /\ guard' = "free"
        BY <1>3, <1>r, <2>0, <2>3 DEF BeginRemove, Stop
      <3> QED BY <1>e, <2>0, <2>1, <3>1
    <2> QED BY <2>2, <2>3
  <1>4. ASSUME NEW c \in Conn, BeginVerify(c) PROVE LockInv'
    <2>0. /\ wk.pc = "idle" /\ wk'.pc = "verify" /\ wk'.c = c /\ UNCHANGED <<guard, sub, ledger>>
          /\ conn[c].pending /\ op[c].stage = "ready" /\ op[c].act \in Verifying
      BY <1>4 DEF BeginVerify, Pending, Resting
    <2>1. WkHolds'
      BY <2>0 DEF WkHolds, ledger, Verifying
    <2> QED BY <1>q, <2>0, <2>1 DEF LockInv
  <1>5. ASSUME NEW c \in Conn, BeginInstall(c) PROVE LockInv'
    <2>0. /\ wk.pc = "idle" /\ wk'.pc \in {"build", "recover"} /\ wk'.c = c
          /\ UNCHANGED <<guard, sub, conn>>
          /\ conn[c].pending /\ op[c].stage \in {"ready", "installing"}
          /\ op[c].act = "install_image"
      BY <1>5 DEF BeginInstall, Pending, Resting, BeginConnectionInstall, ledger
    <2>1. /\ op'[c].stage = "installing" /\ op'[c].act = "install_image"
          /\ \A d \in Conn \ {c} : op'[d] = op[d]
      BY <1>5, <1>t DEF BeginInstall, BeginConnectionInstall, ledger, Operation
    <2>2. WkHolds'
      BY <2>0, <2>1 DEF WkHolds
    <2>3. SubHolds'
      BY <1>l, <2>0, <2>1, SubKept DEF SubHolds
    <2> QED BY <2>0, <2>2, <2>3 DEF LockInv
  <1>6. ASSUME NEW c \in Conn, NEW key \in 1..MaxRev, NextSecretDeletion(c, key) PROVE LockInv'
    <2>0. /\ wk'.pc = "delete" /\ wk'.c = c /\ wk'.key = key /\ guard' = "worker" /\ guard = "free"
          /\ UNCHANGED <<sub, ledger>> /\ key \in doomed[c]
      BY <1>6 DEF NextSecretDeletion
    <2>1. WkHolds'
      BY <2>0 DEF WkHolds, ledger
    <2> QED BY <1>g, <1>q, <2>0, <2>1 DEF LockInv
  <1>7. CASE EraseSecret
    <2>0. wk.pc = "erase" /\ UNCHANGED <<guard, sub, wk, conn, op, doomed>>
      BY <1>7 DEF EraseSecret, service
    <2>1. WkHolds' /\ SubHolds'
      BY <1>l, <2>0, WkKept, SubKept
    <2> QED BY <2>0, <2>1 DEF LockInv
  <1>8. CASE EraseFails
    <2>0. /\ wk.c \in Conn /\ guard = "worker" /\ guard' = "free" /\ wk'.pc = "idle" /\ sub' = sub
          /\ FailConnection(wk.c, "unavailable")
      BY <1>8, <1>h, <1>l, <1>r DEF EraseFails, WkHolds
    <2>1. SubHolds'
      BY <1>f, <2>0
    <2> QED BY <1>e, <2>0, <2>1
  <1>9. CASE FinishRemove
    <2>0. guard = "worker" /\ guard' = "free" /\ wk'.pc = "idle" /\ sub' = sub /\ sub.pc = "none"
      BY <1>9, <1>g, <1>h, <1>r DEF FinishRemove, Stop
    <2>1. SubHolds'
      BY <2>0 DEF SubHolds
    <2> QED BY <1>e, <2>0, <2>1
  <1>10. CASE Build
    <2>0. wk.pc = "build" /\ wk'.pc = "verify" /\ wk'.c = wk.c /\ UNCHANGED <<guard, sub, ledger>>
      BY <1>10, <1>t DEF Build, Workers
    <2>1. WkHolds'
      BY <1>l, <2>0 DEF WkHolds, ledger
    <2> QED BY <1>q, <2>0, <2>1 DEF LockInv
  <1>v. wk.pc \in {"verify", "build", "recover"} =>
          wk.c \in Conn /\ op[wk.c].stage # "waiting_secret" /\ guard # "worker"
    BY <1>h, <1>l DEF WkHolds
  <1>11. ASSUME NEW problem, VerifyFails(problem) PROVE LockInv'
    <2>0. /\ wk.c \in Conn /\ op[wk.c].stage # "waiting_secret" /\ guard # "worker"
          /\ wk'.pc = "idle" /\ UNCHANGED <<sub, guard>> /\ FailConnection(wk.c, problem)
      BY <1>11, <1>r, <1>v DEF VerifyFails, Answering
    <2>1. SubHolds'
      BY <1>f, <2>0
    <2> QED BY <1>e, <2>0, <2>1
  <1>12. ASSUME NEW image \in BOOLEAN, VerifyAnswers(image) PROVE LockInv'
    <2> DEFINE a == login[wk.c][op[wk.c].key]
               m == host[a]
    <2>0. /\ wk.c \in Conn /\ op[wk.c].stage # "waiting_secret" /\ guard # "worker" /\ sub' = sub
      BY <1>12, <1>v DEF VerifyAnswers, Answering
    <2>1. wk'.pc = "idle" /\ guard' = guard
      BY <1>12, <1>r, <2>0 DEF VerifyAnswers, Stop
    <2>2. \/ FailConnection(wk.c, "account_changed")
          \/ FailConnection(wk.c, "resource_changed")
          \/ UNCHANGED ledger
          \/ FinishVerified(wk.c, a, m, image)
      BY <1>12 DEF VerifyAnswers
    <2>3. CASE FinishVerified(wk.c, a, m, image)
      <3>1. sub.pc # "none" => sub.c \in Conn /\ sub.c # wk.c
        BY <1>l, <2>0 DEF SubHolds
      <3>2. \A d \in Conn \ {wk.c} : conn'[d] = conn[d] /\ op'[d] = op[d]
        BY <1>t, <2>3 DEF FinishVerified, Done
      <3>3. SubHolds'
        BY <1>l, <2>0, <3>1, <3>2, SubKept
      <3> QED BY <1>e, <2>0, <2>1, <3>3
    <2>4. SubHolds' => LockInv'
      BY <1>e, <2>0, <2>1
    <2> QED BY <1>f, <1>q, <2>0, <2>2, <2>3, <2>4
  <1>13. CASE DeleteSecret
    <2>0. /\ wk.pc = "delete" /\ wk'.pc = "complete" /\ wk'.c = wk.c /\ wk'.key = wk.key
          /\ UNCHANGED <<guard, sub, conn, op, doomed>> /\ wk.c \in Conn
          /\ wk.key \notin vault'[wk.c]
      BY <1>13, <1>t, <1>l DEF DeleteSecret, Workers, WkHolds
    <2>1. WkHolds'
      BY <1>l, <2>0 DEF WkHolds
    <2>2. SubHolds'
      BY <1>l, <2>0, SubKept
    <2> QED BY <2>0, <2>1, <2>2 DEF LockInv
  <1>14. CASE DeleteFails
    <2>0. guard = "worker" /\ guard' = "free" /\ wk'.pc = "idle" /\ sub' = sub /\ UNCHANGED ledger
      BY <1>14, <1>h, <1>r DEF DeleteFails
    <2> QED BY <1>e, <1>q, <2>0
  <1>15. CASE CompleteSecretDeletion
    <2>0. guard = "worker" /\ guard' = "free" /\ wk'.pc = "idle" /\ UNCHANGED <<sub, conn, op>>
      BY <1>15, <1>h, <1>r DEF CompleteSecretDeletion
    <2>1. SubHolds'
      BY <1>l, <2>0, SubKept
    <2> QED BY <1>e, <2>0, <2>1
  <1> QED BY <1>1, <1>2, <1>3, <1>4, <1>5, <1>6, <1>7, <1>8, <1>9, <1>10, <1>11, <1>12, <1>13,
             <1>14, <1>15 DEF WorkerNext

\* Whatever happens, the guard has one holder and the sessions may rely on what they
\* found; a crash ends both.
LEMMA LockStep == IInv /\ [Next]_vars => LockInv'
  <1> SUFFICES ASSUME IInv, [Next]_vars PROVE LockInv'
    OBVIOUS
  <1>0. Types /\ LockInv /\ RowInv
    BY DEF IInv
  <1>l. SubHolds /\ WkHolds
    BY <1>0 DEF LockInv
  <1>q. ASSUME UNCHANGED <<guard, sub, wk, conn, op, doomed, vault>> PROVE LockInv'
    <2>1. SubHolds' /\ WkHolds'
      BY <1>l, <1>q, SubKept, WkKept
    <2> QED BY <1>0, <1>q, <2>1 DEF LockInv
  <1>1. CASE UNCHANGED vars
    BY <1>1, <1>q DEF vars, ledger, service
  <1>2. CASE WorkNext /\ UNCHANGED <<service, watchdog>>
    <2>1. UNCHANGED <<conn, op, doomed, vault>>
      BY <1>2 DEF WorkNext, AdmitWork, EndWork, RetryWork
    <2> QED BY <1>2, <1>q, <2>1 DEF service
  <1>3. ASSUME NEW c \in Conn, TokenExpires(c) PROVE LockInv'
    <2>1. UNCHANGED <<guard, sub, wk, conn, doomed, vault>>
      BY <1>3 DEF TokenExpires
    <2>2. \A d \in Conn : /\ op'[d].act = op[d].act /\ op'[d].key = op[d].key
                          /\ op'[d].stage = op[d].stage
      BY <1>0, <1>3 DEF TokenExpires, Operation, Types, LedgerTypeOK
    <2>3. SubHolds'
      BY <1>l, <2>1, <2>2, SubKept DEF SubHolds
    <2>4. WkHolds'
      BY <1>l, <2>1, <2>2, WkKept DEF WkHolds
    <2> QED BY <1>0, <2>1, <2>3, <2>4 DEF LockInv
  <1>4. ASSUME NEW a \in Account, MachineMoves(a) PROVE LockInv'
    BY <1>4, <1>q DEF MachineMoves, ledger
  <1>5. CASE WatchdogNext
    <2>1. UNCHANGED <<guard, sub, wk>>
      BY <1>5 DEF WatchdogNext, SubmitWatchdog, AcceptWatchdog, RunWatchdog, ClaimWatchdog,
                  ObserveWatchdog, ApplyWatchdog, CutOffWatchdog, ReleaseWatchdog, FinishWatchdog,
                  LateScript, LeaseEnds, service
    <2> QED BY <1>5, <1>q, <2>1, WatchdogQuiet
  <1>6. CASE Crash \/ Restart
    <2>1. guard' = "free" /\ sub'.pc = "none" /\ wk'.pc = "idle"
      BY <1>6 DEF Crash, Restart, NoSub, Resting
    <2> QED BY <2>1 DEF LockInv, SubHolds, WkHolds
  <1> QED BY <1>0, <1>1, <1>2, <1>3, <1>4, <1>5, <1>6, SubmitLock, WorkerLock DEF Next

-----------------------------------------------------------------------------
(* Permits to build.                                                       *)

\* No new permit, no new build and no build begun: the account stays balanced.
LEMMA PermitKept ==
    ASSUME Types, PermitInv, Permits' \subseteq Permits, builds' = builds, installs' = installs,
           wk'.pc = "build" => wk.pc = "build"
    PROVE  PermitInv'
  <1>1. /\ IsFiniteSet(Permits') /\ Cardinality(Permits') <= Cardinality(Permits)
        /\ Cardinality(Permits) \in Nat /\ Cardinality(Permits') \in Nat
    BY FS_Subset, FS_CardinalityType DEF PermitInv
  <1>2. builds \in Nat /\ installs \in Nat
    BY Bounds DEF Types, LedgerTypeOK, ServiceTypeOK
  <1> QED BY <1>1, <1>2 DEF PermitInv

\* A transaction on connection c that leaves no permit with it.
LEMMA PermitElsewhere ==
    ASSUME NEW c, ~(conn'[c].pending /\ op'[c].act = "install_image" /\ op'[c].stage = "ready"),
           \A d \in Conn \ {c} : conn'[d] = conn[d] /\ op'[d] = op[d]
    PROVE  Permits' \subseteq Permits
  BY DEF Permits

\* An accepted installation brings its permit along.
LEMMA AcceptPermit ==
    ASSUME Types, RowInv, PermitInv, NEW c \in Conn, NEW act \in Actions,
           AcceptConnection(c, act), UNCHANGED <<builds, wk>>
    PROVE  PermitInv'
  <1>t. conn \in [Conn -> Connection] /\ op \in [Conn -> Operation]
    BY DEF Types, LedgerTypeOK
  <1>1. c \notin Permits
    BY DEF AcceptConnection, Acceptable, RowInv, KeyInv, Permits
  <1>2. op'[c].act = act /\ \A d \in Conn \ {c} : conn'[d] = conn[d] /\ op'[d] = op[d]
    BY <1>t DEF AcceptConnection
  <1>3. CASE act = "install_image"
    <2>1. Permits' \subseteq Permits \cup {c}
      BY <1>2 DEF Permits
    <2>2. installs' = installs + 1
      BY <1>3 DEF AcceptConnection
    <2>3. /\ IsFiniteSet(Permits \cup {c})
          /\ Cardinality(Permits \cup {c}) = Cardinality(Permits) + 1
      BY <1>1, FS_AddElement DEF PermitInv
    <2>4. IsFiniteSet(Permits') /\ Cardinality(Permits') <= Cardinality(Permits \cup {c})
      BY <2>1, <2>3, FS_Subset
    <2>5. Cardinality(Permits) \in Nat /\ Cardinality(Permits') \in Nat
      BY <2>4, FS_CardinalityType DEF PermitInv
    <2>6. builds \in Nat /\ installs \in Nat
      BY Bounds DEF Types, LedgerTypeOK, ServiceTypeOK
    <2> QED BY <2>2, <2>3, <2>4, <2>5, <2>6 DEF PermitInv
  <1>4. CASE act # "install_image"
    <2>1. Permits' \subseteq Permits /\ installs' = installs
      BY <1>2, <1>4, PermitElsewhere DEF AcceptConnection
    <2> QED BY <2>1, PermitKept
  <1> QED BY <1>3, <1>4

\* No step sends more builds than installations were accepted for.
LEMMA PermitStep == IInv /\ [Next]_vars => PermitInv'
  <1> SUFFICES ASSUME IInv, [Next]_vars PROVE PermitInv'
    OBVIOUS
  <1>0. Types /\ LockInv /\ RowInv /\ PermitInv
    BY DEF IInv
  <1>t. conn \in [Conn -> Connection] /\ op \in [Conn -> Operation] /\ wk \in Workers
    BY <1>0 DEF Types, LedgerTypeOK, ServiceTypeOK, Workers
  <1>n. builds \in Nat /\ installs \in Nat
    BY <1>0, Bounds DEF Types, LedgerTypeOK, ServiceTypeOK
  <1>r. Resting.pc = "idle"
    BY DEF Resting
  \* Steps that only take an operation on, or end it.
  <1>k. ASSUME NEW c \in Conn, builds' = builds, installs' = installs,
               wk'.pc = "build" => wk.pc = "build",
               ~(conn'[c].pending /\ op'[c].act = "install_image" /\ op'[c].stage = "ready"),
               \A d \in Conn \ {c} : conn'[d] = conn[d] /\ op'[d] = op[d]
        PROVE  PermitInv'
    BY <1>0, <1>k, PermitElsewhere, PermitKept
  <1>q. ASSUME UNCHANGED <<conn, op, builds, installs>>, wk'.pc = "build" => wk.pc = "build"
        PROVE  PermitInv'
    <2>1. Permits' \subseteq Permits
      BY <1>q DEF Permits
    <2> QED BY <1>0, <1>q, <2>1, PermitKept
  <1>f. ASSUME NEW c \in Conn, NEW problem, FailConnection(c, problem), builds' = builds,
               wk'.pc # "build"
        PROVE  PermitInv'
    <2>1. ~(conn'[c].pending /\ op'[c].act = "install_image" /\ op'[c].stage = "ready")
      BY <1>f, <1>t DEF FailConnection, Done, Connection, Operation
    <2>2. \A d \in Conn \ {c} : conn'[d] = conn[d] /\ op'[d] = op[d]
      BY <1>f, <1>t DEF FailConnection, Done
    <2> QED BY <1>f, <1>k, <2>1, <2>2 DEF FailConnection
  <1>1. CASE UNCHANGED vars
    BY <1>1, <1>q DEF vars, ledger, service
  <1>2. CASE SubmitNext
    <2>1. ASSUME NEW c \in Conn, NEW act \in Requests, SubmitPlain(c, act) PROVE PermitInv'
      BY <1>0, <2>1, AcceptPermit, Bounds DEF SubmitPlain, service
    <2>2. ASSUME NEW c \in Conn, NEW act \in Requests, NEW account \in Account,
                 SubmitSecret(c, act, account)
          PROVE  PermitInv'
      BY <1>0, <2>2, AcceptPermit, Bounds DEF SubmitSecret
    <2>3. ASSUME NEW c \in Conn, Replay(c) PROVE PermitInv'
      BY <1>q, <2>3 DEF Replay, ledger
    <2>4. CASE CreateSecret
      BY <1>q, <2>4 DEF CreateSecret
    <2>s. sub.pc # "none" => sub.c \in Conn /\ op[sub.c].act # "install_image"
      BY <1>0 DEF LockInv, SubHolds, RowInv, KeyInv, WithSecret
    <2>5. CASE CreateFails
      <3>0. sub.c \in Conn /\ op[sub.c].act # "install_image"
        BY <2>5, <2>s DEF CreateFails
      <3>1. /\ op'[sub.c].act = op[sub.c].act
            /\ \A d \in Conn \ {sub.c} : conn'[d] = conn[d] /\ op'[d] = op[d]
        BY <1>t, <2>5, <3>0 DEF CreateFails, Done, Operation
      <3>2. UNCHANGED <<builds, installs, wk>>
        BY <2>5 DEF CreateFails
      <3> QED BY <1>k, <3>0, <3>1, <3>2
    <2>6. CASE ReadySecret
      <3>0. sub.c \in Conn /\ op[sub.c].act # "install_image" /\ UNCHANGED <<builds, wk>>
        BY <2>6, <2>s DEF ReadySecret
      <3>1. /\ op'[sub.c].act = op[sub.c].act /\ installs' = installs
            /\ \A d \in Conn \ {sub.c} : conn'[d] = conn[d] /\ op'[d] = op[d]
        BY <1>t, <2>6, <3>0 DEF ReadySecret, ReadyConnection, Operation, ledger
      <3> QED BY <1>k, <3>0, <3>1
    <2>7. CASE ClientGone
      BY <1>q, <2>7 DEF ClientGone, ledger
    <2> QED BY <1>2, <2>1, <2>2, <2>3, <2>4, <2>5, <2>6, <2>7 DEF SubmitNext
  <1>3. CASE WorkerNext
    <2>k. wk.pc # "idle" => wk.c \in Conn
      BY <1>0 DEF LockInv, WkHolds
    <2>1. ASSUME NEW c \in Conn, ResumeWaiting(c) PROVE PermitInv'
      <3>1. CASE op[c].token
        <4>1. ReadyConnection(c) /\ UNCHANGED <<builds, wk>> /\ op[c].act # "install_image"
          BY <1>0, <2>1, <3>1 DEF ResumeWaiting, Pending, service, RowInv, KeyInv, WithSecret
        <4>2. /\ op'[c].act = op[c].act /\ installs' = installs
              /\ \A d \in Conn \ {c} : conn'[d] = conn[d] /\ op'[d] = op[d]
          BY <1>t, <4>1 DEF ReadyConnection, Operation
        <4> QED BY <1>k, <4>1, <4>2
      <3>2. CASE ~op[c].token
        BY <1>q, <1>r, <2>1, <3>2 DEF ResumeWaiting, Stop, ledger
      <3> QED BY <3>1, <3>2
    <2>2. ASSUME NEW c \in Conn, Disable(c) PROVE PermitInv'
      <3>1. FinishDisabled(c) /\ UNCHANGED <<builds, wk>>
        BY <2>2 DEF Disable, service
      <3>2. ~conn'[c].pending /\ \A d \in Conn \ {c} : conn'[d] = conn[d] /\ op'[d] = op[d]
        BY <1>t, <3>1 DEF FinishDisabled, Done, Connection
      <3> QED BY <1>k, <3>1, <3>2 DEF FinishDisabled
    <2>3. ASSUME NEW c \in Conn, BeginRemove(c) PROVE PermitInv'
      <3>1. UNCHANGED <<builds, installs>> /\ wk'.pc # "build" /\ op[c].act # "install_image"
        BY <2>3, <1>r DEF BeginRemove, Stop, Resting
      <3>2. /\ op'[c].act = op[c].act
            /\ \A d \in Conn \ {c} : conn'[d] = conn[d] /\ op'[d] = op[d]
        BY <1>t, <2>3 DEF BeginRemove, Operation
      <3> QED BY <1>k, <3>1, <3>2
    <2>4. ASSUME NEW c \in Conn, BeginVerify(c) PROVE PermitInv'
      BY <1>q, <2>4 DEF BeginVerify, ledger, Resting
    <2>5. ASSUME NEW c \in Conn, BeginInstall(c) PROVE PermitInv'
      <3>0. wk.pc = "idle" /\ builds' = builds /\ conn[c].pending /\ op[c].act = "install_image"
        BY <2>5 DEF BeginInstall, Pending
      <3>1. CASE op[c].stage = "ready" /\ BeginConnectionInstall(c) /\ wk'.pc = "build"
        <4>1. c \in Permits
          BY <3>0, <3>1 DEF Permits
        <4>2. /\ op'[c].stage = "installing"
              /\ UNCHANGED <<conn, installs>> /\ \A d \in Conn \ {c} : op'[d] = op[d]
          BY <1>t, <3>1 DEF BeginConnectionInstall, Operation
        <4>3. Permits' \subseteq Permits \ {c}
          BY <4>2 DEF Permits
        <4>4. /\ IsFiniteSet(Permits \ {c})
              /\ Cardinality(Permits \ {c}) = Cardinality(Permits) - 1
          BY <1>0, <4>1, FS_RemoveElement DEF PermitInv
        <4>5. IsFiniteSet(Permits') /\ Cardinality(Permits') <= Cardinality(Permits \ {c})
          BY <4>3, <4>4, FS_Subset
        <4>6. Cardinality(Permits) \in Nat /\ Cardinality(Permits') \in Nat
          BY <1>0, <4>5, FS_CardinalityType DEF PermitInv
        <4> QED BY <1>0, <1>n, <3>0, <3>1, <4>2, <4>4, <4>5, <4>6 DEF PermitInv
      <3>2. CASE UNCHANGED ledger /\ wk'.pc = "recover"
        BY <1>q, <3>0, <3>2 DEF ledger
      <3> QED BY <2>5, <3>1, <3>2 DEF BeginInstall, Resting
    <2>6. ASSUME NEW c \in Conn, NEW key \in 1..MaxRev, NextSecretDeletion(c, key) PROVE PermitInv'
      BY <1>q, <2>6 DEF NextSecretDeletion, ledger
    <2>7. CASE EraseSecret
      BY <1>q, <2>7 DEF EraseSecret, service
    <2>8. CASE EraseFails
      BY <1>f, <1>r, <2>8, <2>k DEF EraseFails
    <2>9. CASE FinishRemove
      <3>1. CASE FinishRemoved(wk.c) /\ wk' = Resting
        <4>1. wk.c \in Conn /\ UNCHANGED <<builds, installs>>
          BY <2>9, <2>k, <3>1 DEF FinishRemove, FinishRemoved
        <4>2. /\ ~conn'[wk.c].pending
              /\ \A d \in Conn \ {wk.c} : conn'[d] = conn[d] /\ op'[d] = op[d]
          BY <1>t, <3>1, <4>1 DEF FinishRemoved, Done, Connection
        <4> QED BY <1>k, <1>r, <3>1, <4>1, <4>2
      <3>2. CASE UNCHANGED ledger /\ wk' = Resting
        BY <1>q, <1>r, <2>9, <3>2 DEF FinishRemove, ledger
      <3> QED BY <2>9, <3>1, <3>2 DEF FinishRemove, Stop
    <2>10. CASE Build
      <3>1. /\ UNCHANGED <<conn, op, installs>> /\ builds' = builds + 1
            /\ wk.pc = "build" /\ wk'.pc = "verify"
        BY <1>t, <2>10 DEF Build, ledger, Workers
      <3>2. Permits' = Permits
        BY <3>1 DEF Permits
      <3>3. Cardinality(Permits) \in Nat
        BY <1>0, FS_CardinalityType DEF PermitInv
      <3> QED BY <1>0, <1>n, <3>1, <3>2, <3>3 DEF PermitInv
    <2>11. ASSUME NEW problem, VerifyFails(problem) PROVE PermitInv'
      BY <1>f, <1>r, <2>11, <2>k DEF VerifyFails, Answering
    <2>12. ASSUME NEW image \in BOOLEAN, VerifyAnswers(image) PROVE PermitInv'
      <3> DEFINE a == login[wk.c][op[wk.c].key]
                 m == host[a]
      <3>1. \/ FailConnection(wk.c, "account_changed")
            \/ FailConnection(wk.c, "resource_changed")
            \/ UNCHANGED ledger
            \/ FinishVerified(wk.c, a, m, image)
        BY <2>12 DEF VerifyAnswers
      <3>2. wk'.pc # "build" /\ builds' = builds /\ wk.c \in Conn
        BY <1>r, <2>12, <2>k DEF VerifyAnswers, Stop, Answering
      <3>3. CASE FinishVerified(wk.c, a, m, image)
        <4>1. installs' = installs /\ ~conn'[wk.c].pending
              /\ \A d \in Conn \ {wk.c} : conn'[d] = conn[d] /\ op'[d] = op[d]
          BY <1>t, <3>2, <3>3 DEF FinishVerified, Done, Connection
        <4> QED BY <1>k, <3>2, <4>1
      <3>4. CASE UNCHANGED ledger
        BY <1>q, <3>2, <3>4 DEF ledger
      <3> QED BY <1>f, <3>1, <3>2, <3>3, <3>4
    <2>13. CASE DeleteSecret
      BY <1>q, <1>t, <2>13 DEF DeleteSecret, Workers
    <2>14. CASE DeleteFails
      BY <1>q, <1>r, <2>14 DEF DeleteFails, ledger
    <2>15. CASE CompleteSecretDeletion
      BY <1>q, <1>r, <2>15 DEF CompleteSecretDeletion
    <2> QED BY <1>3, <2>1, <2>2, <2>3, <2>4, <2>5, <2>6, <2>7, <2>8, <2>9, <2>10, <2>11, <2>12,
               <2>13, <2>14, <2>15 DEF WorkerNext
  <1>4. CASE WorkNext /\ UNCHANGED <<service, watchdog>>
    BY <1>4, <1>q DEF WorkNext, AdmitWork, EndWork, RetryWork, service
  <1>5. ASSUME NEW c \in Conn, TokenExpires(c) PROVE PermitInv'
    <2>1. op[c].stage = "waiting_secret" /\ UNCHANGED <<conn, installs, builds, wk>>
      BY <1>5 DEF TokenExpires
    <2>2. op'[c].stage = op[c].stage /\ \A d \in Conn \ {c} : op'[d] = op[d]
      BY <1>5, <1>t DEF TokenExpires, Operation
    <2> QED BY <1>k, <2>1, <2>2
  <1>6. ASSUME NEW a \in Account, MachineMoves(a) PROVE PermitInv'
    BY <1>6, <1>q DEF MachineMoves, ledger
  <1>7. CASE WatchdogNext \/ Crash \/ Restart
    <2>1. wk' = wk \/ wk' = Resting
      BY <1>7 DEF WatchdogNext, SubmitWatchdog, AcceptWatchdog, RunWatchdog, ClaimWatchdog,
                  ObserveWatchdog, ApplyWatchdog, CutOffWatchdog, ReleaseWatchdog, FinishWatchdog,
                  LateScript, LeaseEnds, service, Crash, Restart
    <2> QED BY <1>7, <1>q, <1>r, <2>1, WatchdogQuiet
  <1> QED BY <1>1, <1>2, <1>3, <1>4, <1>5, <1>6, <1>7 DEF Next

-----------------------------------------------------------------------------
(* The scripts of the watchdog.                                            *)

\* What a step may do to operation i without disturbing any operation: give up an
\* unsent one, take the newest on, or let its script change the host.
Advances(i) ==
    /\ DOMAIN wd' = DOMAIN wd /\ \A j \in DOMAIN wd : j # i => wd'[j] = wd[j]
    /\ wd'[i].m = wd[i].m /\ wd'[i].act = wd[i].act /\ wd'[i].c = wd[i].c
    /\ wd'[i].stage = "queued" <=> wd'[i].status = "queued"
    /\ wd'[i].stage = "applying" => wd'[i].status = "unknown"
    /\ wd'[i].stage \in {"queued", "applying"} => InFlight(i)
    /\ wd'[i].stage = "queued" => wd'[i].sent = 0
    /\ wd'[i].sent <= 1
    /\ wd'[i].lease => wd'[i].stage = "applying"
    /\ wd'[i].status = "failed" => wd[i].status \in {"failed", "queued"}
    /\ wd'[i].status = "queued" => wd[i].status = "queued"
    /\ ~InFlight(i) => wd'[i].status = wd[i].status
    /\ watched' # watched => wd'[i].status \in {"unknown", "succeeded"}
    /\ \A m : m # wd[i].m => (m \in watched' <=> m \in watched)

\* Such a step keeps what is known of every operation.
LEMMA AdvanceScript ==
    ASSUME Types, ScriptInv, NEW i \in DOMAIN wd, Advances(i)
    PROVE  \A j \in DOMAIN wd' : OpScript(j)'
  <1>0. DOMAIN wd' = DOMAIN wd /\ DOMAIN wd \subseteq Nat
    BY DEF Advances, Types
  <1>1. \A j \in DOMAIN wd : OpScript(j)
    BY DEF ScriptInv
  <1> SUFFICES ASSUME NEW j \in DOMAIN wd PROVE OpScript(j)'
    BY <1>0
  <1>a. \A k \in DOMAIN wd : wd'[k].m = wd[k].m /\ wd'[k].act = wd[k].act
    BY DEF Advances
  \* Operations behind one that is in flight have failed and stay failed.
  <1>2. ASSUME NEW k \in DOMAIN wd, InFlight(k), NEW l \in DOMAIN wd, l > k, wd[l].m = wd[k].m
        PROVE  wd[l].status = "failed" /\ wd'[l].status = "failed"
    <2>1. wd[l].status = "failed"
      BY <1>1, <1>2 DEF OpScript, After
    <2>2. ~InFlight(l)
      BY <1>1, <2>1 DEF OpScript, InFlight
    <2> QED BY <2>1, <2>2 DEF Advances
  <1>3. wd'[j].stage \in {"queued", "applying"} => InFlight(j)
    BY DEF Advances, InFlight
  <1>4. InFlight(j)' => After(j, {"failed"})'
    <2> SUFFICES ASSUME wd'[j].stage \in {"queued", "applying"}, NEW l \in DOMAIN wd, l > j,
                        wd'[l].m = wd'[j].m
                 PROVE  wd'[l].status = "failed"
      BY <1>0 DEF After, InFlight
    <2> QED BY <1>2, <1>3, <1>a
  <1>5. /\ wd'[j].stage = "queued" <=> wd'[j].status = "queued"
        /\ wd'[j].stage = "applying" => wd'[j].status = "unknown"
        /\ wd'[j].stage = "queued" => wd'[j].sent = 0
        /\ wd'[j].sent <= 1
        /\ wd'[j].lease => wd'[j].stage = "applying"
    BY <1>1 DEF OpScript, Advances
  <1> QED BY <1>4, <1>5 DEF OpScript

\* A new request finds no other in flight on its machine: the one it supersedes is
\* closed, and it changes nothing on the host.
LEMMA AcceptScript ==
    ASSUME Types, ScriptInv, NEW c \in Conn,
           NEW act \in {"install_host_watchdog", "remove_host_watchdog"}, AcceptWatchdog(c, act)
    PROVE  \A j \in DOMAIN wd' : OpScript(j)'
  <1> DEFINE last == LastWatchdog(MachineOf(c))
             n == Len(wd) + 1
  <1>0. /\ DOMAIN wd' = 1..n /\ n \in Nat /\ DOMAIN wd = 1..Len(wd) /\ Len(wd) \in Nat
        /\ wd'[n] = Submitted(c, act)
        /\ \A i \in DOMAIN wd : wd'[i] = IF i = last /\ wd[i].status = "unknown"
                                         THEN [wd[i] EXCEPT !.stage = "done"] ELSE wd[i]
    <2>1. wd \in Seq(WatchdogOperation)
      BY DEF Types
    <2>2. DOMAIN wd = 1..Len(wd) /\ Len(wd) \in Nat
      BY <2>1
    <2> QED BY <2>2, AcceptedWatchdog
  <1>1. \A j \in DOMAIN wd : OpScript(j) /\ wd[j] \in WatchdogOperation
    BY DEF ScriptInv, Types
  <1>2. /\ wd'[n].m = MachineOf(c) /\ wd'[n].status = "queued" /\ wd'[n].stage = "queued"
        /\ wd'[n].sent = 0 /\ wd'[n].lease = FALSE
    BY <1>0 DEF Submitted
  <1>3. \A i \in DOMAIN wd :
          /\ wd'[i].m = wd[i].m /\ wd'[i].act = wd[i].act /\ wd'[i].status = wd[i].status
          /\ wd'[i].sent = wd[i].sent /\ wd'[i].stage \in {wd[i].stage, "done"}
          /\ i = last /\ wd[i].status = "unknown" => wd'[i].stage = "done"
          /\ wd'[i].stage = wd[i].stage \/ (wd[i].status = "unknown" /\ i = last)
          /\ wd'[i].lease = wd[i].lease
    BY <1>0, <1>1 DEF WatchdogOperation
  <1>l. /\ last # 0 /\ wd[last].status \in {"queued", "unknown"} => wd[last].status = "unknown"
        /\ IF last = 0 THEN \A j \in DOMAIN wd : wd[j].m = MachineOf(c) => wd[j].status = "failed"
           ELSE last \in DOMAIN wd /\ wd[last].m = MachineOf(c) /\ wd[last].status # "failed"
        /\ last # 0 /\ wd[last].status = "unknown" => ~wd[last].lease
    BY LastIsNewest DEF AcceptWatchdog, Types
  <1> HIDE DEF last, n
  \* Nothing on this machine is in flight any more.
  <1>4. ASSUME NEW i \in DOMAIN wd, wd[i].m = MachineOf(c), wd'[i].stage \in {"queued", "applying"}
        PROVE  FALSE
    <2>1. InFlight(i) /\ wd[i].status \in {"queued", "unknown"} /\ After(i, {"failed"})
      BY <1>1, <1>3, <1>4 DEF InFlight, OpScript
    <2>2. last \in DOMAIN wd /\ wd[last].m = wd[i].m /\ wd[last].status # "failed"
      BY <1>4, <1>l, <2>1
    <2>3. last <= i
      BY <1>0, <2>1, <2>2 DEF After
    <2>4. ~(last < i)
      <3> SUFFICES ASSUME last < i PROVE FALSE
        OBVIOUS
      <3>1. wd[i].status = "failed"
        BY <1>4, <2>2, LastIsNewest DEF Types, last
      <3> QED BY <2>1, <3>1
    <2>5. i = last
      BY <1>0, <2>2, <2>3, <2>4
    <2>6. wd[last].status = "unknown" /\ wd'[last].stage = "done"
      BY <1>3, <1>l, <1>0, <2>1, <2>2, <2>5
    <2> QED BY <1>4, <2>5, <2>6
  <1> SUFFICES ASSUME NEW j \in 1..n PROVE OpScript(j)'
    BY <1>0
  <1>5. CASE j = n
    BY <1>0, <1>2, <1>5 DEF OpScript, After, InFlight
  <1>6. CASE j # n
    <2>0. j \in DOMAIN wd
      BY <1>0, <1>6 DEF n
    <2>1. InFlight(j)' => After(j, {"failed"})'
      <3> SUFFICES ASSUME wd'[j].stage \in {"queued", "applying"}, NEW l \in DOMAIN wd', l > j,
                          wd'[l].m = wd'[j].m
                   PROVE  wd'[l].status = "failed"
        BY DEF InFlight, After
      <3>1. l # n
        BY <1>2, <1>3, <1>4, <2>0
      <3>2. l \in DOMAIN wd
        BY <1>0, <3>1 DEF n
      <3> QED BY <1>1, <1>3, <2>0, <3>2 DEF OpScript, InFlight, After
    <2>2. OpScript(j)
      BY <1>1, <2>0
    <2>3. wd'[j].lease => wd'[j].stage = "applying"
      BY <1>0, <1>3, <1>l, <2>0, <2>2 DEF OpScript
    <2>4. /\ wd'[j].stage = "queued" <=> wd'[j].status = "queued"
          /\ wd'[j].stage = "applying" => wd'[j].status = "unknown"
          /\ wd'[j].stage = "queued" => wd'[j].sent = 0
          /\ wd'[j].sent <= 1
      BY <1>3, <2>0, <2>2 DEF OpScript
    <2> QED BY <2>1, <2>3, <2>4 DEF OpScript
  <1> QED BY <1>5, <1>6

\* A field written by a step, and the others of its operation.
LEMMA SetFields ==
    ASSUME Types, NEW i \in DOMAIN wd, NEW x, wd' = [wd EXCEPT ![i] = x]
    PROVE  /\ DOMAIN wd' = DOMAIN wd /\ wd'[i] = x
           /\ \A j \in DOMAIN wd : j # i => wd'[j] = wd[j]
  BY DEF Types

\* A turn of the watchdog's worker, a late script, a lease that ends and a crash each
\* advance one operation, or none.
LEMMA WatchdogAdvances ==
    ASSUME Types, ScriptInv,
           RunWatchdog \/ (\E i \in DOMAIN wd : LateScript(i) \/ LeaseEnds(i)) \/ Crash \/ Restart
    PROVE  WwScript' /\ \/ UNCHANGED <<wd, watched>>
                        \/ \E i \in DOMAIN wd : Advances(i)
  <1>0. /\ DOMAIN wd = 1..Len(wd) /\ Len(wd) \in Nat /\ 0 \notin DOMAIN wd /\ ww \in Watchers
        /\ \A j \in DOMAIN wd : wd[j] \in WatchdogOperation
    BY DEF Types
  <1>1. WwScript /\ \A j \in DOMAIN wd : OpScript(j)
    BY DEF ScriptInv
  <1>w. Watching.pc = "idle" /\ Watching.i = 0
    BY DEF Watching
  <1>2. ASSUME NEW i \in DOMAIN wd, ClaimWatchdog(i)
        PROVE  WwScript' /\ Advances(i)
    <2>1. /\ wd[i].stage = "queued" /\ wd[i].status = "queued" /\ wd[i].sent = 0 /\ ww.pc = "idle"
          /\ watched' = watched /\ ~wd[i].lease
      BY <1>0, <1>1, <1>2 DEF ClaimWatchdog, OpScript, WwScript
    <2>3. CASE /\ wd' = [wd EXCEPT ![i] = [wd[i] EXCEPT !.stage = "applying", !.status = "unknown",
                                                        !.lease = TRUE]]
               /\ ww' = [pc |-> "apply", i |-> i, ok |-> FALSE]
      <3>1. /\ DOMAIN wd' = DOMAIN wd /\ \A j \in DOMAIN wd : j # i => wd'[j] = wd[j]
            /\ wd'[i] = [wd[i] EXCEPT !.stage = "applying", !.status = "unknown", !.lease = TRUE]
        BY <2>3, SetFields
      <3>2. /\ wd'[i].m = wd[i].m /\ wd'[i].act = wd[i].act /\ wd'[i].c = wd[i].c
            /\ wd'[i].stage = "applying" /\ wd'[i].status = "unknown" /\ wd'[i].lease
            /\ wd'[i].sent = 0
        BY <1>0, <2>1, <3>1 DEF WatchdogOperation
      <3>3. Advances(i)
        BY <2>1, <3>1, <3>2 DEF Advances, InFlight
      <3> QED BY <1>0, <2>1, <2>3, <3>1, <3>2, <3>3 DEF WwScript
    <2>4. CASE /\ wd' = [wd EXCEPT ![i] = [wd[i] EXCEPT !.stage = "done", !.status = "failed"]]
               /\ ww' = ww
      <3>1. /\ DOMAIN wd' = DOMAIN wd /\ \A j \in DOMAIN wd : j # i => wd'[j] = wd[j]
            /\ wd'[i] = [wd[i] EXCEPT !.stage = "done", !.status = "failed"]
        BY <2>4, SetFields
      <3>2. /\ wd'[i].m = wd[i].m /\ wd'[i].act = wd[i].act /\ wd'[i].c = wd[i].c
            /\ wd'[i].stage = "done" /\ wd'[i].status = "failed" /\ wd'[i].sent = 0
            /\ ~wd'[i].lease
        BY <1>0, <2>1, <3>1 DEF WatchdogOperation
      <3>3. Advances(i)
        BY <2>1, <3>1, <3>2 DEF Advances, InFlight
      <3> QED BY <1>1, <2>1, <2>4, <3>1, <3>3 DEF WwScript
    <2> QED BY <1>2, <2>3, <2>4 DEF ClaimWatchdog, SetWatchdog
  <1>3. ASSUME NEW i \in DOMAIN wd, ObserveWatchdog(i)
        PROVE  WwScript' /\ UNCHANGED <<wd, watched>>
    <2>1. /\ UNCHANGED <<wd, watched>> /\ ww' = [pc |-> "finish", i |-> i, ok |-> TRUE]
          /\ wd[i].stage = "applying" /\ ~wd[i].lease
      BY <1>3 DEF ObserveWatchdog, ledger
    <2> QED BY <1>0, <1>1, <2>1 DEF WwScript
  \* The operation of the turn under way.
  <1>i. ww.pc # "idle" =>
          /\ ww.i \in DOMAIN wd /\ wd[ww.i].stage = "applying" /\ wd[ww.i].status = "unknown"
          /\ InFlight(ww.i) /\ wd[ww.i].sent <= 1
    BY <1>1 DEF WwScript, OpScript, InFlight
  <1>4. ASSUME ApplyWatchdog
        PROVE  WwScript' /\ (UNCHANGED <<wd, watched>> \/ Advances(ww.i))
    <2>0. ww.pc = "apply" /\ ww.i \in DOMAIN wd /\ wd[ww.i].lease /\ wd[ww.i].sent = 0
      BY <1>1, <1>4, <1>i DEF ApplyWatchdog, WwScript
    <2>1. CASE ww' = [ww EXCEPT !.pc = "release"] /\ UNCHANGED <<ledger, watched>>
      <3>1. ww'.pc = "release" /\ ww'.i = ww.i /\ ww'.ok = ww.ok /\ UNCHANGED <<wd, watched>>
        BY <1>0, <2>1 DEF Watchers, ledger
      <3>2. ~ww.ok
        BY <1>1, <2>0 DEF WwScript
      <3> QED BY <1>1, <1>i, <2>0, <3>1, <3>2 DEF WwScript
    <2>2. ASSUME NEW landed \in BOOLEAN, NEW ok \in BOOLEAN, ok => landed,
                 wd' = [wd EXCEPT ![ww.i] = [wd[ww.i] EXCEPT !.sent = @ + 1]],
                 watched' = IF landed THEN Landed(ww.i) ELSE watched,
                 ww' = [ww EXCEPT !.pc = "release", !.ok = ok]
          PROVE  WwScript' /\ Advances(ww.i)
      <3>1. /\ DOMAIN wd' = DOMAIN wd /\ \A j \in DOMAIN wd : j # ww.i => wd'[j] = wd[j]
            /\ wd'[ww.i] = [wd[ww.i] EXCEPT !.sent = @ + 1]
        BY <2>0, <2>2, SetFields
      <3>2. /\ wd'[ww.i].m = wd[ww.i].m /\ wd'[ww.i].act = wd[ww.i].act
            /\ wd'[ww.i].c = wd[ww.i].c /\ wd'[ww.i].stage = "applying"
            /\ wd'[ww.i].status = "unknown" /\ wd'[ww.i].lease /\ wd'[ww.i].sent = 1
        BY <1>0, <1>i, <2>0, <3>1 DEF WatchdogOperation
      <3>3. \A m : m # wd[ww.i].m => (m \in watched' <=> m \in watched)
        BY <2>2 DEF Landed
      <3>4. Advances(ww.i)
        BY <1>i, <2>0, <3>1, <3>2, <3>3 DEF Advances
      <3>5. ww'.pc = "release" /\ ww'.i = ww.i /\ ww'.ok = ok
        BY <1>0, <2>2 DEF Watchers
      <3> QED BY <1>1, <1>i, <2>0, <3>1, <3>2, <3>4, <3>5 DEF WwScript
    <2> QED BY <1>4, <2>1, <2>2 DEF ApplyWatchdog, SetWatchdog
  <1>5. ASSUME ReleaseWatchdog
        PROVE  WwScript' /\ Advances(ww.i)
    <2>0. /\ ww.pc = "release" /\ ww.i \in DOMAIN wd /\ watched' = watched
          /\ wd' = [wd EXCEPT ![ww.i] = [wd[ww.i] EXCEPT !.lease = FALSE]]
      BY <1>5, <1>i DEF ReleaseWatchdog, SetWatchdog
    <2>1. /\ DOMAIN wd' = DOMAIN wd /\ \A j \in DOMAIN wd : j # ww.i => wd'[j] = wd[j]
          /\ wd'[ww.i] = [wd[ww.i] EXCEPT !.lease = FALSE]
      BY <2>0, SetFields
    <2>2. /\ wd'[ww.i].m = wd[ww.i].m /\ wd'[ww.i].act = wd[ww.i].act
          /\ wd'[ww.i].c = wd[ww.i].c /\ wd'[ww.i].stage = "applying"
          /\ wd'[ww.i].status = "unknown" /\ wd'[ww.i].sent = wd[ww.i].sent /\ ~wd'[ww.i].lease
      BY <1>0, <1>i, <2>0, <2>1 DEF WatchdogOperation
    <2>3. Advances(ww.i)
      BY <1>i, <2>0, <2>1, <2>2 DEF Advances
    <2>4. CASE ww.ok
      <3>1. ww'.pc = "finish" /\ ww'.i = ww.i /\ ww'.ok
        BY <1>0, <1>5, <2>4 DEF ReleaseWatchdog, Watchers
      <3> QED BY <1>1, <1>i, <2>0, <2>1, <2>2, <2>3, <3>1 DEF WwScript
    <2>5. CASE ~ww.ok
      <3>1. ww'.pc = "idle" /\ ww'.i = 0
        BY <1>5, <1>w, <2>5 DEF ReleaseWatchdog
      <3> QED BY <1>1, <2>0, <2>1, <2>3, <3>1 DEF WwScript
    <2> QED BY <2>4, <2>5
  <1>6. ASSUME FinishWatchdog
        PROVE  WwScript' /\ Advances(ww.i)
    <2>0. /\ ww.pc = "finish" /\ ww.i \in DOMAIN wd /\ watched' = watched /\ ww' = Watching
          /\ wd' = [wd EXCEPT ![ww.i] = [wd[ww.i] EXCEPT !.status = "succeeded", !.stage = "done"]]
          /\ ~wd[ww.i].lease
      BY <1>1, <1>6, <1>i DEF FinishWatchdog, SetWatchdog, WwScript
    <2>1. /\ DOMAIN wd' = DOMAIN wd /\ \A j \in DOMAIN wd : j # ww.i => wd'[j] = wd[j]
          /\ wd'[ww.i] = [wd[ww.i] EXCEPT !.status = "succeeded", !.stage = "done"]
      BY <2>0, SetFields
    <2>2. /\ wd'[ww.i].m = wd[ww.i].m /\ wd'[ww.i].act = wd[ww.i].act
          /\ wd'[ww.i].c = wd[ww.i].c /\ wd'[ww.i].stage = "done"
          /\ wd'[ww.i].status = "succeeded" /\ wd'[ww.i].sent = wd[ww.i].sent
          /\ ~wd'[ww.i].lease
      BY <1>0, <2>0, <2>1 DEF WatchdogOperation
    <2>3. Advances(ww.i)
      BY <1>i, <2>0, <2>1, <2>2 DEF Advances
    <2> QED BY <1>1, <1>w, <2>0, <2>1, <2>3 DEF WwScript
  <1>7. ASSUME NEW i \in DOMAIN wd, LateScript(i)
        PROVE  WwScript' /\ Advances(i)
    <2>1. UNCHANGED <<wd, ww>> /\ watched' \in {watched, Landed(i)} /\ OpScript(i)
      BY <1>1, <1>7 DEF LateScript, ledger
    <2>2. wd[i].status \in {"unknown", "succeeded"}
      BY <1>7 DEF LateScript, ScriptInv, LateInv
    <2>3. \A m : m # wd[i].m => (m \in watched' <=> m \in watched)
      BY <2>1 DEF Landed
    <2>4. Advances(i)
      BY <2>1, <2>2, <2>3 DEF Advances, OpScript, InFlight
    <2> QED BY <1>1, <2>1, <2>4 DEF WwScript
  <1>8. ASSUME NEW i \in DOMAIN wd, LeaseEnds(i)
        PROVE  WwScript' /\ Advances(i)
    <2>0. /\ wd' = [wd EXCEPT ![i] = [wd[i] EXCEPT !.lease = FALSE]] /\ i # ww.i
          /\ UNCHANGED <<watched, ww>>
      BY <1>8 DEF LeaseEnds, SetWatchdog, watchdog
    <2>1. /\ DOMAIN wd' = DOMAIN wd /\ \A j \in DOMAIN wd : j # i => wd'[j] = wd[j]
          /\ wd'[i] = [wd[i] EXCEPT !.lease = FALSE]
      BY <2>0, SetFields
    <2>2. /\ wd'[i].m = wd[i].m /\ wd'[i].act = wd[i].act /\ wd'[i].c = wd[i].c
          /\ wd'[i].stage = wd[i].stage /\ wd'[i].status = wd[i].status /\ wd'[i].sent = wd[i].sent
          /\ ~wd'[i].lease
      BY <1>0, <2>1 DEF WatchdogOperation
    <2>3. Advances(i)
      BY <1>1, <2>0, <2>1, <2>2 DEF Advances, OpScript, InFlight
    <2>4. ww.pc # "idle" => wd'[ww.i] = wd[ww.i]
      BY <1>i, <2>0, <2>1
    <2> QED BY <1>1, <1>i, <2>0, <2>1, <2>3, <2>4 DEF WwScript
  \* A script that is cut off counts as sent.
  <1>9. ASSUME CutOff, watched' = watched
        PROVE  /\ Advances(ww.i) /\ ww.i \in DOMAIN wd /\ DOMAIN wd' = DOMAIN wd
               /\ wd'[ww.i].stage = "applying" /\ wd'[ww.i].lease
    <2>0. /\ ww.pc = "apply" /\ ww.i \in DOMAIN wd /\ wd[ww.i].lease /\ wd[ww.i].sent = 0
          /\ wd' = [wd EXCEPT ![ww.i] = [wd[ww.i] EXCEPT !.sent = @ + 1]]
      BY <1>1, <1>9, <1>i DEF CutOff, SetWatchdog, WwScript
    <2>1. /\ DOMAIN wd' = DOMAIN wd /\ \A j \in DOMAIN wd : j # ww.i => wd'[j] = wd[j]
          /\ wd'[ww.i] = [wd[ww.i] EXCEPT !.sent = @ + 1]
      BY <2>0, SetFields
    <2>2. /\ wd'[ww.i].m = wd[ww.i].m /\ wd'[ww.i].act = wd[ww.i].act
          /\ wd'[ww.i].c = wd[ww.i].c /\ wd'[ww.i].stage = "applying"
          /\ wd'[ww.i].status = "unknown" /\ wd'[ww.i].lease /\ wd'[ww.i].sent = 1
      BY <1>0, <1>i, <2>0, <2>1 DEF WatchdogOperation
    <2>3. Advances(ww.i)
      BY <1>9, <1>i, <2>0, <2>1, <2>2 DEF Advances
    <2> QED BY <2>0, <2>1, <2>2, <2>3
  <1>10. ASSUME CutOffWatchdog
         PROVE  WwScript' /\ ww.i \in DOMAIN wd /\ Advances(ww.i)
    <2>1. CutOff /\ watched' = watched /\ ww.pc = "apply"
      BY <1>10 DEF CutOffWatchdog, CutOff
    <2>2. ww'.pc = "release" /\ ww'.i = ww.i
      BY <1>0, <1>10 DEF CutOffWatchdog, Watchers
    <2>3. ww.i # 0
      BY <1>1, <2>1 DEF WwScript
    <2> QED BY <1>9, <2>1, <2>2, <2>3 DEF WwScript
  <1>11. ASSUME Crash \/ Restart
         PROVE  WwScript' /\ (UNCHANGED <<wd, watched>> \/ \E i \in DOMAIN wd : Advances(i))
    <2>1. ww'.pc = "idle" /\ ww'.i = 0 /\ watched' = watched /\ (UNCHANGED <<ledger, late>> \/ CutOff)
      BY <1>11, <1>w DEF Crash, Restart
    <2>2. WwScript'
      BY <2>1 DEF WwScript
    <2> QED BY <1>9, <2>1, <2>2 DEF ledger
  <1>x. ApplyWatchdog \/ ReleaseWatchdog \/ FinishWatchdog => ww.i \in DOMAIN wd
    BY <1>1, <1>i DEF ApplyWatchdog, ReleaseWatchdog, FinishWatchdog, WwScript
  <1>a. CASE ApplyWatchdog \/ CutOffWatchdog
    BY <1>4, <1>10, <1>a, <1>x
  <1>b. CASE ReleaseWatchdog \/ FinishWatchdog
    BY <1>5, <1>6, <1>b, <1>x
  <1>c. CASE \E i \in DOMAIN wd : LateScript(i) \/ LeaseEnds(i)
    BY <1>7, <1>8, <1>c
  <1>d. CASE \E i \in DOMAIN wd : ClaimWatchdog(i) \/ ObserveWatchdog(i)
    BY <1>2, <1>3, <1>d
  <1> QED BY <1>11, <1>a, <1>b, <1>c, <1>d DEF RunWatchdog

\* A script that was cut off stays with an operation that was sent.
LEMMA LateAdvances ==
    ASSUME Types, Types', ScriptInv, UNCHANGED wd \/ \E i \in DOMAIN wd : Advances(i),
           RunWatchdog \/ (\E i \in DOMAIN wd : LateScript(i) \/ LeaseEnds(i)) \/ Crash \/ Restart
    PROVE  LateInv'
  <1>1. late' \subseteq late \/ (ww.pc = "apply" /\ late' = late \cup {ww.i})
    BY DEF RunWatchdog, ClaimWatchdog, ObserveWatchdog, ApplyWatchdog, CutOffWatchdog, CutOff,
           ReleaseWatchdog, FinishWatchdog, LateScript, LeaseEnds, watchdog, Crash, Restart
  <1>2. ww.pc = "apply" => ww.i \in DOMAIN wd /\ wd[ww.i].status \in {"unknown", "succeeded"}
    BY DEF ScriptInv, WwScript, OpScript
  <1>3. \A j \in late' : j \in DOMAIN wd /\ wd[j].status \in {"unknown", "succeeded"}
    BY <1>1, <1>2 DEF ScriptInv, LateInv
  <1>4. CASE UNCHANGED wd
    BY <1>3, <1>4 DEF LateInv
  <1>5. ASSUME NEW i \in DOMAIN wd, Advances(i), NEW j \in late'
        PROVE  j \in DOMAIN wd' /\ wd'[j].status \in {"unknown", "succeeded"}
    <2>1. j \in DOMAIN wd' /\ wd'[j].status \notin {"queued", "failed"}
      BY <1>3, <1>5 DEF Advances
    <2>2. wd'[j] \in WatchdogOperation
      BY <2>1 DEF Types
    <2> QED BY <2>1, <2>2 DEF WatchdogOperation
  <1> QED BY <1>4, <1>5 DEF LateInv

\* A step outside the watchdog leaves its operations and the hosts alone.
LEMMA OutsideWatchdog ==
    ASSUME \/ SubmitNext /\ UNCHANGED watchdog
           \/ WorkerNext /\ UNCHANGED watchdog
           \/ WorkNext /\ UNCHANGED <<service, watchdog>>
           \/ (\E c \in Conn : TokenExpires(c)) /\ UNCHANGED watchdog
           \/ (\E a \in Account : MachineMoves(a)) /\ UNCHANGED watchdog
           \/ UNCHANGED vars
    PROVE  UNCHANGED <<wd, watched, ww, late>>
  <1>1. CASE SubmitNext /\ UNCHANGED watchdog
    <2>1. ASSUME NEW c, NEW act, AcceptConnection(c, act) PROVE wd' = wd
      BY <2>1 DEF AcceptConnection
    <2>2. ASSUME NEW c \in Conn, NEW act, SubmitPlain(c, act)
                                      \/ \E account \in Account : SubmitSecret(c, act, account)
          PROVE  wd' = wd
      BY <2>1, <2>2 DEF SubmitPlain, SubmitSecret
    <2>3. ASSUME (\E c \in Conn : Replay(c)) \/ CreateSecret \/ CreateFails \/ ReadySecret \/ ClientGone
          PROVE  wd' = wd
      BY <2>3 DEF Replay, CreateSecret, CreateFails, ReadySecret, ReadyConnection, ClientGone, ledger
    <2> QED BY <1>1, <2>2, <2>3 DEF SubmitNext, watchdog
  <1>f. ASSUME NEW c, NEW problem, FailConnection(c, problem) PROVE wd' = wd
    BY <1>f DEF FailConnection
  <1>2. CASE WorkerNext /\ UNCHANGED watchdog
    <2>1. ASSUME NEW c \in Conn,
                 \/ ResumeWaiting(c) \/ Disable(c) \/ BeginRemove(c) \/ BeginVerify(c)
                 \/ BeginInstall(c) \/ \E key \in 1..MaxRev : NextSecretDeletion(c, key)
          PROVE  wd' = wd
      BY <2>1 DEF ResumeWaiting, ReadyConnection, Disable, FinishDisabled, BeginRemove, BeginVerify,
                  BeginInstall, BeginConnectionInstall, NextSecretDeletion, ledger
    <2>2. ASSUME \/ EraseSecret \/ EraseFails \/ FinishRemove \/ Build
                 \/ \E problem \in {"rejected", "unavailable"} : VerifyFails(problem)
          PROVE  wd' = wd
      BY <1>f, <2>2 DEF EraseSecret, EraseFails, FinishRemove, FinishRemoved, Build, VerifyFails, ledger
    <2>3. ASSUME NEW image \in BOOLEAN, VerifyAnswers(image) PROVE wd' = wd
      BY <1>f, <2>3 DEF VerifyAnswers, FinishVerified, ledger
    <2>4. ASSUME DeleteSecret \/ DeleteFails \/ CompleteSecretDeletion PROVE wd' = wd
      BY <2>4 DEF DeleteSecret, DeleteFails, CompleteSecretDeletion, ledger
    <2> QED BY <1>2, <2>1, <2>2, <2>3, <2>4 DEF WorkerNext, watchdog
  <1>3. CASE WorkNext /\ UNCHANGED <<service, watchdog>>
    BY <1>3 DEF WorkNext, AdmitWork, EndWork, RetryWork, watchdog
  <1>4. CASE (\E c \in Conn : TokenExpires(c)) /\ UNCHANGED watchdog
    BY <1>4 DEF TokenExpires, watchdog
  <1>5. CASE (\E a \in Account : MachineMoves(a)) /\ UNCHANGED watchdog
    BY <1>5 DEF MachineMoves, ledger, watchdog
  <1>6. CASE UNCHANGED vars
    BY <1>6 DEF vars, ledger, watchdog
  <1> QED BY <1>1, <1>2, <1>3, <1>4, <1>5, <1>6

\* No step sends a second script, or takes an operation on beside another.
LEMMA ScriptStep == IInv /\ [Next]_vars => ScriptInv'
  <1> SUFFICES ASSUME IInv, [Next]_vars PROVE ScriptInv'
    OBVIOUS
  <1>0. Types /\ ScriptInv /\ Types'
    BY TypeStep DEF IInv
  <1>1. CASE UNCHANGED <<wd, watched, ww, late>>
    BY <1>0, <1>1 DEF ScriptInv, WwScript, LateInv, OpScript, InFlight, After
  <1>2. ASSUME NEW c \in Conn, NEW act \in {"install_host_watchdog", "remove_host_watchdog"},
               AcceptWatchdog(c, act)
        PROVE  ScriptInv'
    <2>1. \A j \in DOMAIN wd' : OpScript(j)'
      BY <1>0, <1>2, AcceptScript
    <2>2. WwScript'
      BY <1>0, <1>2 DEF AcceptWatchdog, watchdog, ScriptInv, WwScript
    <2>3. LateInv'
      <3> SUFFICES ASSUME NEW j \in late' PROVE j \in DOMAIN wd' /\ wd'[j].status = wd[j].status
        BY <1>0, <1>2 DEF AcceptWatchdog, watchdog, ScriptInv, LateInv
      <3>1. j \in DOMAIN wd
        BY <1>0, <1>2 DEF AcceptWatchdog, watchdog, ScriptInv, LateInv
      <3> DEFINE last == LastWatchdog(MachineOf(c))
      <3>2. /\ DOMAIN wd' = 1..(Len(wd) + 1) /\ DOMAIN wd = 1..Len(wd) /\ Len(wd) \in Nat
            /\ wd'[j] = IF j = last /\ wd[j].status = "unknown"
                        THEN [wd[j] EXCEPT !.stage = "done"] ELSE wd[j]
            /\ wd[j] \in WatchdogOperation
        BY <1>0, <1>2, <3>1, AcceptedWatchdog DEF Types
      <3> QED BY <3>1, <3>2 DEF WatchdogOperation
    <2> QED BY <2>1, <2>2, <2>3 DEF ScriptInv
  <1>3. ASSUME RunWatchdog \/ (\E i \in DOMAIN wd : LateScript(i) \/ LeaseEnds(i)) \/ Crash \/ Restart
        PROVE  ScriptInv'
    <2>1. WwScript' /\ (UNCHANGED <<wd, watched>> \/ \E i \in DOMAIN wd : Advances(i))
      BY <1>0, <1>3, WatchdogAdvances
    <2>2. LateInv'
      BY <1>0, <1>3, <2>1, LateAdvances
    <2>3. CASE UNCHANGED <<wd, watched>>
      BY <1>0, <2>1, <2>2, <2>3 DEF ScriptInv, OpScript, InFlight, After
    <2> QED BY <1>0, <2>1, <2>2, <2>3, AdvanceScript DEF ScriptInv
  <1> QED BY <1>1, <1>2, <1>3, OutsideWatchdog DEF Next, WatchdogNext, SubmitWatchdog

-----------------------------------------------------------------------------
(* Connections a watchdog leans on.                                        *)

\* A connection stays with its machine, and its owner's access ends only by a removal
\* that the watchdog allows.
Keeps(c) ==
    /\ MachineOf(c) # None => MachineOf(c)' = MachineOf(c)
    /\ ProfileOwned(c) => ProfileOwned(c)' \/ Unwatched(c)

\* Most steps do not touch what access depends on.
LEMMA KeepsFields ==
    ASSUME NEW c, bound' = bound,
           conn'[c].account = conn[c].account, conn'[c].cred = conn[c].cred,
           conn'[c].new = conn[c].new,
           conn'[c].pending /\ op'[c].act = "remove" => Removing(c)
    PROVE  Keeps(c)
  BY DEF Keeps, MachineOf, ProfileOwned, Removing

\* A step on connection c that does not touch it, and leaves the others alone.
LEMMA KeepsAll ==
    ASSUME NEW c, bound' = bound,
           c \in Conn => /\ conn'[c].account = conn[c].account /\ conn'[c].cred = conn[c].cred
                         /\ conn'[c].new = conn[c].new
                         /\ conn'[c].pending /\ op'[c].act = "remove" => Removing(c),
           \A d \in Conn \ {c} : conn'[d] = conn[d] /\ op'[d] = op[d]
    PROVE  \A d \in Conn : Keeps(d)
  <1> SUFFICES ASSUME NEW d \in Conn PROVE Keeps(d)
    OBVIOUS
  <1>1. CASE d = c
    BY <1>1, KeepsFields
  <1>2. CASE d # c
    BY <1>2, KeepsFields DEF Removing
  <1> QED BY <1>1, <1>2

\* An accepted request.
LEMMA AcceptKeeps ==
    ASSUME Types, NEW c \in Conn, NEW act \in Actions, AcceptConnection(c, act)
    PROVE  \A d \in Conn : Keeps(d)
  <1>t. conn \in [Conn -> Connection] /\ op \in [Conn -> Operation]
    BY DEF Types, LedgerTypeOK
  <1>1. /\ bound' = bound /\ op'[c].act = act
        /\ \A d \in Conn \ {c} : conn'[d] = conn[d] /\ op'[d] = op[d]
    BY <1>t DEF AcceptConnection
  <1>2. /\ conn'[c].account = conn[c].account /\ conn'[c].cred = conn[c].cred
        /\ conn'[c].new # "removed"
    BY <1>t DEF AcceptConnection, Acceptable, Connection
  <1>3. act = "remove" => Unwatched(c)
    BY DEF AcceptConnection, Acceptable
  <1> SUFFICES ASSUME NEW d \in Conn PROVE Keeps(d)
    OBVIOUS
  <1>4. CASE d = c
    <2>1. MachineOf(c)' = MachineOf(c)
      BY <1>1, <1>2 DEF MachineOf
    <2>2. ProfileOwned(c) => ProfileOwned(c)' \/ Unwatched(c)
      BY <1>1, <1>2, <1>3 DEF ProfileOwned, Removing
    <2> QED BY <1>4, <2>1, <2>2 DEF Keeps
  <1>5. CASE d # c
    BY <1>1, <1>5, KeepsFields DEF Removing
  <1> QED BY <1>4, <1>5

\* A failed operation.
LEMMA FailKeeps ==
    ASSUME Types, NEW c \in Conn, NEW problem, FailConnection(c, problem)
    PROVE  \A d \in Conn : Keeps(d)
  <1>t. conn \in [Conn -> Connection] /\ op \in [Conn -> Operation]
    BY DEF Types, LedgerTypeOK
  <1>1. /\ bound' = bound
        /\ \A d \in Conn \ {c} : conn'[d] = conn[d] /\ op'[d] = op[d]
    BY <1>t DEF FailConnection, Done
  <1>2. /\ conn'[c].account = conn[c].account /\ conn'[c].cred = conn[c].cred
        /\ conn'[c].new = conn[c].new /\ (conn'[c].pending => conn[c].pending)
        /\ op'[c].act = op[c].act
    BY <1>t DEF FailConnection, Done, Connection, Operation
  <1> QED BY <1>1, <1>2, KeepsAll DEF Removing

\* A verified login binds an account to a machine once, and never moves it.
LEMMA VerifiedKeeps ==
    ASSUME Types, RowInv, NEW c \in Conn, NEW m \in Machine, NEW image \in BOOLEAN,
           NEW a \in Account, op[c].key \in vault[c], conn[c].account \in {None, a},
           ~Rebinds(a, m), FinishVerified(c, a, m, image)
    PROVE  \A d \in Conn : Keeps(d)
  <1>t. /\ conn \in [Conn -> Connection] /\ op \in [Conn -> Operation]
        /\ bound \in [Account -> Machine \cup {None}]
    BY DEF Types, LedgerTypeOK
  <1>1. \A d \in Conn \ {c} : conn'[d] = conn[d] /\ op'[d] = op[d]
    BY <1>t DEF FinishVerified, Done
  <1>2. /\ conn'[c].account = a /\ conn'[c].cred = op[c].key /\ conn'[c].pending = FALSE
        /\ conn'[c].new = IF op[c].act = "enable" THEN "enabled" ELSE conn[c].new
    BY <1>t DEF FinishVerified, Connection
  <1>3. op[c].key # 0
    BY RowTypes
  <1>4. bound'[a] = m /\ (\A b \in Account : bound[b] # None => bound'[b] = bound[b])
    BY <1>t DEF FinishVerified, Rebinds
  <1> SUFFICES ASSUME NEW d \in Conn PROVE Keeps(d)
    OBVIOUS
  <1>5. conn[d].account \in Account \cup {None} /\ None \notin Account
    BY <1>t, Bounds DEF Connection
  <1>6. CASE d = c
    <2>1. MachineOf(c) # None => MachineOf(c)' = MachineOf(c)
      BY <1>2, <1>4, <1>5, <1>6 DEF MachineOf
    <2>2. ProfileOwned(c) => ProfileOwned(c)'
      BY <1>2, <1>3 DEF ProfileOwned, Removing
    <2> QED BY <1>6, <2>1, <2>2 DEF Keeps
  <1>7. CASE d # c
    <2>1. MachineOf(d) # None => MachineOf(d)' = MachineOf(d)
      BY <1>1, <1>4, <1>5, <1>7 DEF MachineOf
    <2>2. ProfileOwned(d) => ProfileOwned(d)'
      BY <1>1, <1>7 DEF ProfileOwned, Removing
    <2> QED BY <2>1, <2>2 DEF Keeps
  <1> QED BY <1>6, <1>7

\* Every step outside the watchdog keeps the connections it leans on.
LEMMA ConnectionKeeps ==
    ASSUME IInv,
           \/ SubmitNext
           \/ WorkerNext
           \/ WorkNext
           \/ \E c \in Conn : TokenExpires(c)
           \/ \E a \in Account : MachineMoves(a)
           \/ UNCHANGED vars
    PROVE  \A d \in Conn : Keeps(d)
  <1>0. Types /\ LockInv /\ RowInv
    BY DEF IInv
  <1>t. conn \in [Conn -> Connection] /\ op \in [Conn -> Operation]
    BY <1>0 DEF Types, LedgerTypeOK
  <1>q. ASSUME UNCHANGED <<conn, bound>>, \A d \in Conn : op'[d].act = op[d].act
        PROVE  \A d \in Conn : Keeps(d)
    BY <1>q, KeepsFields DEF Removing
  <1>l. ASSUME UNCHANGED ledger PROVE \A d \in Conn : Keeps(d)
    BY <1>l, <1>q DEF ledger
  <1>1. CASE SubmitNext
    <2>1. ASSUME NEW c \in Conn, NEW act \in Requests,
                 SubmitPlain(c, act) \/ \E account \in Account : SubmitSecret(c, act, account)
          PROVE  \A d \in Conn : Keeps(d)
      <3>1. AcceptConnection(c, act) /\ act \in Actions
        BY <2>1, Bounds DEF SubmitPlain, SubmitSecret
      <3> QED BY <1>0, <3>1, AcceptKeeps
    <2>2. ASSUME NEW c \in Conn, Replay(c) PROVE \A d \in Conn : Keeps(d)
      BY <1>l, <2>2 DEF Replay
    <2>3. CASE CreateSecret
      BY <1>q, <2>3 DEF CreateSecret
    <2>4. CASE CreateFails
      <3>1. /\ bound' = bound
            /\ \A d \in Conn \ {sub.c} : conn'[d] = conn[d] /\ op'[d] = op[d]
        BY <1>t, <2>4 DEF CreateFails, Done
      <3>2. sub.c \in Conn =>
              /\ conn'[sub.c].account = conn[sub.c].account /\ conn'[sub.c].cred = conn[sub.c].cred
              /\ conn'[sub.c].new = conn[sub.c].new /\ ~conn'[sub.c].pending
        BY <1>t, <2>4 DEF CreateFails, Connection
      <3> QED BY <3>1, <3>2, KeepsAll
    <2>5. CASE ReadySecret
      <3>1. CASE UNCHANGED ledger
        BY <1>l, <3>1
      <3>2. CASE ReadyConnection(sub.c)
        <4>1. \A d \in Conn : op'[d].act = op[d].act
          BY <1>t, <3>2 DEF ReadyConnection, Operation
        <4> QED BY <1>q, <3>2, <4>1 DEF ReadyConnection
      <3> QED BY <2>5, <3>1, <3>2 DEF ReadySecret
    <2>6. CASE ClientGone
      BY <1>l, <2>6 DEF ClientGone
    <2> QED BY <1>1, <2>1, <2>2, <2>3, <2>4, <2>5, <2>6 DEF SubmitNext
  <1>2. CASE WorkerNext
    <2>k. wk.pc # "idle" => wk.c \in Conn
      BY <1>0 DEF LockInv, WkHolds
    <2>1. ASSUME NEW c \in Conn, ResumeWaiting(c) \/ BeginInstall(c) \/ BeginRemove(c)
          PROVE  \A d \in Conn : Keeps(d)
      <3>1. UNCHANGED <<conn, bound>>
        BY <2>1 DEF ResumeWaiting, ReadyConnection, BeginInstall, BeginConnectionInstall, BeginRemove,
                    ledger
      <3>2. \A d \in Conn : op'[d].act = op[d].act
        BY <1>t, <2>1 DEF ResumeWaiting, ReadyConnection, BeginInstall, BeginConnectionInstall,
                          BeginRemove, ledger, Operation
      <3> QED BY <1>q, <3>1, <3>2
    <2>2. ASSUME NEW c \in Conn, Disable(c) PROVE \A d \in Conn : Keeps(d)
      <3>1. FinishDisabled(c)
        BY <2>2 DEF Disable
      <3>2. /\ bound' = bound /\ \A d \in Conn \ {c} : conn'[d] = conn[d] /\ op'[d] = op[d]
            /\ conn'[c].account = conn[c].account /\ conn'[c].cred = conn[c].cred
            /\ conn'[c].new = conn[c].new /\ ~conn'[c].pending
        BY <1>t, <3>1 DEF FinishDisabled, Done, Connection
      <3> QED BY <3>2, KeepsAll
    <2>3. ASSUME NEW c \in Conn, BeginVerify(c) \/ \E key \in 1..MaxRev : NextSecretDeletion(c, key)
          PROVE  \A d \in Conn : Keeps(d)
      BY <1>l, <2>3 DEF BeginVerify, NextSecretDeletion
    <2>4. CASE EraseSecret \/ DeleteSecret \/ CompleteSecretDeletion
      BY <1>q, <2>4 DEF EraseSecret, DeleteSecret, CompleteSecretDeletion
    <2>5. CASE EraseFails \/ \E problem \in {"rejected", "unavailable"} : VerifyFails(problem)
      BY <1>0, <2>5, <2>k, FailKeeps DEF EraseFails, VerifyFails, Answering
    <2>6. CASE FinishRemove
      <3>1. CASE UNCHANGED ledger
        BY <1>l, <3>1
      <3>2. CASE FinishRemoved(wk.c)
        <4>1. wk.c \in Conn /\ Removing(wk.c)
          BY <1>0, <2>6 DEF FinishRemove, LockInv, WkHolds
        <4>2. /\ bound' = bound /\ \A d \in Conn \ {wk.c} : conn'[d] = conn[d] /\ op'[d] = op[d]
              /\ conn'[wk.c].account = conn[wk.c].account
          BY <1>t, <3>2, <4>1 DEF FinishRemoved, Done, Connection
        <4> SUFFICES ASSUME NEW d \in Conn PROVE Keeps(d)
          OBVIOUS
        <4>3. CASE d = wk.c
          BY <4>1, <4>2, <4>3 DEF Keeps, MachineOf, ProfileOwned
        <4>4. CASE d # wk.c
          BY <4>2, <4>4, KeepsFields DEF Removing
        <4> QED BY <4>3, <4>4
      <3> QED BY <2>6, <3>1, <3>2 DEF FinishRemove
    <2>7. CASE Build \/ DeleteFails
      BY <1>l, <2>7 DEF Build, DeleteFails
    <2>8. ASSUME NEW image \in BOOLEAN, VerifyAnswers(image) PROVE \A d \in Conn : Keeps(d)
      <3> DEFINE a == login[wk.c][op[wk.c].key]
                 m == host[a]
      <3>1. wk.c \in Conn /\ op[wk.c].key \in vault[wk.c]
        BY <2>8, <2>k DEF VerifyAnswers, Answering
      <3>2. login[wk.c] \in Logins /\ host \in Hosts /\ op[wk.c].key \in 1..MaxRev
        BY <1>0, <3>1, RowTypes DEF Types, ServiceTypeOK
      <3>3. a \in Account /\ m \in Machine
        BY <3>2 DEF Logins, Hosts
      <3>4. \/ FailConnection(wk.c, "account_changed")
            \/ FailConnection(wk.c, "resource_changed")
            \/ UNCHANGED ledger
            \/ /\ conn[wk.c].account \in {None, a} /\ ~Rebinds(a, m)
               /\ FinishVerified(wk.c, a, m, image)
        BY <2>8 DEF VerifyAnswers
      <3> HIDE DEF a, m
      <3>5. CASE /\ conn[wk.c].account \in {None, a} /\ ~Rebinds(a, m)
                 /\ FinishVerified(wk.c, a, m, image)
        BY <1>0, <3>1, <3>3, <3>5, VerifiedKeeps
      <3> QED BY <1>0, <1>l, <3>1, <3>4, <3>5, FailKeeps
    <2> QED BY <1>2, <2>1, <2>2, <2>3, <2>4, <2>5, <2>6, <2>7, <2>8 DEF WorkerNext
  <1>3. CASE WorkNext
    BY <1>3, <1>q DEF WorkNext, AdmitWork, EndWork, RetryWork
  <1>4. ASSUME NEW c \in Conn, TokenExpires(c) PROVE \A d \in Conn : Keeps(d)
    <2>1. UNCHANGED <<conn, bound>> /\ \A d \in Conn : op'[d].act = op[d].act
      BY <1>4, <1>t DEF TokenExpires, Operation
    <2> QED BY <1>q, <2>1
  <1>5. ASSUME NEW a \in Account, MachineMoves(a) PROVE \A d \in Conn : Keeps(d)
    BY <1>5, <1>l DEF MachineMoves
  <1>6. CASE UNCHANGED vars
    BY <1>6, <1>l DEF vars
  <1> QED BY <1>1, <1>2, <1>3, <1>4, <1>5, <1>6

\* Steps outside the watchdog keep its connections, by the retention rule.
LEMMA RetainOutside ==
    ASSUME Types, RetainInv, \A d \in Conn : Keeps(d), UNCHANGED <<wd, watched>>
    PROVE  RetainInv'
  <1>0. \A i \in DOMAIN wd : wd[i] \in WatchdogOperation
    BY DEF Types
  <1>1. \A i \in DOMAIN wd : wd[i].c \in Conn /\ wd[i].m # None
    BY <1>0, Bounds DEF WatchdogOperation
  <1>2. \A i \in DOMAIN wd : Undone(i)' = Undone(i)
    BY DEF Undone
  <1>3. ASSUME NEW i \in DOMAIN wd
        PROVE  MachineOf(wd[i].c)' = wd[i].m
    BY <1>1, <1>3 DEF RetainInv, Keeps
  <1>4. ASSUME NEW i \in DOMAIN wd, wd[i].status # "failed", Undone(i)
        PROVE  ProfileOwned(wd[i].c)'
    <2> DEFINE c == wd[i].c
               last == LastWatchdog(wd[i].m)
    <2>1. c \in Conn /\ MachineOf(c) = wd[i].m /\ ProfileOwned(c)
      BY <1>1, <1>4 DEF RetainInv
    <2>2. ~Unwatched(c)
      <3> SUFFICES ASSUME Unwatched(c) PROVE FALSE
        OBVIOUS
      <3>1. last # 0 => wd[last].act = "remove_host_watchdog" /\ wd[last].status = "succeeded"
        BY <2>1 DEF Unwatched
      <3>2. /\ last # 0 /\ last \in DOMAIN wd /\ wd[last].m = wd[i].m
            /\ \A j \in DOMAIN wd : j > last /\ wd[j].m = wd[i].m => wd[j].status = "failed"
        BY <1>4, LastIsNewest DEF Types
      <3>3. last >= i
        BY <1>4, <3>2 DEF Types
      <3> QED BY <1>4, <3>1, <3>2, <3>3 DEF Undone
    <2>3. ProfileOwned(c)'
      BY <2>1, <2>2 DEF Keeps
    <2>4. ProfileOwned(c)' = ProfileOwned(wd[i].c)'
      BY DEF c
    <2> QED BY <2>3
  <1> QED BY <1>2, <1>3, <1>4 DEF RetainInv

\* Taking an operation on keeps the connection behind it.
LEMMA RetainAdvance ==
    ASSUME Types, Types', ScriptInv, RetainInv, NEW i \in DOMAIN wd, Advances(i),
           UNCHANGED <<conn, op, bound>>
    PROVE  RetainInv'
  <1>0. /\ DOMAIN wd' = DOMAIN wd /\ DOMAIN wd \subseteq Nat
        /\ \A j \in DOMAIN wd : OpScript(j)
    BY DEF Types, Advances, ScriptInv
  <1>1. /\ \A j \in DOMAIN wd : j # i => wd'[j] = wd[j]
        /\ \A j \in DOMAIN wd : /\ wd'[j].m = wd[j].m /\ wd'[j].act = wd[j].act
                                /\ wd'[j].c = wd[j].c
    BY DEF Advances
  <1>2. wd[i].status \in {"failed", "succeeded"} => ~InFlight(i) /\ wd'[i].status = wd[i].status
    BY <1>0 DEF OpScript, InFlight, Advances
  <1>3. \A j \in DOMAIN wd : Undone(j)' => Undone(j)
    <2> SUFFICES ASSUME NEW j \in DOMAIN wd, Undone(j)', NEW k \in DOMAIN wd, k >= j,
                        wd[k].m = wd[j].m, wd[k].act = "remove_host_watchdog",
                        wd[k].status = "succeeded"
                 PROVE  FALSE
      BY DEF Undone
    <2>1. wd'[k].status = "succeeded"
      BY <1>1, <1>2
    <2> QED BY <1>0, <1>1, <2>1 DEF Undone
  <1>4. ASSUME NEW j \in DOMAIN wd
        PROVE  /\ MachineOf(wd[j].c)' = wd'[j].m
               /\ wd'[j].status # "failed" /\ Undone(j)' => ProfileOwned(wd[j].c)'
    <2>1. wd'[j].status # "failed" => wd[j].status # "failed"
      BY <1>1, <1>2
    <2>2. MachineOf(wd[j].c) = wd[j].m /\ (wd[j].status # "failed" /\ Undone(j) => ProfileOwned(wd[j].c))
      BY DEF RetainInv
    <2>3. MachineOf(wd[j].c)' = MachineOf(wd[j].c) /\ ProfileOwned(wd[j].c)' = ProfileOwned(wd[j].c)
      BY <1>1 DEF MachineOf, ProfileOwned, Removing
    <2> QED BY <1>1, <1>3, <2>1, <2>2, <2>3
  <1>5. ASSUME NEW m \in watched'
        PROVE  \E j \in DOMAIN wd : wd'[j].m = m /\ wd'[j].status \in {"unknown", "succeeded"}
    <2>1. CASE m \notin watched
      BY <1>5, <2>1 DEF Advances
    <2>2. CASE m \in watched
      <3>1. PICK j \in DOMAIN wd : wd[j].m = m /\ wd[j].status \in {"unknown", "succeeded"}
        BY <2>2 DEF RetainInv
      <3>2. wd'[j].status \notin {"queued", "failed"} /\ wd'[j] \in WatchdogOperation
        BY <1>0, <3>1 DEF Advances, Types
      <3> QED BY <1>1, <3>1, <3>2 DEF WatchdogOperation
    <2> QED BY <2>1, <2>2
  <1> QED BY <1>0, <1>4, <1>5 DEF RetainInv

\* Whoever asks for a new operation has access to the machine.
LEMMA RetainAccept ==
    ASSUME Types, RetainInv, NEW c \in Conn,
           NEW act \in {"install_host_watchdog", "remove_host_watchdog"}, AcceptWatchdog(c, act)
    PROVE  RetainInv'
  <1> DEFINE n == Len(wd) + 1
             last == LastWatchdog(MachineOf(c))
  <1>0. /\ DOMAIN wd' = 1..n /\ n \in Nat /\ DOMAIN wd = 1..Len(wd) /\ Len(wd) \in Nat
        /\ wd'[n] = Submitted(c, act)
        /\ \A i \in DOMAIN wd : wd'[i] = IF i = last /\ wd[i].status = "unknown"
                                         THEN [wd[i] EXCEPT !.stage = "done"] ELSE wd[i]
    BY AcceptedWatchdog DEF Types
  <1>1. UNCHANGED <<conn, op, bound, watched>>
    BY DEF AcceptWatchdog, watchdog
  <1>2. \A i \in DOMAIN wd : wd[i] \in WatchdogOperation
    BY DEF Types
  <1>3. \A i \in DOMAIN wd :
          /\ wd'[i].m = wd[i].m /\ wd'[i].act = wd[i].act /\ wd'[i].status = wd[i].status
          /\ wd'[i].c = wd[i].c
    BY <1>0, <1>2 DEF WatchdogOperation
  <1>4. /\ wd'[n].m = MachineOf(c) /\ wd'[n].c = c /\ wd'[n].status = "queued"
    BY <1>0 DEF Submitted
  <1>5. ProfileOwned(c)
    BY DEF AcceptWatchdog, HasTarget, ProfileOwned, Removing
  <1> HIDE DEF n, last
  <1>6. \A i \in DOMAIN wd : Undone(i)' <=> Undone(i)
    <2> SUFFICES ASSUME NEW i \in DOMAIN wd PROVE Undone(i)' <=> Undone(i)
      OBVIOUS
    <2>1. DOMAIN wd' = DOMAIN wd \cup {n}
      BY <1>0 DEF n
    <2> QED BY <1>3, <1>4, <2>1 DEF Undone
  <1>7. ASSUME NEW j \in DOMAIN wd'
        PROVE  /\ MachineOf(wd[j].c)' = wd'[j].m
               /\ wd'[j].status # "failed" /\ Undone(j)' => ProfileOwned(wd[j].c)'
    <2>2. CASE j = n
      BY <1>1, <1>4, <1>5, <2>2 DEF MachineOf, ProfileOwned, Removing
    <2>3. CASE j \in DOMAIN wd
      <3>1. MachineOf(wd[j].c) = wd[j].m /\ (wd[j].status # "failed" /\ Undone(j) => ProfileOwned(wd[j].c))
        BY <2>3 DEF RetainInv
      <3>2. MachineOf(wd[j].c)' = MachineOf(wd[j].c) /\ ProfileOwned(wd[j].c)' = ProfileOwned(wd[j].c)
        BY <1>1, <1>3, <2>3 DEF MachineOf, ProfileOwned, Removing
      <3> QED BY <1>3, <1>6, <2>3, <3>1, <3>2
    <2> QED BY <1>0, <2>2, <2>3 DEF n
  <1>8. ASSUME NEW m \in watched'
        PROVE  \E j \in DOMAIN wd' : wd'[j].m = m /\ wd'[j].status \in {"unknown", "succeeded"}
    <2>1. PICK j \in DOMAIN wd : wd[j].m = m /\ wd[j].status \in {"unknown", "succeeded"}
      BY <1>1, <1>8 DEF RetainInv
    <2>2. j \in DOMAIN wd'
      BY <1>0 DEF n
    <2> QED BY <1>3, <2>1, <2>2
  <1> QED BY <1>7, <1>8 DEF RetainInv

\* No step leaves a watchdog behind that nobody can remove.
LEMMA RetainStep == IInv /\ [Next]_vars => RetainInv'
  <1> SUFFICES ASSUME IInv, [Next]_vars PROVE RetainInv'
    OBVIOUS
  <1>0. Types /\ ScriptInv /\ RetainInv /\ Types'
    BY TypeStep DEF IInv
  <1>1. CASE \/ SubmitNext /\ UNCHANGED watchdog
             \/ WorkerNext /\ UNCHANGED watchdog
             \/ WorkNext /\ UNCHANGED <<service, watchdog>>
             \/ (\E c \in Conn : TokenExpires(c)) /\ UNCHANGED watchdog
             \/ (\E a \in Account : MachineMoves(a)) /\ UNCHANGED watchdog
             \/ UNCHANGED vars
    <2>1. UNCHANGED <<wd, watched>>
      BY <1>1, OutsideWatchdog
    <2>2. \A d \in Conn : Keeps(d)
      BY <1>1, ConnectionKeeps
    <2> QED BY <1>0, <2>1, <2>2, RetainOutside
  <1>2. ASSUME NEW c \in Conn, NEW act \in {"install_host_watchdog", "remove_host_watchdog"},
               AcceptWatchdog(c, act)
        PROVE  RetainInv'
    BY <1>0, <1>2, RetainAccept
  <1>3. ASSUME RunWatchdog \/ (\E i \in DOMAIN wd : LateScript(i) \/ LeaseEnds(i)) \/ Crash \/ Restart
        PROVE  RetainInv'
    <2>1. UNCHANGED <<conn, op, bound>>
      BY <1>3, WatchdogQuiet DEF WatchdogNext
    <2>2. UNCHANGED <<wd, watched>> \/ \E i \in DOMAIN wd : Advances(i)
      BY <1>0, <1>3, WatchdogAdvances
    <2>3. CASE UNCHANGED <<wd, watched>>
      BY <1>0, <2>1, <2>3 DEF RetainInv, Undone, MachineOf, ProfileOwned, Removing
    <2> QED BY <1>0, <2>1, <2>2, <2>3, RetainAdvance
  <1> QED BY <1>1, <1>2, <1>3 DEF Next, WatchdogNext, SubmitWatchdog

-----------------------------------------------------------------------------
(* The theorems.                                                           *)

\* At the start nothing is stored, staged, published or watched.
LEMMA InitIInv == Init => IInv
  <1> SUFFICES ASSUME Init PROVE IInv
    OBVIOUS
  <1> USE DEF Init
  <1>1. Types
    <2>1. LedgerTypeOK
      <3>1. \A c \in Conn : conn[c] \in Connection /\ op[c] \in Operation
        BY Bounds DEF LedgerInit, Connection, Operation, Actions
      <3>2. conn \in [Conn -> Connection] /\ op \in [Conn -> Operation]
        BY <3>1 DEF LedgerInit
      <3>3. /\ gens \in [Conn -> Generations] /\ doomed \in [Conn -> Generations]
            /\ vault \in [Conn -> Secrets] /\ bound \in [Account -> Machine \cup {None}]
            /\ installs \in 0..ImageLimit
        BY Bounds DEF LedgerInit, Generations, Secrets
      <3>4. sel \in [Conn -> Selections]
        BY Bounds DEF LedgerInit, Selections
      <3>5. work \in [Conn -> [state : {"none", "active", "ended"}, rev : Revs]]
        BY Bounds DEF LedgerInit
      <3> QED BY <3>2, <3>3, <3>4, <3>5 DEF LedgerTypeOK
    <2>2. ServiceTypeOK
      <3>1. (CHOOSE a \in Account : TRUE) \in Account /\ (CHOOSE m \in Machine : TRUE) \in Machine
        BY Bounds
      <3>2. login \in [Conn -> Logins] /\ host \in Hosts
        BY <3>1 DEF ServiceInit, Logins, Hosts
      <3>3. sub \in Submission
        BY Bounds DEF ServiceInit, NoSub, Submission
      <3>4. wk \in Workers
        BY Bounds DEF ServiceInit, Resting, Workers
      <3> QED BY <3>2, <3>3, <3>4, Bounds DEF ServiceInit, ServiceTypeOK, SecretHolders, Workers
    <2>3. wd \in Seq(WatchdogOperation) /\ Len(wd) <= MaxWatch
      BY Bounds DEF LedgerInit
    <2>4. watched \in SUBSET Machine /\ ww \in Watchers /\ late \in SUBSET (1..MaxWatch)
      BY Bounds DEF WatchdogInit, Watching, Watchers
    <2> QED BY <2>1, <2>2, <2>3, <2>4 DEF Types
  <1>2. LockInv
    BY DEF ServiceInit, NoSub, Resting, LockInv, SubHolds, WkHolds
  <1>3. RowInv
    <2> SUFFICES ASSUME NEW c \in Conn PROVE KeyInv(c) /\ VaultInv(c) /\ SelInv(c)
      BY DEF RowInv
    <2>1. /\ conn[c].rev = 0 /\ conn[c].cred = 0 /\ conn[c].profile = 0 /\ conn[c].pending = FALSE
          /\ gens[c] = {} /\ doomed[c] = {} /\ vault[c] = {} /\ work[c].state = "none"
          /\ \A r \in 1..MaxRev : sel[c][r] = 0
      BY DEF LedgerInit
    <2>2. KeyInv(c)
      BY <2>1 DEF KeyInv
    <2>3. VaultInv(c)
      BY <2>1 DEF VaultInv
    <2>4. SelInv(c)
      BY <2>1 DEF SelInv
    <2> QED BY <2>2, <2>3, <2>4
  <1>4. PermitInv
    <2>1. Permits = {}
      BY DEF LedgerInit, Permits
    <2>2. builds = 0 /\ installs = 0 /\ wk.pc = "idle"
      BY DEF LedgerInit, ServiceInit, Resting
    <2> QED BY <2>1, <2>2, FS_EmptySet DEF PermitInv
  <1>5. DOMAIN wd = {}
    BY DEF LedgerInit
  <1>6. ScriptInv
    BY <1>5 DEF WatchdogInit, Watching, ScriptInv, WwScript, LateInv
  <1>7. RetainInv
    BY <1>5 DEF WatchdogInit, RetainInv
  <1> QED BY <1>1, <1>2, <1>3, <1>4, <1>6, <1>7 DEF IInv

\* The inductive invariant: requests, the worker, admitted work, the watchdog, the
\* world and crashes all preserve it.
THEOREM Invariance == Spec => []IInv
  <1>1. Init => IInv
    BY InitIInv
  <1>2. IInv /\ [Next]_vars => IInv'
    BY TypeStep, LockStep, RowInvStep, PermitStep, ScriptStep, RetainStep DEF IInv
  <1> QED BY <1>1, <1>2, PTL DEF Spec

\* Every variable keeps its type, whatever the number of connections and machines.
THEOREM TypeCorrect == Spec => []TypeOK
  <1>1. IInv => TypeOK
    BY DEF IInv, Types, TypeOK, WatchdogTypeOK, Watchers
  <1> QED BY <1>1, Invariance, PTL

\* The vault and the ledger agree at every moment, also between the two writes of a
\* staging or a deletion and across crashes.
THEOREM VaultAgrees == Spec => []VaultMatchesLedger
  <1>1. IInv => VaultMatchesLedger
    BY DEF IInv, RowInv, VaultInv, VaultMatchesLedger, ActiveCredentialHeld, SecretsAccountedFor
  <1> QED BY <1>1, Invariance, PTL

\* Admitted work keeps a credential of its account, and what is published is usable.
THEOREM SelectionsKept == Spec => []SelectionsHonoured
  <1>1. IInv => SelectionsHonoured
    <2> SUFFICES ASSUME IInv, NEW c \in Conn
                 PROVE  /\ work[c].state = "active" =>
                             /\ ProfileOwned(c)
                             /\ login[c][conn[c].cred] = login[c][sel[c][work[c].rev]]
                        /\ conn[c].profile # 0 =>
                             /\ conn[c].auth = "verified" /\ conn[c].new = "enabled"
                             /\ conn[c].cred # 0 /\ sel[c][conn[c].profile] = conn[c].cred
      BY DEF SelectionsHonoured, WorkKeepsItsAccount, SelectionUsable
    <2>1. SelInv(c)
      BY DEF IInv, RowInv
    <2>2. work[c].state = "active" => /\ ProfileOwned(c) /\ conn[c].cred # 0
                                      /\ work[c].rev \in 1..MaxRev /\ sel[c][work[c].rev] # 0
      BY <2>1 DEF SelInv, ProfileOwned
    <2> QED BY <2>1, <2>2 DEF SelInv
  <1> QED BY <1>1, Invariance, PTL

\* No build and no watchdog script is sent twice for one request, crash or not.
THEOREM SendsOnce == Spec => []SentOnce
  <1>1. IInv => SentOnce
    <2> SUFFICES ASSUME IInv PROVE SentOnce
      OBVIOUS
    <2>1. Cardinality(Permits) \in Nat /\ builds \in Nat /\ installs \in Nat
      BY FS_CardinalityType, Bounds DEF IInv, PermitInv, Types, LedgerTypeOK, ServiceTypeOK
    <2>2. builds <= installs
      BY <2>1 DEF IInv, PermitInv
    <2>3. \A i \in DOMAIN wd : wd[i].sent <= 1
      BY DEF IInv, ScriptInv, OpScript
    <2> QED BY <2>2, <2>3 DEF SentOnce, OneBuildPerInstall, WatchdogSentOnce
  <1> QED BY <1>1, Invariance, PTL

\* While a watchdog runs on a machine or a script is still on its way, some connection
\* can log in to remove it, unless the newest request there is a confirmed removal.
THEOREM WatchdogStaysReachable == Spec => []WatchdogReachable
  <1>1. IInv => WatchdogReachable
    <2> SUFFICES ASSUME IInv, NEW m \in watched \cup {wd[i].m : i \in late},
                        LET last == LastWatchdog(m)
                        IN  ~(last # 0 /\ wd[last].act = "remove_host_watchdog"
                                      /\ wd[last].status = "succeeded")
                 PROVE  \E c \in Conn : MachineOf(c) = m /\ ProfileOwned(c)
      BY DEF WatchdogReachable
    <2> DEFINE last == LastWatchdog(m)
    <2>0. Types /\ ScriptInv /\ RetainInv
      BY DEF IInv
    <2>1. PICK i \in DOMAIN wd : wd[i].m = m /\ wd[i].status \in {"unknown", "succeeded"}
      BY <2>0 DEF RetainInv, ScriptInv, LateInv
    <2>2. /\ last \in DOMAIN wd /\ wd[last].m = m /\ wd[last].status # "failed" /\ last # 0
          /\ \A j \in DOMAIN wd : j > last /\ wd[j].m = m => wd[j].status = "failed"
      BY <2>0, <2>1, LastIsNewest DEF Types
    <2>3. ~(wd[last].act = "remove_host_watchdog" /\ wd[last].status = "succeeded")
      BY <2>2
    <2> HIDE DEF last
    <2>4. Undone(last)
      <3> SUFFICES ASSUME NEW j \in DOMAIN wd, j >= last, wd[j].m = wd[last].m,
                          wd[j].act = "remove_host_watchdog", wd[j].status = "succeeded"
                   PROVE  FALSE
        BY DEF Undone
      <3>1. j \in Nat /\ last \in Nat
        BY <2>0, <2>2 DEF Types
      <3> QED BY <2>2, <2>3, <3>1
    <2>5. wd[last].c \in Conn
      <3>1. wd[last] \in WatchdogOperation
        BY <2>0, <2>2 DEF Types
      <3> QED BY <3>1 DEF WatchdogOperation
    <2> QED BY <2>0, <2>2, <2>4, <2>5 DEF RetainInv
  <1> QED BY <1>1, Invariance, PTL

-----------------------------------------------------------------------------
(* What a confirmed outcome is worth.                                      *)

Sent(i) == wd[i].status \notin {"queued", "failed"}
Confirmed(i) == wd[i].status = "succeeded" \/ (ww.i = i /\ ww.ok)
Newest(i, m) == i \in DOMAIN wd /\ wd[i].m = m /\ Sent(i) /\ After(i, {"queued", "failed"})

\* The newest operation of a kind, in any list of operations.
LEMMA NewestOf ==
    ASSUME NEW w \in Seq(WatchdogOperation), NEW m
    PROVE  LET S == {i \in DOMAIN w : w[i].m = m /\ w[i].status \notin {"queued", "failed"}}
               k == IF S = {} THEN 0 ELSE CHOOSE i \in S : \A j \in S : j <= i
           IN  /\ k # 0 => k \in S /\ \A j \in DOMAIN w : j > k /\ w[j].m = m =>
                                       w[j].status \in {"queued", "failed"}
               /\ \A i \in S : (\A j \in DOMAIN w : j > i /\ w[j].m = w[i].m =>
                                   w[j].status \in {"queued", "failed"}) => k = i
  <1> DEFINE S == {i \in DOMAIN w : w[i].m = m /\ w[i].status \notin {"queued", "failed"}}
             k == IF S = {} THEN 0 ELSE CHOOSE i \in S : \A j \in S : j <= i
  <1>0. DOMAIN w = 1..Len(w) /\ Len(w) \in Nat
    OBVIOUS
  <1>1. CASE S = {}
    <2>1. k = 0
      BY <1>1
    <2> QED BY <1>1, <2>1
  <1>2. CASE S # {}
    <2>1. \E x \in S : \A y \in S : y <= x
      BY <1>0, <1>2, Greatest
    <2>2. k \in S /\ \A y \in S : y <= k
      BY <1>2, <2>1
    <2> HIDE DEF k
    <2>3. \A j \in DOMAIN w : j > k /\ w[j].m = m => w[j].status \in {"queued", "failed"}
      BY <1>0, <2>2
    <2>4. ASSUME NEW i \in S, \A j \in DOMAIN w : j > i /\ w[j].m = w[i].m =>
                                  w[j].status \in {"queued", "failed"}
          PROVE  k = i
      BY <1>0, <2>2, <2>4
    <2> QED BY <2>2, <2>3, <2>4 DEF k
  <1> QED BY <1>1, <1>2

\* LastSent is the newest operation that was sent, in this state and in the next.
LEMMA LastSentIsNewest ==
    ASSUME Types, Types', NEW m
    PROVE  /\ LastSent(m) # 0 => Newest(LastSent(m), m)
           /\ \A i : Newest(i, m) => LastSent(m) = i
           /\ LastSent(m)' # 0 => \E k : k = LastSent(m)' /\ Newest(k, m)'
           /\ \A i : Newest(i, m)' => LastSent(m)' = i
  <1>1. /\ LastSent(m) # 0 => Newest(LastSent(m), m)
        /\ \A i : Newest(i, m) => LastSent(m) = i
    <2>1. wd \in Seq(WatchdogOperation)
      BY DEF Types
    <2> QED BY <2>1, NewestOf DEF LastSent, Newest, Sent, After
  <1>2. /\ LastSent(m)' # 0 => \E k : k = LastSent(m)' /\ Newest(k, m)'
        /\ \A i : Newest(i, m)' => LastSent(m)' = i
    <2>1. wd' \in Seq(WatchdogOperation)
      BY DEF Types
    <2> QED BY <2>1, NewestOf DEF LastSent, Newest, Sent, After
  <1> QED BY <1>1, <1>2

\* It is enough to look at the operation that is the newest after the step.
LEMMA ShownKept ==
    ASSUME Types, Types', NEW m, Shown(m),
           \A k : Newest(k, m)' /\ Confirmed(k)' =>
               \/ HostShows(k)'
               \/ Newest(k, m) /\ Confirmed(k) /\ (HostShows(k) => HostShows(k)')
    PROVE  Shown(m)'
  <1> SUFFICES ASSUME LastSent(m)' # 0,
                      NEW k, k = LastSent(m)', Confirmed(k)'
               PROVE  HostShows(k)'
    BY DEF Shown, Confirmed, HostShows
  <1>1. Newest(k, m)'
    BY LastSentIsNewest
  <1>2. CASE Newest(k, m) /\ Confirmed(k) /\ (HostShows(k) => HostShows(k)')
    <2>1. LastSent(m) = k /\ k # 0
      <3>1. k \in DOMAIN wd /\ wd \in Seq(WatchdogOperation)
        BY <1>2 DEF Newest, Types
      <3> QED BY <1>2, <3>1, LastSentIsNewest
    <2>2. HostShows(k)
      BY <1>2, <2>1 DEF Shown, Confirmed
    <2> QED BY <1>2, <2>2
  <1> QED BY <1>1, <1>2

\* A step that leaves the machine alone, confirms only what it read there, and does not
\* take back that a script was sent.
LEMMA QuietShown ==
    ASSUME Types, Types', NEW m, Shown(m),
           DOMAIN wd \subseteq DOMAIN wd',
           \A j \in DOMAIN wd : /\ wd'[j].m = wd[j].m /\ wd'[j].act = wd[j].act
                                /\ Sent(j) => Sent(j)',
           m \in watched' <=> m \in watched,
           \A k \in DOMAIN wd' : Sent(k)' /\ Confirmed(k)' =>
               HostShows(k)' \/ (k \in DOMAIN wd /\ Sent(k) /\ Confirmed(k))
    PROVE  Shown(m)'
  <1>1. ASSUME NEW k, Newest(k, m)', Confirmed(k)', ~HostShows(k)'
        PROVE  Newest(k, m) /\ Confirmed(k) /\ (HostShows(k) => HostShows(k)')
    <2>1. k \in DOMAIN wd /\ Sent(k) /\ Confirmed(k) /\ wd[k].m = m
      BY <1>1 DEF Newest
    <2>2. After(k, {"queued", "failed"})
      <3> SUFFICES ASSUME NEW j \in DOMAIN wd, j > k, wd[j].m = wd[k].m
                   PROVE  wd[j].status \in {"queued", "failed"}
        BY DEF After
      <3>1. ~Sent(j)'
        BY <1>1, <2>1 DEF Newest, After, Sent
      <3> QED BY <3>1 DEF Sent
    <2>3. HostShows(k) => HostShows(k)'
      BY <2>1 DEF HostShows
    <2> QED BY <2>1, <2>2, <2>3 DEF Newest
  <1> QED BY <1>1, ShownKept

\* A turn of the worker and what the end of a lease or of the process leaves of it: only
\* a script that lands changes the host, and only the newest operation's.
LEMMA TurnShown ==
    ASSUME Types, Types', ScriptInv, NEW m, Shown(m),
           RunWatchdog \/ (\E i \in DOMAIN wd : LeaseEnds(i)) \/ Crash \/ Restart
    PROVE  Shown(m)'
  <1>0. /\ DOMAIN wd = 1..Len(wd) /\ Len(wd) \in Nat /\ 0 \notin DOMAIN wd /\ ww \in Watchers
        /\ \A j \in DOMAIN wd : wd[j] \in WatchdogOperation /\ OpScript(j)
    BY DEF Types, ScriptInv
  <1>1. WwScript
    BY DEF ScriptInv
  \* A step that rewrites one operation and does not touch the host.
  <1>q. ASSUME NEW i \in DOMAIN wd, NEW x, wd' = [wd EXCEPT ![i] = x], watched' = watched,
               x.m = wd[i].m, x.act = wd[i].act, x.status \in {"queued", "failed"} => ~Sent(i),
               x.status = "succeeded" => wd[i].status = "succeeded" \/ (ww.i = i /\ ww.ok),
               x.status \notin {"queued", "failed"} => Sent(i) \/ (x.status = "unknown" /\ ~ww'.ok),
               ww'.ok => ww'.i = ww.i /\ ww.ok
        PROVE  Shown(m)'
    <2>1. /\ DOMAIN wd' = DOMAIN wd /\ wd'[i] = x
          /\ \A j \in DOMAIN wd : j # i => wd'[j] = wd[j]
      BY <1>q, SetFields
    <2>2. \A j \in DOMAIN wd : /\ wd'[j].m = wd[j].m /\ wd'[j].act = wd[j].act
                               /\ Sent(j) => Sent(j)'
      BY <1>q, <2>1 DEF Sent
    <2>3. ASSUME NEW k \in DOMAIN wd, Sent(k)', Confirmed(k)'
          PROVE  Sent(k) /\ Confirmed(k)
      <3>1. CASE k = i
        BY <1>q, <2>1, <2>3, <3>1 DEF Sent, Confirmed
      <3>2. CASE k # i
        BY <1>q, <2>1, <2>3, <3>2 DEF Sent, Confirmed
      <3> QED BY <3>1, <3>2
    <2> QED BY <1>q, <2>1, <2>2, <2>3, QuietShown
  \* A step that changes neither an operation nor the host.
  <1>u. ASSUME UNCHANGED <<wd, watched>>, \A k \in DOMAIN wd : ww'.ok /\ ww'.i = k =>
                                            (ww.ok /\ ww.i = k) \/ HostShows(k)
        PROVE  Shown(m)'
    <2>1. \A j \in DOMAIN wd : Sent(j)' = Sent(j) /\ HostShows(j)' = HostShows(j)
      BY <1>u DEF Sent, HostShows
    <2>2. \A k \in DOMAIN wd : Confirmed(k)' => Confirmed(k) \/ HostShows(k)
      BY <1>u DEF Confirmed
    <2>3. \A k \in DOMAIN wd' : Sent(k)' /\ Confirmed(k)' =>
              HostShows(k)' \/ (k \in DOMAIN wd /\ Sent(k) /\ Confirmed(k))
      BY <1>u, <2>1, <2>2
    <2> QED BY <1>u, <2>1, <2>3, QuietShown
  <1>w. ~Watching.ok
    BY DEF Watching
  <1>i. ww.pc # "idle" =>
          /\ ww.i \in DOMAIN wd /\ wd[ww.i].stage = "applying" /\ wd[ww.i].status = "unknown"
          /\ After(ww.i, {"failed"}) /\ Sent(ww.i)
    BY <1>0, <1>1 DEF WwScript, OpScript, InFlight, Sent
  <1>2. ASSUME NEW i \in DOMAIN wd, ClaimWatchdog(i) PROVE Shown(m)'
    <2>1. wd[i].status = "queued" /\ ~Sent(i) /\ watched' = watched
      BY <1>0, <1>2 DEF ClaimWatchdog, OpScript, Sent
    <2>2. CASE /\ wd' = [wd EXCEPT ![i] = [wd[i] EXCEPT !.stage = "applying", !.status = "unknown",
                                                        !.lease = TRUE]]
               /\ ww' = [pc |-> "apply", i |-> i, ok |-> FALSE]
      <3> DEFINE x == [wd[i] EXCEPT !.stage = "applying", !.status = "unknown", !.lease = TRUE]
      <3>1. x.m = wd[i].m /\ x.act = wd[i].act /\ x.status = "unknown" /\ ~ww'.ok
        BY <1>0, <2>2 DEF WatchdogOperation
      <3>2. wd' = [wd EXCEPT ![i] = x]
        BY <2>2
      <3> HIDE DEF x
      <3> QED BY <1>q, <2>1, <3>1, <3>2
    <2>3. CASE /\ wd' = [wd EXCEPT ![i] = [wd[i] EXCEPT !.stage = "done", !.status = "failed"]]
               /\ ww' = ww
      <3> DEFINE x == [wd[i] EXCEPT !.stage = "done", !.status = "failed"]
      <3>1. x.m = wd[i].m /\ x.act = wd[i].act /\ x.status = "failed"
        BY <1>0 DEF WatchdogOperation
      <3>2. wd' = [wd EXCEPT ![i] = x]
        BY <2>3
      <3> HIDE DEF x
      <3> QED BY <1>q, <2>1, <2>3, <3>1, <3>2
    <2> QED BY <1>2, <2>2, <2>3 DEF ClaimWatchdog, SetWatchdog
  <1>3. ASSUME NEW i \in DOMAIN wd, ObserveWatchdog(i) PROVE Shown(m)'
    <2>1. UNCHANGED <<wd, watched>> /\ HostShows(i) /\ ww' = [pc |-> "finish", i |-> i, ok |-> TRUE]
      BY <1>3 DEF ObserveWatchdog, ledger
    <2> QED BY <1>u, <2>1
  <1>4. ASSUME ApplyWatchdog PROVE Shown(m)'
    <2>0. ww.pc = "apply" /\ ww.i \in DOMAIN wd /\ ~ww.ok
      BY <1>1, <1>4, <1>i DEF ApplyWatchdog, WwScript
    <2>1. CASE ww' = [ww EXCEPT !.pc = "release"] /\ UNCHANGED <<ledger, watched>>
      <3>1. ww'.ok = ww.ok /\ UNCHANGED <<wd, watched>>
        BY <1>0, <2>1 DEF Watchers, ledger
      <3> QED BY <1>u, <2>0, <3>1
    <2>2. ASSUME NEW landed \in BOOLEAN, NEW ok \in BOOLEAN, ok => landed,
                 wd' = [wd EXCEPT ![ww.i] = [wd[ww.i] EXCEPT !.sent = @ + 1]],
                 watched' = IF landed THEN Landed(ww.i) ELSE watched,
                 ww' = [ww EXCEPT !.pc = "release", !.ok = ok]
          PROVE  Shown(m)'
      <3>0. PICK i : i = ww.i
        OBVIOUS
      <3>1. /\ DOMAIN wd' = DOMAIN wd /\ \A j \in DOMAIN wd : j # i => wd'[j] = wd[j]
            /\ wd'[i] = [wd[i] EXCEPT !.sent = @ + 1]
        BY <2>0, <2>2, <3>0, SetFields
      <3>2. /\ wd'[i].m = wd[i].m /\ wd'[i].act = wd[i].act
            /\ wd'[i].status = "unknown" /\ wd[i].status = "unknown"
        BY <1>0, <1>i, <2>0, <3>0, <3>1 DEF WatchdogOperation
      <3>3. ww'.i = i /\ ww'.ok = ok
        BY <1>0, <2>2, <3>0 DEF Watchers
      <3>4. ok => HostShows(i)'
        BY <1>0, <2>0, <2>2, <3>0, <3>2 DEF HostShows, Landed, WatchdogOperation
      <3>5. \A n : n # wd[i].m => (n \in watched' <=> n \in watched)
        BY <2>2, <3>0 DEF Landed
      <3>6. ASSUME NEW k, Newest(k, m)', Confirmed(k)', ~HostShows(k)'
            PROVE  Newest(k, m) /\ Confirmed(k) /\ (HostShows(k) => HostShows(k)')
        <4>1. k # i /\ k \in DOMAIN wd /\ wd'[k] = wd[k] /\ wd[k].status = "succeeded"
          BY <3>1, <3>2, <3>3, <3>4, <3>6 DEF Newest, Confirmed
        <4>2. wd[i].m # m
          <5> SUFFICES ASSUME wd[i].m = m PROVE FALSE
            OBVIOUS
          <5>1. ~(k > i)
            BY <1>i, <2>0, <3>0, <3>6, <4>1 DEF Newest, After
          <5>2. ~(i > k)
            BY <2>0, <3>0, <3>1, <3>2, <3>6 DEF Newest, After
          <5> QED BY <1>0, <2>0, <3>0, <4>1, <5>1, <5>2
        <4>3. wd[k].m = m /\ (HostShows(k) => HostShows(k)')
          BY <3>5, <3>6, <4>1, <4>2 DEF Newest, HostShows
        <4>4. After(k, {"queued", "failed"})
          <5> SUFFICES ASSUME NEW j \in DOMAIN wd, j > k, wd[j].m = wd[k].m
                       PROVE  wd[j].status \in {"queued", "failed"}
            BY DEF After
          <5>1. j # i /\ wd'[j] = wd[j]
            BY <3>1, <4>2, <4>3
          <5> QED BY <3>1, <3>6, <4>1, <4>3, <5>1 DEF Newest, After
        <4> QED BY <4>1, <4>3, <4>4 DEF Newest, Sent, Confirmed
      <3> QED BY <3>6, ShownKept
    <2> QED BY <1>4, <2>1, <2>2 DEF ApplyWatchdog, SetWatchdog
  <1>c. ASSUME CutOff, watched' = watched, ~ww'.ok PROVE Shown(m)'
    <2>1. ww.i \in DOMAIN wd /\ Sent(ww.i)
      BY <1>c, <1>i DEF CutOff
    <2> DEFINE x == [wd[ww.i] EXCEPT !.sent = @ + 1]
    <2>2. x.m = wd[ww.i].m /\ x.act = wd[ww.i].act /\ x.status = wd[ww.i].status
      BY <1>0, <2>1 DEF WatchdogOperation
    <2>3. wd' = [wd EXCEPT ![ww.i] = x]
      BY <1>c DEF CutOff, SetWatchdog
    <2> HIDE DEF x
    <2>4. PICK i : i = ww.i
      OBVIOUS
    <2> QED BY <1>c, <1>q, <2>1, <2>2, <2>3, <2>4 DEF Sent
  <1>5. ASSUME CutOffWatchdog PROVE Shown(m)'
    <2>1. ~ww'.ok
      BY <1>0, <1>1, <1>5 DEF CutOffWatchdog, CutOff, WwScript, Watchers
    <2> QED BY <1>5, <1>c, <2>1 DEF CutOffWatchdog
  <1>6. ASSUME ReleaseWatchdog PROVE Shown(m)'
    <2>1. ww.i \in DOMAIN wd /\ Sent(ww.i) /\ watched' = watched
      BY <1>6, <1>i DEF ReleaseWatchdog
    <2>2. ww'.ok => ww'.i = ww.i /\ ww.ok
      BY <1>0, <1>6, <1>w DEF ReleaseWatchdog, Watchers
    <2> DEFINE x == [wd[ww.i] EXCEPT !.lease = FALSE]
    <2>3. x.m = wd[ww.i].m /\ x.act = wd[ww.i].act /\ x.status = wd[ww.i].status
      BY <1>0, <2>1 DEF WatchdogOperation
    <2>4. wd' = [wd EXCEPT ![ww.i] = x]
      BY <1>6 DEF ReleaseWatchdog, SetWatchdog
    <2> HIDE DEF x
    <2> QED BY <1>q, <2>1, <2>2, <2>3, <2>4 DEF Sent
  <1>7. ASSUME FinishWatchdog PROVE Shown(m)'
    <2>1. ww.i \in DOMAIN wd /\ Sent(ww.i) /\ watched' = watched /\ ww.ok /\ ~ww'.ok
      BY <1>1, <1>7, <1>i, <1>w DEF FinishWatchdog, WwScript
    <2> DEFINE x == [wd[ww.i] EXCEPT !.status = "succeeded", !.stage = "done"]
    <2>2. x.m = wd[ww.i].m /\ x.act = wd[ww.i].act /\ x.status = "succeeded"
      BY <1>0, <2>1 DEF WatchdogOperation
    <2>3. wd' = [wd EXCEPT ![ww.i] = x]
      BY <1>7 DEF FinishWatchdog, SetWatchdog
    <2> HIDE DEF x
    <2> QED BY <1>q, <2>1, <2>2, <2>3
  <1>8. ASSUME NEW i \in DOMAIN wd, LeaseEnds(i) PROVE Shown(m)'
    <2> DEFINE x == [wd[i] EXCEPT !.lease = FALSE]
    <2>1. x.m = wd[i].m /\ x.act = wd[i].act /\ x.status = wd[i].status
      BY <1>0 DEF WatchdogOperation
    <2>2. wd' = [wd EXCEPT ![i] = x] /\ UNCHANGED <<watched, ww>>
      BY <1>8 DEF LeaseEnds, SetWatchdog, watchdog
    <2> HIDE DEF x
    <2> QED BY <1>q, <2>1, <2>2 DEF Sent
  <1>9. ASSUME Crash \/ Restart PROVE Shown(m)'
    <2>1. ~ww'.ok /\ watched' = watched /\ (UNCHANGED <<ledger, late>> \/ CutOff)
      BY <1>9, <1>w DEF Crash, Restart
    <2>2. CASE UNCHANGED <<ledger, late>>
      BY <1>u, <2>1, <2>2 DEF ledger
    <2> QED BY <1>c, <2>1, <2>2
  <1> QED BY <1>2, <1>3, <1>4, <1>5, <1>6, <1>7, <1>8, <1>9 DEF RunWatchdog

\* What was confirmed is what the host shows, and stays so until the next operation on
\* the machine is claimed or an older script, no longer under a lease, lands late.
THEOREM ConfirmedIsShown == Spec => ConfirmedWatchdog
  <1>1. ASSUME IInv, IInv', [Next]_vars
        PROVE  [\A m \in Machine : Shown(m) => Shown(m)' \/ Overtaken(m)]_vars
    <2> SUFFICES ASSUME NEW m \in Machine, Shown(m), ~Overtaken(m) PROVE Shown(m)'
      OBVIOUS
    <2>0. Types /\ Types' /\ ScriptInv
      BY <1>1 DEF IInv
    <2>1. CASE UNCHANGED <<wd, watched, ww, late>>
      BY <2>1 DEF Shown, LastSent, HostShows
    <2>2. ASSUME NEW c \in Conn, NEW act \in {"install_host_watchdog", "remove_host_watchdog"},
                 AcceptWatchdog(c, act)
          PROVE  Shown(m)'
      <3> DEFINE n == Len(wd) + 1
                 last == LastWatchdog(MachineOf(c))
      <3>1. /\ DOMAIN wd' = 1..n /\ DOMAIN wd = 1..Len(wd) /\ Len(wd) \in Nat
            /\ wd'[n] = Submitted(c, act)
            /\ \A i \in DOMAIN wd : wd'[i] = IF i = last /\ wd[i].status = "unknown"
                                             THEN [wd[i] EXCEPT !.stage = "done"] ELSE wd[i]
            /\ \A i \in DOMAIN wd : wd[i] \in WatchdogOperation
        BY <2>0, <2>2, AcceptedWatchdog DEF Types
      <3>2. UNCHANGED <<watched, ww>>
        BY <2>2 DEF AcceptWatchdog, watchdog
      <3>3. \A i \in DOMAIN wd :
              wd'[i].m = wd[i].m /\ wd'[i].act = wd[i].act /\ wd'[i].status = wd[i].status
        BY <3>1 DEF WatchdogOperation
      <3>4. wd'[n].status = "queued" /\ DOMAIN wd \subseteq DOMAIN wd'
            /\ \A k \in DOMAIN wd' : k = n \/ k \in DOMAIN wd
        BY <3>1 DEF Submitted
      <3> HIDE DEF n, last
      <3>5. \A k \in DOMAIN wd' : Sent(k)' /\ Confirmed(k)' =>
                k \in DOMAIN wd /\ Sent(k) /\ Confirmed(k)
        BY <3>2, <3>3, <3>4 DEF Sent, Confirmed
      <3>6. \A i \in DOMAIN wd : Sent(i) => Sent(i)'
        BY <3>3 DEF Sent
      <3> QED BY <2>0, <3>2, <3>3, <3>4, <3>5, <3>6, QuietShown
    <2>3. ASSUME NEW i \in DOMAIN wd, LateScript(i) PROVE Shown(m)'
      <3>1. /\ i \in late /\ late' = late \ {i} /\ UNCHANGED <<wd, ww>>
            /\ watched' \in {watched, Landed(i)}
        BY <2>3 DEF LateScript, ledger
      <3>2. CASE (m \in watched') <=> (m \in watched)
        <4>1. \A j \in DOMAIN wd : (Sent(j)' <=> Sent(j)) /\ (Confirmed(j)' <=> Confirmed(j))
          BY <3>1 DEF Sent, Confirmed
        <4> QED BY <2>0, <3>1, <3>2, <4>1, QuietShown
      <3>3. CASE ~((m \in watched') <=> (m \in watched))
        <4>1. watched' = Landed(i) /\ wd[i].m = m
          BY <3>1, <3>3 DEF Landed
        <4>2. LastSent(m) = i
          <5>1. CASE wd[i].lease
            <6>1. wd[i].status = "unknown" /\ After(i, {"failed"})
              BY <2>0, <5>1 DEF ScriptInv, OpScript, InFlight
            <6>2. Newest(i, m)
              BY <4>1, <6>1 DEF Newest, Sent, After
            <6> QED BY <2>0, <6>2, LastSentIsNewest
          <5>2. CASE ~wd[i].lease
            BY <3>1, <4>1, <5>2 DEF Overtaken
          <5> QED BY <5>1, <5>2
        <4>3. LastSent(m)' = i
          BY <3>1, <4>2 DEF LastSent
        <4>4. wd[i].act \in {"install_host_watchdog", "remove_host_watchdog"}
          <5>1. wd[i] \in WatchdogOperation
            BY <2>0 DEF Types
          <5> QED BY <5>1 DEF WatchdogOperation
        <4>5. HostShows(i)'
          BY <3>1, <4>1, <4>4 DEF HostShows, Landed
        <4> QED BY <4>3, <4>5 DEF Shown, HostShows
      <3> QED BY <3>2, <3>3
    <2>4. CASE RunWatchdog \/ (\E i \in DOMAIN wd : LeaseEnds(i)) \/ Crash \/ Restart
      BY <2>0, <2>4, TurnShown
    <2> QED BY <1>1, <2>1, <2>2, <2>3, <2>4, OutsideWatchdog DEF Next, WatchdogNext, SubmitWatchdog
  <1> QED BY <1>1, Invariance, PTL DEF Spec, ConfirmedWatchdog
=============================================================================
