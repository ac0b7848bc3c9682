------------------------- MODULE ConnectionService -------------------------
(***************************************************************************)
(* connections.Service over the ledger: requests that stage a secret, and  *)
(* the one worker that carries operations out. secretMu (here: guard)      *)
(* serialises every access to the vault that must agree with the ledger;   *)
(* it is not held while a provider verifies a login. A crash forgets the   *)
(* guard and both sessions, never the ledger or the vault.                 *)
(***************************************************************************)
EXTENDS ConnectionLedger

CONSTANTS
    Requests,       \* the actions an instance's clients ask for
    Faults,         \* which of: "crash", "client", "vault", "token", "moved", "timeout"
    MaxFaults       \* bound: how many of them happen

ASSUME ServiceAssumption ==
    /\ Requests \subseteq Actions
    /\ MaxFaults \in Nat
    /\ Account # {} /\ Machine # {}

VARIABLES
    guard,      \* who holds secretMu: "free", "submit" or "worker"
    sub,        \* the request staging a secret
    wk,         \* the operation worker
    login,      \* the account each credential generation logs in to
    host,       \* the machine that answers for each account
    builds,     \* image builds sent to hosts
    stopped,    \* why the worker ended with a fatal error, and serve with it
    faults

service == <<guard, sub, wk, login, host, builds, stopped, faults>>

NoSub == [pc |-> "none", c |-> None, key |-> 0, own |-> FALSE]
Resting == [pc |-> "idle", c |-> None, key |-> 0]

SecretHolders == {"free", "submit", "worker"}
Submission == [pc : {"none", "create", "ready"}, c : Conn \cup {None}, key : Revs, own : BOOLEAN]
Logins == [1..MaxRev -> Account]
Hosts == [Account -> Machine]

ServiceTypeOK ==
    /\ guard \in SecretHolders
    /\ sub \in Submission
    /\ wk \in [pc : {"idle", "verify", "build", "recover", "erase", "delete", "complete"},
               c : Conn \cup {None}, key : Revs]
    /\ login \in [Conn -> Logins]
    /\ host \in Hosts
    /\ builds \in 0..(ImageLimit + 1)
    /\ stopped \in {"no", "token", "resource", "work"}
    /\ faults \in 0..MaxFaults

ServiceInit ==
    /\ guard = "free"
    /\ sub = NoSub
    /\ wk = Resting
    /\ login \in [Conn -> {[r \in 1..MaxRev |-> CHOOSE a \in Account : TRUE]}]
    /\ host \in [Account -> {CHOOSE m \in Machine : TRUE}]
    /\ builds = 0
    /\ stopped = "no"
    /\ faults = 0

Running == stopped = "no"

Fault(kind) ==
    /\ kind \in Faults
    /\ faults < MaxFaults
    /\ faults' = faults + 1

-----------------------------------------------------------------------------
(* Submit.                                                                 *)

\* A request without a secret is one transaction under the guard.
SubmitPlain(c, act) ==
    /\ Running /\ guard = "free"
    /\ act \notin WithSecret
    /\ AcceptConnection(c, act)
    /\ UNCHANGED service

\* With a secret the generation is reserved first and its bytes follow.
SubmitSecret(c, act, account) ==
    /\ Running /\ guard = "free"
    /\ act \in WithSecret
    /\ AcceptConnection(c, act)
    /\ login' = [login EXCEPT ![c][conn[c].rev + 1] = account]
    /\ guard' = "submit"
    /\ sub' = [pc |-> "create", c |-> c, key |-> conn[c].rev + 1, own |-> TRUE]
    /\ UNCHANGED <<wk, host, builds, stopped, faults>>

\* Mutant: a replay reads the stored intent without holding the guard.
ReplayUnguarded(c) ==
    /\ Running /\ sub.pc = "none"
    /\ conn[c].pending /\ op[c].stage = "waiting_secret"
    /\ sub' = [pc |-> "create", c |-> c, key |-> op[c].key, own |-> FALSE]
    /\ UNCHANGED <<ledger, guard, wk, login, host, builds, stopped, faults>>

\* ReplayConnection: the exact request again, under any authorised token.
Replay(c) ==
    /\ Running /\ guard = "free"
    /\ conn[c].pending /\ op[c].stage = "waiting_secret"
    /\ guard' = "submit"
    /\ sub' = [pc |-> "create", c |-> c, key |-> op[c].key, own |-> FALSE]
    /\ UNCHANGED <<ledger, wk, login, host, builds, stopped, faults>>

Leave == guard' = "free" /\ sub' = NoSub

\* vault.Create. Identical bytes already there are no error.
CreateSecret ==
    /\ Running /\ sub.pc = "create"
    /\ vault' = [vault EXCEPT ![sub.c] = @ \cup {sub.key}]
    /\ sub' = [sub EXCEPT !.pc = "ready"]
    /\ UNCHANGED <<conn, op, gens, doomed, sel, bound, work, installs, wd,
                   guard, wk, login, host, builds, stopped, faults>>

\* A failed write may have left the bytes: the rename happened, its sync did not.
CreateFails ==
    /\ Running /\ sub.pc = "create"
    /\ Fault("vault")
    /\ \E landed \in BOOLEAN :
         /\ conn' = [conn EXCEPT ![sub.c].auth = FailedAuth(sub.c, "unavailable"),
                                 ![sub.c].profile = 0, ![sub.c].pending = FALSE]
         /\ doomed' = [doomed EXCEPT ![sub.c] = @ \cup {sub.key}]
         /\ op' = Done(sub.c, "failed")
         /\ vault' = [vault EXCEPT ![sub.c] = IF landed THEN @ \cup {sub.key} ELSE @]
    /\ Leave
    /\ UNCHANGED <<gens, sel, bound, work, installs, wd, wk, login, host, builds, stopped>>

\* ReadyConnection under the requester's token; when it has expired the intent waits.
ReadySecret ==
    /\ Running /\ sub.pc = "ready"
    /\ IF op[sub.c].stage = "waiting_secret" /\ (sub.own => op[sub.c].token)
       THEN ReadyConnection(sub.c)
       ELSE UNCHANGED ledger
    /\ Leave
    /\ UNCHANGED <<wk, login, host, builds, stopped, faults>>

\* The client goes away: its cancelled context ends the request where it stands.
ClientGone ==
    /\ Running /\ sub.pc # "none"
    /\ Fault("client")
    /\ Leave
    /\ UNCHANGED <<ledger, wk, login, host, builds, stopped>>

SubmitNext ==
    \/ \E c \in Conn, act \in Requests :
         \/ SubmitPlain(c, act)
         \/ \E account \in Account : SubmitSecret(c, act, account)
    \/ \E c \in Conn : Replay(c)
    \/ CreateSecret \/ CreateFails \/ ReadySecret \/ ClientGone

-----------------------------------------------------------------------------
(* RunOnce. Nobody else touches a connection whose operation is pending, and *)
(* only the worker binds accounts, so what it loaded is still true when it    *)
(* finishes; finishManaged checks it again.                                  *)

Pending(c) == conn[c].pending /\ Running /\ wk.pc = "idle"
NoReady == \A c \in Conn : ~(conn[c].pending /\ op[c].stage = "ready" /\ op[c].status # "failed")
NothingDue == NoReady /\ \A c \in Conn : ~(conn[c].pending /\ op[c].stage = "installing")

Stop(why) ==
    /\ stopped' = why
    /\ wk' = Resting
    /\ guard' = IF guard = "worker" THEN "free" ELSE guard

\* A reserved generation left without an answer is taken up again after a while. When
\* its bytes are missing the inspection is put off, which changes nothing here.
ResumeWaiting(c) ==
    /\ Pending(c) /\ op[c].stage = "waiting_secret" /\ NoReady
    /\ guard = "free"
    /\ op[c].key \in vault[c]
    /\ IF op[c].token
       THEN ReadyConnection(c) /\ UNCHANGED service
       ELSE Stop("token") /\ UNCHANGED <<ledger, sub, login, host, builds, faults>>

Disable(c) ==
    /\ Pending(c) /\ op[c].stage = "ready" /\ op[c].act = "disable"
    /\ FinishDisabled(c)
    /\ UNCHANGED service

\* ConnectionSecrets: removal is checked again before the first secret is erased.
BeginRemove(c) ==
    /\ Pending(c) /\ op[c].stage = "ready" /\ op[c].act = "remove"
    /\ guard = "free"
    /\ IF RemovalAllowed(c)
       THEN /\ guard' = "worker"
            /\ wk' = [Resting EXCEPT !.pc = "erase", !.c = c]
            /\ UNCHANGED stopped
       ELSE Stop("work")
    /\ op' = [op EXCEPT ![c].status = "accepted"]
    /\ UNCHANGED <<conn, gens, doomed, vault, sel, bound, work, installs, wd,
                   sub, login, host, builds, faults>>

EraseSecret ==
    /\ Running /\ wk.pc = "erase"
    /\ \E key \in gens[wk.c] \cap vault[wk.c] : vault' = [vault EXCEPT ![wk.c] = @ \ {key}]
    /\ UNCHANGED <<conn, op, gens, doomed, sel, bound, work, installs, wd, service>>

EraseFails ==
    /\ Running /\ wk.pc = "erase" /\ gens[wk.c] \cap vault[wk.c] # {}
    /\ Fault("vault")
    /\ FailConnection(wk.c, "unavailable")
    /\ guard' = "free" /\ wk' = Resting
    /\ UNCHANGED <<sub, login, host, builds, stopped>>

FinishRemove ==
    /\ Running /\ wk.pc = "erase"
    /\ gens[wk.c] \cap vault[wk.c] = {}
    /\ IF RemovalAllowed(wk.c)
       THEN FinishRemoved(wk.c) /\ guard' = "free" /\ wk' = Resting /\ UNCHANGED stopped
       ELSE Stop("work") /\ UNCHANGED ledger
    /\ UNCHANGED <<sub, login, host, builds, faults>>

Verifying == {"create", "check", "enable", "replace_credential"}

BeginVerify(c) ==
    /\ Pending(c) /\ op[c].stage = "ready" /\ op[c].act \in Verifying
    /\ wk' = [Resting EXCEPT !.pc = "verify", !.c = c]
    /\ UNCHANGED <<ledger, guard, sub, login, host, builds, stopped, faults>>

\* Mutant: after a restart the installation is carried out again.
BeginInstallAgain(c) ==
    /\ Pending(c) /\ op[c].act = "install_image"
    /\ \/ /\ op[c].stage = "ready"
          /\ BeginConnectionInstall(c)
       \/ /\ op[c].stage = "installing" /\ NoReady
          /\ UNCHANGED ledger
    /\ wk' = [Resting EXCEPT !.pc = "build", !.c = c]
    /\ UNCHANGED <<guard, sub, login, host, builds, stopped, faults>>

\* An installation whose barrier was committed earlier is only looked for.
BeginInstall(c) ==
    /\ Pending(c) /\ op[c].act = "install_image"
    /\ \/ /\ op[c].stage = "ready"
          /\ BeginConnectionInstall(c)
          /\ wk' = [Resting EXCEPT !.pc = "build", !.c = c]
       \/ /\ op[c].stage = "installing" /\ NoReady
          /\ wk' = [Resting EXCEPT !.pc = "recover", !.c = c]
          /\ UNCHANGED ledger
    /\ UNCHANGED <<guard, sub, login, host, builds, stopped, faults>>

\* docker build is sent, to the recorded machine only; what comes of it is read back
\* like any verification.
Build ==
    /\ Running /\ wk.pc = "build"
    /\ op[wk.c].key \in vault[wk.c] /\ host[conn[wk.c].account] = MachineOf(wk.c)
    /\ builds' = builds + 1
    /\ wk' = [wk EXCEPT !.pc = "verify"]
    /\ UNCHANGED <<ledger, guard, sub, login, host, stopped, faults>>

Answering == Running /\ wk.pc \in {"verify", "recover"}

\* The login is refused, the provider does not answer, the vault has no such key.
VerifyFails(problem) ==
    /\ Answering \/ (Running /\ wk.pc = "build")
    /\ FailConnection(wk.c, problem)
    /\ wk' = Resting
    /\ UNCHANGED <<guard, sub, login, host, builds, stopped, faults>>

\* Mutant: a login that works is taken without comparing the account.
VerifyAnyAccount(image) ==
    LET c == wk.c
        a == login[c][op[c].key]
    IN  /\ Answering
        /\ op[c].key \in vault[c]
        /\ FinishVerified(c, a, host[a], image)
        /\ wk' = Resting
        /\ UNCHANGED <<guard, sub, login, host, builds, stopped, faults>>

\* The login works: for account a, on machine m, with or without an execution image.
VerifyAnswers(image) ==
    LET c == wk.c
        a == login[c][op[c].key]
        m == host[a]
    IN  /\ Answering
        /\ op[c].key \in vault[c]
        /\ op[c].act = "install_image" => image
        /\ CASE conn[c].account \notin {None, a} ->
                  /\ FailConnection(c, "account_changed")
                  /\ wk' = Resting /\ UNCHANGED <<guard, stopped>>
             [] conn[c].account = a /\ Rebinds(a, m) ->
                  /\ FailConnection(c, "resource_changed")
                  /\ wk' = Resting /\ UNCHANGED <<guard, stopped>>
             \* bindManagedResource refuses: the error is not one of the operation's own.
             [] conn[c].account = None /\ Rebinds(a, m) ->
                  Stop("resource") /\ UNCHANGED ledger
             [] OTHER ->
                  /\ FinishVerified(c, a, m, image)
                  /\ wk' = Resting /\ UNCHANGED <<guard, stopped>>
        /\ UNCHANGED <<sub, login, host, builds, faults>>

-----------------------------------------------------------------------------
(* Secrets nobody needs any more, when no operation is waiting to be run.  *)

NextSecretDeletion(c, key) ==
    /\ Running /\ wk.pc = "idle" /\ NothingDue
    /\ guard = "free"
    /\ key \in doomed[c] /\ key # conn[c].cred
    /\ guard' = "worker"
    /\ wk' = [pc |-> "delete", c |-> c, key |-> key]
    /\ UNCHANGED <<ledger, sub, login, host, builds, stopped, faults>>

DeleteSecret ==
    /\ Running /\ wk.pc = "delete"
    /\ vault' = [vault EXCEPT ![wk.c] = @ \ {wk.key}]
    /\ wk' = [wk EXCEPT !.pc = "complete"]
    /\ UNCHANGED <<conn, op, gens, doomed, sel, bound, work, installs, wd,
                   guard, sub, login, host, builds, stopped, faults>>

\* The vault refuses: the intent stays for a later turn.
DeleteFails ==
    /\ Running /\ wk.pc = "delete"
    /\ Fault("vault")
    /\ guard' = "free" /\ wk' = Resting
    /\ UNCHANGED <<ledger, sub, login, host, builds, stopped>>

CompleteSecretDeletion ==
    /\ Running /\ wk.pc = "complete"
    /\ doomed' = [doomed EXCEPT ![wk.c] = @ \ {wk.key}]
    /\ gens' = [gens EXCEPT ![wk.c] = @ \ {wk.key}]
    /\ guard' = "free" /\ wk' = Resting
    /\ UNCHANGED <<conn, op, vault, sel, bound, work, installs, wd,
                   sub, login, host, builds, stopped, faults>>

WorkerNext ==
    \/ \E c \in Conn :
         \/ ResumeWaiting(c) \/ Disable(c) \/ BeginRemove(c)
         \/ BeginVerify(c) \/ BeginInstall(c)
         \/ \E key \in 1..MaxRev : NextSecretDeletion(c, key)
    \/ EraseSecret \/ EraseFails \/ FinishRemove
    \/ Build
    \/ \E problem \in {"rejected", "unavailable"} : VerifyFails(problem)
    \/ \E image \in BOOLEAN : VerifyAnswers(image)
    \/ DeleteSecret \/ DeleteFails \/ CompleteSecretDeletion

-----------------------------------------------------------------------------
(* The world around the service.                                           *)

\* The requester's token expires; only a reserved generation still asks for it.
TokenExpires(c) ==
    /\ conn[c].pending /\ op[c].stage = "waiting_secret" /\ op[c].token
    /\ Fault("token")
    /\ op' = [op EXCEPT ![c].token = FALSE]
    /\ UNCHANGED <<conn, gens, doomed, vault, sel, bound, work, installs, wd,
                   guard, sub, wk, login, host, builds, stopped>>

\* Another machine answers under the same address and host key.
MachineMoves(a) ==
    /\ Fault("moved")
    /\ \E m \in Machine \ {host[a]} : host' = [host EXCEPT ![a] = m]
    /\ UNCHANGED <<ledger, guard, sub, wk, login, builds, stopped>>
=============================================================================
