----------------------------- MODULE Connections -----------------------------
(***************************************************************************)
(* Managed connections with everything that leans on them: requests, the   *)
(* operation worker, admitted work, the watchdog of a host, and crashes of *)
(* the process they share.                                                 *)
(***************************************************************************)
EXTENDS Watchdog

vars == <<ledger, service, watchdog>>

TypeOK == LedgerTypeOK /\ ServiceTypeOK /\ WatchdogTypeOK

Init == LedgerInit /\ ServiceInit /\ WatchdogInit

\* The process dies; a script it was sending may go on without it.
Crash ==
    /\ Running
    /\ Fault("crash")
    /\ guard' = "free" /\ sub' = NoSub /\ wk' = Resting /\ ww' = Watching
    /\ UNCHANGED <<ledger, late>> \/ CutOff
    /\ UNCHANGED <<login, host, builds, stopped, watched>>

\* A fatal error of one worker cancels the others in the middle of what they do; the
\* operator starts serve again.
Restart ==
    /\ ~Running
    /\ stopped' = "no"
    /\ guard' = "free" /\ sub' = NoSub /\ wk' = Resting /\ ww' = Watching
    /\ UNCHANGED <<ledger, late>> \/ CutOff
    /\ UNCHANGED <<login, host, builds, faults, watched>>

Next ==
    \/ SubmitNext /\ UNCHANGED watchdog
    \/ WorkerNext /\ UNCHANGED watchdog
    \/ WorkNext /\ Running /\ UNCHANGED <<service, watchdog>>
    \/ (\E c \in Conn : TokenExpires(c)) /\ UNCHANGED watchdog
    \/ (\E a \in Account : MachineMoves(a)) /\ UNCHANGED watchdog
    \/ WatchdogNext
    \/ Crash
    \/ Restart

Spec == Init /\ [][Next]_vars

-----------------------------------------------------------------------------
(* Properties.                                                             *)

\* readCredential: whoever resolves the active generation finds its bytes, unless the
\* connection is on its way out, whatever replacement, cleanup or crash is under way.
ActiveCredentialHeld ==
    \A c \in Conn : conn[c].cred # 0 /\ ~Removing(c) => conn[c].cred \in vault[c]

\* managedRemovalAllowed and managedProfileOwned together: work under way keeps a
\* credential that logs in to the account it was admitted for.
WorkKeepsItsAccount ==
    \A c \in Conn : work[c].state = "active" =>
        /\ ProfileOwned(c)
        /\ login[c][conn[c].cred] = login[c][sel[c][work[c].rev]]

\* No secret is forgotten in the vault: each is in use, reserved by the operation under
\* way or due for deletion, and its generation is on record for a removal to find.
SecretsAccountedFor ==
    \A c \in Conn : \A key \in vault[c] :
        /\ key \in gens[c]
        /\ \/ key = conn[c].cred
           \/ conn[c].pending /\ op[c].key = key
           \/ key \in doomed[c]
           \/ Removing(c)

\* A published selection belongs to a verified, enabled connection and to its active
\* generation: what the first test of configureManaged calls corrupt never happens.
\* (The second test, on the revision of the selection, does fail after a selection was
\* kept; it is a guard, Configurable.)
SelectionUsable ==
    \A c \in Conn : conn[c].profile # 0 =>
        /\ conn[c].auth = "verified" /\ conn[c].new = "enabled"
        /\ conn[c].cred # 0 /\ sel[c][conn[c].profile] = conn[c].cred

\* BeginConnectionInstall and checkRunnerImageCapacity: at most one build for each
\* accepted installation, and no more installations than the limit.
OneBuildPerInstall == builds <= installs

\* watchdogConnectionRetained: while a watchdog runs on a machine, or may come up
\* there, some connection can still log in to that machine to remove it, unless a removal
\* was confirmed there and nothing was asked for since.
WatchdogReachable ==
    \A m \in watched \cup {wd[i].m : i \in late} :
        LET last == LastWatchdog(m)
        IN  \/ last # 0 /\ wd[last].act = "remove_host_watchdog" /\ wd[last].status = "succeeded"
            \/ \E c \in Conn : MachineOf(c) = m /\ ProfileOwned(c)

\* The newest operation on the machine whose script may have been sent, or 0.
LastSent(m) ==
    LET sent == {i \in DOMAIN wd : wd[i].m = m /\ wd[i].status \notin {"queued", "failed"}}
    IN  IF sent = {} THEN 0 ELSE CHOOSE i \in sent : \A j \in sent : j <= i

\* The host shows what the newest operation on the machine was confirmed to have done.
Shown(m) ==
    LET i == LastSent(m)
    IN  i # 0 /\ (wd[i].status = "succeeded" \/ (ww.i = i /\ ww.ok)) => HostShows(i)

\* An older script, cut off and no longer fenced by its lease, comes to its end.
Overtaken(m) ==
    \E j \in late \ late' : wd[j].m = m /\ ~wd[j].lease /\ j # LastSent(m)

\* RunOnce and AcceptWatchdog: an outcome is confirmed only when the host shows it, and
\* the host goes on showing it until the next operation is claimed. The lease keeps the
\* scripts of earlier turns from undoing it for as long as it lasts.
ConfirmedWatchdog == [][\A m \in Machine : Shown(m) => Shown(m)' \/ Overtaken(m)]_vars

\* "A bounded lease also fences explicit removal after an interrupted install"
\* (hostwatchdog.Service.RunOnce): where a removal was confirmed and nothing was asked
\* for since, no watchdog runs.
RemovalFenced ==
    \A m \in watched :
        LET last == LastWatchdog(m)
        IN  ~(wd[last].act = "remove_host_watchdog" /\ wd[last].status = "succeeded")

\* A watchdog operation sends its script at most once, crash or not.
WatchdogSentOnce == \A i \in DOMAIN wd : wd[i].sent <= 1

\* The vault and the ledger agree although they cannot commit together: what is in use
\* is there, and what is there is in use or known to be due.
VaultMatchesLedger == ActiveCredentialHeld /\ SecretsAccountedFor

\* What was promised to admitted and to new work holds: the account it was admitted for
\* and a selection it can be admitted with.
SelectionsHonoured == WorkKeepsItsAccount /\ SelectionUsable

\* Mutations of a machine that cannot be asked about are sent at most once.
SentOnce == OneBuildPerInstall /\ WatchdogSentOnce
=============================================================================
