------------------------------ MODULE Watchdog ------------------------------
(***************************************************************************)
(* hostwatchdog.Service: an explicit, one-shot installation or removal of  *)
(* the watchdog on a macOS host. The applying barrier is committed before  *)
(* the script is sent; afterwards the outcome is only observed. Submissions *)
(* and the worker's turns share one lock, so a request is accepted only    *)
(* while the worker rests. A script that is cut off, by the time limit of  *)
(* its command or by the end of the process, may go on on the host: the    *)
(* lease of a process that died fences it for a while, a turn that goes on *)
(* gives its lease back at once.                                           *)
(***************************************************************************)
EXTENDS ConnectionService

CONSTANT MaxWatch   \* bound: watchdog operations

ASSUME WatchAssumption == MaxWatch \in Nat

VARIABLES
    watched,    \* machines on which the watchdog is loaded
    ww,         \* the watchdog worker
    late        \* the operations whose script was cut off and may still run

watchdog == <<watched, ww, late>>

Watching == [pc |-> "idle", i |-> 0, ok |-> FALSE]

WatchdogOperation ==
    [c : Conn, m : Machine, act : {"install_host_watchdog", "remove_host_watchdog"},
     rev : Revs, status : {"queued", "unknown", "succeeded", "failed"},
     stage : {"queued", "applying", "done"}, lease : BOOLEAN, sent : 0..2]

WatchdogTypeOK ==
    /\ Len(wd) <= MaxWatch /\ \A i \in DOMAIN wd : wd[i] \in WatchdogOperation
    /\ watched \in SUBSET Machine
    /\ ww \in [pc : {"idle", "apply", "release", "finish"}, i : 0..MaxWatch, ok : BOOLEAN]
    /\ late \in SUBSET (1..MaxWatch)

WatchdogInit ==
    /\ watched = {}
    /\ ww = Watching
    /\ late = {}

SetWatchdog(i, field) ==
    /\ wd' = [wd EXCEPT ![i] = field]
    /\ UNCHANGED <<conn, op, gens, doomed, vault, sel, bound, work, installs>>

\* hostHealthTarget and ResolveWatchdogTarget: a verified machine with a pinned engine.
HasTarget(c) ==
    /\ conn[c].auth = "verified" /\ conn[c].new # "removed"
    /\ conn[c].cred # 0 /\ MachineOf(c) # None
    /\ \/ conn[c].profile # 0
       \/ conn[c].new = "disabled" /\ work[c].state = "active"
       \/ \E i \in DOMAIN wd : wd[i].m = MachineOf(c)

\* readCredential and the remote session: the login works and machine m answers.
LoginWorks(c, m) ==
    /\ conn[c].cred # 0 /\ conn[c].cred \in vault[c]
    /\ host[conn[c].account] = m

\* A removal names the plan of an installation.
HasPlan(m) == \E i \in DOMAIN wd : wd[i].m = m /\ wd[i].act = "install_host_watchdog"
                                     /\ wd[i].status # "failed"

Submitted(c, act) ==
    [c |-> c, m |-> MachineOf(c), act |-> act, rev |-> conn[c].rev, status |-> "queued",
     stage |-> "queued", lease |-> FALSE, sent |-> 0]

\* Mutant: a removal supersedes an unknown outcome without waiting for the lease.
AcceptWatchdogEarly(c, act) ==
    LET last == LastWatchdog(MachineOf(c))
    IN  /\ Running /\ ww.pc = "idle"
        /\ Len(wd) < MaxWatch /\ TotalOps < MaxOps
        /\ HasTarget(c) /\ ~conn[c].pending
        /\ IF act = "remove_host_watchdog"
           THEN HasPlan(MachineOf(c)) ELSE LoginWorks(c, MachineOf(c))
        /\ last # 0 /\ wd[last].status \in {"queued", "unknown"} =>
             act = "remove_host_watchdog" /\ wd[last].status = "unknown"
        /\ wd' = Append(IF last # 0 /\ wd[last].status = "unknown"
                        THEN [wd EXCEPT ![last].stage = "done"] ELSE wd,
                        Submitted(c, act))
        /\ UNCHANGED <<conn, op, gens, doomed, vault, sel, bound, work, installs,
                       service, watchdog>>

\* AcceptWatchdog. Only a removal may supersede an unknown outcome, and only once the
\* lease of the earlier turn is over. A changed plan is refused, so it is not modelled.
AcceptWatchdog(c, act) ==
    LET last == LastWatchdog(MachineOf(c))
    IN  /\ Running /\ ww.pc = "idle"
        /\ Len(wd) < MaxWatch /\ TotalOps < MaxOps
        /\ HasTarget(c) /\ ~conn[c].pending
        /\ IF act = "remove_host_watchdog"
           THEN HasPlan(MachineOf(c)) ELSE LoginWorks(c, MachineOf(c))
        /\ last # 0 /\ wd[last].status \in {"queued", "unknown"} =>
             act = "remove_host_watchdog" /\ wd[last].status = "unknown" /\ ~wd[last].lease
        /\ wd' = Append(IF last # 0 /\ wd[last].status = "unknown"
                        THEN [wd EXCEPT ![last].stage = "done"] ELSE wd,
                        Submitted(c, act))
        /\ UNCHANGED <<conn, op, gens, doomed, vault, sel, bound, work, installs,
                       service, watchdog>>

\* ClaimWatchdog: stale or no longer authorised requests fail without any effect.
ClaimWatchdog(i) ==
    /\ Running /\ ww.pc = "idle" /\ wd[i].stage = "queued"
    /\ LET c == wd[i].c
           current == conn[c].rev = wd[i].rev /\ ~conn[c].pending
       IN  \/ /\ current
              /\ SetWatchdog(i, [wd[i] EXCEPT !.stage = "applying", !.status = "unknown",
                                              !.lease = TRUE])
              /\ ww' = [pc |-> "apply", i |-> i, ok |-> FALSE]
           \/ \* stale_revision, or the token was revoked or has expired
              /\ ~current \/ "token" \in Faults
              /\ SetWatchdog(i, [wd[i] EXCEPT !.stage = "done", !.status = "failed"])
              /\ UNCHANGED ww
    /\ UNCHANGED <<service, watched, late>>

Reachable(i) == LoginWorks(wd[i].c, wd[i].m)

Landed(i) ==
    IF wd[i].act = "install_host_watchdog" THEN watched \cup {wd[i].m} ELSE watched \ {wd[i].m}

\* Apply with a script that is over when it returns: none is sent, one is sent and
\* confirmed, or its outcome stays unknown.
ApplyWatchdog ==
    /\ Running /\ ww.pc = "apply" /\ guard = "free"
    /\ \/ /\ ww' = [ww EXCEPT !.pc = "release"]
          /\ UNCHANGED <<ledger, watched>>
       \/ /\ Reachable(ww.i)
          /\ SetWatchdog(ww.i, [wd[ww.i] EXCEPT !.sent = @ + 1])
          /\ \E landed, ok \in BOOLEAN :
               /\ ok => landed
               /\ watched' = IF landed THEN Landed(ww.i) ELSE watched
               /\ ww' = [ww EXCEPT !.pc = "release", !.ok = ok]
    /\ UNCHANGED <<service, late>>

CutOff ==
    /\ ww.pc = "apply" /\ Reachable(ww.i)
    /\ SetWatchdog(ww.i, [wd[ww.i] EXCEPT !.sent = @ + 1])
    /\ late' = late \cup {ww.i}

\* Apply whose command runs out of time: the connection is closed, the script may go on.
CutOffWatchdog ==
    /\ Running /\ guard = "free"
    /\ Fault("timeout")
    /\ CutOff
    /\ ww' = [ww EXCEPT !.pc = "release"]
    /\ UNCHANGED <<guard, sub, wk, login, host, builds, stopped, watched>>

ReleaseWatchdog ==
    /\ Running /\ ww.pc = "release"
    /\ SetWatchdog(ww.i, [wd[ww.i] EXCEPT !.lease = FALSE])
    /\ ww' = IF ww.ok THEN [ww EXCEPT !.pc = "finish"] ELSE Watching
    /\ UNCHANGED <<service, watched, late>>

FinishWatchdog ==
    /\ Running /\ ww.pc = "finish"
    /\ SetWatchdog(ww.i, [wd[ww.i] EXCEPT !.status = "succeeded", !.stage = "done"])
    /\ ww' = Watching
    /\ UNCHANGED <<service, watched, late>>

\* What the scripts read on the host: the service is loaded after an installation and
\* not after a removal.
HostShows(i) == (wd[i].m \in watched) = (wd[i].act = "install_host_watchdog")

\* Mutant: an interrupted turn is carried out again.
ApplyAgain(i) ==
    /\ Running /\ ww.pc = "idle"
    /\ wd[i].stage = "applying" /\ ~wd[i].lease
    /\ ww' = [pc |-> "apply", i |-> i, ok |-> FALSE]
    /\ UNCHANGED <<ledger, service, watched, late>>

\* An interrupted turn is recovered by reading the host, never by a second script.
ObserveWatchdog(i) ==
    /\ Running /\ ww.pc = "idle" /\ guard = "free"
    /\ wd[i].stage = "applying" /\ ~wd[i].lease
    /\ Reachable(i) /\ HostShows(i)
    /\ ww' = [pc |-> "finish", i |-> i, ok |-> TRUE]
    /\ UNCHANGED <<ledger, service, watched, late>>

\* A script that was cut off comes to its end, with its effect or without.
LateScript(i) ==
    /\ i \in late
    /\ watched' \in {watched, Landed(i)}
    /\ late' = late \ {i}
    /\ UNCHANGED <<ledger, service, ww>>

\* The lease of a turn that never gave it back runs out.
LeaseEnds(i) ==
    /\ wd[i].lease /\ ww.i # i
    /\ SetWatchdog(i, [wd[i] EXCEPT !.lease = FALSE])
    /\ UNCHANGED <<service, watchdog>>

SubmitWatchdog ==
    \E c \in Conn, act \in {"install_host_watchdog", "remove_host_watchdog"} : AcceptWatchdog(c, act)

RunWatchdog ==
    \/ \E i \in DOMAIN wd : ClaimWatchdog(i) \/ ObserveWatchdog(i)
    \/ ApplyWatchdog \/ CutOffWatchdog \/ ReleaseWatchdog \/ FinishWatchdog

WatchdogNext ==
    \/ SubmitWatchdog \/ RunWatchdog
    \/ \E i \in DOMAIN wd : LateScript(i) \/ LeaseEnds(i)
=============================================================================
