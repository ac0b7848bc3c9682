------------------------------ MODULE Cleanup -------------------------------
(***************************************************************************)
(* cleanup.Engine: the workers that delete the remote resources of an      *)
(* attempt for an accepted cleanup request, execution before staging.      *)
(* A session is one RunOnce after its claim.  The intent to delete commits *)
(* before the call and the outcome after it; a session that ends between   *)
(* the two leaves the resource running, and its successor only observes    *)
(* (RecoverOnly), it never deletes again.                                  *)
(*                                                                         *)
(* Assumed of the adapters: a refusal (identity, activity, access) means   *)
(* that no delete was sent, "deleted" and "absent" are reported only of an *)
(* object that is gone, and a deleted object does not come back.           *)
(***************************************************************************)
EXTENDS ResultLedger

VARIABLE job     \* the session of each cleaner

NoJob == [pc |-> "idle", op |-> 0, item |-> 0, loaded |-> <<>>, outcome |-> "pending",
          unresolved |-> FALSE, collected |-> FALSE]

Busy(k) == job[k].pc # "idle"
Doing(k, pc) == job[k].pc = pc
Set(k, j) == job' = [job EXCEPT ![k] = j]
Role(k) == Roles[job[k].item]
Finding(k, outcome) == Set(k, [job[k] EXCEPT !.pc = "record", !.outcome = outcome])

\* verifyCleanupLease: the fence of every write of a cleaner.
OwnsCleanup(k) ==
    /\ hold.owner = k /\ hold.live
    /\ job[k].op = Latest
    /\ cleanups[Latest].status = "running"

SetResource(i, role, state) == cleanups' = [cleanups EXCEPT ![i].res[role] = state]

-----------------------------------------------------------------------------

\* failCleanup: a recovered intent keeps an unknown outcome, the rest is retained.
Settled(res) ==
    [role \in DOMAIN res |-> CASE res[role] = "running" -> "unknown"
                               [] res[role] = "pending" -> "retained"
                               [] OTHER -> res[role]]

\* Mutant: a cleanup that has started is never claimed again.
NewOnly == Latest > 0 /\ cleanups[Latest].status = "accepted"

Claimable ==
    /\ Latest > 0
    /\ \/ cleanups[Latest].status = "accepted"
       \/ cleanups[Latest].status = "running" /\ ~hold.live

ClaimCleanup(k) ==
    /\ ~Busy(k)
    /\ Claimable
    /\ IF Eligible(cleanups[Latest].discard, Latest)
       THEN /\ cleanups' = [cleanups EXCEPT ![Latest].status = "running"]
            /\ hold' = Held(k)
            /\ Set(k, [NoJob EXCEPT !.pc = "look", !.op = Latest, !.item = 1,
                                    !.loaded = cleanups[Latest].res,
                                    !.collected = Collected])
       ELSE /\ cleanups' = [cleanups EXCEPT ![Latest].status = "failed",
                                            ![Latest].res = Settled(@)]
            /\ UNCHANGED <<hold, job>>
    /\ UNCHANGED <<s, ticket, tickets, pin, pub, tomb, rule, lease, local, provider, faults>>

NextItem(k, confirmed) ==
    LET more == job[k].item < Len(Roles)
    IN  Set(k, [job[k] EXCEPT !.pc = IF more THEN "look" ELSE "finish",
                              !.item = IF more THEN @ + 1 ELSE @,
                              !.outcome = "pending",
                              !.unresolved = @ \/ ~confirmed])

\* applyResources, one item: settled earlier, held back, refused or inspected.
Look(k) ==
    LET loaded == job[k].loaded[Role(k)]
    IN  /\ Doing(k, "look")
        /\ IF loaded \notin {"pending", "running"}
           THEN NextItem(k, loaded \in Confirmed)
           ELSE \/ Finding(k, "retained")
                \/ ~job[k].unresolved /\ Set(k, [job[k] EXCEPT !.pc = "begin"])
        /\ UNCHANGED <<ledger, local, provider, faults>>

\* BeginCleanupResource rechecks the attempt and the order, and commits the intent.
BeginCleanupResource(k) ==
    LET op == cleanups[Latest]
        ordered == Role(k) = "staging" /\ Executed => op.res["execution"] \in Confirmed
    IN  /\ Doing(k, "begin")
        /\ OwnsCleanup(k)
        /\ IF Eligible(op.discard, Latest) /\ ordered
           THEN /\ SetResource(Latest, Role(k), "running")
                /\ Set(k, [job[k] EXCEPT !.pc = "call"])
           ELSE /\ Finding(k, "retained")
                /\ UNCHANGED cleanups
        /\ UNCHANGED <<s, ticket, tickets, pin, pub, tomb, rule, lease, hold, local, provider,
                       faults>>

Send(k) ==
    /\ doomed' = doomed \cup {Target(Role(k))}
    /\ asked' = [asked EXCEPT ![job[k].op][Role(k)] = @ + 1]
    /\ Set(k, [job[k] EXCEPT !.pc = "reply"])

\* Mutant: a recovered intent deletes again.
CallAgain(k) ==
    LET there == Target(Role(k)) \in remote
    IN  /\ Doing(k, "call")
        /\ \/ ~there /\ Finding(k, "absent") /\ UNCHANGED <<doomed, asked>>
           \/ there /\ Send(k)
        /\ UNCHANGED <<ledger, local, remote, out, others, faults>>

\* callCleanupResource and CleanupResource: identity and activity first; only a fresh
\* intent sends the delete.  The call is not fenced: its session may have lost the lease.
Call(k) ==
    LET there == Target(Role(k)) \in remote
        recover == job[k].loaded[Role(k)] = "running"
    IN  /\ Doing(k, "call")
        /\ \/ ~there /\ Finding(k, "absent") /\ UNCHANGED <<doomed, asked>>
           \/ there /\ recover /\ Finding(k, "unknown") /\ UNCHANGED <<doomed, asked>>
           \/ /\ there /\ ~recover
              /\ \E refusal \in {"retained", "failed", "unknown"} : Finding(k, refusal)
              /\ UNCHANGED <<doomed, asked>>
           \/ there /\ ~recover /\ Send(k)
        /\ UNCHANGED <<ledger, local, remote, out, others, faults>>

\* Mutant: an acknowledged request counts as a deletion.
ReplyOnAcceptance(k) ==
    /\ Doing(k, "reply")
    /\ Finding(k, "deleted")
    /\ UNCHANGED <<ledger, local, provider, faults>>

\* The answer: confirmed once the object is gone, or nothing conclusive.
Reply(k) ==
    /\ Doing(k, "reply")
    /\ \/ Target(Role(k)) \notin remote /\ \E o \in Confirmed : Finding(k, o)
       \/ Finding(k, "unknown")
    /\ UNCHANGED <<ledger, local, provider, faults>>

\* CompleteCleanupResource.  A recovered intent that is not confirmed stays unknown.
Record(k) ==
    LET outcome == IF job[k].loaded[Role(k)] = "running" /\ job[k].outcome \notin Confirmed
                   THEN "unknown" ELSE job[k].outcome
    IN  /\ Doing(k, "record")
        /\ OwnsCleanup(k)
        /\ cleanups[Latest].res[Role(k)] \in
             IF outcome \in Confirmed THEN {"running"} ELSE {"pending", "running"}
        /\ SetResource(Latest, Role(k), outcome)
        /\ NextItem(k, outcome \in Confirmed)
        /\ UNCHANGED <<s, ticket, tickets, pin, pub, tomb, rule, lease, hold, local, provider,
                       faults>>

\* CompleteCleanup: success needs every resource confirmed; a discard that succeeded
\* ends the wait for results.
CompleteCleanup(k) ==
    LET op == cleanups[Latest]
        ok == \A role \in DOMAIN op.res : op.res[role] \in Confirmed
        ended == [s EXCEPT !.orch = "needs_attention"]
    IN  /\ Doing(k, "finish")
        /\ OwnsCleanup(k)
        /\ cleanups' = [cleanups EXCEPT ![Latest].status = IF ok THEN "succeeded" ELSE "failed"]
        /\ IF ok /\ op.discard /\ ~job[k].collected /\ s.orch = "collecting"
           THEN /\ ValidTransition(s, ended)
                /\ s' = ended
                /\ lease' = Overtaken(lease)
           ELSE UNCHANGED <<s, lease>>
        /\ hold' = Free
        /\ Set(k, NoJob)
        /\ UNCHANGED <<ticket, tickets, pin, pub, tomb, rule, local, provider, faults>>

\* ErrLeaseLost: the session ends; what it had found is not recorded.
LoseCleanup(k) ==
    /\ Busy(k)
    /\ ~OwnsCleanup(k)
    /\ Set(k, NoJob)
    /\ UNCHANGED <<ledger, local, provider, faults>>

\* A local store error or shutdown: the claim is left for lease-expiry recovery.
AbandonCleanup(k) ==
    /\ Busy(k)
    /\ faults < MaxFaults
    /\ faults' = faults + 1
    /\ Set(k, NoJob)
    /\ UNCHANGED <<ledger, local, provider>>

ExpireCleanupLease ==
    LET stalled == hold.owner \in Cleaners /\ Busy(hold.owner) /\ OwnsCleanup(hold.owner)
    IN  /\ hold.live
        /\ stalled => faults < MaxFaults
        /\ faults' = IF stalled THEN faults + 1 ELSE faults
        /\ hold' = [hold EXCEPT !.live = FALSE]
        /\ UNCHANGED <<s, ticket, tickets, pin, pub, tomb, cleanups, rule, lease, local,
                       provider, job>>

\* The provider acts on a delete request, at any time after it was sent, or loses it.
Vanish(o) ==
    /\ o \in doomed
    /\ remote' = remote \ {o}
    /\ doomed' = doomed \ {o}
    /\ UNCHANGED <<ledger, local, out, asked, others, job, faults>>

LoseDelete(o) ==
    /\ o \in doomed
    /\ doomed' = doomed \ {o}
    /\ UNCHANGED <<ledger, local, remote, out, asked, others, job, faults>>

CleanupNext ==
    \/ \E k \in Cleaners :
         \/ ClaimCleanup(k) \/ Look(k) \/ BeginCleanupResource(k) \/ Call(k) \/ Reply(k)
         \/ Record(k) \/ CompleteCleanup(k) \/ LoseCleanup(k) \/ AbandonCleanup(k)
    \/ ExpireCleanupLease
    \/ \E o \in Objects : Vanish(o) \/ LoseDelete(o)
=============================================================================
