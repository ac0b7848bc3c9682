-------------------------- MODULE StartGateProofs ---------------------------
(***************************************************************************)
(* What the separate start promises, for any clock, any lifetimes of the   *)
(* grants, any history bound and any number of revisions.  Two invariants  *)
(* carry the proof and do not depend on each other: GateInv relates the    *)
(* attempt, its grants, the pool, the session and the machine; SampleInv   *)
(* relates the durable health history to what this process measured.      *)
(***************************************************************************)
EXTENDS StartGate, TLAPS

GateTypeOK ==
    /\ a \in Attempt
    /\ g \in Grants
    /\ pool \in BOOLEAN
    /\ sess \in Session
    /\ remote \in [staged : BOOLEAN, rev : 1..MaxRev, run : {"none", "running", "over"}]
    /\ calls \in [rev : 0..MaxRev, looked : 0..MaxRev, material : BOOLEAN, handed : 0..2]

\* One commit consumes the start permit, the secret's grant and the pool's material
\* and records the submission: the four never disagree.
SecretInv ==
    /\ pool => g.secret = "granted"
    /\ g.secret # "none" => Slots
    /\ a.submitted <=> g.start = "consumed"
    /\ Slots => (g.start = "consumed" <=> g.secret = "consumed")
    /\ calls.handed = IF Slots /\ a.submitted THEN 1 ELSE 0

\* From the consent on, the revision is the one that was first ready; the session
\* carries the one it looked at last into the call.
ConsentInv ==
    /\ g.start # "none" => g.rev = g.ready /\ g.ready # 0
    /\ a.submitted => /\ a.phase \in {"submitting", "submitted", "ended"}
                      /\ g.ready # 0 /\ a.prepared = g.ready
    /\ sess.pc = "call" => a.submitted /\ (sess.fresh => a.phase = "submitting")
    /\ sess.pc \in {"revalidated", "cleared", "call"} => sess.looked = g.ready /\ g.ready # 0
    /\ calls.rev # 0 => a.submitted /\ calls.rev = g.ready /\ calls.looked = g.ready

\* Staging needs a plan, and the reservation of a planned attempt goes only with a
\* terminal state and the content.
ReservationInv ==
    /\ g.released => a.phase \in Terminal
    /\ remote.staged => a.plan /\ ~g.released
    /\ sess.pc = "prepare" => a.plan /\ ~g.released

GateInv == GateTypeOK /\ SecretInv /\ ConsentInv /\ ReservationInv

-----------------------------------------------------------------------------

\* The newest n rows are dangerous, each older than the one before it by no more than
\* an observation may age.
Unbroken(n) ==
    /\ n \in 1..Len(rows)
    /\ \A i \in 1..n :
         /\ Critical(rows[i])
         /\ i > 1 => /\ rows[i].at < rows[i - 1].at
                     /\ rows[i - 1].at - rows[i].at <= StaleAfter

\* The history is ordered by time, and its newest row is the last sample of this
\* process as soon as there is one.
HistoryInv ==
    /\ \A i \in 1..Len(rows) : rows[i].at \in 0..now
    /\ \A i, j \in 1..Len(rows) : i <= j => rows[j].at <= rows[i].at
    /\ seen.last # NoRow => rows # <<>> /\ rows[1] = seen.last
    /\ Critical(seen.last) => seen.since # Never
    /\ seen.since <= seen.last.at

\* What memory confirms was measured by this process, and a window it reports back to
\* memory.since lies within the danger this process saw without a break.
WindowInv ==
    /\ flight.stage = "recorded" => seen.last # NoRow /\ flight.row = seen.last
    /\ memory.row # NoRow => memory.since # Never
    /\ memory.since # Never =>
         /\ seen.last # NoRow
         /\ \A n \in 1..Len(rows) :
              Unbroken(n) /\ rows[n].at >= memory.since =>
                  seen.since # Never /\ seen.since <= rows[n].at

SampleInv == HealthTypeOK /\ HistoryInv /\ WindowInv

IInv == GateInv /\ SampleInv

-----------------------------------------------------------------------------
(* The gate.                                                               *)

\* The bounds are numbers.
LEMMA Bounds ==
    /\ MaxTime \in Nat /\ StaleAfter \in Nat /\ CriticalDuration \in Nat
    /\ HistoryMaxRows \in Nat \ {0} /\ MaxRev \in Nat \ {0}
    /\ Hold \in Nat \ {0} /\ Wall \in Nat \ {0} /\ SecretLife \in Nat \ {0}
    /\ Slots \in BOOLEAN
  BY HealthAssumption, GateAssumption

\* An attempt as admission leaves it satisfies the gate's invariant.
LEMMA InitGate == Init => GateInv
  <1> SUFFICES ASSUME Init PROVE GateInv
    OBVIOUS
  <1>1. a \in Attempt /\ g \in Grants
    BY Bounds DEF Init, Attempt, Grants, Phases
  <1>2. sess \in Session
    BY Bounds DEF Init, Session, Idle, Row, AllLevels, NoRow, NoEvidence, Never
  <1>3. remote \in [staged : BOOLEAN, rev : 1..MaxRev, run : {"none", "running", "over"}]
    BY Bounds DEF Init
  <1>6. calls \in [rev : 0..MaxRev, looked : 0..MaxRev, material : BOOLEAN, handed : 0..2]
    BY Bounds DEF Init
  <1>7. GateTypeOK
    BY <1>1, <1>2, <1>3, <1>6 DEF Init, GateTypeOK
  <1>4. SecretInv
    BY DEF Init, SecretInv
  <1>5. ConsentInv /\ ReservationInv
    BY DEF Init, ConsentInv, ReservationInv, Idle
  <1> QED BY <1>4, <1>5, <1>7 DEF GateInv

\* The evidence a session carries is a sample and the start of its window.
LEMMA EvidenceType == HealthTypeOK => Evidence \in [row : Row, since : Never..MaxTime]
  BY Bounds DEF HealthTypeOK, Evidence, NoEvidence, Row, NoRow, Never, AllLevels

\* No request, commit, call or crash takes the attempt, its grants or the session out
\* of their types; in particular no counter and no revision passes its bound.
LEMMA TypeStep ==
    ASSUME GateTypeOK, SecretInv, HealthTypeOK, [Next]_vars
    PROVE  GateTypeOK'
  <1> USE Bounds DEF GateTypeOK
  <1>0. Idle \in Session
    BY DEF Idle, Session, Row, AllLevels, NoRow, NoEvidence, Never
  <1>t. now \in 0..MaxTime
    BY DEF HealthTypeOK
  <1>r. remote.rev \in 0..MaxRev
    OBVIOUS
  <1>1. CASE PrepareExecution
    <2>1. now + Hold \in 0..MaxTime
      BY <1>1, <1>t DEF PrepareExecution
    <2>2. g' \in Grants
      BY <1>1, <2>1 DEF PrepareExecution, Grants
    <2> QED BY <1>1, <2>2 DEF PrepareExecution
  <1>2. ASSUME NEW rev \in 1..MaxRev, StartExecution(rev) PROVE GateTypeOK'
    <2>1. now + Wall \in 0..MaxTime
      BY <1>2, <1>t DEF StartExecution
    <2>2. g' \in Grants
      BY <1>2, <2>1 DEF StartExecution, Grants
    <2> QED BY <1>2, <2>2 DEF StartExecution
  <1>3. CASE SupplyWorkloadSecrets
    <2>1. now + SecretLife \in 0..MaxTime
      BY <1>3, <1>t DEF SupplyWorkloadSecrets
    <2>2. g' \in Grants
      BY <1>3, <2>1 DEF SupplyWorkloadSecrets, Grants
    <2> QED BY <1>3, <2>2 DEF SupplyWorkloadSecrets
  <1>4. CASE Resupply
    BY <1>4 DEF Resupply, SecretUsable
  <1>5. CASE RevokeWorkloadSecrets
    BY <1>5 DEF RevokeWorkloadSecrets, Grants
  <1>6. CASE Sweep
    BY <1>6 DEF Sweep
  <1>7. CASE SweepWithoutStore
    BY <1>7 DEF SweepWithoutStore
  <1>8. CASE Cancel
    <2>1. a' \in Attempt
      BY <1>8 DEF Cancel, PreventDispatch, RequestStop, Attempt, Phases
    <2>2. g' \in Grants
      BY <1>8 DEF Cancel, PreventDispatch, RequestStop, Grants
    <2>3. sess' \in Session
      BY <1>8 DEF Cancel, PreventDispatch, RequestStop, Overtaken, Session
    <2> QED BY <1>8, <2>1, <2>2, <2>3 DEF Cancel
  <1>9. CASE Reconcile
    BY <1>9 DEF Reconcile, Overtaken, Attempt, Session, Phases
  <1>10. CASE RecordCleanupPreparation
    BY <1>10 DEF RecordCleanupPreparation, Attempt
  <1>11. CASE CompleteCleanup
    BY <1>11 DEF CompleteCleanup, Grants
  <1>12. CASE RequestHostHealthStop
    BY <1>12 DEF RequestHostHealthStop, RequestStop, Overtaken, Attempt, Session
  <1>13. CASE Load
    BY <1>13, <1>0 DEF Load, Idle, Session
  <1>14. CASE ExpireDispatch
    BY <1>14, <1>0 DEF ExpireDispatch, Yield, Attempt, Grants, Phases
  <1>15. CASE GuardPreparation
    BY <1>15, <1>0, EvidenceType DEF GuardPreparation, Guard, Session
  <1>16. CASE ConsumeAuthorization
    BY <1>16 DEF ConsumeAuthorization, Grants, Session
  <1>17. CASE BeginPreparation
    BY <1>17 DEF BeginPreparation, Attempt, Phases, Session
  <1>18. CASE Prepare
    BY <1>18, <1>0 DEF Prepare, Session
  <1>19. CASE PreparationSeen
    <2>1. a' \in Attempt
      BY <1>19, <1>r DEF PreparationSeen, Attempt, Phases
    <2>2. g' \in Grants
      BY <1>19, <1>r DEF PreparationSeen, Grants
    <2> QED BY <1>19, <1>0, <2>1, <2>2 DEF PreparationSeen, Yield
  <1>20. CASE PreparationMissed
    BY <1>20, <1>0 DEF PreparationMissed, Yield, Attempt, Phases
  <1>21. CASE NothingToStart
    BY <1>21, <1>0 DEF NothingToStart, Yield
  <1>22. CASE Revalidate
    <2>1. a' \in Attempt
      BY <1>22 DEF Revalidate, Attempt, Phases
    <2>2. sess' \in Session
      BY <1>22, <1>0, <1>r DEF Revalidate, Yield, Session
    <2> QED BY <1>22, <2>1, <2>2 DEF Revalidate
  <1>23. CASE GuardSubmission
    BY <1>23, <1>0, EvidenceType DEF GuardSubmission, Guard, Session
  <1>24. CASE BeginSubmission
    <2>1. a' \in Attempt
      BY <1>24 DEF BeginSubmission, Attempt, Phases
    <2>2. g' \in Grants
      BY <1>24 DEF BeginSubmission, Grants
    <2>3. sess' \in Session
      BY <1>24 DEF BeginSubmission, Session
    <2>4. calls.handed = 0
      BY <1>24 DEF BeginSubmission, NewMutationPolicy, LocalOnly, SecretInv
    <2>5. calls' \in [rev : 0..MaxRev, looked : 0..MaxRev, material : BOOLEAN,
       handed : 0..2]
      BY <1>24, <2>4 DEF BeginSubmission
    <2> QED BY <1>24, <2>1, <2>2, <2>3, <2>5 DEF BeginSubmission
  <1>25. CASE CommitRefused
    BY <1>25, <1>0 DEF CommitRefused, Yield
  <1>26. CASE Start
    <2>1. g.rev \in 0..MaxRev /\ sess.looked \in 0..MaxRev
      BY DEF Grants, Session
    <2>2. calls' \in [rev : 0..MaxRev, looked : 0..MaxRev, material : BOOLEAN,
       handed : 0..2]
      BY <1>26, <2>1 DEF Start
    <2>3. a' \in Attempt
      BY <1>26 DEF Start, Attempt, Phases
    <2> QED BY <1>26, <1>0, <2>2, <2>3 DEF Start, Yield
  <1>27. CASE Observe
    BY <1>27, <1>0 DEF Observe, Yield, CancelPending, Attempt, Phases
  <1>28. CASE Health
    BY <1>28 DEF Health, gate
  <1>29. CASE Tick
    BY <1>29 DEF Tick, gate
  <1>30. CASE Drift
    BY <1>30 DEF Drift
  <1>31. CASE RunEnds
    BY <1>31 DEF RunEnds
  <1>32. CASE Crash
    BY <1>32, <1>0 DEF Crash
  <1>33. CASE UNCHANGED vars
    BY <1>33 DEF vars, gate
  <1> QED BY <1>1, <1>2, <1>3, <1>4, <1>5, <1>6, <1>7, <1>8, <1>9, <1>10, <1>11, <1>12,
     <1>13, <1>14, <1>15, <1>16, <1>17, <1>18, <1>19, <1>20, <1>21, <1>22, <1>23, <1>24,
        <1>25, <1>26, <1>27, <1>28, <1>29, <1>30, <1>31, <1>32, <1>33 DEF Next, Engine

\* The start permit, the secret's grant, the material and the record of the submission
\* change together: only a revocation, a sweep or a crash takes the material away
\* otherwise, and none of them gives it back.
LEMMA SecretStep ==
    ASSUME GateTypeOK, SecretInv, [Next]_vars
    PROVE  SecretInv'
  <1> USE DEF GateTypeOK, SecretInv, Attempt, Grants
  <1>b. Slots \in BOOLEAN
    BY Bounds
  <1>1. CASE PrepareExecution
    BY <1>1 DEF PrepareExecution
  <1>2. ASSUME NEW rev \in 1..MaxRev, StartExecution(rev) PROVE SecretInv'
    BY <1>2 DEF StartExecution, LocalOnly
  <1>3. CASE SupplyWorkloadSecrets
    BY <1>3 DEF SupplyWorkloadSecrets, LocalOnly
  <1>4. CASE Resupply
    BY <1>4 DEF Resupply, SecretUsable, SecretGranted
  <1>5. CASE RevokeWorkloadSecrets
    BY <1>5 DEF RevokeWorkloadSecrets
  <1>6. CASE Sweep
    BY <1>6 DEF Sweep
  <1>7. CASE SweepWithoutStore
    BY <1>7 DEF SweepWithoutStore
  <1>8. CASE Cancel
    BY <1>8 DEF Cancel, PreventDispatch, RequestStop, Overtaken
  <1>9. CASE Reconcile
    BY <1>9 DEF Reconcile, Overtaken
  <1>10. CASE RecordCleanupPreparation
    BY <1>10 DEF RecordCleanupPreparation
  <1>11. CASE CompleteCleanup
    BY <1>11 DEF CompleteCleanup
  <1>12. CASE RequestHostHealthStop
    BY <1>12 DEF RequestHostHealthStop, RequestStop, Overtaken
  <1>13. CASE Load
    BY <1>13 DEF Load, Idle
  <1>14. CASE ExpireDispatch
    BY <1>14 DEF ExpireDispatch, Yield
  <1>15. CASE GuardPreparation
    BY <1>15 DEF GuardPreparation, Guard
  <1>16. CASE ConsumeAuthorization
    BY <1>16 DEF ConsumeAuthorization
  <1>17. CASE BeginPreparation
    BY <1>17 DEF BeginPreparation
  <1>18. CASE Prepare
    BY <1>18 DEF Prepare
  <1>19. CASE PreparationSeen
    BY <1>19 DEF PreparationSeen, Yield
  <1>20. CASE PreparationMissed
    BY <1>20 DEF PreparationMissed, Yield
  <1>21. CASE NothingToStart
    BY <1>21 DEF NothingToStart, Yield
  <1>22. CASE Revalidate
    BY <1>22 DEF Revalidate, Yield
  <1>23. CASE GuardSubmission
    BY <1>23 DEF GuardSubmission, Guard
  <1>24. CASE BeginSubmission
    BY <1>24, <1>b DEF BeginSubmission, NewMutationPolicy, LocalOnly
  <1>25. CASE CommitRefused
    BY <1>25 DEF CommitRefused, Yield
  <1>26. CASE Start
    BY <1>26 DEF Start, Yield
  <1>27. CASE Observe
    BY <1>27 DEF Observe, Yield, CancelPending
  <1>28. CASE Health
    BY <1>28 DEF Health, gate
  <1>29. CASE Tick
    BY <1>29 DEF Tick, gate
  <1>30. CASE Drift
    BY <1>30 DEF Drift
  <1>31. CASE RunEnds
    BY <1>31 DEF RunEnds
  <1>32. CASE Crash
    BY <1>32 DEF Crash
  <1>33. CASE UNCHANGED vars
    BY <1>33 DEF vars, gate
  <1> QED BY <1>1, <1>2, <1>3, <1>4, <1>5, <1>6, <1>7, <1>8, <1>9, <1>10, <1>11, <1>12,
     <1>13, <1>14, <1>15, <1>16, <1>17, <1>18, <1>19, <1>20, <1>21, <1>22, <1>23, <1>24,
        <1>25, <1>26, <1>27, <1>28, <1>29, <1>30, <1>31, <1>32, <1>33 DEF Next, Engine

\* The revision of the consent is never overwritten, and a submitted attempt keeps the
\* preparation it was submitted with.
LEMMA ConsentStep ==
    ASSUME GateTypeOK, SecretInv, ConsentInv, [Next]_vars
    PROVE  ConsentInv'
  <1> USE DEF GateTypeOK, SecretInv, ConsentInv, Attempt, Grants, Session
  <1>1. CASE PrepareExecution
    BY <1>1 DEF PrepareExecution
  <1>2. ASSUME NEW rev \in 1..MaxRev, StartExecution(rev) PROVE ConsentInv'
    BY <1>2 DEF StartExecution, LocalOnly
  <1>3. CASE SupplyWorkloadSecrets
    BY <1>3 DEF SupplyWorkloadSecrets
  <1>4. CASE Resupply
    BY <1>4 DEF Resupply
  <1>5. CASE RevokeWorkloadSecrets
    BY <1>5 DEF RevokeWorkloadSecrets
  <1>6. CASE Sweep
    BY <1>6 DEF Sweep
  <1>7. CASE SweepWithoutStore
    BY <1>7 DEF SweepWithoutStore
  <1>8. CASE Cancel
    <2>1. /\ sess'.pc = sess.pc /\ sess'.looked = sess.looked /\ (sess'.fresh => sess.fresh)
          /\ calls' = calls /\ a'.submitted = a.submitted /\ a'.prepared = a.prepared
      BY <1>8 DEF Cancel, PreventDispatch, RequestStop, Overtaken
    <2>2. g'.start = g.start /\ g'.rev = g.rev /\ g'.ready = g.ready
      BY <1>8 DEF Cancel, PreventDispatch, RequestStop
    <2>3. a.submitted => a'.phase = a.phase
      BY <1>8 DEF Cancel, PreventDispatch, RequestStop
    <2> QED BY <2>1, <2>2, <2>3
  <1>9. CASE Reconcile
    BY <1>9 DEF Reconcile, Overtaken
  <1>10. CASE RecordCleanupPreparation
    BY <1>10 DEF RecordCleanupPreparation, Idle
  <1>11. CASE CompleteCleanup
    BY <1>11 DEF CompleteCleanup, Idle
  <1>12. CASE RequestHostHealthStop
    BY <1>12 DEF RequestHostHealthStop, RequestStop, Overtaken
  <1>13. CASE Load
    BY <1>13 DEF Load, Idle
  <1>14. CASE ExpireDispatch
    BY <1>14 DEF ExpireDispatch, Yield, Idle
  <1>15. CASE GuardPreparation
    BY <1>15 DEF GuardPreparation, Guard, Idle
  <1>16. CASE ConsumeAuthorization
    BY <1>16 DEF ConsumeAuthorization, NewMutationPolicy, LocalOnly
  <1>17. CASE BeginPreparation
    BY <1>17 DEF BeginPreparation, NewMutationPolicy, LocalOnly
  <1>18. CASE Prepare
    BY <1>18 DEF Prepare, Idle
  <1>19. CASE PreparationSeen
    <2>1. ~a.submitted /\ sess' = Idle /\ calls' = calls
      BY <1>19 DEF PreparationSeen, Yield
    <2>2. a'.submitted = a.submitted /\ g'.start = g.start /\ g'.rev = g.rev
      BY <1>19 DEF PreparationSeen
    <2>3. g.ready # 0 => g'.ready = g.ready
      BY <1>19 DEF PreparationSeen
    <2>4. sess'.pc = "idle"
      BY <2>1 DEF Idle
    <2> QED BY <2>1, <2>2, <2>3, <2>4
  <1>20. CASE PreparationMissed
    BY <1>20 DEF PreparationMissed, Yield, Idle
  <1>21. CASE NothingToStart
    BY <1>21 DEF NothingToStart, Yield, Idle
  <1>22. CASE Revalidate
    <2>1. remote.rev # 0
      BY Bounds
    <2>2. ~a.submitted /\ g' = g /\ calls' = calls
      BY <1>22 DEF Revalidate
    <2>3. a'.submitted = a.submitted /\ a'.prepared = a.prepared
      BY <1>22 DEF Revalidate
    <2>4. CASE remote.staged /\ remote.rev = g.ready
      <3>1. sess' = [sess EXCEPT !.pc = "revalidated", !.looked = g.ready]
        BY <1>22, <2>4 DEF Revalidate, StillStaged
      <3>2. sess'.pc = "revalidated" /\ sess'.looked = g.ready /\ g.ready # 0
        BY <2>1, <2>4, <3>1
      <3> QED BY <2>2, <2>3, <3>2
    <2>5. CASE ~(remote.staged /\ remote.rev = g.ready)
      <3>1. sess'.pc = "idle"
        BY <1>22, <2>5 DEF Revalidate, StillStaged, Yield, Idle
      <3> QED BY <2>2, <2>3, <3>1
    <2> QED BY <2>4, <2>5
  <1>23. CASE GuardSubmission
    BY <1>23 DEF GuardSubmission, Guard, Idle
  <1>24. CASE BeginSubmission
    BY <1>24 DEF BeginSubmission, NewMutationPolicy, LocalOnly
  <1>25. CASE CommitRefused
    BY <1>25 DEF CommitRefused, Yield, Idle
  <1>26. CASE Start
    BY <1>26 DEF Start, Yield, Idle
  <1>27. CASE Observe
    BY <1>27 DEF Observe, Yield, CancelPending, Idle
  <1>28. CASE Health
    BY <1>28 DEF Health, gate
  <1>29. CASE Tick
    BY <1>29 DEF Tick, gate
  <1>30. CASE Drift
    BY <1>30 DEF Drift
  <1>31. CASE RunEnds
    BY <1>31 DEF RunEnds
  <1>32. CASE Crash
    BY <1>32 DEF Crash, Idle
  <1>33. CASE UNCHANGED vars
    BY <1>33 DEF vars, gate
  <1> QED BY <1>1, <1>2, <1>3, <1>4, <1>5, <1>6, <1>7, <1>8, <1>9, <1>10, <1>11, <1>12,
     <1>13, <1>14, <1>15, <1>16, <1>17, <1>18, <1>19, <1>20, <1>21, <1>22, <1>23, <1>24,
        <1>25, <1>26, <1>27, <1>28, <1>29, <1>30, <1>31, <1>32, <1>33 DEF Next, Engine

\* The reservation is released with a terminal attempt only, and never while content
\* is or may still arrive on the machine.
LEMMA ReservationStep ==
    ASSUME GateTypeOK, ConsentInv, ReservationInv, [Next]_vars
    PROVE  ReservationInv'
  <1> USE DEF GateTypeOK, ConsentInv, ReservationInv, Attempt, Grants, Session, Terminal
  <1>1. CASE PrepareExecution
    BY <1>1 DEF PrepareExecution
  <1>2. ASSUME NEW rev \in 1..MaxRev, StartExecution(rev) PROVE ReservationInv'
    BY <1>2 DEF StartExecution, LocalOnly
  <1>3. CASE SupplyWorkloadSecrets
    BY <1>3 DEF SupplyWorkloadSecrets
  <1>4. CASE Resupply
    BY <1>4 DEF Resupply
  <1>5. CASE RevokeWorkloadSecrets
    BY <1>5 DEF RevokeWorkloadSecrets
  <1>6. CASE Sweep
    BY <1>6 DEF Sweep
  <1>7. CASE SweepWithoutStore
    BY <1>7 DEF SweepWithoutStore
  <1>8. CASE Cancel
    BY <1>8 DEF Cancel, PreventDispatch, RequestStop, Overtaken
  <1>9. CASE Reconcile
    BY <1>9 DEF Reconcile, Overtaken
  <1>10. CASE RecordCleanupPreparation
    BY <1>10 DEF RecordCleanupPreparation, Idle
  <1>11. CASE CompleteCleanup
    BY <1>11 DEF CompleteCleanup, Idle
  <1>12. CASE RequestHostHealthStop
    BY <1>12 DEF RequestHostHealthStop, RequestStop, Overtaken
  <1>13. CASE Load
    BY <1>13 DEF Load, Idle
  <1>14. CASE ExpireDispatch
    BY <1>14 DEF ExpireDispatch, Yield, Idle
  <1>15. CASE GuardPreparation
    BY <1>15 DEF GuardPreparation, Guard, Idle
  <1>16. CASE ConsumeAuthorization
    BY <1>16 DEF ConsumeAuthorization, NewMutationPolicy, LocalOnly
  <1>17. CASE BeginPreparation
    BY <1>17 DEF BeginPreparation, NewMutationPolicy, LocalOnly
  <1>18. CASE Prepare
    BY <1>18 DEF Prepare, Idle
  <1>19. CASE PreparationSeen
    BY <1>19 DEF PreparationSeen, Yield, Idle
  <1>20. CASE PreparationMissed
    BY <1>20 DEF PreparationMissed, Yield, Idle
  <1>21. CASE NothingToStart
    BY <1>21 DEF NothingToStart, Yield, Idle
  <1>22. CASE Revalidate
    BY <1>22 DEF Revalidate, StillStaged, Yield, Idle
  <1>23. CASE GuardSubmission
    BY <1>23 DEF GuardSubmission, Guard, Idle
  <1>24. CASE BeginSubmission
    BY <1>24 DEF BeginSubmission, NewMutationPolicy, LocalOnly
  <1>25. CASE CommitRefused
    BY <1>25 DEF CommitRefused, Yield, Idle
  <1>26. CASE Start
    BY <1>26 DEF Start, Yield, Idle
  <1>27. CASE Observe
    BY <1>27 DEF Observe, Yield, CancelPending, Idle
  <1>28. CASE Health
    BY <1>28 DEF Health, gate
  <1>29. CASE Tick
    BY <1>29 DEF Tick, gate
  <1>30. CASE Drift
    BY <1>30 DEF Drift
  <1>31. CASE RunEnds
    BY <1>31 DEF RunEnds
  <1>32. CASE Crash
    BY <1>32 DEF Crash, Idle
  <1>33. CASE UNCHANGED vars
    BY <1>33 DEF vars, gate
  <1> QED BY <1>1, <1>2, <1>3, <1>4, <1>5, <1>6, <1>7, <1>8, <1>9, <1>10, <1>11, <1>12,
     <1>13, <1>14, <1>15, <1>16, <1>17, <1>18, <1>19, <1>20, <1>21, <1>22, <1>23, <1>24,
        <1>25, <1>26, <1>27, <1>28, <1>29, <1>30, <1>31, <1>32, <1>33 DEF Next, Engine

-----------------------------------------------------------------------------
(* The health of the machine.                                              *)

\* Pushing an entry in front and cutting the tail off shifts what remains by one.
LEMMA PushFront ==
    ASSUME NEW T, NEW s \in Seq(T), NEW r \in T, NEW k \in 1..(Len(s) + 1)
    PROVE  LET t == SubSeq(<<r>> \o s, 1, k)
           IN  /\ t \in Seq(T) /\ Len(t) = k
               /\ t[1] = r
               /\ \A i \in 2..k : t[i] = s[i - 1] /\ i - 1 \in 1..Len(s)
  <1> DEFINE u == <<r>> \o s
             t == SubSeq(u, 1, k)
  <1>1. u \in Seq(T) /\ Len(u) = Len(s) + 1
    OBVIOUS
  <1>2. u[1] = r /\ \A i \in 2..(Len(s) + 1) : u[i] = s[i - 1]
    OBVIOUS
  <1>3. t \in Seq(T) /\ Len(t) = k /\ \A i \in 1..k : t[i] = u[i]
    BY <1>1
  <1> QED BY <1>2, <1>3

\* Nothing is on record and nothing confirmed before the first probe.
LEMMA InitSample == Init => SampleInv
  <1> SUFFICES ASSUME Init PROVE SampleInv
    OBVIOUS
  <1>1. now = 0 /\ rows = <<>> /\ memory = Unobserved /\ flight = NoFlight /\ seen = Unseen
    BY DEF Init, HealthInit
  <1>2. NoRow \in Row
    BY Bounds DEF NoRow, Row, AllLevels, Never
  <1>3. HealthTypeOK
    BY <1>1, <1>2, Bounds DEF HealthTypeOK, Unobserved, NoFlight, Unseen, Never
  <1>4. HistoryInv
    BY <1>1 DEF HistoryInv, Unseen, NoRow, Never, Critical
  <1>5. WindowInv
    BY <1>1 DEF WindowInv, Unobserved, NoFlight, Unseen
  <1> QED BY <1>3, <1>4, <1>5 DEF SampleInv

\* A committed row is the newest one and the last sample of this process; the danger
\* it continues is the one that was seen before it.
LEMMA RecordSample ==
    ASSUME SampleInv, now' = now, RecordHostHealth
    PROVE  SampleInv'
  <1> DEFINE k == IF Len(rows) < HistoryMaxRows THEN Len(rows) + 1 ELSE HistoryMaxRows
  <1>0. now \in 0..MaxTime /\ rows \in Seq(Row) /\ Len(rows) \in 0..HistoryMaxRows
    BY DEF SampleInv, HealthTypeOK
  <1>k. k \in 1..(Len(rows) + 1) /\ k <= HistoryMaxRows
    BY <1>0, Bounds
  <1>p. PICK level \in Levels :
             LET r == [at |-> now, level |-> level]
             IN  /\ rows' = SubSeq(<<r>> \o rows, 1, k)
                 /\ flight' = [stage |-> "recorded", row |-> r]
                 /\ seen' = [last |-> r, since |-> Danger(r)]
    BY DEF RecordHostHealth
  <1> DEFINE r == [at |-> now, level |-> level]
  <1>1. r \in Row /\ r # NoRow /\ r.at = now
    BY <1>0, HealthAssumption, Bounds DEF Row, NoRow, Never
  <1>2. /\ rows' \in Seq(Row) /\ Len(rows') = k
        /\ rows'[1] = r
        /\ \A i \in 2..k : rows'[i] = rows[i - 1] /\ i - 1 \in 1..Len(rows)
    BY <1>0, <1>1, <1>k, <1>p, PushFront
  <1>f. flight' = [stage |-> "recorded", row |-> r] /\ seen' = [last |-> r, since |-> Danger(r)]
    BY <1>p
  <1> HIDE DEF k, r
  <1>3. /\ \A i \in 1..Len(rows) : rows[i].at \in 0..now
        /\ \A i, j \in 1..Len(rows) : i <= j => rows[j].at <= rows[i].at
        /\ seen.last # NoRow => rows # <<>> /\ rows[1] = seen.last
        /\ seen.since <= seen.last.at
    BY DEF SampleInv, HistoryInv
  <1>s. /\ seen.last.at \in Int /\ seen.since \in Never..MaxTime
        /\ memory.since \in Never..MaxTime
    BY DEF SampleInv, HealthTypeOK, Row, Never
  <1>4. Danger(r) \in Never..MaxTime
    BY <1>0, <1>1, <1>s, Bounds DEF Danger, Never
  <1>5. HealthTypeOK'
    BY <1>0, <1>1, <1>2, <1>4, <1>f, <1>k DEF SampleInv, HealthTypeOK, RecordHostHealth
  <1>6. Danger(r) <= now /\ (Critical(r) => Danger(r) # Never)
    BY <1>0, <1>1, <1>3, <1>s DEF Danger, Never
  <1>7. HistoryInv'
    <2>1. ASSUME NEW i \in 1..k PROVE rows'[i].at \in 0..now
      <3>1. CASE i = 1
        BY <1>0, <1>1, <1>2, <3>1
      <3>2. CASE i # 1
        <4>1. rows'[i] = rows[i - 1] /\ i - 1 \in 1..Len(rows)
          BY <1>2, <1>k, <3>2
        <4> QED BY <1>3, <4>1
      <3> QED BY <3>1, <3>2
    <2>2. ASSUME NEW i \in 1..k, NEW j \in 1..k, i <= j
          PROVE  rows'[j].at <= rows'[i].at
      <3>1. CASE i = 1
        BY <1>0, <1>1, <1>2, <2>1, <3>1
      <3>2. CASE i # 1
        <4>1. i - 1 \in 1..Len(rows) /\ j - 1 \in 1..Len(rows) /\ i - 1 <= j - 1
          BY <1>2, <1>k, <2>2, <3>2
        <4>2. rows'[i] = rows[i - 1] /\ rows'[j] = rows[j - 1]
          BY <1>2, <1>k, <2>2, <3>2
        <4> QED BY <1>3, <4>1, <4>2
      <3> QED BY <3>1, <3>2
    <2>3. rows' # <<>>
      BY <1>2, <1>k
    <2> QED BY <1>1, <1>2, <1>6, <1>f, <2>1, <2>2, <2>3 DEF HistoryInv, Critical
  <1>8. WindowInv'
    <2>1. memory' = memory
      BY DEF RecordHostHealth
    <2>2. ASSUME memory.since # Never, NEW n \in 1..k,
                 Unbroken(n)', rows'[n].at >= memory.since
          PROVE  Danger(r) # Never /\ Danger(r) <= rows'[n].at
      <3>1. Critical(r)
        BY <1>2, <2>2 DEF Unbroken
      <3>2. CASE n = 1
        BY <1>1, <1>2, <1>6, <3>1, <3>2
      <3>3. CASE n > 1
        <4>1. n - 1 \in 1..Len(rows) /\ rows'[n] = rows[n - 1]
          BY <1>2, <1>k, <3>3
        <4>2. \A i \in 1..n : /\ Critical(rows'[i])
                              /\ i > 1 => /\ rows'[i].at < rows'[i - 1].at
                                          /\ rows'[i - 1].at - rows'[i].at <= StaleAfter
          BY <2>2 DEF Unbroken
        <4>3. ASSUME NEW i \in 1..(n - 1)
              PROVE  /\ Critical(rows[i])
                     /\ i > 1 => /\ rows[i].at < rows[i - 1].at
                                 /\ rows[i - 1].at - rows[i].at <= StaleAfter
          <5>1. i + 1 \in 1..n /\ i + 1 \in 2..k /\ (i + 1) - 1 = i
            BY <1>k, <3>3
          <5>2. rows'[i + 1] = rows[i]
            BY <1>2, <5>1
          <5>3. i > 1 => rows'[i] = rows[i - 1]
            BY <1>2, <1>k, <3>3
          <5> QED BY <4>2, <5>1, <5>2, <5>3
        <4>4. Unbroken(n - 1)
          BY <4>1, <4>3 DEF Unbroken
        <4>5. seen.last # NoRow /\ seen.since # Never /\ seen.since <= rows[n - 1].at
          BY <2>2, <4>1, <4>4 DEF SampleInv, WindowInv
        <4>6. rows'[2] = rows[1] /\ rows[1] = seen.last
          BY <1>2, <1>3, <1>k, <3>3, <4>5
        <4>7. r.at > seen.last.at /\ r.at - seen.last.at <= StaleAfter
          <5>1. 2 \in 1..n /\ 2 - 1 = 1
            BY <1>k, <3>3
          <5>2. rows'[2].at < rows'[1].at /\ rows'[1].at - rows'[2].at <= StaleAfter
            BY <4>2, <5>1
          <5> QED BY <1>0, <1>1, <1>2, <1>s, <4>6, <5>2
        <4>8. Danger(r) = seen.since
          BY <3>1, <4>5, <4>7 DEF Danger
        <4> QED BY <4>1, <4>5, <4>8
      <3> QED BY <1>k, <3>2, <3>3
    <2>3. seen'.last = r /\ seen'.since = Danger(r) /\ flight'.row = r
      BY <1>f
    <2> QED BY <1>1, <1>2, <2>1, <2>2, <2>3 DEF SampleInv, WindowInv
  <1> QED BY <1>5, <1>7, <1>8 DEF SampleInv

\* The confirmation continues the window in memory only from a sample of this process
\* that is recent enough; otherwise the window starts with the new sample.
LEMMA ConfirmSample ==
    ASSUME SampleInv, now' = now, Confirm
    PROVE  SampleInv'
  <1>0. /\ now \in 0..MaxTime /\ flight.row \in Row /\ flight.row.at \in Never..MaxTime
        /\ memory \in [attempted : Never..MaxTime, row : Row, since : Never..MaxTime,
                       failed : BOOLEAN]
    BY DEF SampleInv, HealthTypeOK, Row
  <1>1. seen.last # NoRow /\ flight.row = seen.last /\ rows # <<>> /\ rows[1] = seen.last
    BY DEF SampleInv, HistoryInv, WindowInv, Confirm
  <1>2. rows' = rows /\ seen' = seen /\ flight' = NoFlight
    BY DEF Confirm
  <1>3. NoRow \in Row
    BY Bounds DEF NoRow, Row, AllLevels, Never
  <1>4. memory' \in [attempted : Never..MaxTime, row : Row, since : Never..MaxTime,
                     failed : BOOLEAN]
    BY <1>0, <1>3, Bounds DEF Confirm, Never
  <1>5. HealthTypeOK'
    BY <1>2, <1>3, <1>4 DEF SampleInv, HealthTypeOK, NoFlight
  <1>6. HistoryInv'
    BY <1>2 DEF SampleInv, HistoryInv
  <1>7. memory'.since \in {Never, memory.since, flight.row.at}
    BY DEF Confirm
  <1>8. memory'.row # NoRow => memory'.since # Never
    <2>1. flight.row.at \in 0..now
      BY <1>1 DEF SampleInv, HistoryInv, HealthTypeOK
    <2> QED BY <2>1 DEF Confirm, Never
  <1>9. ASSUME memory'.since # Never, NEW n \in 1..Len(rows), Unbroken(n),
               rows[n].at >= memory'.since
        PROVE  seen.since # Never /\ seen.since <= rows[n].at
    <2>1. CASE memory'.since = memory.since
      BY <1>9, <2>1 DEF SampleInv, WindowInv
    <2>2. CASE memory'.since = flight.row.at
      <3>1. /\ \A i \in 1..Len(rows) : rows[i].at \in Int
            /\ \A i, j \in 1..Len(rows) : i <= j => rows[j].at <= rows[i].at
            /\ Len(rows) \in Nat
        BY DEF SampleInv, HistoryInv, HealthTypeOK
      <3>2. CASE n = 1
        <4>1. Critical(seen.last)
          BY <1>1, <1>9, <3>2 DEF Unbroken
        <4> QED BY <1>1, <3>2, <4>1 DEF SampleInv, HistoryInv
      <3>3. CASE n > 1
        <4>1. 2 \in 1..n /\ 2 - 1 = 1 /\ 2 \in 1..Len(rows) /\ 1 \in 1..Len(rows)
          BY <3>1, <3>3
        <4>2. rows[2].at < rows[1].at
          BY <1>9, <4>1 DEF Unbroken
        <4>3. rows[n].at <= rows[2].at
          BY <3>1, <3>3, <4>1
        <4> QED BY <1>1, <1>9, <2>2, <3>1, <4>1, <4>2, <4>3
      <3> QED BY <3>1, <3>2, <3>3
    <2> QED BY <1>7, <1>9, <2>1, <2>2
  <1>10. WindowInv'
    BY <1>1, <1>2, <1>8, <1>9 DEF WindowInv, NoFlight, Unbroken
  <1> QED BY <1>5, <1>6, <1>10 DEF SampleInv

\* A probe, a refused row, the clock and a crash: memory and seen are forgotten
\* together, and time only moves on.
LEMMA OtherSample ==
    ASSUME SampleInv,
           \/ now' = now /\ (BeginProbe \/ RecordFailed \/ HealthRestart)
           \/ Tick
           \/ UNCHANGED <<now, health>>
    PROVE  SampleInv'
  <1>0. NoRow \in Row
    BY Bounds DEF NoRow, Row, AllLevels, Never
  <1>1. CASE now' = now /\ BeginProbe
    <2>1. HealthTypeOK'
      BY <1>1 DEF BeginProbe, SampleInv, HealthTypeOK, Never
    <2>2. HistoryInv'
      BY <1>1 DEF BeginProbe, SampleInv, HistoryInv
    <2>3. WindowInv'
      BY <1>1 DEF BeginProbe, SampleInv, HealthTypeOK, WindowInv, Unbroken
    <2> QED BY <2>1, <2>2, <2>3 DEF SampleInv
  <1>2. CASE now' = now /\ (RecordFailed \/ HealthRestart)
    <2>1. /\ rows' = rows /\ seen' = Unseen /\ flight' = NoFlight
          /\ memory'.row = NoRow /\ memory'.since = Never
      BY <1>2 DEF RecordFailed, HealthRestart, Unobserved
    <2>2. memory' \in [attempted : Never..MaxTime, row : Row, since : Never..MaxTime,
                       failed : BOOLEAN]
      <3>1. now \in Never..MaxTime /\ Never \in Never..MaxTime
        BY Bounds DEF SampleInv, HealthTypeOK, Never
      <3>2. CASE RecordFailed
        BY <1>0, <3>1, <3>2 DEF RecordFailed
      <3>3. CASE HealthRestart
        BY <1>0, <3>1, <3>3 DEF HealthRestart, Unobserved
      <3> QED BY <1>2, <3>2, <3>3
    <2>3. HealthTypeOK'
      BY <1>0, <1>2, <2>1, <2>2, Bounds DEF SampleInv, HealthTypeOK, NoFlight, Unseen, Never
    <2>4. HistoryInv'
      BY <1>2, <2>1 DEF SampleInv, HistoryInv, Unseen, NoRow, Never, Critical
    <2>5. WindowInv'
      BY <2>1 DEF WindowInv, NoFlight
    <2> QED BY <2>3, <2>4, <2>5 DEF SampleInv
  <1>3. CASE Tick
    <2>1. now' \in 0..MaxTime /\ now' = now + 1 /\ now \in 0..MaxTime
      BY <1>3, Bounds DEF Tick, SampleInv, HealthTypeOK
    <2>2. UNCHANGED <<rows, memory, flight, seen>>
      BY <1>3 DEF Tick, health
    <2>3. HealthTypeOK'
      BY <2>1, <2>2 DEF SampleInv, HealthTypeOK
    <2>4. HistoryInv'
      BY <2>1, <2>2 DEF SampleInv, HistoryInv
    <2>5. WindowInv'
      BY <2>2 DEF SampleInv, WindowInv, Unbroken
    <2> QED BY <2>3, <2>4, <2>5 DEF SampleInv
  <1>4. CASE UNCHANGED <<now, health>>
    BY <1>4 DEF health, SampleInv, HealthTypeOK, HistoryInv, WindowInv, Unbroken
  <1> QED BY <1>1, <1>2, <1>3, <1>4

\* Every other step of the system leaves the clock and the health of the machine alone.
LEMMA HealthFrame ==
    ASSUME Next
    PROVE  \/ now' = now /\ (HealthStep \/ HealthRestart)
           \/ Tick
           \/ UNCHANGED <<now, health>>
  BY DEF Next, Engine, PrepareExecution, StartExecution, SupplyWorkloadSecrets, Resupply,
         RevokeWorkloadSecrets, Sweep, SweepWithoutStore, Cancel, Reconcile,
         RecordCleanupPreparation, CompleteCleanup, RequestHostHealthStop, Load,
         ExpireDispatch, GuardPreparation, GuardSubmission, Guard, ConsumeAuthorization,
         BeginPreparation, Prepare, PreparationSeen, PreparationMissed, NothingToStart,
         Revalidate, BeginSubmission, CommitRefused, Start, Observe, Health, Drift, RunEnds,
         Crash

-----------------------------------------------------------------------------
(* What the specification promises.                                        *)

\* Every transaction, call, probe, crash and instant preserves both invariants.
LEMMA StepIInv == IInv /\ [Next]_vars => IInv'
  <1> SUFFICES ASSUME IInv, [Next]_vars PROVE IInv'
    OBVIOUS
  <1>1. GateInv'
    BY TypeStep, SecretStep, ConsentStep, ReservationStep DEF IInv, GateInv, SampleInv
  <1>2. CASE Next
    BY <1>1, <1>2, HealthFrame, RecordSample, ConfirmSample, OtherSample DEF IInv, HealthStep
  <1>3. CASE UNCHANGED vars
    BY <1>1, <1>3, OtherSample DEF IInv, vars
  <1> QED BY <1>2, <1>3

\* The gate and the health of the machine stay related as IInv says in every order of
\* requests, commits, calls, probes, crashes and clock readings.
THEOREM Invariance == Spec => []IInv
  <1>1. Init => IInv
    BY InitGate, InitSample DEF IInv
  <1> QED BY <1>1, StepIInv, PTL DEF Spec

\* The attempt, its grants, the session, the machine and its history keep their types.
THEOREM TypeCorrect == Spec => []TypeOK
  <1>1. IInv => TypeOK
    BY DEF IInv, GateInv, GateTypeOK, SampleInv, TypeOK
  <1> QED BY <1>1, Invariance, PTL

\* Secret material is handed out at most once, behind the commit that consumed its
\* grant, and is in the pool only while the grant is open (workloadsecret.Pool).
THEOREM SecretsUsedOnce == Spec => []MaterialUsedOnce
  <1>1. IInv => MaterialUsedOnce
    BY Bounds DEF IInv, GateInv, SecretInv, MaterialUsedOnce, MaterialOnlyWhileGranted, MaterialOnce
  <1> QED BY <1>1, Invariance, PTL

\* What the one Start call starts is the preparation that was read, consented to and
\* revalidated, however often the staged content changes (commitGateStep).
THEOREM StartsTheConsented == Spec => []StartsWhatWasRead
  <1>1. IInv => StartsWhatWasRead
    BY DEF IInv, GateInv, ConsentInv, StartsWhatWasRead
  <1> QED BY <1>1, Invariance, PTL

\* A reservation is held as long as content may be on the machine, whichever of
\* expiry, cancellation, failure and cleanup comes first (releaseGateStorage).
THEOREM StagingIsReserved == Spec => []ReservationCoversStaging
  <1>1. IInv => ReservationCoversStaging
    BY DEF IInv, GateInv, ReservationInv, ReservationCoversStaging
  <1> QED BY <1>1, Invariance, PTL

\* Evidence that is fresh is the last sample of this process.
LEMMA FreshIsSeen ==
    ASSUME SampleInv, NEW e, Fresh(e)
    PROVE  /\ rows # <<>> /\ rows[1] = Head(rows)
           /\ seen.last = Head(rows) /\ memory.since # Never
           /\ e.row = Head(rows) /\ e.since = memory.since
           /\ now - seen.last.at <= StaleAfter
  <1>1. rows \in Seq(Row) /\ rows # <<>> /\ Head(rows) = memory.row /\ e.row = memory.row
    BY DEF Fresh, SampleInv, HealthTypeOK
  <1>2. rows[1] = Head(rows) /\ 1 \in 1..Len(rows)
    BY <1>1
  <1>3. rows[1].at \in 0..now /\ now \in Nat
    BY <1>2 DEF SampleInv, HistoryInv, HealthTypeOK
  <1>4. memory.row # NoRow
    BY <1>1, <1>2, <1>3 DEF NoRow, Never
  <1>5. seen.last = Head(rows) /\ memory.since # Never
    BY <1>2, <1>4 DEF SampleInv, HistoryInv, WindowInv
  <1> QED BY <1>1, <1>2, <1>5 DEF Fresh

\* Only two commits begin new work, and both judge the session's evidence again.
LEMMA NewWorkJudged ==
    ASSUME GateTypeOK, Next, a'.plan # a.plan \/ a'.submitted # a.submitted
    PROVE  ~RefuseNew(sess.ev)
  <1> USE DEF GateTypeOK, Attempt
  <1>1. CASE BeginPreparation
    BY <1>1 DEF BeginPreparation, NewMutationPolicy
  <1>2. CASE BeginSubmission
    BY <1>2 DEF BeginSubmission, NewMutationPolicy
  <1>3. CASE Cancel
    BY <1>3 DEF Cancel, PreventDispatch, RequestStop
  <1>4. CASE Reconcile
    BY <1>4 DEF Reconcile
  <1>5. CASE RecordCleanupPreparation
    BY <1>5 DEF RecordCleanupPreparation
  <1>6. CASE RequestHostHealthStop
    BY <1>6 DEF RequestHostHealthStop, RequestStop
  <1>7. CASE ExpireDispatch
    BY <1>7 DEF ExpireDispatch
  <1>8. CASE PreparationSeen
    BY <1>8 DEF PreparationSeen
  <1>9. CASE PreparationMissed
    BY <1>9 DEF PreparationMissed
  <1>10. CASE Revalidate
    BY <1>10 DEF Revalidate
  <1>11. CASE Start
    BY <1>11 DEF Start
  <1>12. CASE Observe
    BY <1>12 DEF Observe
  <1>13. CASE UNCHANGED a
    BY <1>13
  <1> QED BY <1>1, <1>2, <1>3, <1>4, <1>5, <1>6, <1>7, <1>8, <1>9, <1>10, <1>11, <1>12,
     <1>13 DEF Next, Engine, PrepareExecution, StartExecution, SupplyWorkloadSecrets,
        Resupply, RevokeWorkloadSecrets, Sweep, SweepWithoutStore, CompleteCleanup, Load,
           GuardPreparation, ConsumeAuthorization, Prepare, NothingToStart,
              GuardSubmission, CommitRefused, Health, Tick, Drift, RunEnds, Crash, Guard,
                 gate

\* Only the monitor's request is recorded as its own.
LEMMA MonitorJudged ==
    ASSUME GateTypeOK, Next, a'.by = "health", a.by # "health"
    PROVE  Stop(Evidence) /\ a.submitted
  <1> USE DEF GateTypeOK, Attempt
  <1>1. CASE RequestHostHealthStop
    BY <1>1 DEF RequestHostHealthStop, RequestStop
  <1>2. CASE Cancel
    BY <1>2 DEF Cancel, PreventDispatch, RequestStop
  <1>3. CASE Reconcile
    BY <1>3 DEF Reconcile
  <1>4. CASE RecordCleanupPreparation
    BY <1>4 DEF RecordCleanupPreparation
  <1>5. CASE ExpireDispatch
    BY <1>5 DEF ExpireDispatch
  <1>6. CASE BeginPreparation
    BY <1>6 DEF BeginPreparation
  <1>7. CASE PreparationSeen
    BY <1>7 DEF PreparationSeen
  <1>8. CASE PreparationMissed
    BY <1>8 DEF PreparationMissed
  <1>9. CASE Revalidate
    BY <1>9 DEF Revalidate
  <1>10. CASE BeginSubmission
    BY <1>10 DEF BeginSubmission
  <1>11. CASE Start
    BY <1>11 DEF Start
  <1>12. CASE Observe
    BY <1>12 DEF Observe
  <1>13. CASE UNCHANGED a
    BY <1>13
  <1> QED BY <1>1, <1>2, <1>3, <1>4, <1>5, <1>6, <1>7, <1>8, <1>9, <1>10, <1>11, <1>12,
     <1>13 DEF Next, Engine, PrepareExecution, StartExecution, SupplyWorkloadSecrets,
        Resupply, RevokeWorkloadSecrets, Sweep, SweepWithoutStore, CompleteCleanup, Load,
           GuardPreparation, ConsumeAuthorization, Prepare, NothingToStart,
              GuardSubmission, CommitRefused, Health, Tick, Drift, RunEnds, Crash, Guard,
                 gate

\* New work and stops rest on what this process measured itself, without a break and
\* not long ago, for any policy and any length of the history (BeforeNewWork, Evaluate).
THEOREM DecisionsJustified == Spec => HealthDecisionsJustified
  <1>1. IInv /\ [Next]_vars => [NewWorkOnHealthyHost /\ StopOnlyOnMeasuredDanger]_vars
    <2> SUFFICES ASSUME IInv, Next PROVE NewWorkOnHealthyHost /\ StopOnlyOnMeasuredDanger
      OBVIOUS
    <2>0. GateTypeOK /\ SampleInv
      BY DEF IInv, GateInv
    <2>1. NewWorkOnHealthyHost
      <3> SUFFICES ASSUME a'.plan # a.plan \/ a'.submitted # a.submitted
                   PROVE  /\ seen.last.level \in {"ok", "unsupported"}
                          /\ now - seen.last.at <= StaleAfter
        BY DEF NewWorkOnHealthyHost
      <3>1. Fresh(sess.ev) /\ Head(rows).level \in {"ok", "unsupported"}
        BY <2>0, NewWorkJudged DEF RefuseNew
      <3> QED BY <2>0, <3>1, FreshIsSeen
    <2>2. StopOnlyOnMeasuredDanger
      <3> SUFFICES ASSUME a'.by = "health", a.by # "health"
                   PROVE  /\ a.submitted
                          /\ now - seen.last.at <= StaleAfter
                          /\ \/ seen.last.level = "battery"
                             \/ /\ seen.since # Never
                                /\ seen.last.at - seen.since >= CriticalDuration
        BY DEF StopOnlyOnMeasuredDanger
      <3>1. Stop(Evidence) /\ a.submitted
        BY <2>0, MonitorJudged
      <3>2. Fresh(Evidence)
        BY <3>1 DEF Stop
      <3>3. /\ rows # <<>> /\ rows[1] = Head(rows) /\ seen.last = Head(rows)
            /\ memory.since # Never /\ Evidence.since = memory.since
            /\ now - seen.last.at <= StaleAfter
        BY <2>0, <3>2, FreshIsSeen
      <3>4. CASE Sustained(Evidence)
        <4>1. PICK n \in Chain(Evidence) : Head(rows).at - rows[n].at >= CriticalDuration
          BY <3>4 DEF Sustained
        <4>2. n \in 1..Len(rows) /\ Unbroken(n) /\ rows[n].at >= memory.since
          BY <3>3, <4>1 DEF Chain, Unbroken
        <4>3. seen.since # Never /\ seen.since <= rows[n].at
          BY <2>0, <3>3, <4>2 DEF SampleInv, WindowInv
        <4>4. rows[n].at \in Int /\ seen.last.at \in Int /\ seen.since \in Int
          BY <2>0, <4>2 DEF SampleInv, HistoryInv, HealthTypeOK, Row, Never
        <4> QED BY <3>1, <3>3, <4>1, <4>3, <4>4, Bounds
      <3>5. CASE Head(rows).level = "battery"
        BY <3>1, <3>3, <3>5
      <3> QED BY <3>1, <3>4, <3>5 DEF Stop
    <2> QED BY <2>1, <2>2
  <1> QED BY <1>1, Invariance, PTL DEF Spec, HealthDecisionsJustified
=============================================================================
