-------------------------- MODULE WorkLeaseProofs ---------------------------
(***************************************************************************)
(* The fence of WorkLease for any number of workers, any clock and any     *)
(* lease durations.  The inductive invariant adds to the types that        *)
(* generations are unique and bounded by the row's, and that the persisted *)
(* floor is never behind the last committed transaction.                   *)
(***************************************************************************)
EXTENDS WorkLease, TLAPS

\* Every lease ever issued is at or below the row's generation, and the row's
\* generation was issued at most once, to the identity the row holds.
IssuedBelowRow ==
    \A l \in issued :
        /\ l.generation <= row.generation
        /\ l.generation = row.generation => l = Identity(row)

FloorCoversNow == ~Before(Millis(floor), now)

IInv ==
    /\ TypeOK
    /\ IssuedBelowRow
    /\ \A a, b \in issued : a.generation = b.generation => a = b
    /\ accepted <= row.generation
    /\ FloorCoversNow

\* The transaction time of any admissible reading is a time at or after the
\* floor, hence at or after the last transaction, and the new floor covers it.
LEMMA BeginTime ==
    ASSUME TypeOK, FloorCoversNow, NEW wall \in Times, Begin(wall)
    PROVE  /\ now' = TransactionTime(wall)
           /\ now' \in Times
           /\ floor' \in 0..MaxMillis
           /\ ~Before(Millis(floor)', now')
           /\ ~Before(now', now)
  BY LeaseAssumption
     DEF TypeOK, FloorCoversNow, Begin, TransactionTime, NextFloor, Before, Millis, Times

\* CreateAttempt leaves a row without holder, nothing issued and the clock at its floor:
\* the inductive invariant holds there.
LEMMA InitIInv == Init => IInv
  <1> SUFFICES ASSUME Init PROVE IInv
    OBVIOUS
  <1>1. row \in Rows
    BY LeaseAssumption DEF Init, Rows
  <1>2. row.generation = 0 /\ issued = {} /\ accepted = 0
    BY DEF Init
  <1>3. floor \in 0..MaxMillis /\ now \in Times /\ FloorCoversNow
    BY LeaseAssumption DEF Init, FloorCoversNow, Before, Millis, Times
  <1> QED BY <1>1, <1>2, <1>3, LeaseAssumption DEF IInv, TypeOK, IssuedBelowRow

\* A claim issues a fresh identity one generation above every issued one, and commits
\* its clock, row and history in one transaction.
LEMMA ClaimIInv ==
    ASSUME IInv, NEW wall \in Times, NEW owner \in Owners, NEW fence \in Fences,
           NEW context \in Contexts, NEW ttl \in Ttls,
           Claim(owner, fence, context, ttl, wall)
    PROVE  IInv'
  <1>1. /\ now' \in Times /\ floor' \in 0..MaxMillis
        /\ ~Before(Millis(floor)', now') /\ TransactionTime(wall) = now'
    BY BeginTime DEF IInv, Claim
  <1>2. /\ row' \in Rows
        /\ row'.generation = row.generation + 1
        /\ Identity(row') \in Identities
        /\ Identity(row').generation = row.generation + 1
        /\ issued' = issued \cup {Identity(row')}
    BY <1>1, LeaseAssumption
       DEF IInv, TypeOK, Claim, Rows, Identities, Identity, Times
  <1>3. row.generation \in Nat
    BY LeaseAssumption DEF IInv, TypeOK, Rows
  <1>4. TypeOK'
    BY <1>1, <1>2 DEF IInv, TypeOK, Claim
  <1>5. \A l \in issued : l.generation \in Nat /\ l.generation < row.generation + 1
    BY <1>3, LeaseAssumption DEF IInv, TypeOK, IssuedBelowRow, Identities
  <1>6. IssuedBelowRow'
    BY <1>2, <1>3, <1>5 DEF IssuedBelowRow
  <1>7. (\A a, b \in issued : a.generation = b.generation => a = b)'
    BY <1>2, <1>3, <1>5 DEF IInv
  <1>8. (accepted <= row.generation)'
    BY <1>2, <1>3, LeaseAssumption DEF IInv, TypeOK, Claim
  <1> QED BY <1>1, <1>4, <1>6, <1>7, <1>8 DEF IInv, FloorCoversNow

\* Every step other than a claim keeps the row's identity and what was issued.
LEMMA KeepIInv ==
    ASSUME IInv, NEW wall \in Times, Begin(wall), row' \in Rows,
           Identity(row') = Identity(row), issued' = issued,
           accepted' \in {accepted, row.generation}
    PROVE  IInv'
  <1>1. /\ now' \in Times /\ floor' \in 0..MaxMillis
        /\ ~Before(Millis(floor)', now')
    BY BeginTime DEF IInv
  <1>2. row'.generation = row.generation
    BY DEF Identity
  <1>3. row.generation \in 0..MaxGeneration
    BY DEF IInv, TypeOK, Rows
  <1>4. TypeOK'
    BY <1>1, <1>3 DEF IInv, TypeOK
  <1>5. IssuedBelowRow'
    BY <1>2 DEF IInv, IssuedBelowRow
  <1>6. (accepted <= row.generation)'
    BY <1>2, <1>3, LeaseAssumption DEF IInv
  <1> QED BY <1>1, <1>4, <1>5, <1>6 DEF IInv, FloorCoversNow

\* checkWorkLease passes exactly for the identity and so the generation in the row.
LEMMA CheckedGeneration ==
    ASSUME NEW lease, NEW t, Check(lease, t)
    PROVE  lease = Identity(row) /\ lease.generation = row.generation
  BY DEF Check, Identity

\* No transaction on work_leases or clock_state, and no commit of a worker, breaks the
\* inductive invariant.
LEMMA StepIInv == IInv /\ [Next]_vars => IInv'
  <1> SUFFICES ASSUME IInv, [Next]_vars PROVE IInv'
    OBVIOUS
  <1>0. row \in Rows
    BY DEF IInv, TypeOK
  <1>1. ASSUME NEW wall \in Times, NEW owner \in Owners, NEW fence \in Fences,
               NEW context \in Contexts, NEW ttl \in Ttls,
               Claim(owner, fence, context, ttl, wall)
        PROVE  IInv'
    BY <1>1, ClaimIInv
  <1>2. ASSUME NEW wall \in Times, NEW lease \in issued, NEW ttl \in Ttls,
               Renew(lease, ttl, wall)
        PROVE  IInv'
    <2>1. TransactionTime(wall) \in Times
      BY <1>2, BeginTime DEF IInv, Renew
    <2>2. row' \in Rows /\ Identity(row') = Identity(row)
      BY <1>0, <1>2, <2>1, LeaseAssumption DEF Renew, Rows, Identity, Later, Times
    <2> QED BY <1>2, <2>2, KeepIInv DEF Renew
  <1>3. ASSUME NEW wall \in Times, NEW lease \in issued, Release(lease, wall)
        PROVE  IInv'
    <2>1. row' \in Rows /\ Identity(row') = Identity(row)
      BY <1>0, <1>3 DEF Release, Rows, Identity
    <2> QED BY <1>3, <2>1, KeepIInv, CheckedGeneration DEF Release
  <1>4. ASSUME NEW wall \in Times, NEW lease \in issued, FencedWrite(lease, wall)
        PROVE  IInv'
    BY <1>0, <1>4, KeepIInv, CheckedGeneration DEF FencedWrite
  <1>5. ASSUME NEW wall \in Times, OtherWrite(wall)
        PROVE  IInv'
    BY <1>0, <1>5, KeepIInv DEF OtherWrite
  <1>6. CASE UNCHANGED vars
    BY <1>6 DEF vars, IInv, TypeOK, IssuedBelowRow, FloorCoversNow, Identity, Before, Millis
  <1> QED BY <1>1, <1>2, <1>3, <1>4, <1>5, <1>6 DEF Next

\* The lease table, the persisted clock and the issued identities stay related as IInv
\* says after any sequence of claims, renewals, releases, writes and clock readings.
THEOREM Invariance == Spec => []IInv
  BY InitIInv, StepIInv, PTL DEF Spec

\* The lease row, the clock and the history keep their types.
THEOREM TypeCorrect == Spec => []TypeOK
  <1>1. IInv => TypeOK
    BY DEF IInv
  <1> QED BY <1>1, Invariance, PTL

\* checkWorkLease passes for the newest issued lease only, at every reading of
\* the wall clock, for any number of workers and however often fences collide.
THEOREM OnlyNewestOwnsHolds == Spec => []OnlyNewestOwns
  <1>1. IInv => OnlyNewestOwns
    <2> SUFFICES ASSUME IInv, NEW wall \in Times, NEW a \in issued, NEW b \in issued,
                        Check(a, TransactionTime(wall))
                 PROVE  b = a \/ b.generation < a.generation
      BY DEF OnlyNewestOwns
    <2>1. a.generation = row.generation
      BY CheckedGeneration
    <2>2. a.generation \in Nat /\ b.generation \in Nat /\ row.generation \in Nat
      BY LeaseAssumption DEF IInv, TypeOK, Rows, Identities
    <2> QED BY <2>1, <2>2 DEF IInv, IssuedBelowRow
  <1> QED BY <1>1, Invariance, PTL

\* A write under an older generation never commits after one under a newer, and
\* transaction time never decreases, whatever the wall clock reads.
THEOREM CommitsInOrderHold == Spec => CommitsInOrder
  <1> DEFINE Ordered == accepted <= accepted' /\ ~Before(now', now)
  <1>1. IInv /\ [Next]_vars => [Ordered]_vars
    <2> SUFFICES ASSUME IInv, Next PROVE Ordered
      BY DEF vars
    <2>1. accepted \in Nat /\ accepted <= row.generation
      BY LeaseAssumption DEF IInv, TypeOK
    <2>2. accepted' \in {accepted, row.generation}
      BY CheckedGeneration DEF Next, Claim, Renew, Release, FencedWrite, OtherWrite
    <2>3. \E wall \in Times : Begin(wall)
      BY DEF Next, Claim, Renew, Release, FencedWrite, OtherWrite
    <2>4. ~Before(now', now)
      BY <2>3, BeginTime DEF IInv
    <2> QED BY <2>1, <2>2, <2>4
  <1> QED BY <1>1, Invariance, PTL DEF Spec, CommitsInOrder

\* An unreleased lease is taken over only at or after its persisted expiry, and no
\* renewal moves that expiry back.
THEOREM PromisedTimeKeptHolds == Spec => PromisedTimeKept
  <1> DEFINE Patient == row'.generation # row.generation /\ row.held
                          => ~Before(now', Millis(row.until))
             Kept == row'.generation = row.generation => row.until <= row'.until
  <1>1. IInv /\ [Next]_vars => [Patient /\ Kept]_vars
    <2> SUFFICES ASSUME IInv, Next PROVE Patient /\ Kept
      BY DEF vars
    <2>0. row.until \in Nat /\ row.generation \in Nat /\ row \in Rows
      BY LeaseAssumption DEF IInv, TypeOK, Rows
    <2>1. ASSUME NEW wall \in Times, NEW owner \in Owners, NEW fence \in Fences,
                 NEW context \in Contexts, NEW ttl \in Ttls,
                 Claim(owner, fence, context, ttl, wall)
          PROVE  Patient /\ Kept
      <3>1. Patient
        BY <2>1 DEF Claim, Live, Begin
      <3>2. row'.generation # row.generation
        BY <2>0, <2>1 DEF Claim
      <3> QED BY <3>1, <3>2
    <2>2. ASSUME NEW wall \in Times, NEW lease \in issued, NEW ttl \in Ttls,
                 Renew(lease, ttl, wall)
          PROVE  row'.generation = row.generation /\ row.until <= row'.until
      <3>1. TransactionTime(wall).ms + ttl \in Nat
        BY <2>2, BeginTime, LeaseAssumption DEF IInv, Renew, Times
      <3> QED BY <2>0, <2>2, <3>1 DEF Renew, Rows, Later
    <2>3. ASSUME NEW wall \in Times, NEW lease \in issued, Release(lease, wall)
          PROVE  row'.generation = row.generation /\ row'.until = row.until
      BY <2>0, <2>3 DEF Release, Rows
    <2>4. ASSUME NEW wall \in Times, NEW lease \in issued, FencedWrite(lease, wall)
          PROVE  row' = row
      BY <2>4 DEF FencedWrite
    <2>5. ASSUME NEW wall \in Times, OtherWrite(wall) PROVE row' = row
      BY <2>5 DEF OtherWrite
    <2> QED BY <2>0, <2>1, <2>2, <2>3, <2>4, <2>5 DEF Next
  <1> QED BY <1>1, Invariance, PTL DEF Spec, PromisedTimeKept

\* At every reading of the wall clock the SQL test of expiry agrees with Go's.
THEOREM ExpiryTestsAgreeAlways == Spec => []ExpiryTestsAgree
  <1>1. IInv => ExpiryTestsAgree
    <2> SUFFICES ASSUME IInv, NEW wall \in Times
                 PROVE  Live(row, TransactionTime(wall)) <=> RowLive(row, TransactionTime(wall))
      BY DEF ExpiryTestsAgree
    <2>1. /\ TransactionTime(wall).ms \in Nat
          /\ TransactionTime(wall).ns \in Nat
      BY LeaseAssumption DEF IInv, TypeOK, TransactionTime, Millis, Times
    <2>2. row.until \in Nat
      BY DEF IInv, TypeOK, Rows
    <2> QED BY <2>1, <2>2 DEF Live, RowLive, Before, Millis
  <1> QED BY <1>1, Invariance, PTL
=============================================================================
