-------------------------- MODULE SchedulerProofs ---------------------------
(***************************************************************************)
(* What Select promises for any queue, workspaces, accounts, machines and  *)
(* limits: it starts nothing that a limit or the queue order forbids, and  *)
(* it passes an eligible workspace over fewer times than there are others. *)
(* And what authorizationQuota promises for any wall times and quotas:     *)
(* everything consented to fits what the provider reported.                *)
(***************************************************************************)
EXTENDS Scheduler, FiniteSetTheorems, WellFoundedInduction, TLAPS

Row == [phase : Phases, granted : BOOLEAN, live : BOOLEAN, deferred : BOOLEAN]

\* A row that nobody admitted has no lease, so admission adds no holder.
AbsentIdle == \A q \in Rows : row[q].phase = "absent" => ~row[q].live

\* The workspaces whose turn comes before w's when the cursor is at l.
Before(l, w) ==
    {v \in Workspaces : IF l < w THEN l < v /\ v < w ELSE v > l \/ v < w}

\* Each claim that passes an eligible workspace over moves the cursor closer to it.
TurnComes ==
    \A w \in Workspaces : bypass[w] + Cardinality(Before(last, w)) < Cardinality(Workspaces)

IInv == TypeOK /\ AbsentIdle /\ TurnComes

-----------------------------------------------------------------------------
(* Least elements and finite sets.                                         *)

\* Min of a set of naturals that is not empty.
LEMMA Least ==
    ASSUME NEW S \in SUBSET Nat, S # {}
    PROVE  Min(S) \in S /\ \A y \in S : Min(S) <= y
  <1>2. PICK x \in S : \A y \in S : ~(<<y, x>> \in OpToRel(<, Nat))
    BY WFMin, NatLessThanWellFounded
  <1>3. \A y \in S : ~(y < x)
    BY <1>2 DEF OpToRel
  <1>4. \A y \in S : x <= y
    BY <1>3
  <1> QED BY <1>4 DEF Min

\* The rows are finitely many, and so are the holders among them.
LEMMA FiniteRows ==
    ASSUME NEW S \in SUBSET Rows
    PROVE  IsFiniteSet(S) /\ Cardinality(S) \in Nat
  <1>1. IsFiniteSet(Rows)
    BY FS_Interval, SchedulerAssumption DEF Rows
  <1>2. IsFiniteSet(S)
    BY <1>1, FS_Subset
  <1> QED BY <1>2, FS_CardinalityType

-----------------------------------------------------------------------------
(* Types.                                                                  *)

\* What an assignment to one field of a row does to the rows.
LEMMA RowMoves ==
    ASSUME TypeOK, NEW q \in Rows
    PROVE  /\ row[q] \in Row
           /\ \A p \in Phases : row' = [row EXCEPT ![q].phase = p] =>
                /\ row' \in [Rows -> Row] /\ row'[q].phase = p /\ row'[q].live = row[q].live
                /\ \A r \in Rows : r # q => row'[r] = row[r]
           /\ row' = [row EXCEPT ![q].granted = TRUE] =>
                /\ row' \in [Rows -> Row] /\ row'[q].phase = row[q].phase
                /\ row'[q].live = row[q].live
                /\ \A r \in Rows : r # q => row'[r] = row[r]
           /\ row' = [row EXCEPT ![q].live = TRUE] =>
                /\ row' \in [Rows -> Row] /\ row'[q].phase = row[q].phase /\ row'[q].live
                /\ \A r \in Rows : r # q => row'[r] = row[r]
           /\ row' = [row EXCEPT ![q].deferred = FALSE] =>
                /\ row' \in [Rows -> Row] /\ row'[q].phase = row[q].phase
                /\ row'[q].live = row[q].live
                /\ \A r \in Rows : r # q => row'[r] = row[r]
           /\ \A d \in BOOLEAN : row' = [row EXCEPT ![q].live = FALSE, ![q].deferred = d] =>
                /\ row' \in [Rows -> Row] /\ row'[q].phase = row[q].phase /\ ~row'[q].live
                /\ \A r \in Rows : r # q => row'[r] = row[r]
  <1>1. row \in [Rows -> Row]
    BY DEF TypeOK, Row
  <1>2. row[q] \in Row
    BY <1>1
  <1>3. \A f \in Row : row' = [row EXCEPT ![q] = f] =>
          /\ row' \in [Rows -> Row] /\ row'[q] = f
          /\ \A r \in Rows : r # q => row'[r] = row[r]
    BY <1>1
  <1>4. ASSUME NEW p \in Phases, row' = [row EXCEPT ![q].phase = p]
        PROVE  /\ row' \in [Rows -> Row] /\ row'[q].phase = p /\ row'[q].live = row[q].live
               /\ \A r \in Rows : r # q => row'[r] = row[r]
    BY <1>1, <1>4 DEF Row
  <1>5. ASSUME row' = [row EXCEPT ![q].granted = TRUE]
        PROVE  /\ row' \in [Rows -> Row] /\ row'[q].phase = row[q].phase
               /\ row'[q].live = row[q].live
               /\ \A r \in Rows : r # q => row'[r] = row[r]
    BY <1>1, <1>5 DEF Row
  <1>6. ASSUME row' = [row EXCEPT ![q].live = TRUE]
        PROVE  /\ row' \in [Rows -> Row] /\ row'[q].phase = row[q].phase /\ row'[q].live
               /\ \A r \in Rows : r # q => row'[r] = row[r]
    BY <1>1, <1>6 DEF Row
  <1>7. ASSUME row' = [row EXCEPT ![q].deferred = FALSE]
        PROVE  /\ row' \in [Rows -> Row] /\ row'[q].phase = row[q].phase
               /\ row'[q].live = row[q].live
               /\ \A r \in Rows : r # q => row'[r] = row[r]
    BY <1>1, <1>7 DEF Row
  <1>8. ASSUME NEW d \in BOOLEAN, row' = [row EXCEPT ![q].live = FALSE, ![q].deferred = d]
        PROVE  /\ row' \in [Rows -> Row] /\ row'[q].phase = row[q].phase /\ ~row'[q].live
               /\ \A r \in Rows : r # q => row'[r] = row[r]
    <2> DEFINE e == [row[q] EXCEPT !.live = FALSE]
               f == [e EXCEPT !.deferred = d]
    <2>1. e \in Row /\ e.live = FALSE /\ e.phase = row[q].phase
      BY <1>2 DEF Row
    <2>2. f \in Row /\ f.live = FALSE /\ f.phase = row[q].phase
      <3> HIDE DEF e
      <3> QED BY <2>1 DEF Row
    <2>3. row' = [row EXCEPT ![q] = f]
      BY <1>1, <1>8
    <2> HIDE DEF f
    <2> QED BY <1>3, <2>2, <2>3
  <1> QED BY <1>2, <1>4, <1>5, <1>6, <1>7, <1>8

\* What every action does to the rows: one row moves, and it gains the right to hold
\* capacity only by the claim of Select.
Moved(q) ==
    /\ row' \in [Rows -> Row]
    /\ \A r \in Rows : r # q => row'[r] = row[r]
    /\ row'[q].phase = "absent" => row[q].phase = "absent" /\ row'[q].live = row[q].live
    /\ HoldsCapacity(q)' => HoldsCapacity(q)
    /\ Waiting(q) => ~row'[q].live

\* Every action on a row but the claim is such a move.
LEMMA MovedRows ==
    ASSUME TypeOK, AbsentIdle, NEW q \in Rows
    PROVE  /\ Admit(q) \/ AuthorizeExecution(q) \/ ClaimRecovery(q) \/ BeginPreparation(q)
              \/ Yield(q) \/ NotBeforePasses(q) \/ End(q) \/ RejectedForQuota(q) => Moved(q)
  <1>1. ASSUME Admit(q) PROVE Moved(q)
    BY <1>1, RowMoves DEF Admit, Moved, HoldsCapacity, Waiting, AbsentIdle, Phases
  <1>2. ASSUME AuthorizeExecution(q) PROVE Moved(q)
    BY <1>2, RowMoves DEF AuthorizeExecution, Moved, HoldsCapacity, Waiting
  <1>3. ASSUME ClaimRecovery(q) PROVE Moved(q)
    BY <1>3, RowMoves DEF ClaimRecovery, Moved, HoldsCapacity, Waiting
  <1>4. ASSUME BeginPreparation(q) PROVE Moved(q)
    BY <1>4, RowMoves DEF BeginPreparation, Moved, HoldsCapacity, Waiting, Phases
  <1>5. ASSUME Yield(q) PROVE Moved(q)
    <2> PICK d \in BOOLEAN : row' = [row EXCEPT ![q].live = FALSE, ![q].deferred = d]
      BY <1>5 DEF Yield
    <2> QED BY <1>5, RowMoves DEF Yield, Moved, HoldsCapacity, Waiting, AbsentIdle
  <1>6. ASSUME NotBeforePasses(q) PROVE Moved(q)
    BY <1>6, RowMoves DEF NotBeforePasses, Moved, HoldsCapacity, Waiting
  <1>7. ASSUME End(q) PROVE Moved(q)
    BY <1>7, RowMoves DEF End, Moved, HoldsCapacity, Waiting, Phases
  <1>8. ASSUME RejectedForQuota(q) PROVE Moved(q)
    BY <1>8, RowMoves DEF RejectedForQuota, Moved, HoldsCapacity, Waiting, Phases
  <1> QED BY <1>1, <1>2, <1>3, <1>4, <1>5, <1>6, <1>7, <1>8

-----------------------------------------------------------------------------
(* Round robin.                                                            *)

\* Whatever the cursor, the turn of w is at most the last one of all.
LEMMA FewerBefore ==
    ASSUME NEW l \in Nat, NEW w \in Workspaces
    PROVE  /\ IsFiniteSet(Before(l, w)) /\ Cardinality(Before(l, w)) \in Nat
           /\ 0 + Cardinality(Before(l, w)) < Cardinality(Workspaces)
           /\ Cardinality(Workspaces) \in Nat
  <1>1. /\ IsFiniteSet(Workspaces \ {w})
        /\ Cardinality(Workspaces \ {w}) = Cardinality(Workspaces) - 1
        /\ Cardinality(Workspaces) \in Nat
    BY SchedulerAssumption, FS_RemoveElement, FS_CardinalityType
  <1>2. Before(l, w) \in SUBSET (Workspaces \ {w})
    BY SchedulerAssumption DEF Before
  <1>3. IsFiniteSet(Before(l, w)) /\ Cardinality(Before(l, w)) <= Cardinality(Workspaces \ {w})
    BY <1>1, <1>2, FS_Subset
  <1>4. Cardinality(Before(l, w)) \in Nat
    BY <1>3, FS_CardinalityType
  <1> QED BY <1>1, <1>3, <1>4

\* The workspace that Select turns to comes before every other eligible one.
LEMMA NextComesBefore ==
    ASSUME last \in Nat, NEW E \in SUBSET Workspaces, NEW w \in E, w # NextSpace(E)
    PROVE  /\ NextSpace(E) \in Before(last, w)
           /\ Before(NextSpace(E), w) \subseteq Before(last, w) \ {NextSpace(E)}
  <1> DEFINE after == {v \in E : v > last}
             n == NextSpace(E)
  <1>0. E \in SUBSET Nat /\ after \in SUBSET Nat /\ w \in Nat /\ Workspaces \subseteq Nat
    BY SchedulerAssumption
  <1>1. CASE after # {}
    <2>1. n = Min(after)
      BY <1>1 DEF NextSpace
    <2>2. n \in after /\ \A y \in after : n <= y
      BY <1>0, <1>1, <2>1, Least
    <2> HIDE DEF n
    <2>3. n \in E /\ n > last /\ n \in Nat
      BY <2>2, <1>0
    <2>4. last < w => n < w
      BY <2>2, <2>3, <1>0 DEF n
    <2>5. n \in Before(last, w)
      BY <2>3, <2>4, <1>0 DEF Before
    <2>6. ASSUME NEW v \in Before(n, w) PROVE v \in Before(last, w) /\ v # n
      <3>1. v \in Workspaces /\ v \in Nat
        BY <1>0 DEF Before
      <3> QED BY <1>0, <2>3, <2>4, <2>6, <3>1 DEF Before
    <2> QED BY <2>5, <2>6 DEF n
  <1>2. CASE after = {}
    <2>1. n = Min(E)
      BY <1>2 DEF NextSpace
    <2>2. n \in E /\ \A y \in E : n <= y
      BY <1>0, <2>1, Least
    <2>3. ~(w > last)
      <3>1. w \notin after
        BY <1>2
      <3> QED BY <3>1
    <2>n. n # w
      OBVIOUS
    <2> HIDE DEF n, after
    <2>4. n < w /\ n \in Nat /\ ~(last < w)
      <3>1. n <= w /\ n \in Nat
        BY <2>2, <1>0
      <3> QED BY <3>1, <2>n, <2>3, <1>0
    <2>5. n \in Before(last, w)
      <3>1. n \in Workspaces
        BY <2>2
      <3> QED BY <2>4, <3>1 DEF Before
    <2>6. ASSUME NEW v \in Before(n, w) PROVE v \in Before(last, w) /\ v # n
      <3>1. v \in Workspaces /\ v \in Nat
        BY <1>0 DEF Before
      <3> QED BY <1>0, <2>4, <2>6, <3>1 DEF Before
    <2> QED BY <2>5, <2>6 DEF n
  <1> QED BY <1>1, <1>2

-----------------------------------------------------------------------------
(* The invariant.                                                          *)

\* The initial state: no claim yet, and no row.
LEMMA InitInv == Init => IInv
  <1> SUFFICES ASSUME Init PROVE IInv
    OBVIOUS
  <1>1. TypeOK
    <2>1. row \in [Rows -> [phase : Phases, granted : BOOLEAN, live : BOOLEAN, deferred : BOOLEAN]]
      BY DEF Init, Phases
    <2>2. quota \in [Accounts -> Quotas]
      BY SchedulerAssumption DEF Init, Quotas
    <2> QED BY <2>1, <2>2 DEF Init, TypeOK
  <1>2. AbsentIdle
    BY DEF Init, AbsentIdle
  <1>3. TurnComes
    BY FewerBefore DEF Init, TurnComes
  <1> QED BY <1>1, <1>2, <1>3 DEF IInv

\* Round robin keeps its promise through a claim.
LEMMA ClaimKeepsTurns ==
    ASSUME IInv, NEW q \in Rows, ClaimNext(q)
    PROVE  TurnComes' /\ bypass' \in [Workspaces -> Nat] /\ last' \in Workspaces
  <1> DEFINE E == EligibleSpaces
             n == WorkspaceOf[q]
  <1>0. last \in Nat /\ bypass \in [Workspaces -> Nat] /\ n \in Workspaces /\ Workspaces \subseteq Nat
    BY SchedulerAssumption DEF IInv, TypeOK
  <1>1. E \in SUBSET Workspaces
    BY SchedulerAssumption DEF EligibleSpaces
  <1>2. n = NextSpace(E) /\ last' = n
    BY DEF ClaimNext, Selected, Cursor
  <1>3. bypass' = [w \in Workspaces |-> IF w \in E \ {n} THEN bypass[w] + 1 ELSE 0]
    BY DEF ClaimNext
  <1>4. bypass' \in [Workspaces -> Nat]
    BY <1>0, <1>3
  <1> HIDE DEF E, n
  <1>5. ASSUME NEW w \in Workspaces
        PROVE  bypass'[w] + Cardinality(Before(last', w)) < Cardinality(Workspaces)
    <2>1. CASE w \in E \ {n}
      <3>1. n \in Before(last, w) /\ Before(n, w) \in SUBSET (Before(last, w) \ {n})
        BY <1>0, <1>1, <1>2, <2>1, NextComesBefore
      <3>2. /\ IsFiniteSet(Before(last, w)) /\ Cardinality(Before(last, w)) \in Nat
            /\ Cardinality(Before(n, w)) \in Nat /\ Cardinality(Workspaces) \in Nat
        BY <1>0, FewerBefore
      <3>3. /\ IsFiniteSet(Before(last, w) \ {n})
            /\ Cardinality(Before(last, w) \ {n}) = Cardinality(Before(last, w)) - 1
        BY <3>1, <3>2, FS_RemoveElement
      <3>4. Cardinality(Before(n, w)) <= Cardinality(Before(last, w) \ {n})
        BY <3>1, <3>3, FS_Subset
      <3>5. bypass[w] + Cardinality(Before(last, w)) < Cardinality(Workspaces)
        BY DEF IInv, TurnComes
      <3>6. bypass'[w] = bypass[w] + 1 /\ bypass[w] \in Nat
        BY <1>0, <1>3, <2>1
      <3> QED BY <1>2, <3>2, <3>3, <3>4, <3>5, <3>6
    <2>2. CASE w \notin E \ {n}
      <3>1. bypass'[w] = 0
        BY <1>3, <2>2
      <3>2. 0 + Cardinality(Before(n, w)) < Cardinality(Workspaces)
        BY <1>0, FewerBefore
      <3> QED BY <1>2, <3>1, <3>2
    <2> QED BY <2>1, <2>2
  <1>6. TurnComes'
    BY <1>5 DEF TurnComes
  <1> QED BY <1>0, <1>2, <1>4, <1>6

\* The claim itself moves one row, which was waiting.
LEMMA ClaimMoves ==
    ASSUME TypeOK, NEW q \in Rows, ClaimNext(q)
    PROVE  /\ row' \in [Rows -> Row] /\ \A r \in Rows : r # q => row'[r] = row[r]
           /\ row'[q].phase = "local" /\ row'[q].live
           /\ row[q].phase = "local" /\ ~row[q].live
  BY RowMoves DEF ClaimNext, Selected, Eligible, Head, Waiting

\* What the configuration and the quota become.
LEMMA QuotaMoves ==
    ASSUME TypeOK, NEW a \in Accounts
    PROVE  /\ RecordQuota(a) => quota' \in [Accounts -> Quotas] /\ covered' \subseteq Accounts
           /\ QuotaAges(a) => quota' \in [Accounts -> Quotas]
           /\ ConfigureAccount(a) => policy' \in [Accounts -> Policies]
  <1>0. quota \in [Accounts -> Quotas] /\ covered \subseteq Accounts
        /\ policy \in [Accounts -> Policies]
    BY DEF TypeOK
  <1>1. ASSUME RecordQuota(a) PROVE quota' \in [Accounts -> Quotas] /\ covered' \subseteq Accounts
    <2> PICK remaining \in 0..MaxQuota, recent \in BOOLEAN, fresh \in BOOLEAN :
          /\ quota' = [quota EXCEPT ![a] =
               [remaining |-> remaining, fresh |-> fresh,
                exhausted |-> remaining = 0 \/ (@.exhausted /\ ~recent)]]
          /\ covered' = IF Outstanding(a) <= remaining THEN covered \cup {a} ELSE covered \ {a}
      BY <1>1 DEF RecordQuota
    <2>1. (remaining = 0 \/ (quota[a].exhausted /\ ~recent)) \in BOOLEAN
      OBVIOUS
    <2> DEFINE latch == remaining = 0 \/ (quota[a].exhausted /\ ~recent)
    <2>2. quota' = [quota EXCEPT ![a] = [remaining |-> remaining, fresh |-> fresh, exhausted |-> latch]]
      OBVIOUS
    <2>3. latch \in BOOLEAN
      BY <2>1
    <2> HIDE DEF latch
    <2>4. quota' \in [Accounts -> Quotas]
      BY <1>0, <2>2, <2>3 DEF Quotas
    <2> QED BY <1>0, <2>4
  <1>2. ASSUME QuotaAges(a) PROVE quota' \in [Accounts -> Quotas]
    BY <1>0, <1>2 DEF QuotaAges, Quotas
  <1>3. ASSUME ConfigureAccount(a) PROVE policy' \in [Accounts -> Policies]
    BY <1>0, <1>3 DEF ConfigureAccount
  <1> QED BY <1>1, <1>2, <1>3

\* Every step keeps the invariant.
LEMMA NextInv ==
    ASSUME IInv, [Next]_vars
    PROVE  IInv'
  <1>t. /\ TypeOK /\ row \in [Rows -> Row] /\ AbsentIdle
        /\ Row = [phase : Phases, granted : BOOLEAN, live : BOOLEAN, deferred : BOOLEAN]
    BY DEF IInv, TypeOK, Row
  <1>1. ASSUME NEW q \in Rows, Moved(q),
               quota' \in [Accounts -> Quotas], covered' \subseteq Accounts,
               UNCHANGED <<last, settings, policy, bypass>>
        PROVE  IInv'
    <2>1. TypeOK'
      BY <1>t, <1>1 DEF TypeOK, Moved
    <2>2. AbsentIdle'
      BY <1>t, <1>1 DEF AbsentIdle, Moved
    <2>3. TurnComes'
      BY <1>1 DEF IInv, TurnComes
    <2> QED BY <2>1, <2>2, <2>3 DEF IInv
  <1>2. ASSUME NEW q \in Rows, ClaimNext(q) PROVE IInv'
    <2>0. UNCHANGED <<settings, policy, quota, covered>>
      BY <1>2 DEF ClaimNext
    <2>1. TypeOK'
      BY <1>t, <1>2, <2>0, ClaimMoves, ClaimKeepsTurns DEF TypeOK
    <2>2. AbsentIdle'
      BY <1>t, <1>2, ClaimMoves DEF AbsentIdle
    <2> QED BY <1>2, <2>1, <2>2, ClaimKeepsTurns DEF IInv
  <1>3. ASSUME UNCHANGED <<row, last, bypass>>,
               settings' \in Configurations, policy' \in [Accounts -> Policies],
               quota' \in [Accounts -> Quotas], covered' \subseteq Accounts
        PROVE  IInv'
    <2>1. TypeOK'
      BY <1>t, <1>3 DEF TypeOK
    <2>2. AbsentIdle' /\ TurnComes'
      BY <1>3 DEF IInv, AbsentIdle, TurnComes
    <2> QED BY <2>1, <2>2 DEF IInv
  <1>4. ASSUME NEW q \in Rows,
               Admit(q) \/ AuthorizeExecution(q) \/ ClaimRecovery(q) \/ BeginPreparation(q)
               \/ Yield(q) \/ NotBeforePasses(q) \/ End(q)
        PROVE  IInv'
    <2>1. UNCHANGED <<last, settings, policy, quota, covered, bypass>>
      BY <1>4 DEF Admit, AuthorizeExecution, ClaimRecovery, BeginPreparation, Yield,
                  NotBeforePasses, End
    <2>2. quota' \in [Accounts -> Quotas] /\ covered' \subseteq Accounts
      BY <1>t, <2>1 DEF TypeOK
    <2>3. Moved(q)
      BY <1>t, <1>4, MovedRows
    <2> QED BY <1>1, <2>1, <2>2, <2>3
  <1>5. ASSUME NEW q \in Rows, RejectedForQuota(q) PROVE IInv'
    <2>1. UNCHANGED <<last, settings, policy, bypass>>
      BY <1>5 DEF RejectedForQuota
    <2>2. quota' \in [Accounts -> Quotas] /\ covered' \subseteq Accounts
      <3>1. [remaining |-> 0, fresh |-> FALSE, exhausted |-> TRUE] \in Quotas
        BY SchedulerAssumption DEF Quotas
      <3> QED BY <1>t, <1>5, <3>1 DEF TypeOK, RejectedForQuota
    <2>3. Moved(q)
      BY <1>t, <1>5, MovedRows
    <2> QED BY <1>1, <2>1, <2>2, <2>3
  <1>6. ASSUME ConfigureScheduler PROVE IInv'
    BY <1>t, <1>3, <1>6 DEF ConfigureScheduler, TypeOK
  <1>7. ASSUME NEW a \in Accounts, ConfigureAccount(a) \/ RecordQuota(a) \/ QuotaAges(a)
        PROVE  IInv'
    <2>1. UNCHANGED <<row, last, bypass>> /\ settings' = settings
      BY <1>7 DEF ConfigureAccount, RecordQuota, QuotaAges
    <2>2. CASE ConfigureAccount(a)
      <3>1. quota' = quota /\ covered' = covered
        BY <2>2 DEF ConfigureAccount
      <3> QED BY <1>t, <1>3, <2>1, <2>2, <3>1, QuotaMoves DEF TypeOK
    <2>3. CASE RecordQuota(a)
      <3>1. policy' = policy
        BY <2>3 DEF RecordQuota
      <3> QED BY <1>t, <1>3, <2>1, <2>3, <3>1, QuotaMoves DEF TypeOK
    <2>4. CASE QuotaAges(a)
      <3>1. policy' = policy /\ covered' = covered
        BY <2>4 DEF QuotaAges
      <3> QED BY <1>t, <1>3, <2>1, <2>4, <3>1, QuotaMoves DEF TypeOK
    <2> QED BY <1>7, <2>2, <2>3, <2>4
  <1>8. CASE UNCHANGED vars
    BY <1>t, <1>3, <1>8 DEF vars, TypeOK
  <1> QED BY <1>2, <1>4, <1>5, <1>6, <1>7, <1>8 DEF Next

\* The invariant holds in every state of every behaviour.
THEOREM Invariance == Spec => []IInv
  BY InitInv, NextInv, PTL DEF Spec

\* Types of the queue, the configuration, the quotas and the counters.
THEOREM TypeCorrect == Spec => []TypeOK
  <1>1. IInv => TypeOK
    BY DEF IInv
  <1> QED BY <1>1, Invariance, PTL

\* Select's round robin over workspaces: one whose head stays eligible is passed over
\* by fewer claims than there are workspaces, because every claim that passes it over
\* moves last_workspace closer to it.
THEOREM BypassBounded == Spec => []BoundedBypass
  <1>1. IInv => BoundedBypass
    <2> SUFFICES ASSUME IInv, NEW w \in Workspaces PROVE bypass[w] < Cardinality(Workspaces)
      BY DEF BoundedBypass
    <2>1. last \in Nat /\ bypass[w] \in Nat
      BY SchedulerAssumption DEF IInv, TypeOK
    <2>2. Cardinality(Before(last, w)) \in Nat /\ Cardinality(Workspaces) \in Nat
      BY <2>1, FewerBefore
    <2>3. bypass[w] + Cardinality(Before(last, w)) < Cardinality(Workspaces)
      BY DEF IInv, TurnComes
    <2> QED BY <2>1, <2>2, <2>3
  <1> QED BY <1>1, Invariance, PTL

-----------------------------------------------------------------------------
(* What Select may start.                                                  *)

\* The limits are natural numbers, so the least of several is one of them.
LEMMA Limits ==
    ASSUME TypeOK, NEW q \in Rows
    PROVE  /\ settings.active \in Nat /\ policy[AccountOf[q]].active \in Nat /\ Frozen[q] \in Nat
           /\ RowLimit(q) \in Nat
           /\ RowLimit(q) <= policy[AccountOf[q]].active /\ RowLimit(q) <= Frozen[q]
  <1>1. /\ settings.active \in Nat /\ policy[AccountOf[q]].active \in Nat /\ Frozen[q] \in Nat
        /\ AccountOf[q] \in Accounts
    BY SchedulerAssumption DEF TypeOK
  <1>2. {policy[AccountOf[q]].active, Frozen[q]} \in SUBSET Nat
    BY <1>1
  <1> QED BY <1>1, <1>2, Least DEF RowLimit

\* The limit of a machine binds every account on it.
LEMMA MachineLimits ==
    ASSUME TypeOK, NEW q \in Rows
    PROVE  /\ MachineLimit(MachineOf[AccountOf[q]]) \in Nat
           /\ MachineRowLimit(q) \in Nat
           /\ MachineRowLimit(q) <= MachineLimit(MachineOf[AccountOf[q]])
           /\ MachineRowLimit(q) <= RowLimit(q)
  <1> DEFINE m == MachineOf[AccountOf[q]]
             S == {policy[a].active : a \in {b \in Accounts : MachineOf[b] = m}}
  <1>1. AccountOf[q] \in Accounts
    BY SchedulerAssumption
  <1>2. S \in SUBSET Nat /\ S # {}
    <2>1. \A a \in Accounts : policy[a].active \in Nat
      BY SchedulerAssumption DEF TypeOK
    <2>2. policy[AccountOf[q]].active \in S
      BY <1>1
    <2> QED BY <2>1, <2>2
  <1>3. Min(S) \in Nat
    <2> HIDE DEF S
    <2> QED BY <1>2, Least
  <1>4. MachineLimit(m) \in Nat
    BY <1>3 DEF MachineLimit
  <1> HIDE DEF m
  <1>5. {MachineLimit(m), RowLimit(q)} \in SUBSET Nat
    BY <1>4, Limits
  <1> QED BY <1>4, <1>5, Least DEF MachineRowLimit, m

\* A claim that a limit allows leaves every holder within every limit.
LEMMA OneMoreFits ==
    ASSUME NEW H \in SUBSET Rows, NEW q \in Rows, q \notin H,
           NEW active \in Nat, NEW limit \in [Rows -> Nat],
           Cardinality(H) < Min({active, limit[q]} \cup {limit[p] : p \in H})
    PROVE  /\ Cardinality(H \cup {q}) <= active
           /\ \A p \in H \cup {q} : Cardinality(H \cup {q}) <= limit[p]
           /\ Cardinality(H \cup {q}) \in Nat
  <1> DEFINE S == {active, limit[q]} \cup {limit[p] : p \in H}
  <1>1. S \in SUBSET Nat /\ S # {}
    OBVIOUS
  <1>2. Min(S) \in Nat /\ \A y \in S : Min(S) <= y
    <2> HIDE DEF S
    <2> QED BY <1>1, Least
  <1>3. Cardinality(H \cup {q}) = Cardinality(H) + 1 /\ Cardinality(H) \in Nat
    BY FiniteRows, FS_AddElement
  <1>4. Cardinality(H) < Min(S)
    OBVIOUS
  <1>5. \A y \in S : y \in Nat /\ Cardinality(H) + 1 <= y
    <2> HIDE DEF S
    <2> QED BY <1>1, <1>2, <1>3, <1>4
  <1>6. active \in S /\ \A p \in H \cup {q} : limit[p] \in S
    OBVIOUS
  <1> HIDE DEF S
  <1> QED BY <1>3, <1>5, <1>6

\* A number within each of three limits is within the least of them.
LEMMA WithinAll ==
    ASSUME NEW x \in Nat, NEW y \in Nat, NEW z \in Nat, NEW n \in Nat, n <= x, n <= y, n <= z
    PROVE  n <= Min({x, y, z})
  <1>1. Min({x, y, z}) \in {x, y, z}
    BY Least
  <1> QED BY <1>1

\* A step that is no claim adds no holder, and starts nothing that waits.
LEMMA NoClaim ==
    ASSUME (\E q \in Rows : Moved(q)) \/ UNCHANGED row
    PROVE  NoOvercommitment /\ QueueOrder
  <1>1. \A q \in Rows : /\ HoldsCapacity(q)' => HoldsCapacity(q)
                        /\ Waiting(q) => ~row'[q].live
    BY DEF Moved, HoldsCapacity, Waiting
  <1>2. /\ \A a \in Accounts : AccountHolders(a)' \subseteq AccountHolders(a)
        /\ \A m \in Machines : MachineHolders(m)' \subseteq MachineHolders(m)
    BY <1>1 DEF AccountHolders, MachineHolders
  <1> QED BY <1>1, <1>2 DEF NoOvercommitment, QueueOrder

\* The claim of Select adds one holder, within the limits of all of them.
LEMMA ClaimAllowed ==
    ASSUME TypeOK, NEW q \in Rows, ClaimNext(q)
    PROVE  NoOvercommitment /\ QueueOrder
  <1> DEFINE a == AccountOf[q]
             m == MachineOf[a]
  <1>0. /\ \A r \in Rows : HoldsCapacity(r)' <=> HoldsCapacity(r) \/ r = q
        /\ ~HoldsCapacity(q) /\ Eligible(q)
    BY ClaimMoves DEF HoldsCapacity, ClaimNext, Selected
  <1>1. ASSUME NEW b \in Accounts, ~(AccountHolders(b)' \subseteq AccountHolders(b)),
               NEW p \in AccountHolders(b)'
        PROVE  Cardinality(AccountHolders(b)') <= Min({settings.active, policy[b].active, Frozen[p]})
    <2> DEFINE H == AccountHolders(b)
               limit == [r \in Rows |-> RowLimit(r)]
    <2>1. b = a /\ H \in SUBSET Rows /\ q \notin H /\ AccountHolders(b)' = H \cup {q}
      BY <1>0, <1>1 DEF AccountHolders
    <2>2. limit \in [Rows -> Nat] /\ settings.active \in Nat
      BY Limits
    <2>3. {limit[r] : r \in H} = {RowLimit(r) : r \in H} /\ limit[q] = RowLimit(q)
      BY <2>1
    <2>4. Cardinality(H) < Min({settings.active, limit[q]} \cup {limit[r] : r \in H})
      BY <1>0, <2>1, <2>3 DEF Eligible, AccountLimit
    <2>5. p \in Rows /\ p \in H \cup {q} /\ AccountOf[p] = b
      BY <1>1, <2>1 DEF AccountHolders
    <2>6. limit[p] <= policy[b].active /\ limit[p] <= Frozen[p] /\ policy[b].active \in Nat
          /\ Frozen[p] \in Nat
      BY <2>5, Limits
    <2> HIDE DEF H, limit
    <2>7. /\ Cardinality(H \cup {q}) <= settings.active /\ Cardinality(H \cup {q}) \in Nat
          /\ Cardinality(H \cup {q}) <= limit[p]
      BY <2>1, <2>2, <2>4, <2>5, OneMoreFits
    <2>8. Cardinality(H \cup {q}) <= policy[b].active /\ Cardinality(H \cup {q}) <= Frozen[p]
      <3>1. limit[p] \in Nat
        BY <2>2, <2>5
      <3> QED BY <2>6, <2>7, <3>1
    <2>9. Cardinality(H \cup {q}) <= Min({settings.active, policy[b].active, Frozen[p]})
      BY <2>2, <2>6, <2>7, <2>8, WithinAll
    <2> QED BY <2>1, <2>9
  <1>2. ASSUME NEW n \in Machines, ~(MachineHolders(n)' \subseteq MachineHolders(n)),
               NEW p \in MachineHolders(n)'
        PROVE  Cardinality(MachineHolders(n)') <= Min({settings.active, Frozen[p], MachineLimit(n)})
    <2> DEFINE H == MachineHolders(n)
               limit == [r \in Rows |-> MachineRowLimit(r)]
    <2>1. n = m /\ H \in SUBSET Rows /\ q \notin H /\ MachineHolders(n)' = H \cup {q}
      BY <1>0, <1>2 DEF MachineHolders
    <2>2. limit \in [Rows -> Nat] /\ settings.active \in Nat
      BY Limits, MachineLimits
    <2>3. {limit[r] : r \in H} = {MachineRowLimit(r) : r \in H} /\ limit[q] = MachineRowLimit(q)
      BY <2>1
    <2>4. Cardinality(H) < Min({settings.active, limit[q]} \cup {limit[r] : r \in H})
      <3>1. m # NoMachine
        BY <2>1, SchedulerAssumption
      <3> QED BY <1>0, <2>1, <2>3, <3>1 DEF Eligible, ResourceLimit
    <2>5. p \in Rows /\ p \in H \cup {q} /\ MachineOf[AccountOf[p]] = n
      BY <1>2, <2>1 DEF MachineHolders
    <2>6. limit[p] <= MachineLimit(n) /\ limit[p] <= Frozen[p] /\ MachineLimit(n) \in Nat
          /\ Frozen[p] \in Nat
      <3>1. /\ limit[p] = MachineRowLimit(p) /\ MachineRowLimit(p) <= RowLimit(p)
            /\ RowLimit(p) <= Frozen[p] /\ RowLimit(p) \in Nat /\ MachineRowLimit(p) \in Nat
            /\ Frozen[p] \in Nat
        BY <2>5, Limits, MachineLimits
      <3> QED BY <2>5, <3>1, MachineLimits
    <2> HIDE DEF H, limit
    <2>7. /\ Cardinality(H \cup {q}) <= settings.active /\ Cardinality(H \cup {q}) \in Nat
          /\ Cardinality(H \cup {q}) <= limit[p]
      BY <2>1, <2>2, <2>4, <2>5, OneMoreFits
    <2>8. Cardinality(H \cup {q}) <= MachineLimit(n) /\ Cardinality(H \cup {q}) <= Frozen[p]
      <3>1. limit[p] \in Nat
        BY <2>2, <2>5
      <3> QED BY <2>6, <2>7, <3>1
    <2>9. Cardinality(H \cup {q}) <= Min({settings.active, Frozen[p], MachineLimit(n)})
      BY <2>2, <2>6, <2>7, <2>8, WithinAll
    <2> QED BY <2>1, <2>9
  <1>3. NoOvercommitment
    BY <1>1, <1>2 DEF NoOvercommitment
  <1>4. QueueOrder
    <2> SUFFICES ASSUME NEW r \in Rows, Waiting(r), row'[r].live, NEW p \in Rows, p < r,
                        WorkspaceOf[p] = WorkspaceOf[r]
                 PROVE  ~(row[p].phase = "local" /\ ~row[p].live)
      BY DEF QueueOrder
    <2>1. r = q
      BY ClaimMoves DEF Waiting
    <2>2. \A x \in Rows : Waiting(x) /\ WorkspaceOf[x] = WorkspaceOf[q] => q <= x
      BY <1>0 DEF Eligible, Head
    <2>3. p \in Nat /\ q \in Nat
      BY DEF Rows
    <2>4. ~Waiting(p)
      BY <2>1, <2>2, <2>3
    <2> QED BY <2>4 DEF Waiting
  <1> QED BY <1>3, <1>4

\* Select starts nothing that the limits or the queue forbid: whenever an account or a
\* machine gains a holder, all its holders fit the frozen limit of each of them and the
\* limits in force, and no attempt passes the head of its workspace.
THEOREM StartsAreAllowed == Spec => StartsAllowed
  <1>1. ASSUME IInv, [Next]_vars PROVE [NoOvercommitment /\ QueueOrder]_vars
    <2>1. ASSUME NEW q \in Rows, ClaimNext(q) PROVE NoOvercommitment /\ QueueOrder
      BY <1>1, <2>1, ClaimAllowed DEF IInv
    <2>2. ASSUME NEW q \in Rows,
                 Admit(q) \/ AuthorizeExecution(q) \/ ClaimRecovery(q) \/ BeginPreparation(q)
                 \/ Yield(q) \/ NotBeforePasses(q) \/ End(q) \/ RejectedForQuota(q)
          PROVE  NoOvercommitment /\ QueueOrder
      BY <1>1, <2>2, MovedRows, NoClaim DEF IInv
    <2>3. ASSUME ConfigureScheduler PROVE NoOvercommitment /\ QueueOrder
      BY <2>3, NoClaim DEF ConfigureScheduler
    <2>4. ASSUME NEW a \in Accounts, ConfigureAccount(a) \/ RecordQuota(a) \/ QuotaAges(a)
          PROVE  NoOvercommitment /\ QueueOrder
      <3>1. UNCHANGED row
        BY <2>4 DEF ConfigureAccount, RecordQuota, QuotaAges
      <3> QED BY <3>1, NoClaim
    <2> QED BY <1>1, <2>1, <2>2, <2>3, <2>4 DEF Next
  <1> QED BY <1>1, Invariance, PTL DEF Spec, StartsAllowed

-----------------------------------------------------------------------------
(* Sums of wall times.                                                     *)

\* The wall time of some rows, as Outstanding and Reserved sum it.
WallSum(S) == MapThenSumSet(LAMBDA q : Wall[q], S)

\* The row the fold takes first.
Pick(S) == CHOOSE q \in S : TRUE

\* The equation by which the fold adds up the subsets of D.
Adds(f, D) ==
    f = [s \in SUBSET D |-> IF s = {} THEN 0 ELSE Wall[Pick(s)] + f[s \ {Pick(s)}]]

\* The fold applies a function chosen for its equation.
LEMMA WallSumIsFold ==
    ASSUME NEW S
    PROVE  WallSum(S) = (CHOOSE f : Adds(f, S))[S]
  BY DEF WallSum, MapThenSumSet, MapThenFoldSet, Adds, Pick

\* The sum obeys the equation at D.
Recurs(D) == WallSum(D) = IF D = {} THEN 0 ELSE Wall[Pick(D)] + WallSum(D \ {Pick(D)})

\* Induction over sets of rows, as the least counterexample of a family.
LEMMA LeastSubset ==
    ASSUME NEW T \in SUBSET (SUBSET Rows), T # {}
    PROVE  \E D \in T : \A s \in SUBSET D : s # D => s \notin T
  <1>1. IsFiniteSet(Rows)
    BY FS_Interval, SchedulerAssumption DEF Rows
  <1>2. T \subseteq FiniteSubsetsOf(Rows)
    BY <1>1, FS_Subset DEF FiniteSubsetsOf
  <1>3. PICK D \in T : \A y \in T : ~(<<y, D>> \in StrictSubsetOrdering(Rows))
    BY <1>2, WFMin, FS_StrictSubsetOrderingWellFounded
  <1>4. ASSUME NEW s \in SUBSET D, s # D, s \in T
        PROVE  FALSE
    BY <1>3, <1>4 DEF StrictSubsetOrdering
  <1> QED BY <1>4

\* The recursion is well defined: a least set at which it failed would still have a
\* function that adds up its subsets, and that function is the sum below it.
LEMMA WallSumRecurs ==
    ASSUME NEW S \in SUBSET Rows
    PROVE  Recurs(S)
  <1> SUFFICES ASSUME ~Recurs(S) PROVE FALSE
    OBVIOUS
  <1> DEFINE T == {s \in SUBSET Rows : ~Recurs(s)}
  <1>1. PICK D \in T : \A s \in SUBSET D : s # D => s \notin T
    BY LeastSubset
  <1>2. \A s \in SUBSET D : s # D => Recurs(s)
    BY <1>1
  <1>p. \A s : s # {} => Pick(s) \in s
    BY DEF Pick
  <1> DEFINE f == [s \in SUBSET D |->
                     IF s # D THEN WallSum(s)
                     ELSE IF D = {} THEN 0 ELSE Wall[Pick(D)] + WallSum(D \ {Pick(D)})]
  <1>3. Adds(f, D)
    <2>1. ASSUME NEW s \in SUBSET D, s # D
          PROVE  f[s] = IF s = {} THEN 0 ELSE Wall[Pick(s)] + f[s \ {Pick(s)}]
      <3>1. s \ {Pick(s)} # D /\ s \ {Pick(s)} \in SUBSET D
        BY <2>1
      <3> QED BY <1>2, <2>1, <3>1 DEF Recurs
    <2>2. f[D] = IF D = {} THEN 0 ELSE Wall[Pick(D)] + f[D \ {Pick(D)}]
      BY <1>p
    <2>3. \A s \in SUBSET D : f[s] = IF s = {} THEN 0 ELSE Wall[Pick(s)] + f[s \ {Pick(s)}]
      BY <2>1, <2>2
    <2> QED BY <2>3 DEF Adds
  <1> HIDE DEF f
  <1>4. PICK g : g = CHOOSE h : Adds(h, D)
    OBVIOUS
  <1>5. Adds(g, D)
    BY <1>3, <1>4
  <1>6. \A s \in SUBSET D : g[s] = IF s = {} THEN 0 ELSE Wall[Pick(s)] + g[s \ {Pick(s)}]
    BY <1>5 DEF Adds
  <1>7. \A s \in SUBSET D : s # D => g[s] = WallSum(s)
    <2> DEFINE U == {s \in SUBSET D : s # D /\ g[s] # WallSum(s)}
    <2> SUFFICES ASSUME U # {} PROVE FALSE
      OBVIOUS
    <2>1. U \in SUBSET (SUBSET Rows)
      BY <1>1
    <2>2. PICK e \in U : \A s \in SUBSET e : s # e => s \notin U
      BY <2>1, LeastSubset
    <2>3. Recurs(e)
      BY <1>2, <2>2
    <2>4. CASE e = {}
      BY <2>2, <2>3, <2>4, <1>6 DEF Recurs
    <2>5. CASE e # {}
      <3>1. /\ e \ {Pick(e)} \in SUBSET e /\ e \ {Pick(e)} # e
            /\ e \ {Pick(e)} \in SUBSET D /\ e \ {Pick(e)} # D
        BY <1>p, <2>5, <2>2
      <3>2. g[e \ {Pick(e)}] = WallSum(e \ {Pick(e)})
        BY <3>1, <2>2
      <3> QED BY <3>2, <2>2, <2>3, <2>5, <1>6 DEF Recurs
    <2> QED BY <2>4, <2>5
  <1>8. WallSum(D) = g[D]
    BY <1>4, WallSumIsFold
  <1>9. D # {} => WallSum(D \ {Pick(D)}) = g[D \ {Pick(D)}]
    BY <1>7, <1>p
  <1> QED BY <1>1, <1>6, <1>8, <1>9 DEF Recurs
\* The sum of some rows is a natural number.
LEMMA WallSumType ==
    ASSUME NEW S \in SUBSET Rows
    PROVE  WallSum(S) \in Nat
  <1> DEFINE T == {s \in SUBSET Rows : WallSum(s) \notin Nat}
  <1> SUFFICES ASSUME T # {} PROVE FALSE
    OBVIOUS
  <1>1. PICK D \in T : \A s \in SUBSET D : s # D => s \notin T
    BY LeastSubset
  <1>2. Recurs(D)
    BY <1>1, WallSumRecurs
  <1>3. CASE D = {}
    BY <1>1, <1>2, <1>3 DEF Recurs
  <1>4. CASE D # {}
    <2>1. Pick(D) \in D /\ Pick(D) \in Rows
      BY <1>1, <1>4 DEF Pick
    <2>2. WallSum(D \ {Pick(D)}) \in Nat /\ Wall[Pick(D)] \in Nat
      BY <1>1, <2>1, SchedulerAssumption
    <2> QED BY <1>1, <1>2, <1>4, <2>2 DEF Recurs
  <1> QED BY <1>3, <1>4

\* The order in which the fold takes the rows does not matter: any of them may be first.
LEMMA WallSumTakes ==
    ASSUME NEW S \in SUBSET Rows, NEW q \in S
    PROVE  WallSum(S) = Wall[q] + WallSum(S \ {q})
  <1> DEFINE T == {s \in SUBSET Rows : \E x \in s : WallSum(s) # Wall[x] + WallSum(s \ {x})}
  <1> SUFFICES ASSUME T # {} PROVE FALSE
    OBVIOUS
  <1>1. PICK D \in T : \A s \in SUBSET D : s # D => s \notin T
    BY LeastSubset
  <1>2. PICK x \in D : WallSum(D) # Wall[x] + WallSum(D \ {x})
    BY <1>1
  <1>3. PICK p : p = Pick(D)
    OBVIOUS
  <1>4. p \in D /\ D \in SUBSET Rows
    BY <1>1, <1>2, <1>3 DEF Pick
  <1>5. WallSum(D) = Wall[p] + WallSum(D \ {p})
    BY <1>2, <1>3, <1>4, WallSumRecurs DEF Recurs
  <1>6. p # x
    BY <1>2, <1>5
  <1>7. WallSum(D \ {p}) = Wall[x] + WallSum((D \ {p}) \ {x})
    <2>1. D \ {p} \in SUBSET D /\ D \ {p} # D /\ x \in D \ {p} /\ D \ {p} \in SUBSET Rows
      BY <1>4, <1>6
    <2>2. D \ {p} \notin T
      BY <1>1, <2>1
    <2> QED BY <2>1, <2>2
  <1>8. WallSum(D \ {x}) = Wall[p] + WallSum((D \ {x}) \ {p})
    <2>1. D \ {x} \in SUBSET D /\ D \ {x} # D /\ p \in D \ {x} /\ D \ {x} \in SUBSET Rows
      BY <1>4, <1>6
    <2>2. D \ {x} \notin T
      BY <1>1, <2>1
    <2> QED BY <2>1, <2>2
  <1>9. (D \ {p}) \ {x} = (D \ {x}) \ {p} /\ (D \ {p}) \ {x} \in SUBSET Rows
    BY <1>4
  <1>10. Wall[p] \in Nat /\ Wall[x] \in Nat /\ WallSum((D \ {p}) \ {x}) \in Nat
    BY <1>4, <1>9, WallSumType, SchedulerAssumption
  <1>11. WallSum(D) = Wall[x] + (Wall[p] + WallSum((D \ {p}) \ {x}))
    BY <1>5, <1>7, <1>10
  <1>12. WallSum(D \ {x}) = Wall[p] + WallSum((D \ {p}) \ {x})
    BY <1>8, <1>9
  <1> QED BY <1>2, <1>11, <1>12

\* One more row adds its wall time.
LEMMA WallSumAdds ==
    ASSUME NEW S \in SUBSET Rows, NEW q \in Rows, q \notin S
    PROVE  WallSum(S \cup {q}) = WallSum(S) + Wall[q]
  <1>1. S \cup {q} \in SUBSET Rows /\ (S \cup {q}) \ {q} = S
    OBVIOUS
  <1>2. WallSum(S \cup {q}) = Wall[q] + WallSum((S \cup {q}) \ {q})
    BY <1>1, WallSumTakes
  <1>3. WallSum(S \cup {q}) = Wall[q] + WallSum(S)
    BY <1>1, <1>2
  <1>4. Wall[q] \in Nat /\ WallSum(S) \in Nat
    BY WallSumType, SchedulerAssumption
  <1> QED BY <1>3, <1>4

\* Fewer rows need no more.
LEMMA WallSumShrinks ==
    ASSUME NEW S \in SUBSET Rows, NEW R \in SUBSET S
    PROVE  WallSum(R) <= WallSum(S)
  <1> DEFINE T == {s \in SUBSET Rows : R \subseteq s /\ ~(WallSum(R) <= WallSum(s))}
  <1> SUFFICES ASSUME T # {} PROVE FALSE
    OBVIOUS
  <1>1. PICK D \in T : \A s \in SUBSET D : s # D => s \notin T
    BY LeastSubset
  <1>2. WallSum(R) \in Nat /\ WallSum(D) \in Nat
    BY <1>1, WallSumType
  <1>3. PICK q \in D : q \notin R
    <2>1. D # R
      BY <1>1, <1>2
    <2> QED BY <1>1, <2>1
  <1>4. D \ {q} \notin T /\ D \ {q} \in SUBSET Rows /\ R \subseteq D \ {q}
    BY <1>1, <1>3
  <1>5. WallSum(D) = Wall[q] + WallSum(D \ {q})
    BY <1>1, WallSumTakes
  <1>6. WallSum(D \ {q}) \in Nat /\ Wall[q] \in Nat /\ WallSum(R) <= WallSum(D \ {q})
    BY <1>1, <1>4, WallSumType, SchedulerAssumption
  <1> QED BY <1>1, <1>2, <1>5, <1>6

-----------------------------------------------------------------------------
(* Consent and quota.                                                      *)

\* Consent comes before the claim and before the barrier.
Consented ==
    \A q \in Rows :
        /\ row[q].phase = "absent" => ~row[q].granted
        /\ row[q].phase = "held" => row[q].granted
        /\ row[q].phase = "local" /\ row[q].live => row[q].granted

\* The accelerator rows whose consent still counts.
Open(a) == {q \in Gpu : AccountOf[q] = a /\ row[q].granted /\ row[q].phase # "ended"}

QuotaInv == IInv /\ Consented /\ GrantsFitQuota

\* Outstanding sums the open rows, before and after a step.
LEMMA OutstandingSum ==
    ASSUME NEW a
    PROVE  /\ Outstanding(a) = WallSum(Open(a)) /\ Outstanding(a)' = WallSum(Open(a)')
           /\ Open(a) \in SUBSET Rows /\ Open(a)' \in SUBSET Rows
  <1>1. Outstanding(a) = WallSum(Open(a))
    BY DEF Outstanding, WallSum, Open
  <1>2. Outstanding(a)' = (CHOOSE f : Adds(f, Open(a)'))[Open(a)']
    BY DEF Outstanding, MapThenSumSet, MapThenFoldSet, Adds, Pick, Open
  <1>3. Outstanding(a)' = WallSum(Open(a)')
    BY <1>2, WallSumIsFold
  <1>4. Open(a) \in SUBSET Rows /\ Open(a)' \in SUBSET Rows
    BY SchedulerAssumption DEF Open
  <1> QED BY <1>1, <1>3, <1>4

\* managedReserved counts exactly the open rows, so that authorizationQuota tests against
\* what is outstanding.
LEMMA ReservedSum ==
    ASSUME TypeOK, Consented, NEW a, NEW q
    PROVE  /\ Reserved(a, {}) = WallSum(Open(a))
           /\ Reserved(a, {q}) = WallSum(Open(a) \ {q})
  <1>1. \A p \in Rows : ManagedReserved(p) <=> row[p].granted /\ row[p].phase # "ended"
    <2> SUFFICES ASSUME NEW p \in Rows
                 PROVE  ManagedReserved(p) <=> row[p].granted /\ row[p].phase # "ended"
      OBVIOUS
    <2>1. row[p].phase \in {"absent", "local", "held", "ended"}
      BY DEF TypeOK, Phases
    <2> QED BY <2>1 DEF Consented, ManagedReserved
  <1>2. Gpu \subseteq Rows
    BY SchedulerAssumption
  <1>3. {p \in Gpu \ {} : AccountOf[p] = a /\ ManagedReserved(p)} = Open(a)
    BY <1>1, <1>2 DEF Open
  <1>4. {p \in Gpu \ {q} : AccountOf[p] = a /\ ManagedReserved(p)} = Open(a) \ {q}
    BY <1>1, <1>2 DEF Open
  <1>5. /\ Reserved(a, {}) = WallSum({p \in Gpu \ {} : AccountOf[p] = a /\ ManagedReserved(p)})
        /\ Reserved(a, {q}) = WallSum({p \in Gpu \ {q} : AccountOf[p] = a /\ ManagedReserved(p)})
    BY DEF Reserved, WallSum
  <1> QED BY <1>3, <1>4, <1>5

\* What each assignment does to the consent of a row.
LEMMA GrantMoves ==
    ASSUME TypeOK, NEW q \in Rows
    PROVE  /\ \A p \in Phases : row' = [row EXCEPT ![q].phase = p] => row'[q].granted = row[q].granted
           /\ row' = [row EXCEPT ![q].granted = TRUE] => row'[q].granted
           /\ row' = [row EXCEPT ![q].live = TRUE] => row'[q].granted = row[q].granted
           /\ row' = [row EXCEPT ![q].deferred = FALSE] => row'[q].granted = row[q].granted
           /\ \A d \in BOOLEAN : row' = [row EXCEPT ![q].live = FALSE, ![q].deferred = d] =>
                row'[q].granted = row[q].granted
  <1>1. row \in [Rows -> Row] /\ row[q] \in Row
    BY DEF TypeOK, Row
  <1>2. ASSUME NEW p \in Phases, row' = [row EXCEPT ![q].phase = p]
        PROVE  row'[q].granted = row[q].granted
    BY <1>1, <1>2 DEF Row
  <1>3. ASSUME row' = [row EXCEPT ![q].granted = TRUE] PROVE row'[q].granted
    BY <1>1, <1>3 DEF Row
  <1>4. ASSUME row' = [row EXCEPT ![q].live = TRUE] PROVE row'[q].granted = row[q].granted
    BY <1>1, <1>4 DEF Row
  <1>5. ASSUME row' = [row EXCEPT ![q].deferred = FALSE] PROVE row'[q].granted = row[q].granted
    BY <1>1, <1>5 DEF Row
  <1>6. ASSUME NEW d \in BOOLEAN, row' = [row EXCEPT ![q].live = FALSE, ![q].deferred = d]
        PROVE  row'[q].granted = row[q].granted
    BY <1>1, <1>6 DEF Row
  <1> QED BY <1>2, <1>3, <1>4, <1>5, <1>6

\* A step on a row that gives no consent: it keeps Consented, and opens nothing.
Consenting(q) ==
    /\ \A r \in Rows : r # q => row'[r] = row[r]
    /\ row'[q].granted = row[q].granted
    /\ row[q].phase = "ended" => row'[q].phase = "ended"
    /\ row'[q].phase = "absent" => row[q].phase = "absent"
    /\ row'[q].phase = "held" => row[q].granted
    /\ row'[q].phase = "local" /\ row'[q].live => row[q].granted

\* Every action on a row but AuthorizeExecution is such a step.
LEMMA ConsentingRows ==
    ASSUME TypeOK, AbsentIdle, Consented, NEW q \in Rows,
           Admit(q) \/ ClaimNext(q) \/ ClaimRecovery(q) \/ BeginPreparation(q)
           \/ Yield(q) \/ NotBeforePasses(q) \/ End(q) \/ RejectedForQuota(q)
    PROVE  Consenting(q)
  <1>0. "local" \in Phases /\ "held" \in Phases /\ "ended" \in Phases
    BY DEF Phases
  <1>c. /\ row[q].phase = "held" => row[q].granted
        /\ row[q].phase = "local" /\ row[q].live => row[q].granted
        /\ row[q].phase = "absent" => ~row[q].live
    BY DEF Consented, AbsentIdle
  <1>1. CASE Admit(q)
    BY <1>0, <1>1, <1>c, RowMoves, GrantMoves DEF Admit, Consenting
  <1>2. CASE ClaimNext(q)
    <2>1. row' = [row EXCEPT ![q].live = TRUE] /\ row[q].granted
      BY <1>2 DEF ClaimNext, Selected, Eligible
    <2> QED BY <2>1, RowMoves, GrantMoves DEF Consenting
  <1>3. CASE ClaimRecovery(q)
    BY <1>3, <1>c, RowMoves, GrantMoves DEF ClaimRecovery, Consenting
  <1>4. CASE BeginPreparation(q)
    BY <1>0, <1>4, <1>c, RowMoves, GrantMoves DEF BeginPreparation, Consenting
  <1>5. CASE Yield(q)
    <2>1. PICK d \in BOOLEAN : row' = [row EXCEPT ![q].live = FALSE, ![q].deferred = d]
      BY <1>5 DEF Yield
    <2> QED BY <2>1, <1>c, RowMoves, GrantMoves DEF Consenting
  <1>6. CASE NotBeforePasses(q)
    BY <1>6, <1>c, RowMoves, GrantMoves DEF NotBeforePasses, Consenting
  <1>7. CASE End(q) \/ RejectedForQuota(q)
    <2>1. row' = [row EXCEPT ![q].phase = "ended"]
      BY <1>7 DEF End, RejectedForQuota
    <2>2. /\ row'[q].phase = "ended" /\ row'[q].granted = row[q].granted
          /\ \A r \in Rows : r # q => row'[r] = row[r]
      BY <1>0, <2>1, RowMoves, GrantMoves
    <2> QED BY <2>2 DEF Consenting
  <1> QED BY <1>1, <1>2, <1>3, <1>4, <1>5, <1>6, <1>7

\* Such a step needs no more quota than before.
LEMMA ConsentingShrinks ==
    ASSUME Consented, NEW q \in Rows, Consenting(q)
    PROVE  Consented' /\ \A a : Outstanding(a)' <= Outstanding(a)
  <1>1. Consented'
    BY DEF Consented, Consenting
  <1>2. ASSUME NEW a PROVE Outstanding(a)' <= Outstanding(a)
    <2>1. \A r \in Rows : row'[r].granted /\ row'[r].phase # "ended" =>
            row[r].granted /\ row[r].phase # "ended"
      BY DEF Consenting
    <2>2. Open(a)' \in SUBSET Open(a)
      BY <2>1, SchedulerAssumption DEF Open
    <2> QED BY <2>2, OutstandingSum, WallSumShrinks
  <1> QED BY <1>1, <1>2

\* What is outstanding is a natural number.
LEMMA OutstandingType ==
    ASSUME NEW a
    PROVE  Outstanding(a) \in Nat /\ Outstanding(a)' \in Nat
  BY OutstandingSum, WallSumType

\* AuthorizeExecution: the wall time of the row is added, and authorizationQuota has
\* found room for it beside all that is outstanding.
LEMMA AuthorizeFits ==
    ASSUME QuotaInv, NEW q \in Rows, AuthorizeExecution(q)
    PROVE  Consented' /\ GrantsFitQuota'
  <1>t. TypeOK /\ Consented /\ GrantsFitQuota /\ covered \subseteq Accounts
    BY DEF QuotaInv, IInv, TypeOK
  <1>1. /\ row[q].phase = "local" /\ ~row[q].granted
        /\ row' = [row EXCEPT ![q].granted = TRUE] /\ quota' = quota /\ covered' = covered
    BY DEF AuthorizeExecution
  <1>2. /\ row'[q].granted /\ row'[q].phase = "local"
        /\ \A r \in Rows : r # q => row'[r] = row[r]
    BY <1>t, <1>1, RowMoves, GrantMoves
  <1>3. Consented'
    BY <1>t, <1>2 DEF Consented
  <1>4. ASSUME NEW b \in covered PROVE Outstanding(b)' <= quota[b].remaining
    <2>0. Outstanding(b) <= quota[b].remaining /\ quota[b].remaining \in Nat
      BY <1>t DEF GrantsFitQuota, TypeOK, Quotas
    <2>1. CASE q \in Gpu /\ AccountOf[q] = b
      <3>1. q \notin Open(b) /\ Open(b)' = Open(b) \cup {q}
        BY <1>1, <1>2, <2>1, SchedulerAssumption DEF Open
      <3>2. quota[b].remaining - Reserved(b, {}) >= Wall[q]
        BY <2>1 DEF AuthorizeExecution
      <3>3. Reserved(b, {}) = WallSum(Open(b)) /\ Open(b) \in SUBSET Rows
        BY <1>t, ReservedSum, OutstandingSum
      <3>4. WallSum(Open(b) \cup {q}) = WallSum(Open(b)) + Wall[q]
        BY <3>1, <3>3, WallSumAdds
      <3>5. WallSum(Open(b)) \in Nat /\ Wall[q] \in Nat
        BY <3>3, WallSumType, SchedulerAssumption
      <3>6. Outstanding(b)' = WallSum(Open(b)) + Wall[q]
        BY <3>1, <3>4, OutstandingSum
      <3> QED BY <2>0, <3>2, <3>3, <3>5, <3>6
    <2>2. CASE ~(q \in Gpu /\ AccountOf[q] = b)
      <3>1. Open(b)' = Open(b)
        BY <1>2, <2>2, SchedulerAssumption DEF Open
      <3> QED BY <2>0, <3>1, OutstandingSum
    <2> QED BY <2>1, <2>2
  <1> QED BY <1>1, <1>3, <1>4 DEF GrantsFitQuota

\* A step that opens nothing keeps the fit of every account whose observation it keeps.
LEMMA ShrinkFits ==
    ASSUME QuotaInv, \A a : Outstanding(a)' <= Outstanding(a),
           NEW G \in SUBSET covered, covered' = G,
           \A a \in G : quota'[a].remaining = quota[a].remaining
    PROVE  GrantsFitQuota'
  <1>1. ASSUME NEW a \in G PROVE Outstanding(a)' <= quota'[a].remaining
    <2>1. Outstanding(a) <= quota[a].remaining /\ quota[a].remaining \in Nat
      BY DEF QuotaInv, IInv, GrantsFitQuota, TypeOK, Quotas
    <2>2. Outstanding(a)' <= Outstanding(a) /\ Outstanding(a) \in Nat /\ Outstanding(a)' \in Nat
      BY OutstandingType
    <2>3. Outstanding(a)' <= quota[a].remaining
      BY <2>1, <2>2
    <2> QED BY <2>3
  <1> QED BY <1>1 DEF GrantsFitQuota

\* A step that leaves the rows alone leaves alone what is outstanding.
LEMMA SameOutstanding ==
    ASSUME row' = row, NEW a
    PROVE  Outstanding(a)' = Outstanding(a)
  <1>1. Open(a)' = Open(a)
    BY DEF Open
  <1> QED BY <1>1, OutstandingSum

\* RecordQuota: the account is covered exactly when the observation fits.
LEMMA RecordFits ==
    ASSUME QuotaInv, NEW a \in Accounts, RecordQuota(a)
    PROVE  GrantsFitQuota'
  <1>0. quota \in [Accounts -> Quotas] /\ covered \subseteq Accounts /\ GrantsFitQuota
    BY DEF QuotaInv, IInv, TypeOK
  <1>1. PICK remaining \in 0..MaxQuota, recent \in BOOLEAN, fresh \in BOOLEAN :
          /\ quota' = [quota EXCEPT ![a] =
               [remaining |-> remaining, fresh |-> fresh,
                exhausted |-> remaining = 0 \/ (@.exhausted /\ ~recent)]]
          /\ covered' = IF Outstanding(a) <= remaining THEN covered \cup {a} ELSE covered \ {a}
          /\ row' = row
    BY DEF RecordQuota
  <1>2. quota'[a].remaining = remaining /\ \A b \in Accounts : b # a => quota'[b] = quota[b]
    BY <1>0, <1>1
  <1>3. ASSUME NEW b \in covered' PROVE Outstanding(b)' <= quota'[b].remaining
    <2>0. Outstanding(b)' = Outstanding(b)
      BY <1>1, SameOutstanding
    <2>1. CASE b = a
      <3>1. Outstanding(a) <= remaining
        BY <1>1, <1>3, <2>1
      <3> QED BY <1>2, <2>0, <2>1, <3>1
    <2>2. CASE b # a
      <3>1. b \in covered
        BY <1>1, <1>3, <2>2
      <3> QED BY <1>0, <1>2, <2>0, <2>2, <3>1 DEF GrantsFitQuota
    <2> QED BY <2>1, <2>2
  <1> QED BY <1>3 DEF GrantsFitQuota

\* The initial state: nobody has consented to anything.
LEMMA InitQuotaInv == Init => QuotaInv
  <1> SUFFICES ASSUME Init PROVE QuotaInv
    OBVIOUS
  <1>1. Consented
    BY DEF Init, Consented
  <1>2. ASSUME NEW a \in covered PROVE Outstanding(a) <= quota[a].remaining
    <2>1. Open(a) = {}
      BY SchedulerAssumption DEF Init, Open
    <2>2. Recurs({})
      BY WallSumRecurs
    <2>3. Outstanding(a) = 0
      BY <2>1, <2>2, OutstandingSum DEF Recurs
    <2>4. quota[a].remaining = 0
      BY DEF Init
    <2> QED BY <2>3, <2>4
  <1> QED BY <1>1, <1>2, InitInv DEF QuotaInv, GrantsFitQuota

\* Every step keeps the consent order and the fit.
LEMMA NextQuotaInv ==
    ASSUME QuotaInv, [Next]_vars
    PROVE  QuotaInv'
  <1>0. IInv'
    BY NextInv DEF QuotaInv
  <1>t. /\ TypeOK /\ AbsentIdle /\ Consented
        /\ quota \in [Accounts -> Quotas] /\ covered \subseteq Accounts
    BY DEF QuotaInv, IInv, TypeOK
  <1>1. ASSUME NEW q \in Rows, AuthorizeExecution(q) PROVE Consented' /\ GrantsFitQuota'
    BY <1>1, AuthorizeFits
  <1>2. ASSUME NEW q \in Rows,
               Admit(q) \/ ClaimNext(q) \/ ClaimRecovery(q) \/ BeginPreparation(q)
               \/ Yield(q) \/ NotBeforePasses(q) \/ End(q)
        PROVE  Consented' /\ GrantsFitQuota'
    <2>1. covered' = covered /\ quota' = quota
      BY <1>2 DEF Admit, ClaimNext, ClaimRecovery, BeginPreparation, Yield,
                  NotBeforePasses, End
    <2>2. Consenting(q)
      BY <1>t, <1>2, ConsentingRows
    <2>3. Consented' /\ \A a : Outstanding(a)' <= Outstanding(a)
      BY <1>t, <2>2, ConsentingShrinks
    <2> QED BY <2>1, <2>3, ShrinkFits
  <1>3. ASSUME NEW q \in Rows, RejectedForQuota(q) PROVE Consented' /\ GrantsFitQuota'
    <2>1. /\ covered' = covered \ {AccountOf[q]}
          /\ \A a \in covered \ {AccountOf[q]} : quota'[a].remaining = quota[a].remaining
      BY <1>t, <1>3 DEF RejectedForQuota
    <2>2. Consenting(q)
      BY <1>t, <1>3, ConsentingRows
    <2>3. Consented' /\ \A a : Outstanding(a)' <= Outstanding(a)
      BY <1>t, <2>2, ConsentingShrinks
    <2> QED BY <2>1, <2>3, ShrinkFits
  <1>4. ASSUME row' = row, covered' = covered,
               \A a \in covered : quota'[a].remaining = quota[a].remaining
        PROVE  Consented' /\ GrantsFitQuota'
    <2>1. Consented'
      BY <1>t, <1>4 DEF Consented
    <2>2. \A a : Outstanding(a)' <= Outstanding(a)
      BY <1>4, SameOutstanding, OutstandingType
    <2> QED BY <1>4, <2>1, <2>2, ShrinkFits
  <1>5. ASSUME ConfigureScheduler \/ UNCHANGED vars PROVE Consented' /\ GrantsFitQuota'
    BY <1>4, <1>5 DEF ConfigureScheduler, vars
  <1>6. ASSUME NEW a \in Accounts, ConfigureAccount(a) PROVE Consented' /\ GrantsFitQuota'
    BY <1>4, <1>6 DEF ConfigureAccount
  <1>7. ASSUME NEW a \in Accounts, QuotaAges(a) PROVE Consented' /\ GrantsFitQuota'
    <2>1. row' = row /\ covered' = covered /\ quota' = [quota EXCEPT ![a].fresh = FALSE]
      BY <1>7 DEF QuotaAges
    <2>2. \A b \in Accounts : quota'[b].remaining = quota[b].remaining
      BY <1>t, <2>1 DEF Quotas
    <2> QED BY <1>t, <1>4, <2>1, <2>2
  <1>8. ASSUME NEW a \in Accounts, RecordQuota(a) PROVE Consented' /\ GrantsFitQuota'
    <2>1. row' = row
      BY <1>8 DEF RecordQuota
    <2>2. Consented'
      BY <1>t, <2>1 DEF Consented
    <2> QED BY <1>8, <2>2, RecordFits
  <1>9. Consented' /\ GrantsFitQuota'
    BY <1>1, <1>2, <1>3, <1>5, <1>6, <1>7, <1>8 DEF Next
  <1> QED BY <1>0, <1>9 DEF QuotaInv

\* The invariant of consent and quota in every state of every behaviour.
LEMMA QuotaInvariance == Spec => []QuotaInv
  BY InitQuotaInv, NextQuotaInv, PTL DEF Spec

\* Consent never outruns quota: all consented and active accelerator work of an account
\* fits its latest observation, as long as that one covered what was outstanding
\* (authorizationQuota against managedReserved), for any rows and any wall times.
THEOREM ConsentFitsQuota == Spec => []GrantsFitQuota
  <1>1. QuotaInv => GrantsFitQuota
    BY DEF QuotaInv
  <1> QED BY <1>1, QuotaInvariance, PTL

\* A consented row whose account is covered passes the quota test of Select and of
\* newMutationPolicy for as long as the observation is fresh and no latch has fallen.
GrantsKeepTheirQuota ==
    \A q \in Gpu :
        LET o == quota[AccountOf[q]]
        IN  row[q].granted /\ row[q].phase = "local" /\ AccountOf[q] \in covered
            /\ o.fresh /\ ~o.exhausted => QuotaDecides(q)

\* No grant waits for quota that another grant took: reserveManagedQuota leaves each
\* consented attempt at least its own wall time of what the provider reported.
THEOREM NoGrantIsStarved == Spec => []GrantsKeepTheirQuota
  <1>1. ASSUME QuotaInv PROVE GrantsKeepTheirQuota
    <2> SUFFICES ASSUME NEW q \in Gpu, row[q].granted, row[q].phase = "local",
                        AccountOf[q] \in covered,
                        quota[AccountOf[q]].fresh, ~quota[AccountOf[q]].exhausted
                 PROVE  QuotaDecides(q)
      BY DEF GrantsKeepTheirQuota
    <2>1. PICK a : a = AccountOf[q]
      OBVIOUS
    <2>t. q \in Rows /\ Wall[q] \in Nat \ {0} /\ TypeOK /\ Consented
      BY <1>1, SchedulerAssumption DEF QuotaInv, IInv
    <2>2. q \in Open(a) /\ Open(a) \in SUBSET Rows
      BY <2>1, OutstandingSum DEF Open
    <2>3. WallSum(Open(a)) = Wall[q] + WallSum(Open(a) \ {q})
      BY <2>2, WallSumTakes
    <2>4. WallSum(Open(a)) <= quota[a].remaining /\ quota[a].remaining \in Nat
      BY <1>1, <2>1, OutstandingSum DEF QuotaInv, IInv, GrantsFitQuota, TypeOK, Quotas
    <2>5. WallSum(Open(a) \ {q}) \in Nat
      BY <2>2, WallSumType
    <2>6. Reserved(a, {q}) = WallSum(Open(a) \ {q})
      BY <2>t, ReservedSum
    <2>7. quota[a].remaining - Reserved(a, {q}) >= Wall[q] /\ quota[a].remaining - Reserved(a, {q}) > 0
      BY <2>t, <2>3, <2>4, <2>5, <2>6
    <2> QED BY <2>1, <2>7 DEF QuotaDecides
  <1> QED BY <1>1, QuotaInvariance, PTL

\* Nothing reaches a provider without consent: every row that holds its account, and
\* every local row under a dispatch lease, was authorized before.
THEOREM ConsentComesFirst == Spec => []Consented
  <1>1. QuotaInv => Consented
    BY DEF QuotaInv
  <1> QED BY <1>1, QuotaInvariance, PTL

=============================================================================
