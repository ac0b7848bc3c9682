----------------------------- MODULE WorkLease ------------------------------
(***************************************************************************)
(* One row of work_leases: the durable fence every dispatch, collection    *)
(* and cleanup worker must present with each write.  Each action is one    *)
(* store.write transaction.  A refused transaction rolls back, the clock   *)
(* floor included, so refusals are stuttering steps.                       *)
(*                                                                         *)
(* The wall clock is an input of every transaction and may run backwards;  *)
(* the persisted floor is what makes transaction time monotone.  A time is *)
(* [ms, ns]: lease expiries and the floor are whole milliseconds, while    *)
(* the transaction time keeps its sub-millisecond part.                    *)
(*                                                                         *)
(* Every lease ever returned stays presentable for ever (issued): a worker *)
(* may be paused, its heartbeat may be late, its process may be replaced.  *)
(* Fences are random and may even collide; generations may not.            *)
(***************************************************************************)
EXTENDS Naturals

CONSTANTS Owners,          \* worker identities presented with a claim
          Fences,          \* values randomID may draw
          Contexts,        \* operation and attempt revision a lease is bound to
          Ttls,            \* lease durations in milliseconds
          MaxMillis,       \* last valid time, scheduler.ValidTime
          MaxNanos,        \* sub-millisecond resolution of the wall clock
          MaxGeneration    \* math.MaxInt64 in the code

ASSUME LeaseAssumption ==
    /\ Ttls \subseteq Nat
    /\ MaxMillis \in Nat
    /\ MaxNanos \in Nat
    /\ MaxGeneration \in Nat

VARIABLES row,        \* the persisted lease
          floor,      \* scheduler_control.clock_ms
          now,        \* time of the last committed transaction
          issued,     \* identities of all leases returned to workers
          accepted    \* generation under which the last fenced write committed

vars == <<row, floor, now, issued, accepted>>

Times == [ms : 0..MaxMillis, ns : 0..MaxNanos]

Identities == [generation : 1..MaxGeneration, owner : Owners, fence : Fences,
               context : Contexts]

Rows == [generation : 0..MaxGeneration, owner : Owners, fence : Fences,
         context : Contexts, until : Nat, held : BOOLEAN]

Millis(m) == [ms |-> m, ns |-> 0]

Before(s, t) == s.ms < t.ms \/ (s.ms = t.ms /\ s.ns < t.ns)

\* Store.write: the wall clock never takes a transaction below the floor.
TransactionTime(wall) == IF Before(wall, Millis(floor)) THEN Millis(floor) ELSE wall

\* Mutant: the floor drops the sub-millisecond part.
TruncatedFloor(t) == t.ms

\* The floor rounds up, so it never understates the transaction.
NextFloor(t) == IF t.ns # 0 THEN t.ms + 1 ELSE t.ms

\* Mutant: the transaction may push the floor past the last valid time.
UnboundedBegin(wall) ==
    LET t == TransactionTime(wall)
    IN  floor' = NextFloor(t) /\ now' = t

\* wall is an admissible reading and t the time of the transaction it starts.
Begin(wall) ==
    LET t == TransactionTime(wall)
    IN  /\ NextFloor(t) <= MaxMillis
        /\ floor' = NextFloor(t)
        /\ now' = t

Identity(r) == [generation |-> r.generation, owner |-> r.owner,
                fence |-> r.fence, context |-> r.context]

\* Mutant: the row is compared with the rounded-up time.
RoundedRowLive(r, t) == r.held /\ r.until > NextFloor(t)

\* The Go side of the expiry test, and the WHERE clause that repeats it in SQL.
Live(r, t) == r.held /\ Before(t, Millis(r.until))
RowLive(r, t) == r.held /\ r.until > t.ms

Init ==
    /\ \E owner \in Owners, fence \in Fences, context \in Contexts :
         row = [generation |-> 0, owner |-> owner, fence |-> fence,
                context |-> context, until |-> 0, held |-> FALSE]
    /\ floor = 0
    /\ now = Millis(0)
    /\ issued = {}
    /\ accepted = 0

-----------------------------------------------------------------------------

\* Mutant: a held lease is taken over before it expires.
ImpatientClaim(owner, fence, context, ttl, wall) ==
    LET t == TransactionTime(wall)
        next == [generation |-> row.generation + 1, owner |-> owner, fence |-> fence,
                 context |-> context, until |-> t.ms + ttl, held |-> TRUE]
    IN  /\ Begin(wall)
        /\ row.generation < MaxGeneration
        /\ t.ms + ttl <= MaxMillis
        /\ row' = next
        /\ issued' = issued \cup {Identity(next)}
        /\ UNCHANGED accepted

\* Mutant: the generation of a released row starts again from one.
RestartedClaim(owner, fence, context, ttl, wall) ==
    LET t == TransactionTime(wall)
        next == [generation |-> IF row.held THEN row.generation + 1 ELSE 1,
                 owner |-> owner, fence |-> fence, context |-> context,
                 until |-> t.ms + ttl, held |-> TRUE]
    IN  /\ Begin(wall)
        /\ ~Live(row, t)
        /\ row.generation < MaxGeneration
        /\ t.ms + ttl <= MaxMillis
        /\ row' = next
        /\ issued' = issued \cup {Identity(next)}
        /\ UNCHANGED accepted

\* claimWorkLease: take a lease that is absent, released or expired.
Claim(owner, fence, context, ttl, wall) ==
    LET t == TransactionTime(wall)
        until == t.ms + ttl
        next == [generation |-> row.generation + 1, owner |-> owner, fence |-> fence,
                 context |-> context, until |-> until, held |-> TRUE]
    IN  /\ Begin(wall)
        /\ ~Live(row, t)
        /\ row.generation < MaxGeneration
        /\ until <= MaxMillis
        /\ Before(t, Millis(until))
        /\ ~RowLive(row, t)
        /\ row' = next
        /\ issued' = issued \cup {Identity(next)}
        /\ UNCHANGED accepted

\* Mutant: ownership is tested without the generation.
CheckIgnoringGeneration(lease, t) ==
    /\ Live(row, t)
    /\ row.owner = lease.owner
    /\ row.fence = lease.fence
    /\ row.context = lease.context

\* checkWorkLease: the presented identity is exactly the live one.
Check(lease, t) == Live(row, t) /\ Identity(row) = lease

\* Mutant: the renewed expiry replaces a later one.
Latest(a, b) == a

Later(a, b) == IF a < b THEN b ELSE a

\* renewWorkLease, from a heartbeat: a renewal never shortens the lease.
Renew(lease, ttl, wall) ==
    LET t == TransactionTime(wall)
    IN  /\ Begin(wall)
        /\ Check(lease, t)
        /\ t.ms + ttl <= MaxMillis
        /\ RowLive(row, t)
        /\ row' = [row EXCEPT !.until = Later(t.ms + ttl, @)]
        /\ UNCHANGED <<issued, accepted>>

\* releaseWorkLease, in the transaction that settles the work.
Release(lease, wall) ==
    LET t == TransactionTime(wall)
    IN  /\ Begin(wall)
        /\ Check(lease, t)
        /\ RowLive(row, t)
        /\ row' = [row EXCEPT !.held = FALSE]
        /\ accepted' = lease.generation
        /\ UNCHANGED issued

\* Any other store write of a worker: it commits only behind checkWorkLease.
FencedWrite(lease, wall) ==
    /\ Begin(wall)
    /\ Check(lease, TransactionTime(wall))
    /\ accepted' = lease.generation
    /\ UNCHANGED <<row, issued>>

\* Any other transaction of the store: it only moves the clock.
OtherWrite(wall) == Begin(wall) /\ UNCHANGED <<row, issued, accepted>>

Next ==
    \E wall \in Times :
        \/ \E owner \in Owners, fence \in Fences, context \in Contexts, ttl \in Ttls :
             Claim(owner, fence, context, ttl, wall)
        \/ \E lease \in issued, ttl \in Ttls : Renew(lease, ttl, wall)
        \/ \E lease \in issued : Release(lease, wall)
        \/ \E lease \in issued : FencedWrite(lease, wall)
        \/ OtherWrite(wall)

Spec == Init /\ [][Next]_vars

-----------------------------------------------------------------------------
(* Properties.                                                             *)

\* Types of the lease row, the clock and the history (work_leases columns,
\* scheduler_control.clock_ms).
TypeOK ==
    /\ row \in Rows
    /\ floor \in 0..MaxMillis
    /\ now \in Times
    /\ issued \subseteq Identities
    /\ accepted \in 0..MaxGeneration

\* Commits are ordered, by time and by generation.  Once a write of generation g has
\* committed, no write of an older generation ever commits: a paused worker that wakes
\* up after its lease was taken over cannot write behind its successor (checkWorkLease).
\* And transaction time never decreases, although the wall clock may and although the
\* persisted floor drops the sub-millisecond part (store.write).
CommitsInOrder == [][accepted <= accepted' /\ ~Before(now', now)]_vars

\* Whatever the wall clock reads at the next transaction, the only presentable
\* lease that can pass checkWorkLease is the newest one: every other lease ever
\* returned carries a smaller generation and is refused, colliding fences or not.
OnlyNewestOwns ==
    \A wall \in Times, a, b \in issued :
        Check(a, TransactionTime(wall)) => b = a \/ b.generation < a.generation

\* A worker keeps the time it was promised.  A lease that nobody released is taken
\* over only at or after its persisted expiry, measured in transaction time
\* (claimWorkLease), and while it is held that expiry only moves forward, even when
\* the configured duration shrinks (renewWorkLease).
PromisedTimeKept ==
    [][/\ row'.generation # row.generation /\ row.held => ~Before(now', Millis(row.until))
       /\ row'.generation = row.generation => row.until <= row'.until]_vars

\* The expiry test in Go and the WHERE clause in SQL, one at full and one at
\* millisecond precision, agree at every reading: leaseUpdate never reports a
\* lost lease to the worker whose check has just succeeded.
ExpiryTestsAgree ==
    \A wall \in Times :
        LET t == TransactionTime(wall) IN Live(row, t) <=> RowLive(row, t)
=============================================================================
