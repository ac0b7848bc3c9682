# Compute Relay: a TLA+ verification project

Compute Relay accepts finite jobs over HTTP, keeps them in one SQLite database, and runs them on
remote providers (a Kaggle account, a machine reached by SSH). Its hard part is not computing
anything but *never doing a remote thing twice and never forgetting one it may have done*, while
processes crash, leases expire, replies get lost and owners cancel, reconcile and retry. This
project models that part as TLA+, checks it with TLC on small instances, and proves the
foundation of it with TLAPS for all instances.

## 1. The system and its parts

| part | source (under `src/internal/`) | state | operations |
| --- | --- | --- | --- |
| attempt state | `domain` | seven dimensions per attempt: orchestration, execution, result, cancellation, remote activity, release evidence, deadline | validate, transition |
| dispatch journal | `dispatch/model.go`, `transition.go` | phase, plan, preparation, submission, observation, failure budgets | `Apply`, one action kind per fact |
| dispatch engine | `dispatch/engine.go`, `cancellation.go`, `store/sqlite/dispatch*.go` | journal, submission intent, resources, a session per worker | claim, load, commit, yield, provider calls |
| work leases, clock | `store/sqlite/work_lease.go`, `clock.go`, `worker` | generation, fence, expiry; clock floor | claim, check, renew, release |
| scheduler | `scheduler`, `store/sqlite/scheduler*.go`, `managed_resource.go`, `authorization_capacity.go` | queue, cursor, settings, policies, quotas | select, claim, configure, record quota |
| authorization | `executionauth`, `store/sqlite/authorization*.go` | one grant per attempt | authorize, consume |
| control operations | `operations`, `store/sqlite/operations_*.go` | operations and receipts | cancel, reconcile, resolve, collect, retry, cleanup |
| collection | `collection`, `store/sqlite/collection*.go` | tickets, pinned inventory, verified files, results | claim, pin, complete, fail |
| prepare/start gate, secrets | `store/sqlite/execution_gate*.go`, `workloadsecret` | prepare and start permits, in-memory material | prepare, start, supply, claim, revoke |
| cleanup | `cleanup`, `store/sqlite/cleanup*.go` | plans over recorded remote identities | preview, apply, complete |
| objects, retention | `objects`, `blobfs`, `retention`, `store/sqlite/retention*.go` | references, blobs, tombstones | upload, release, sweep |
| connections | `connections`, `credentials`, `store/sqlite/managed_*.go` | credential versions, bindings, policies | create, replace, verify, remove |
| host health, storage, images | `hosthealth`, `hoststorage`, `hostimages`, `hostcache`, `hostwatchdog` | samples, verdicts, reservations, caches | observe, refuse, stop, evict |
| adapters | `provider/kaggle`, `provider/sshhost`, `provider` | remote resources | verify, prepare, start, reconcile, observe, cancel, collect, clean up |
| shell of the process | `api`, `auth`, `runtimehost`, `cli`, `statefs`, `packaging`, `src/runner` | - | routing, wiring, file formats |

Interaction. Goroutines of `worker.Run` claim an attempt (a lease row and, for new work, the
scheduler's selection in one transaction), load its journal, make at most one provider call per
pass, and commit what it answered through `CommitDispatch`, which applies `dispatch.Apply` and
settles pending control operations in the same transaction. HTTP control requests write to the
same rows and thereby fence the session that is under way. The collector takes over when a
terminal execution was observed. All of them share one SQLite connection, so a transaction is
atomic; between two transactions anything may happen.

What is hard: a crash between an intent and its call; a paused worker that still holds a permit;
lost and late replies; control requests between load and commit; two clocks (nanoseconds in Go,
milliseconds in SQL) over a wall clock that may jump; limits that change under running work. The
list, with lines, is `hazards` in `PROJECT.json`.

What makes each part correct (the twelve rules of `docs/design.md`, restated): consent is consumed
once; every mutation has its own durable intent and is called at most once; what is recorded about a
run is true of it; a run that may exist keeps its capacity; only the lease holder writes; an attempt
is replaced only when it cannot run any more; a request is answered; selection is fair and within
every limit.

## 2. Modules

| module | models | notes |
| --- | --- | --- |
| `AttemptState` | domain states, tables, `Validate`, `LocalOnly`, `HoldsAccount`, `RetryAllowed` | pure operators |
| `Journal` | `dispatch.Apply` | `XAllowed` is the code's `ErrConflict` guard of kind X, `X` the facts it returns, `Commits` the last check of `Apply` |
| `Dispatch` | engine, store transactions, control requests, collection tickets, provider | composes `Journal`; one action per transaction or call |
| `EffectLedger` | the promise to the owner of the provider account | abstract; `Dispatch!KeepsLedger` is the refinement |
| `WorkLease` | `work_leases` and `store.write` | |
| `Scheduler` | `Select` and the transactions around it | an attempt is reduced to local / held / ended |
| `ResultLedger` | what the store keeps about the results of an ended attempt, and the checks its transactions share: `pendingCleanup`, `eligibleCleanup`, admission of a cleanup | state of the next three |
| `Collection` | `collection.Engine` and its store transactions | sessions that transfer and publish |
| `Cleanup` | `cleanup.Engine` and its store transactions, delete requests at the provider | sessions that delete remotely |
| `ResultLife` | composes the two with the requests, declared retention, local expiry and the sweep | states the properties |
| `HostHealth` | `hosthealth.Service`, `Evaluate` and `host_health_history` | state of the next one |
| `StartGate` | prepare and start consents, workload secrets in memory, the guard of new work and the health stop | one attempt on a managed machine |
| `DockerHost` | the machine behind an SSH connection: volumes, containers, commands that outlive their session | mostly how the adapter reads and changes it |
| `HostLedger` | the store's records of a machine's storage: generations, pins, receipts, reservations, scans, deletions | transactions of the next one |
| `HostStorage` | composes the two with preparation, start and end of attempts, the storage guard and the storage cleanup | states the properties |
| `ConnectionLedger` | the store's records of managed connections and the transactions on them | state of the next three |
| `ConnectionService` | `connections.Service`: requests that stage a secret, the operation worker, the vault | `secretMu` is `guard` |
| `Watchdog` | `hostwatchdog.Service` and the script it sends | shares the ledger and the vault |
| `Connections` | composes them with admitted work, crashes and restarts | states the properties |
| `WorkLeaseProofs`, `StartGateProofs`, `ConnectionsProofs`, `HostStorageProofs`, `SchedulerProofs`, `ResultLifeProofs`, `DispatchProofs`, `DispatchStopProofs` | | theorems about the module they extend (section 4) |
| `MCDispatch`, `MCScheduler`, `MCResultLife`, `MCHostStorage` | instances for TLC | constants and symmetry only |

State and actions of `Dispatch`. `st`, `jr`, `grant`, `intent`, `op` and `active` are the columns
of the database; `sess` is the stack of each worker goroutine (where it is in `process`, the
attempt, whether its handle is still current, the answer it holds); `lease` is the live lease;
`world` is the provider, with counters of the calls it received. A handle of the code carries a
lease, an attempt revision and a journal version: the model keeps whether anything was written that
the session has not seen (`fresh`), which is what comparing those numbers decides. Journal
timestamps are windows (`unset`, `open`, `elapsed`), so that every order of a timer against every
other step is explored. A session that lost its handle keeps only a provider call it was permitted
to make, because all its later writes are refused.

State and actions of `ResultLife`. The attempt has ended (`Init`: any outcome the instance names, or
never submitted), and the lease of `WorkLease` is reduced to its owner, whether it has run out, and
whether the attempt still has the revision it was claimed at. `others` is what dispatch and other attempts
still hold: the lease of the session that recorded the end, live (`dispatch`) or not given back
(`unreleased`), a reconcile request that was left open, an object another attempt names too; `Leftovers`
says which of them an instance may start with. The two busy tests of the code read it differently:
`Unclaimed` (`eligibleCleanupAttempt`) counts a lease only while it lasts, `Releasable` (`retentionReference`)
until it is given back. `ticket`, `pin`, `pub`, `tomb`,
`cleanups` and `rule` are tables; `blobs` and `retired` the directories of the blob store; `remote`,
`out`, `doomed` and `asked` the provider: its objects, the content it serves, the delete requests
that may still take effect, and how many were sent. `work`, `job` and `sweep` are the stacks of the
workers. A file's content is its version number, so that "matches the digest" is equality of
versions. Every store write of a session repeats its fence (`OwnsCollection`, `OwnsCleanup`); the
provider calls and blob writes between them are not fenced, as in the code, and a session that lost
its lease may still make them. `Dispatch` keeps collection as two actions that move the attempt;
`Collection` is the same `FinalState` with the steps in between.

State and actions of `StartGate`. Time is a small integer that one action advances; a sample of the
machine is its level and its time. A probe, its committed row and its confirmation in memory are
three steps, since the store and `hosthealth.Service` are asked by different goroutines in between.
`a` is the attempt with its journal, `g` the three grants with their expiries and the revision they
name, `pool` whether the material is in memory, `sess` the engine's session, `remote` the machine and
`calls` what was really sent. The engine runs one session at a time (its leases are `WorkLease` and
`Dispatch`); every control request makes the session's handle stale.

State and actions of `HostStorage`. Attempts stage one content key; a generation of it is a volume on
the machine. A call of the adapter is cut into its remote commands and its store transactions. A
command whose connection breaks goes to `late` and may take effect at any later time, or never; every
call proves host key, machine and engine first, so that on another engine it fails. `seen` is history
for the properties. `Stage` repeats the copy into its stopped container as `stageWithRetry` does, and a marker
whose acknowledgement is lost stays; a pin is refused while an operation deletes the content, at admission by
the code and on a retry by the trigger of migration 0035. Abstractions: one scan and one storage cleanup are
under way at a time; a generation and an attempt each cost one unit of the budget; the check of the barrier and the budget at the
submission is one step.

State and actions of `Connections`. Every accepted request raises the connection's revision, and the
operation, the credential generation and the selection it creates are named after it, so all of them
are the revision number, with 0 for none. `gens`, `doomed` and `vault` are the generations on record,
those with a deletion intent, and those whose bytes exist: three sets kept apart because the store and
the vault cannot commit together. `sub` and `wk` are the stacks of a request and of the worker, `guard`
the mutex they share; verification of a login does not hold it. A credential is the account it logs in
to (`login`), an account the machine that answers for it (`host`). `stopped` is a worker error that
`worker.Classify` takes for fatal; `serve` is then started again. The attempt admitted through the
connection is reduced to none, active or ended, and the selection it was admitted with. A watchdog
script ends within the call that sent it (`ApplyWatchdog`), or outlives it: after a crash, or after a command
that ran out of time, whose connection is closed and whose lease is released at once (`CutOffWatchdog`). Such a
script is in `late` and lands at any later time, or never.

Names ending in a mutation (`PrepareAgain`, `HastyAbsence`, `EagerRetry` ...) are marked as mutants
in the modules: each is a plausible bug that makes a property fail, and no specification uses them.

## 3. Runs

| run | instance | shows |
| --- | --- | --- |
| `lease` | 2 owners, 1 fence value (collisions), 2 contexts, 4 ms, 2 sub-ms readings, 3 generations | types; only the newest lease passes the check; commits in the order of generations and of time; a lease keeps the time it was promised; Go and SQL expiry agree |
| `dispatch_race` | 2 workers (symmetric), 1 attempt, `MaxFailures` 1, lost leases, lost and failed calls, refusals, manual removal, all requests | one-shot effects, capacity of possible runs, agreement of journal, state, grant and ledger, truth of the evidence, pending cancels can still be settled, every answer a session holds can be committed, the only fatal path |
| `dispatch_retry` | 2 attempts, crashes, lost leases, shutdown, refusals, deadlines, an adapter without cancellation that reports release | attempts never overlap; refinement of `EffectLedger` |
| `dispatch_live` | 1 worker, crashes, cancel requests, fairness | an authorised attempt is resolved; a cancel is answered |
| `scheduler` | 3 workspaces, 4 rows, 2 accounts on 1 machine, changing limits and pauses, 2 rows competing for a quota of 1 | bounded bypass, FIFO start order, no overcommitment, consent never outruns quota |
| `results_safety` | 2 collectors and 2 cleaners (symmetric), 1 file and the manifest, 2 versions of the output, separate execution and staging objects, 2 tickets, 2 cleanups (explicit or declared), another attempt naming the object, 1 fault | transfer and deletion exclude each other; a publication is one whole version; an accepted ticket stays servable and a result under way has one; results survive every cleanup that is not a discard; outputs go before inputs; confirmed means gone; one delete per request; a declared rule never repeats an unknown outcome |
| `results_live` | 1 worker of each kind, one container for both roles, both declared rules, a dispatch lease or an open reconcile left behind, cancel, discard and release requests, 1 fault, fairness | tickets, cleanups and tombstones settle; declared lifetimes end and results expire, except behind what findings 3 and 4 name; reclaimed bytes are gone |
| `start_gate` | 1 attempt with secrets, samples ok, critical and failed, 5 instants, a history of 2 rows, 2 revisions of the staged content, every request, drift, outage and crash | material only while its grant is open and handed out once; a start is of what was read; staged content keeps its reservation; new work only on a machine seen healthy; a stop only on measured danger |
| `host_storage` | 2 attempts (symmetric), 2 generations, budget 1 to 4, 1 fault of any kind | mounted content stays whole; a container implies a pin; one writer per generation, one removal per operation; what is reported gone is gone; every volume is charged; what is over has nothing to start |
| `connections` | 1 connection, 2 accounts, 2 machines, 4 requests of which up to 2 for the watchdog, 1 image installation, work and retries, 1 fault of any kind | the active credential is readable; work keeps its account; no secret is forgotten; a published selection is usable; one build per installation; a watchdog stays reachable, its confirmed outcome stays true unless an unfenced older script lands (finding 2), and it is sent once |
| `serve_stops` | 1 worker | finding 1 of section 6 |
| `removal_unfenced` | 1 connection, 1 machine, 2 watchdog requests, 1 command that times out | finding 2 of section 6 |

Several properties are conjunctions of named parts that answer one question together, each part with a
comment of its own in the module and with a mutant that breaks it: `CommitsInOrder` and `PromisedTimeKept` (lease),
`NothingStuck` (`CancelNeverOrphaned`, `AnswersCommit`), `StartsAllowed` (`NoOvercommitment`,
`QueueOrder`), `TicketsServable`, `NothingDeletedEarly`, `DeletesAsAsked`, `WorkSettles` and `LifetimesEnd`
(`ResultLife`), `MaterialUsedOnce` and `HealthDecisionsJustified` (`StartGate`), `MutationsOnce` and
`EndsAreFinal` (`HostStorage`), `VaultMatchesLedger`, `SelectionsHonoured` and `SentOnce` (`Connections`). The
type invariant of each composition is stated as `TypeOK` and can be added to any cfg; only that of the lease,
which is proved, is part of a run.

Bounds. `MaxFailures` is 5 in the code; its role is only whether a counter has reached it, so 1 and
2 (`dispatch_live`) give the cases "at once" and "after a first failure"; the proofs are for every value. Two workers suffice for the races over one
attempt: one session is the holder, any other has lost its handle and keeps at most one permitted
call, and the permits exist once per attempt. One and two attempts suffice for `NoOverlap`, which
relates consecutive attempts. `Disturbances` and `Requests` select which failures and requests an
instance contains, so that each run stays within minutes; between them the runs contain all. A combination that
no instance contains, such as a deadline against a cancel request, is left to the proofs. The
lease run lets three generations succeed each other, which is enough for a lease to be taken over
and its first holder to come back twice. Four rows over three workspaces make the cursor wrap
around and a workspace have a second row waiting behind its head. A quota of 1 for two rows that need
1 each is the smallest over which two grants compete; disabled accounts do not occur in the instance.

In `ResultLife`, two sessions of a kind are a holder and one that lost its lease; a third would find
the same guards as the second. Two versions of the output are enough to mix; two cleanups are an
earlier one and its successor, which is what inheritance and `AmbiguousPrior` relate; `MaxExplicit`
keeps the second place for a declared rule in `results_live`, where the bound would otherwise keep
the rule from ever being scheduled. A fault is a crash, a store error, or a lease that runs out under
a live session: one leaves each intermediate state behind for its recovery. That a recovery fails as
well is not covered by these bounds.

In `StartGate` the windows (stale, critical, hold, wall, secret) are one to three instants of five, so
that each can run out before, between and after the others, and a history of two rows is pruned. In
`HostStorage` two attempts are a writer and one that waits for it, two generations the damaged one and its
successor; the soft limit of 1 makes scans queue evictions. In `Connections` four requests contain each
request after each other one that can precede it (create, replace, install and removal among them), and
one fault leaves each intermediate state behind (a timeout is one, so that every script may be cut off); the two
watchdog requests are an installation and the removal that supersedes it. Two faults take too long for a
regular run. One connection is enough because
connections share nothing but the binding of an account, which the observation on `bindManagedResource`
in section 6 is about.

Deadlock checking is off everywhere because the systems may rest: bounded queues empty, attempts
end, the time bound of the lease model is reached.

Fairness (`LiveSpec`). Weak fairness of each session step and of claiming: goroutines of
`worker.Run` and the Go scheduler. Weak fairness of timers and of the expiry of a dead holder's
lease: real time passes. Weak fairness of `Restart`: `serve` is supervised. Strong fairness that a
provider which is asked again and again answers at last (`Answering`), because the code retries
without bound while an attempt is recoverable. And `Calm`: crashes, shutdowns and requests that send
an attempt back do not go on for ever; a client that repeats reconcile requests can keep a ready
attempt from starting, and the code does not prevent it. Nothing is assumed about the run itself
ending.

`ResultLife!LiveSpec` is weak fairness of every worker's next step, of the hourly expiry (`Tombstone`) and the
sweep, of lease expiry (`DispatchEnds` among it, which leaves open whether the lease was also given back) and
of the deadlines, for the same reasons; provider calls have deadlines, so they end. Delete requests
on the wire and provider failures are not fair, and faults are bounded by `MaxFaults`.

Assumed of the outside in `ResultLife`: an adapter that refuses a deletion (identity, activity,
access) has not sent it; it reports "deleted" or "absent" only of an object that is gone, and such an
object does not come back; a session that was superseded puts no further blob, because its refused
heartbeat cancels the context of every put.

Assumed of the outside in `HostStorage`: a command that outlived its session takes effect once or never; an
operator prunes only unreferenced volumes, as Docker does. In `Connections`: a script that outlived its session
takes effect once or never; one that the adapter reported as done is over.

Assumed of the outside in `Dispatch`: a permitted start is made, and lands or is lost, before the
absence grace ends, and in time for every inventory committed after it; inventories are complete;
the owner attests what is true. `SubmissionAbsenceGrace` exists to make the first of these true. The
code relies on it: without it a late start would appear after its attempt was settled as absent.

## 4. Proofs

Each proof module proves, for every value of the constants that its component's named assumptions allow,
the invariants and step properties that the component's run checks. The pattern is the same throughout: an
inductive invariant `IInv`, checked by TLC first on the bounds of the run; `InitInv`; one lemma per action;
`Invariance` by `PTL`; then each property from `IInv`. The assumptions say that bounds are natural
numbers, that a distinguished value ("nobody") is none of the real ones, and that an attempt is not a
generation number; none restricts what the code may meet.

| module | states | of |
| --- | --- | --- |
| `WorkLeaseProofs` | `TypeOK`, `OnlyNewestOwns`, `CommitsInOrder`, `PromisedTimeKept`, `ExpiryTestsAgree` | `WorkLease` |
| `StartGateProofs` | `MaterialUsedOnce`, `StartsWhatWasRead`, `ReservationCoversStaging`, `HealthDecisionsJustified` | `StartGate` |
| `ConnectionsProofs` | `VaultMatchesLedger`, `SelectionsHonoured`, `SentOnce`, `WatchdogReachable`, `ConfirmedWatchdog` | `Connections` |
| `HostStorageProofs` | `MountedStaysWhole`, `PinHeldWhileMounted`, `MutationsOnce`, `EndsAreFinal`, `ChargeCoversMachine` | `HostStorage` |
| `SchedulerProofs` | `BoundedBypass`, `StartsAllowed`, `GrantsFitQuota`, `GrantsKeepTheirQuota`, `Consented` | `Scheduler` |
| `DispatchProofs` | `TypeOK`, `OneShotEffects`, `CapacityHeld`, `NoOverlap`, `NeverCorrupt`, `EvidenceTrue`, `CancelNeverOrphaned`, and `KeepsLedger`, the refinement of `EffectLedger` | `Dispatch` |
| `DispatchStopProofs` | `EngineStopsOnlyOnManualAbsence`, `NothingStuck`, `ExpiriesCommit`, `ConsentIsPursued` | `Dispatch` |
| `ResultLifeProofs` | `TransferExcludesDeletion`, `PublicationWhole`, `TicketsServable`, `NothingDeletedEarly`, `ConfirmedMeansGone`, `DeletesAsAsked`, `ReclaimedMeansGone` | `ResultLife` |

Why the invariants are what they are:

- `WorkLease`. `IssuedBelowRow` (every lease ever issued has at most the row's generation, which belongs to
  the identity in the row), uniqueness of generations, and `FloorCoversNow`. Without uniqueness, colliding
  fences would let two holders pass `checkWorkLease`; without the floor, a clock that jumps back would let
  time run backwards by the dropped sub-millisecond part.
- `StartGate`. Two invariants that do not meet. `GateInv`: one commit consumes the start permit, the
  secret's grant and the material in memory (`SecretInv`), and from the consent on the revision is the one
  that was ready first (`ConsentInv`). `SampleInv`: the stored history is ordered in time, and the window of
  danger that memory reports lies within what this process measured without a break (`WindowInv`); the
  history alone would not do, since it may hold rows of an earlier process.
- `Connections`. `LockInv` says what a request and the worker may rely on while they are off the ledger;
  `KeyInv` and `VaultInv` that the operation under way works on a generation nobody else disposes of, so that
  bytes and rows agree between their two commits; `PermitInv` counts builds still permitted; `ScriptInv` and
  `RetainInv` follow the newest watchdog operation of a machine, since an older one may still land (`LateInv`: what
  may land was sent). A confirmed outcome is therefore not an invariant of the host: `ConfirmedWatchdog` is proved
  as a step property, in which the one step that may contradict the host is named (`Overtaken`: the end of an
  older script without a lease), and `WatchdogReachable` makes the exception that follows from it, a machine
  whose newest operation is a confirmed removal.
- `HostStorage`. Three groups that lean on each other: generations have one paid writer (`GenInv`,
  `WriterInv`, `VolInv`), attempts create one container and start it once between their barriers (`WholeInv`,
  `AttInv`), operations follow the end of what they delete and record the intent before the removal
  (`OpenInv`, `OpInv`, `WorkInv`, `GoneInv`). All three speak of `late`, the commands a broken connection
  left behind.
- `Scheduler`. `AbsentIdle`, and `TurnComes`: the number of times an eligible workspace was passed over plus
  the number of workspaces the cursor still has to visit before it is below the number of workspaces.
  `QuotaInv` adds `Consented` (a row is authorized before it is claimed and before it holds its account) to
  `GrantsFitQuota`: without it a claim could turn a row that no grant counted into one that the sum counts.
  What the sum over a set of rows is for every set (`WallSumRecurs`, `WallSumTakes`, `WallSumShrinks`) is shown by
  a least counterexample: the strict subsets of a finite set are well founded, so a nonempty family of sets
  where an equation fails has a smallest member (`LeastSubset`), at which the equation is shown to hold. From the
  same invariant, `GrantsKeepTheirQuota`: each consented row finds at least its own wall time left, so no grant
  waits for quota that another one took.
- `ResultLife`. A collecting half (`StateInv`, `TicketInv`, `FileInv`, `SweepInv`, `WorkInv`) that sees of
  deletion only whether a cleanup is pending, and a deleting half that sees of collection only whether
  something is published. The heart of the second is that sessions which lost their lease still send what
  they committed to: `SendInv` says such an intent is on record and lawful, `AloneInv` that one fresh intent
  exists per resource, `CurrentInv` that the session in charge loaded what the ledger still says of the
  resources ahead of it and that nobody sent or will send for one it may find untouched, `AutoInv` that a
  rule never follows an ambiguous request. `CurrentInv` is about operations that are running, because a
  claim that fails leaves the former owner in the lease.

- `Dispatch`. Seven parts beside the types, none of which is inductive alone.
  - `RecordOK` fixes what state, journal, intent and operations may be together in each phase of the journal.
    This is where `NeverCorrupt` comes from: `ValidState` and `ValidJournal` look at one record each, and a
    commit that is valid in both may still leave a pair that the next load refuses. `PhaseOK` closes the gap.
  - `EffectOK`, `SessOK` and `AloneOK` give `OneShotEffects`. A session keeps its permit to call when its lease
    is gone, so the count at the provider is not bounded by the lease: it is bounded because a permit is taken
    by the commit that first records the intent, and one session at most stands behind each permit not used.
  - `RunOK` and `AnswerTrue` (in `SessOK`) give `EvidenceTrue`, `CapacityHeld` and `NoOverlap`. An answer stays
    true while it is held, because runs only move forward; absence is believed only once its window elapsed,
    when no start can be on its way any more.
  - `OwnerOK` says what a session relies on while its handle is accepted, as every other writer makes the handle
    stale. Without it the outcome of Start could be committed over a cancellation that nobody had seen.
  - `AgeOK`: attempts before the active one have ended, those after it are untouched; with `RunOK` it makes
    runs of different attempts exclude each other.

  The proof of each step goes through frames (`CommitStep`, `WriteStep`, `GotoStep`, `WorldStep`, `HoldStep`,
  `QuietStep`) that say what a kind of step has to show; the lemmas about the operators of `Journal` show it
  once per kind of fact. The refinement maps each effect of an attempt to closed, open or called: every commit
  opens at most one effect and ends at most one attempt, each call uses an open one, and all other steps stutter.
- `DispatchStopProofs`, the engine's stops. For each kind of commit it shows that `Apply` computes a valid
  journal and a transition that every table allows (`ExpireCommits`, `RefuseCommits`, `BeginPreparationCommits`,
  `BeginSubmissionCommits`, `FaultCommits`, `AcceptedCommits`, ...). `PhaseOK` gives the state the facts are
  applied to, `AnswerTrue` what the answer can be, and `OwnerOK` that a refused start meets no cancellation. What
  is left over is finding 1 of section 6.
- `DispatchStopProofs`, what can always be recorded. `RelyInv` is a second invariant above `IInv`: a session that
  owns its attempt still finds the phase and the evidence it was loaded with (`Needs`, `RelyOK`), at every point
  of its pass, since every writer that changes them also makes the handle stale. `IInv` alone does not say so:
  it is about what a stored record may be, and a journal that a cancel request has just closed
  is a fine record that the answer of an earlier call could not be applied to. `Admitted` states the guards
  of the commit of each kind of answer, in place of `ENABLED CommitAnswer(w)`, which the prover cannot use.
  TLC found the two equal for sessions that own their attempt, on instances with two workers, with two attempts and with repeated failures.
  The same invariant gives `ExpiriesCommit`: a deadline that a session has seen pass can be recorded.
- `ConsentIsPursued` is what `EventuallyResolved` needs of the records: an authorized attempt that is neither
  resolved nor the owner's satisfies the conditions of `ClaimRecovery` or of `ClaimNext`. It follows from
  `PhaseOK`, `ValidJournal` and `AgeOK`; that a worker then comes to claim it is the part left to fairness.

Only model-checked: liveness, that is `EventuallyResolved` and `CancelAnswered` (`dispatch_live`), `WorkSettles`
and the liveness half of `LifetimesEnd` (`results_live`), since fairness and ENABLED are outside the prover's
reach. Every invariant and every step property of a passing run is proved.

## 5. Not modelled

In the results: file and byte limits, progress samples, batched fetches, cleanups recorded before
per-resource snapshots existed, retired attempts.

On machines: stored execution images and their archive format (`hostimages`), the watchdog program that runs
on the host, result archives of a container, the arithmetic of bytes beyond whole units. Of connections:
configured limits (their effect on selection is in `Scheduler`), quota samples, requests that only read.

Contents of plans, bundles, manifests and messages; textual validation; HTTP; SQLite's own
durability; the time a backoff takes. The parts listed as `not_modelled` in `PROJECT.json` are
planned below or are pure conversion.

## 6. Findings

1. `serve_stops`: when a cancellation has become `manual_required` and the submission then turns out
   absent, `Apply` tries `manual_required -> prevented`, which the domain refuses; `ErrInvalid` is fatal
   to `worker.Run`, and after a restart the same attempt stops the engine again. The owner's
   attestation "absent" of such an attempt is refused for the same reason.
   `EngineStopsOnlyOnManualAbsence` shows that this is the only such path of a session, the commits before the
   submission included.
2. `removal_unfenced`: when the command of a watchdog installation times out, `RunOnce` releases the lease of the
   operation (`hostwatchdog/service.go:178`) although the script may run on. A removal may then supersede the
   installation and be confirmed before the script lands: the watchdog runs, the ledger says it is removed, and
   the connection may be removed as well. The comment at `service.go:153` says that the lease fences this.
   After a crash, when nobody releases the lease, it does, for as long as it lasts.

Two more have a configuration of their own beside the runs, which TLC finds violated in seconds:

3. `tlc -config ResultsDeferred.cfg ResultLife` (`DeclaredLifetimeEnds`): a reconcile request admitted before the
   submission is settled by none of the commits that end an attempt by prevention, expiry or an unconfirmed
   preparation (`operations_dispatch.go:211`). It stays accepted for ever, `eligibleCleanupAttempt`
   (`cleanup.go:60`) takes the attempt for busy, and `ScheduleRetention` (`remote_retention.go:184`) defers the
   declared deletion each time it is due, although `docs/results-and-cleanup.md:169` lets the clock of
   `uncollected_max_seconds` run "When the attempt is confirmed inactive or never started, without published
   results." Reached by: prepare, reconcile, cancel before the next claim. `UncollectedLifetimeEnds` shows that
   the other ways of being busy come to an end.
4. `tlc -config ResultsKept.cfg ResultLife` (`ResultsExpire`): `retentionReference` (`retention.go:63`) counts the
   dispatch lease until it is given back, even when it ran out, where `cleanup.go:62` also asks for its expiry. A
   dispatcher that dies after the terminal commit, or whose yield is refused because the attempt moved on
   (`dispatch.go:83`), never gives it back, and a settled attempt is not claimed again (`dispatch_lease.go:48`): its
   results neither expire after the "7 days" of `docs/operations.md:109` nor can be released. `LocalLifetimeEnds`
   shows that results expire otherwise.

Observations made while modelling, without a run of their own:

- `dispatch/transition.go`: the grace between two absences is measured at the commit of the second, not at
  its reading, while `docs/kaggle.md` speaks of observations two minutes apart.
- `managed_resource.go`: a *new* connection that verifies to an account already bound to another machine is
  refused by `bindManagedResource`. The refusal is an error of the worker and not a failure of the operation,
  so `serve` ends; the operation stays ready and ends it again after each start. `docs/operations.md` says
  provider and transport failures never stop `serve`. In the model: `VerifyAnswers`, the case that stops with
  "resource".
- `connections/worker.go`: when the requester's token expires or is revoked between the vault write and
  `ReadyConnection`, the deferred activation fails with an authorisation error and stops `serve` in the same
  way, until the exact request is replayed under another token (`ResumeWaiting`).
- `managed_configuration.go`: after a check that failed in passing kept the selection of an earlier revision,
  `configure` compares it with the newer revision and answers that the store is corrupt. In the model:
  `Configurable`.
- `storage_scan.go`: a scan is stamped after its listings, so a volume created, badly written and retired
  between the listing and the stamp has its reservation released and is uncharged until the next scan; this
  is the exception `seen.blind` of `ChargeCoversMachine`.
- `host_cache.go`: a generation that was claimed and whose `BeginWrite` failed stays claimed; it blocks its
  content key.
- `storage_view.go`: while `Prepare` is under way the staging row has no resource reference yet, so the
  attempt's container passes for an orphan that an operator may delete, although `docs/ssh-storage.md` leaves
  containers of a job to the attempt's own cleanup.
- `execution_gate_dispatch.go`: an attempt that has a plan but whose preparation created nothing keeps its
  prepare reservation after it ended.

## 7. Plan

Order of what is left, most important first.

1. `Objects`: uploads, references, releases, tombstones, sweeps and their crashes. Property: nothing referenced
   is deleted; every tombstone is completed in the end.
2. `Admission`: idempotent receipts of jobs and operations under concurrent duplicates.
3. Execution images on a host, and the batch transfer added to `Collection`.
4. `Kaggle`: complete inventories from pages.
