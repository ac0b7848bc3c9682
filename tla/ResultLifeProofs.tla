-------------------------- MODULE ResultLifeProofs --------------------------
(***************************************************************************)
(* What the life of an attempt's results promises, for any number of       *)
(* collectors, cleaners, files, versions, tickets, cleanups and faults.    *)
(* The invariant has two halves.  The collecting half (the attempt, its    *)
(* ticket, the lease, the files, the sweep) sees of the deleting half only *)
(* whether a cleanup is pending; the deleting half (the operations, their  *)
(* sessions, the requests sent) sees of the collecting one only whether    *)
(* something is published.                                                 *)
(***************************************************************************)
EXTENDS ResultLife, SequenceTheorems, TLAPS

RoleDom == IF Executed THEN RoleSet ELSE {"staging"}
Outcomes == [RoleSet -> ResourceStates] \cup [{"staging"} -> ResourceStates]
Operations == [status : OpenOps \cup SettledOps, discard : BOOLEAN, auto : BOOLEAN,
               res : Outcomes]
Jobs == [pc : {"idle", "look", "begin", "call", "reply", "record", "finish"},
         op : Nat, item : Nat, loaded : Outcomes \cup {<<>>}, outcome : ResourceStates,
         unresolved : BOOLEAN, collected : BOOLEAN]
Sweeps == [pc : {"idle", "delete", "remove", "complete"}, file : Everything \cup {Nobody}]

\* Every variable has its type; the kinds of rules and the count of faults are of no
\* consequence for safety.
Types ==
    /\ pin \in 0..MaxVersion /\ pub \in 0..MaxVersion /\ out \in Versions
    /\ tomb \in [Everything -> {"none", "kept", "expired", "deleted"}]
    /\ cleanups \in Seq(Operations) /\ Latest <= MaxCleanups
    /\ lease \in Leases(Collectors) /\ hold \in Leases(Cleaners)
    /\ asked \in [1..MaxCleanups -> [RoleSet -> Nat]]
    /\ work \in [Collectors -> Works]
    /\ job \in [Cleaners -> Jobs]
    /\ sweep \in Sweeps

-----------------------------------------------------------------------------
(* The collecting half.                                                    *)

\* An attempt that ran has ended; one that did not has no results to speak of.  Results
\* are in before the attempt that ran is terminal.
StateInv ==
    /\ s \in AttemptStates /\ ValidState(s)
    /\ Executed => s.exec \in ExecutionTerminal /\ s.remote = "inactive"
    /\ ~Executed => /\ s.orch \in OrchestrationTerminal /\ s.result = "not_available"
                    /\ ticket = "none" /\ pub = 0
    /\ Executed /\ s.orch \in OrchestrationTerminal => s.result \in {"available", "expired"}

\* Nobody holds the collection lease of published results.
TicketInv ==
    /\ TicketStaysServable /\ CollectingHasTicket
    /\ pub # 0 => s.result \in {"available", "expired"} /\ lease.owner = Nobody /\ ~lease.live

FileOK(f) ==
    /\ pub = 0 => tomb[f] = "none"
    /\ pub # 0 => tomb[f] \in {"kept", "expired", "deleted"}
    /\ tomb[f] = "kept" => Present(f, pub)
    /\ tomb[f] = "deleted" => <<f, pub>> \notin blobs /\ <<f, pub>> \notin retired
FileInv == (pub # 0 => pub = pin) /\ \A f \in Everything : FileOK(f)

\* The sweeper handles a tombstone, and knows where its bytes are.
SweepInv ==
    sweep.pc # "idle" =>
        /\ pub # 0 /\ sweep.file \in Everything /\ tomb[sweep.file] = "expired"
        /\ sweep.pc \in {"remove", "complete"} => <<sweep.file, pub>> \notin blobs
        /\ sweep.pc = "complete" => <<sweep.file, pub>> \notin retired

\* What is about to be published is whole: blobs are only removed after publication.
WorkOK(c) ==
    /\ work[c].pc \in {"manifest", "pin", "start", "transfer", "publish"} => work[c].version \in Versions
    /\ work[c].pc = "publish" /\ pub = 0 => \A f \in Everything : Present(f, work[c].version)
WorkInv == \A c \in Collectors : WorkOK(c)

-----------------------------------------------------------------------------
(* The deleting half.                                                      *)

\* A delete may have been sent for the resource, and the ledger says so.
Touched(i, role) == cleanups[i].res[role] \in Confirmed \cup {"running", "unknown"}

OpOK(i) ==
    /\ cleanups[i].res \in [RoleDom -> ResourceStates]
    /\ i < Latest => cleanups[i].status \in SettledOps
    /\ cleanups[i].status = "succeeded" => \A role \in RoleDom : cleanups[i].res[role] \in Confirmed
    /\ \A role \in RoleDom : cleanups[i].res[role] \in Confirmed => Target(role) \notin remote
OpInv == \A i \in 1..Latest : OpOK(i)

AskedOK(i, role) ==
    /\ asked[i][role] <= 1
    /\ asked[i][role] > 0 => i <= Latest /\ role \in RoleDom /\ Touched(i, role)
AskedInv == \A i \in 1..MaxCleanups, role \in RoleSet : AskedOK(i, role)

\* The session has committed an intent and may send its delete at any time, whoever
\* holds the lease by then.
Sending(k) == job[k].pc = "call"
Fresh(k) == job[k].loaded[Role(k)] = "pending"
SendsFor(k, i, role) == Sending(k) /\ job[k].op = i /\ Role(k) = role

\* What an automatic cleanup might repeat was neither sent nor is it about to be, or its
\* receipt was inherited.
AutoOK(j, i, role) ==
    cleanups[j].auto =>
      \/ asked[i][role] = 0 /\ \A k \in Cleaners : ~SendsFor(k, i, role)
      \/ role \in RoleDom /\ cleanups[j].res[role] \in Confirmed /\ asked[j][role] = 0
AutoInv == \A j \in 1..Latest, i \in 1..Latest, role \in RoleSet : i < j => AutoOK(j, i, role)

\* The results are safe or given up.
Safe == ~Executed \/ pub # 0 \/ \E i \in 1..Latest : cleanups[i].discard

\* A session knows its operation and its place in it; what it commits or finds is true.
JobOK(k) ==
    Busy(k) =>
      /\ job[k].op \in 1..Latest /\ job[k].item \in DOMAIN Roles
      /\ job[k].loaded \in [RoleDom -> ResourceStates]
      /\ job[k].pc \in {"begin", "call", "reply", "record"} =>
            job[k].loaded[Role(k)] \in {"pending", "running"}
      /\ job[k].pc = "record" => job[k].outcome \in {"retained", "failed", "unknown"} \cup Confirmed
      /\ job[k].pc = "record" /\ job[k].outcome \in Confirmed => Target(Role(k)) \notin remote

\* A committed intent is on record, lawful, and if it is fresh nothing was sent for it.
SendOK(k) ==
    Sending(k) =>
      /\ Touched(job[k].op, Role(k))
      /\ Safe
      /\ Role(k) = "staging" /\ Executed => Target("execution") \notin remote
      /\ Fresh(k) => asked[job[k].op][Role(k)] = 0
JobInv == \A k \in Cleaners : JobOK(k)
SendInv == \A k \in Cleaners : SendOK(k)

\* One fresh intent for a resource at a time.
AloneOK(k, l) ==
    Sending(k) /\ Sending(l) /\ job[k].op = job[l].op /\ Role(k) = Role(l) /\ Fresh(k) => ~Fresh(l)
AloneInv == \A k, l \in Cleaners : k # l => AloneOK(k, l)

\* The session that holds the lease of the operation under way, or held it last.
Current(k) ==
    Busy(k) /\ hold.owner = k /\ job[k].op = Latest /\ cleanups[Latest].status = "running"
Ahead(k, j) == j > job[k].item \/ (j = job[k].item /\ job[k].pc \in {"look", "begin"})
Unsent(k, j) ==
    \/ Ahead(k, j)
    \/ j = job[k].item /\ job[k].pc = "record" /\ job[k].outcome \in {"retained", "failed"}

\* What the current session loaded is what the ledger still says of the resources it has
\* not come to, and nobody has sent or will send for one it may still find untouched.
CurrentOK(k) ==
    Current(k) =>
      /\ \A j \in DOMAIN Roles : Ahead(k, j) => cleanups[Latest].res[Roles[j]] = job[k].loaded[Roles[j]]
      /\ \A j \in DOMAIN Roles : Unsent(k, j) /\ job[k].loaded[Roles[j]] = "pending"
                                  => asked[Latest][Roles[j]] = 0
      /\ \A l \in Cleaners : l # k /\ Sending(l) /\ job[l].op = Latest => job[k].loaded[Role(l)] # "pending"
CurrentInv == \A k \in Cleaners : CurrentOK(k)

\* What is on its way to the provider was sent, and what is gone or doomed was safe to lose.
DoomInv ==
    /\ doomed # {} => \E i \in 1..MaxCleanups, role \in RoleSet : asked[i][role] > 0
    /\ Target("execution") \notin remote \ doomed => Safe

CollectingHalf ==
    /\ StateInv /\ TicketInv /\ TransferExcludesDeletion
    /\ FileInv /\ SweepInv /\ WorkInv

DeletingHalf ==
    /\ OpInv /\ AskedInv /\ AutoInv
    /\ JobInv /\ SendInv /\ AloneInv /\ CurrentInv
    /\ DoomInv /\ StagingOutlivesExecution

IInv == Types /\ CollectingHalf /\ DeletingHalf

-----------------------------------------------------------------------------
(* Roles, operations and what the parts depend on.                         *)

\* The resources of an attempt are deleted in one order, each once.
LEMMA RoleFacts ==
    /\ Len(Roles) \in {1, 2} /\ DOMAIN Roles = 1..Len(Roles)
    /\ \A j \in DOMAIN Roles : Roles[j] \in RoleDom
    /\ \A i, j \in DOMAIN Roles : Roles[i] = Roles[j] => i = j
    /\ {Roles[i] : i \in DOMAIN Roles} = RoleDom
    /\ RoleDom \subseteq RoleSet
    /\ Executed <=> "execution" \in RoleDom
    /\ ~Executed => RoleDom = {"staging"}
  <1>1. CASE Executed
    <2>1. Roles = <<"execution", "staging">> /\ RoleDom = {"execution", "staging"}
      BY <1>1 DEF Roles, RoleDom, RoleSet
    <2>. QED  BY <1>1, <2>1 DEF RoleSet
  <1>2. CASE ~Executed
    <2>1. Roles = <<"staging">> /\ RoleDom = {"staging"}
      BY <1>2 DEF Roles, RoleDom
    <2>. QED  BY <1>2, <2>1 DEF RoleSet
  <1>. QED  BY <1>1, <1>2

\* Which resources there are changes only with the end of the execution.
LEMMA RolesStay ==
    ASSUME s'.exec = s.exec
    PROVE  Executed' = Executed /\ Roles' = Roles /\ RoleDom' = RoleDom
  BY DEF Executed, Roles, RoleDom

\* The shape of an operation and of a session.
LEMMA Shapes ==
    ASSUME Types, DeletingHalf
    PROVE  /\ Latest \in Nat
           /\ \A i \in 1..Latest : /\ cleanups[i] \in Operations
                                   /\ cleanups[i].res \in [RoleDom -> ResourceStates]
                                   /\ DOMAIN cleanups[i].res = RoleDom
           /\ \A i \in 1..Latest : i \in 1..MaxCleanups
           /\ DOMAIN cleanups = 1..Latest
           /\ \A k \in Cleaners : job[k] \in Jobs
           /\ \A k \in Cleaners : Busy(k) => Role(k) \in RoleDom
  <1>1. Latest \in Nat /\ DOMAIN cleanups = 1..Latest
           /\ \A i \in 1..Latest : cleanups[i] \in Operations
    BY DEF Types, Latest
  <1>2. \A i \in 1..Latest : cleanups[i].res \in [RoleDom -> ResourceStates]
                              /\ DOMAIN cleanups[i].res = RoleDom
    BY DEF DeletingHalf, OpInv, OpOK
  <1>3. \A i \in 1..Latest : i \in 1..MaxCleanups
    BY <1>1, ResultAssumption DEF Types
  <1>4. \A k \in Cleaners : job[k] \in Jobs
    BY DEF Types
  <1>5. \A k \in Cleaners : Busy(k) => Role(k) \in RoleDom
    BY RoleFacts DEF DeletingHalf, JobInv, JobOK, Role
  <1>. QED  BY <1>1, <1>2, <1>3, <1>4, <1>5

\* A pending cleanup, in the terms of the invariant.
LEMMA PendingMeans ==
    ASSUME Types, DeletingHalf
    PROVE  PendingCleanup <=>
             \E i \in 1..Latest : \/ cleanups[i].status \in OpenOps \cup {"succeeded"}
                                  \/ \E role \in RoleDom : Touched(i, role)
  <1>1. DOMAIN cleanups = 1..Latest /\ \A i \in 1..Latest : DOMAIN cleanups[i].res = RoleDom
    BY Shapes
  <1>. QED  BY <1>1 DEF PendingCleanup, Touched

\* A delete on its way was sent by a pending cleanup.
LEMMA DoomedIsPending ==
    ASSUME Types, DeletingHalf, ~PendingCleanup
    PROVE  doomed = {}
  <1>. SUFFICES ASSUME doomed # {} PROVE FALSE
    OBVIOUS
  <1>1. PICK i \in 1..MaxCleanups, role \in RoleSet : asked[i][role] > 0
    BY DEF DeletingHalf, DoomInv
  <1>2. i <= Latest /\ role \in RoleDom /\ Touched(i, role)
    BY <1>1 DEF DeletingHalf, AskedInv, AskedOK
  <1>3. i \in 1..Latest
    BY <1>2, Shapes
  <1>. QED  BY <1>2, <1>3, PendingMeans

\* The deleting half survives a step that leaves it and does not unpublish.
LEMMA DeletingFrame ==
    ASSUME DeletingHalf, UNCHANGED <<cleanups, asked, job, remote, doomed, hold>>,
           s'.exec = s.exec, pub # 0 => pub' # 0
    PROVE  DeletingHalf'
  <1>1. Executed' = Executed /\ Roles' = Roles /\ RoleDom' = RoleDom
    BY RolesStay
  <1>2. Latest' = Latest /\ \A k : Role(k)' = Role(k)
    BY <1>1 DEF Latest, Role
  <1>3. Safe => Safe'
    BY <1>1, <1>2 DEF Safe
  <1>4. OpInv' /\ AskedInv'
    BY <1>1, <1>2 DEF DeletingHalf, OpInv, OpOK, AskedInv, AskedOK, Touched, Target
  <1>5. AutoInv'
    BY <1>1, <1>2 DEF DeletingHalf, AutoInv, AutoOK, SendsFor, Sending
  <1>6. JobInv'
    BY <1>1, <1>2 DEF DeletingHalf, JobInv, JobOK, Busy, Target
  <1>7. SendInv'
    BY <1>1, <1>2, <1>3 DEF DeletingHalf, SendInv, SendOK, Sending, Fresh, Touched, Target
  <1>8. AloneInv'
    BY <1>1, <1>2 DEF DeletingHalf, AloneInv, AloneOK, Sending, Fresh
  <1>9. CurrentInv'
    BY <1>1, <1>2 DEF DeletingHalf, CurrentInv, CurrentOK, Current, Busy, Ahead, Unsent, Sending
  <1>10. DoomInv'
    BY <1>3 DEF DeletingHalf, DoomInv, Target
  <1>11. StagingOutlivesExecution'
    BY <1>1 DEF DeletingHalf, StagingOutlivesExecution
  <1>. QED  BY <1>4, <1>5, <1>6, <1>7, <1>8, <1>9, <1>10, <1>11 DEF DeletingHalf

\* The parts of the collecting half survive a step that leaves what they read.
LEMMA CollectingFrame ==
    ASSUME CollectingHalf
    PROVE  /\ UNCHANGED <<s, ticket, pub>> => StateInv'
           /\ UNCHANGED <<s, ticket, pub, lease, cleanups>> => TicketInv'
           /\ UNCHANGED <<lease, cleanups, doomed>> => TransferExcludesDeletion'
           /\ UNCHANGED <<pub, pin, tomb, blobs, retired>> => FileInv'
           /\ UNCHANGED <<sweep, pub, tomb, blobs, retired>> => SweepInv'
           /\ UNCHANGED <<work, pub, blobs>> => WorkInv'
  <1>1. UNCHANGED <<s, ticket, pub>> => StateInv'
    BY DEF CollectingHalf, StateInv, Executed
  <1>2. UNCHANGED cleanups => PendingCleanup' = PendingCleanup
    BY DEF PendingCleanup
  <1>3. UNCHANGED <<s, ticket, pub, lease, cleanups>> => TicketInv'
    BY <1>2 DEF CollectingHalf, TicketInv, TicketStaysServable, CollectingHasTicket
  <1>4. UNCHANGED <<lease, cleanups, doomed>> => TransferExcludesDeletion'
    BY <1>2 DEF CollectingHalf, TransferExcludesDeletion
  <1>5. UNCHANGED <<pub, pin, tomb, blobs, retired>> => FileInv'
    BY DEF CollectingHalf, FileInv, FileOK, Present
  <1>6. UNCHANGED <<sweep, pub, tomb, blobs, retired>> => SweepInv'
    BY DEF CollectingHalf, SweepInv
  <1>7. UNCHANGED <<work, pub, blobs>> => WorkInv'
    BY DEF CollectingHalf, WorkInv, WorkOK, Present
  <1>. QED  BY <1>1, <1>3, <1>4, <1>5, <1>6, <1>7

-----------------------------------------------------------------------------
(* Collectors.                                                             *)

\* A session's step keeps what is known of the sessions: blobs are not removed before
\* publication.
LEMMA WorkStep ==
    ASSUME IInv, NEW c \in Collectors, NEW w \in Works, Go(c, w),
           blobs \subseteq blobs', pub' = 0 => pub = 0,
           w.pc \in {"manifest", "pin", "start", "transfer", "publish"} => w.version \in Versions,
           w.pc = "publish" /\ pub' = 0 => \A f \in Everything : <<f, w.version>> \in blobs'
    PROVE  work' \in [Collectors -> Works] /\ WorkInv'
  <1>1. work \in [Collectors -> Works] /\ \A d \in Collectors : WorkOK(d)
    BY DEF IInv, Types, CollectingHalf, WorkInv
  <1>2. /\ work' \in [Collectors -> Works] /\ work'[c] = w
        /\ \A d \in Collectors : d # c => work'[d] = work[d]
    BY <1>1 DEF Go
  <1>3. WorkOK(c)'
    BY <1>2 DEF WorkOK, Present
  <1>4. ASSUME NEW d \in Collectors, d # c PROVE WorkOK(d)'
    <2>1. work'[d] = work[d] /\ WorkOK(d)
      BY <1>1, <1>2, <1>4
    <2>. QED  BY <2>1 DEF WorkOK, Present
  <1>5. WorkInv'
    BY <1>3, <1>4 DEF WorkInv
  <1>. QED  BY <1>2, <1>5

\* A step of a session that changes nothing else.
LEMMA SessionStep ==
    ASSUME IInv, NEW c \in Collectors, NEW w \in Works, Go(c, w),
           w.pc \in {"manifest", "pin", "start", "transfer", "publish"} => w.version \in Versions,
           w.pc = "publish" /\ pub = 0 => \A f \in Everything : <<f, w.version>> \in blobs,
           UNCHANGED <<ledger, local, provider, job, sweep>>
    PROVE  IInv'
  <1>1. /\ UNCHANGED <<s, ticket, tickets, pin, pub, tomb, cleanups, rule, lease, hold>>
        /\ UNCHANGED <<blobs, retired, remote, out, doomed, asked, job, sweep>>
    BY DEF ledger, local, provider
  <1>2. work' \in [Collectors -> Works] /\ WorkInv'
    BY <1>1, WorkStep
  <1>3. Types'
    BY <1>1, <1>2 DEF IInv, Types, Latest
  <1>4. CollectingHalf'
    BY <1>1, <1>2, CollectingFrame DEF IInv, CollectingHalf
  <1>5. DeletingHalf'
    BY <1>1, DeletingFrame DEF IInv
  <1>. QED  BY <1>3, <1>4, <1>5 DEF IInv

\* The types of a collector's session.
LEMMA WorkTypes ==
    ASSUME IInv, NEW c \in Collectors
    PROVE  /\ work[c] \in Works /\ NoWork \in Works
           /\ work[c].version \in 0..MaxVersion /\ 0 \in 0..MaxVersion
           /\ \A p \in {"idle", "list", "manifest", "pin", "start", "transfer", "verify", "publish", "fail"} :
                [work[c] EXCEPT !.pc = p] \in Works
           /\ \A b \in BOOLEAN : [work[c] EXCEPT !.pc = "fail", !.invalid = b] \in Works
           /\ WorkOK(c)
  <1>1. work[c] \in Works /\ WorkOK(c)
    BY DEF IInv, Types, CollectingHalf, WorkInv
  <1>2. MaxVersion \in Nat /\ 0 \in 0..MaxVersion
    BY ResultAssumption
  <1>3. NoWork \in Works
    BY <1>2 DEF NoWork, Works
  <1>4. \A p \in {"idle", "list", "manifest", "pin", "start", "transfer", "verify", "publish", "fail"} :
                [work[c] EXCEPT !.pc = p] \in Works
    BY <1>1 DEF Works
  <1>5. \A b \in BOOLEAN : [work[c] EXCEPT !.pc = "fail", !.invalid = b] \in Works
    BY <1>1 DEF Works
  <1>6. work[c].version \in 0..MaxVersion
    BY <1>1 DEF Works
  <1>. QED  BY <1>1, <1>2, <1>3, <1>4, <1>5, <1>6

\* A session that turns to report its failure.
LEMMA FailingStep ==
    ASSUME IInv, NEW c \in Collectors, NEW invalid \in BOOLEAN, Failing(c, invalid),
           UNCHANGED <<ledger, local, provider, job, sweep>>
    PROVE  IInv'
  <1>. DEFINE w == [work[c] EXCEPT !.pc = "fail", !.invalid = invalid]
  <1>0. work[c] \in Works /\ w \in Works
    BY WorkTypes
  <1>1. w.pc = "fail" /\ Go(c, w)
    BY <1>0 DEF Failing, Works
  <1>. HIDE DEF w
  <1>. QED  BY <1>0, <1>1, SessionStep

\* The session goes on with the version it has.
LEMMA PcStep ==
    ASSUME IInv, NEW c \in Collectors, NEW p \in {"pin", "publish"}, Step(c, p),
           work[c].version \in Versions,
           p = "publish" => \A f \in Everything : Present(f, work[c].version),
           UNCHANGED <<ledger, local, provider, job, sweep>>
    PROVE  IInv'
  <1>. DEFINE w == [work[c] EXCEPT !.pc = p]
  <1>0. work[c] \in Works
    BY WorkTypes
  <1>1. w \in Works /\ Go(c, w)
    BY WorkTypes DEF Step
  <1>2. w.pc = p /\ w.version = work[c].version
    BY <1>0 DEF Works
  <1>. HIDE DEF w
  <1>3. p = "publish" => \A f \in Everything : <<f, w.version>> \in blobs
    BY <1>2 DEF Present
  <1>. QED  BY <1>1, <1>2, <1>3, SessionStep

\* A session that ends without another write.
LEMMA EndWork ==
    ASSUME IInv, NEW c \in Collectors, Go(c, NoWork),
           UNCHANGED <<ledger, local, provider, job, sweep>>
    PROVE  IInv'
  <1>1. NoWork \in Works /\ NoWork.pc = "idle"
    BY WorkTypes DEF NoWork
  <1>. QED  BY <1>1, SessionStep

\* Steps of a session that read, list or verify: they write nothing that lasts.
LEMMA QuietCollection ==
    ASSUME IInv, NEW c \in Collectors, UNCHANGED <<job, sweep>>,
           \/ List(c) \/ FetchManifest(c) \/ StartTransfer(c) \/ Verify(c)
           \/ CollectionError(c) \/ LoseCollection(c) \/ AbandonCollection(c)
    PROVE  IInv'
  <1>1. CASE List(c)
    <2>1. CASE Serving
      <3>. DEFINE w == [work[c] EXCEPT !.pc = "manifest", !.version = out]
      <3>1. out \in Versions /\ out \in 0..MaxVersion
        BY ResultAssumption DEF IInv, Types, Versions
      <3>0. work[c] \in Works
        BY WorkTypes
      <3>2. w \in Works /\ w.pc = "manifest" /\ w.version = out
        BY <3>0, <3>1 DEF Works
      <3>3. Go(c, w) /\ UNCHANGED <<ledger, local, provider>>
        BY <1>1, <2>1 DEF List
      <3>. HIDE DEF w
      <3>. QED  BY <3>1, <3>2, <3>3, SessionStep
    <2>2. CASE ~Serving
      BY <1>1, <2>2, FailingStep DEF List
    <2>. QED  BY <2>1, <2>2
  <1>2. CASE FetchManifest(c)
    <2>1. work[c].version \in Versions
      BY <1>2, WorkTypes DEF FetchManifest, At, WorkOK
    <2>2. \/ Failing(c, FALSE) \/ Failing(c, TRUE) \/ Step(c, "pin")
      BY <1>2 DEF FetchManifest
    <2>3. UNCHANGED <<ledger, local, provider>>
      BY <1>2 DEF FetchManifest
    <2>. QED  BY <2>1, <2>2, <2>3, FailingStep, PcStep
  <1>3. CASE StartTransfer(c)
    <2>. DEFINE w == [work[c] EXCEPT !.pc = "transfer", !.left = Everything]
    <2>0. work[c] \in Works
      BY WorkTypes
    <2>1. w \in Works /\ w.pc = "transfer" /\ w.version = work[c].version
      BY <2>0 DEF Works
    <2>2. Go(c, w) /\ UNCHANGED <<ledger, local, provider>> /\ work[c].version \in Versions
      BY <1>3, WorkTypes DEF StartTransfer, At, WorkOK
    <2>. HIDE DEF w
    <2>. QED  BY <2>1, <2>2, SessionStep
  <1>4. CASE Verify(c)
    <2>1. work[c].version \in Versions
      BY <1>4, WorkTypes DEF Verify, At, WorkOK
    <2>2. CASE \A f \in Everything : Present(f, work[c].version)
      BY <1>4, <2>1, <2>2, PcStep DEF Verify
    <2>3. CASE ~\A f \in Everything : Present(f, work[c].version)
      BY <1>4, <2>3, FailingStep DEF Verify
    <2>. QED  BY <2>2, <2>3
  <1>5. CASE CollectionError(c)
    BY <1>5, FailingStep DEF CollectionError
  <1>6. CASE LoseCollection(c)
    BY <1>6, EndWork DEF LoseCollection
  <1>7. CASE AbandonCollection(c)
    BY <1>7, EndWork DEF AbandonCollection
  <1>. QED  BY <1>1, <1>2, <1>3, <1>4, <1>5, <1>6, <1>7

\* A collector that owns the work is no other's, and nothing is published before it does.
LEMMA OwnerUnpublished ==
    ASSUME IInv, NEW c \in Collectors, lease.owner = c
    PROVE  pub = 0 /\ sweep.pc = "idle" /\ \A f \in Everything : tomb[f] = "none"
  <1>1. c # Nobody
    BY ResultAssumption
  <1>2. pub = 0
    BY <1>1 DEF IInv, CollectingHalf, TicketInv
  <1>. QED  BY <1>2 DEF IInv, CollectingHalf, FileInv, FileOK, SweepInv

\* The moves of an attempt whose execution has ended.
LEMMA StateMoves ==
    ASSUME IInv, Executed, s' \in AttemptStates, ValidState(s'), s'.exec = s.exec,
           s'.remote = s.remote,
           s'.orch \in OrchestrationTerminal => s'.result \in {"available", "expired"}
    PROVE  StateInv'
  <1>1. Executed' = Executed
    BY RolesStay
  <1>. QED  BY <1>1 DEF IInv, CollectingHalf, StateInv

\* States and results that the code assigns are in the tables.
LEMMA SomeStates ==
    /\ {"collecting", "needs_attention", "succeeded", "failed", "timed_out", "cancelled"} \subseteq Orchestrations
    /\ "collecting" \notin OrchestrationTerminal /\ "needs_attention" \notin OrchestrationTerminal
    /\ {"collecting", "available", "incomplete", "invalid", "expired", "not_available"} \subseteq Results
  BY DEF Orchestrations, OrchestrationTerminal, Results

\* FinalState keeps what happened and makes the results available.
LEMMA FinalFacts ==
    ASSUME NEW t \in AttemptStates, NEW b \in BOOLEAN
    PROVE  /\ FinalState(t, b) \in AttemptStates
           /\ FinalState(t, b).result = "available"
           /\ FinalState(t, b).exec = t.exec /\ FinalState(t, b).remote = t.remote
  <1>. DEFINE ordinary == t.cancel \in {"not_requested", "too_late"}
              orch == CASE ordinary /\ t.exec = "succeeded" ->
                             IF b THEN "succeeded" ELSE "failed"
                        [] ordinary /\ t.exec = "failed" -> "failed"
                        [] ordinary /\ t.exec = "timed_out" -> "timed_out"
                        [] t.exec = "cancelled" /\ t.cancel = "confirmed" -> "cancelled"
                        [] OTHER -> "needs_attention"
  <1>1. orch \in {"succeeded", "failed", "timed_out", "cancelled", "needs_attention"}
    OBVIOUS
  <1>2. orch \in Orchestrations
    BY <1>1, SomeStates
  <1>3. FinalState(t, b) = [t EXCEPT !.result = "available", !.orch = orch,
                                     !.deadline = @ \/ orch = "timed_out"]
    BY DEF FinalState
  <1>. HIDE DEF orch
  <1>4. t.deadline \in BOOLEAN
    BY DEF AttemptStates
  <1>. DEFINE d == t.deadline \/ orch = "timed_out"
  <1>5. d \in BOOLEAN
    OBVIOUS
  <1>6. FinalState(t, b) = [t EXCEPT !.result = "available", !.orch = orch, !.deadline = d]
    BY <1>3
  <1>. HIDE DEF d
  <1>7. "available" \in Results
    BY SomeStates
  <1>. QED  BY <1>2, <1>5, <1>6, <1>7 DEF AttemptStates

\* ClaimCollection: a lease for a servable ticket, while no cleanup is pending.
LEMMA ClaimCollectionStep ==
    ASSUME IInv, NEW c \in Collectors, ClaimCollection(c), UNCHANGED <<job, sweep>>
    PROVE  IInv'
  <1>1. /\ s.result \in {"not_available", "collecting", "incomplete", "invalid"}
        /\ ~PendingCleanup /\ s.orch \notin OrchestrationTerminal
        /\ ValidState(Collecting) /\ s' = Collecting /\ ticket' = "accepted" /\ lease' = Held(c)
        /\ Go(c, [NoWork EXCEPT !.pc = IF pin = 0 THEN "list" ELSE "start", !.version = pin])
        /\ UNCHANGED <<pin, pub, tomb, cleanups, hold, blobs, retired, remote, out, doomed, asked>>
    BY DEF ClaimCollection, local, provider, ValidTransition
  <1>2. s \in AttemptStates /\ Executed /\ pub = 0
    BY <1>1 DEF IInv, CollectingHalf, StateInv, TicketInv
  <1>3. /\ s' \in AttemptStates /\ s'.orch = "collecting" /\ s'.result = "collecting"
        /\ s'.exec = s.exec /\ s'.remote = s.remote
    BY <1>1, <1>2, SomeStates DEF Collecting, AttemptStates
  <1>4. StateInv'
    BY <1>1, <1>2, <1>3, StateMoves, SomeStates
  <1>5. lease' \in Leases(Collectors) /\ PendingCleanup' = PendingCleanup
    BY <1>1 DEF Leases, Held, PendingCleanup
  <1>6. TicketInv'
    BY <1>1, <1>2, <1>3, <1>5, SomeStates DEF TicketInv, TicketStaysServable, CollectingHasTicket
  <1>7. TransferExcludesDeletion'
    BY <1>1, <1>5, DoomedIsPending DEF IInv, TransferExcludesDeletion
  <1>8. DeletingHalf'
    BY <1>1, <1>3, DeletingFrame DEF IInv
  <1>. DEFINE p == IF pin = 0 THEN "list" ELSE "start"
  <1>0. p \in {"list", "start"} /\ (p = "start" => pin # 0)
    OBVIOUS
  <1>. HIDE DEF p
  <1>. DEFINE w == [NoWork EXCEPT !.pc = p, !.version = pin]
  <1>9. /\ w \in Works /\ w.pc \in {"list", "start"}
        /\ w.pc = "start" => w.version \in Versions
    <2>1. pin \in 0..MaxVersion /\ MaxVersion \in Nat
      BY ResultAssumption DEF IInv, Types
    <2>2. NoWork \in Works
      BY WorkTypes
    <2>3. w \in Works
      BY <1>0, <2>1, <2>2 DEF Works
    <2>4. w.pc = p /\ w.version = pin
      BY <2>2 DEF Works
    <2>. QED  BY <1>0, <2>1, <2>3, <2>4 DEF Versions
  <1>10. Go(c, w)
    BY <1>1 DEF p
  <1>. HIDE DEF w
  <1>11. work' \in [Collectors -> Works] /\ WorkInv'
    BY <1>1, <1>9, <1>10, WorkStep
  <1>12. Types'
    BY <1>1, <1>5, <1>11 DEF IInv, Types, Latest
  <1>13. FileInv' /\ SweepInv'
    BY <1>1, CollectingFrame DEF IInv
  <1>. QED  BY <1>4, <1>6, <1>7, <1>8, <1>11, <1>12, <1>13 DEF IInv, CollectingHalf

\* PinCollection: the snapshot is fixed once, under the lease.
LEMMA PinStep ==
    ASSUME IInv, NEW c \in Collectors, PinCollection(c), UNCHANGED <<job, sweep>>
    PROVE  IInv'
  <1>1. /\ work[c].pc = "pin" /\ lease.owner = c /\ pin' = work[c].version /\ Step(c, "start")
        /\ UNCHANGED <<s, ticket, pub, tomb, cleanups, lease, hold, blobs, retired, remote, out, doomed, asked>>
    BY DEF PinCollection, OwnsCollection, At, local, provider
  <1>2. work[c] \in Works /\ work[c].version \in Versions
    BY <1>1, WorkTypes DEF WorkOK
  <1>. DEFINE w == [work[c] EXCEPT !.pc = "start"]
  <1>3. w \in Works /\ w.pc = "start" /\ w.version = work[c].version
    BY <1>2 DEF Works
  <1>4. Go(c, w)
    BY <1>1 DEF Step
  <1>. HIDE DEF w
  <1>5. work' \in [Collectors -> Works] /\ WorkInv'
    BY <1>1, <1>2, <1>3, <1>4, WorkStep
  <1>6. pin' \in 0..MaxVersion
    BY <1>1, <1>2, ResultAssumption DEF Versions
  <1>7. Types'
    BY <1>1, <1>5, <1>6 DEF IInv, Types, Latest
  <1>8. pub = 0
    BY <1>1, OwnerUnpublished
  <1>9. FileInv'
    BY <1>1, <1>8 DEF IInv, CollectingHalf, FileInv, FileOK, Present
  <1>10. StateInv' /\ TicketInv' /\ TransferExcludesDeletion' /\ SweepInv'
    BY <1>1, CollectingFrame DEF IInv
  <1>11. DeletingHalf'
    BY <1>1, DeletingFrame DEF IInv
  <1>. QED  BY <1>5, <1>7, <1>9, <1>10, <1>11 DEF IInv, CollectingHalf

\* A blob is put by the owner of the lease, so before publication.
LEMMA TransferStep ==
    ASSUME IInv, NEW c \in Collectors, NEW f \in Everything, Transfer(c, f), UNCHANGED <<job, sweep>>
    PROVE  IInv'
  <1>1. /\ work[c].pc = "transfer" /\ lease.owner = c
        /\ UNCHANGED <<ledger, retired, provider>>
        /\ \/ /\ blobs' = blobs \cup {<<f, work[c].version>>}
              /\ Go(c, [work[c] EXCEPT !.left = @ \ {f}])
           \/ Failing(c, Serving) /\ UNCHANGED blobs
    BY DEF Transfer, At
  <1>2. UNCHANGED <<s, ticket, pin, pub, tomb, cleanups, lease, hold, retired, remote, out, doomed, asked>>
    BY <1>1 DEF ledger, provider
  <1>3. work[c] \in Works /\ work[c].version \in Versions
    BY <1>1, WorkTypes DEF WorkOK
  <1>4. CASE Failing(c, Serving) /\ UNCHANGED blobs
    <2>1. Serving \in BOOLEAN /\ UNCHANGED <<ledger, local, provider, job, sweep>>
      BY <1>1, <1>4 DEF Serving, local
    <2>. QED  BY <1>4, <2>1, FailingStep
  <1>5. CASE /\ blobs' = blobs \cup {<<f, work[c].version>>}
             /\ Go(c, [work[c] EXCEPT !.left = @ \ {f}])
    <2>. DEFINE w == [work[c] EXCEPT !.left = @ \ {f}]
    <2>1. w \in Works /\ w.pc = "transfer" /\ w.version = work[c].version
      BY <1>1, <1>3 DEF Works
    <2>2. Go(c, w)
      BY <1>5
    <2>. HIDE DEF w
    <2>3. blobs \subseteq blobs'
      BY <1>5
    <2>4. work' \in [Collectors -> Works] /\ WorkInv'
      BY <1>2, <1>3, <2>1, <2>2, <2>3, WorkStep
    <2>5. Types'
      BY <1>2, <2>4 DEF IInv, Types, Latest
    <2>6. pub = 0 /\ sweep.pc = "idle" /\ \A g \in Everything : tomb[g] = "none"
      BY <1>1, OwnerUnpublished
    <2>7. FileInv'
      BY <1>2, <2>6 DEF FileInv, FileOK
    <2>8. SweepInv'
      BY <2>6 DEF SweepInv
    <2>9. StateInv' /\ TicketInv' /\ TransferExcludesDeletion'
      BY <1>2, CollectingFrame DEF IInv
    <2>10. DeletingHalf'
      BY <1>2, DeletingFrame DEF IInv
    <2>. QED  BY <2>4, <2>5, <2>7, <2>8, <2>9, <2>10 DEF IInv, CollectingHalf
  <1>. QED  BY <1>1, <1>4, <1>5

\* Publication: every file of the pinned version is here.
LEMMA CompleteCollectionStep ==
    ASSUME IInv, NEW c \in Collectors, CompleteCollection(c), UNCHANGED <<job, sweep>>
    PROVE  IInv'
  <1>. DEFINE final == FinalState(s, work[c].version \in Completed)
  <1>1. /\ work[c].pc = "publish" /\ OwnsCollection(c) /\ work[c].version = pin
        /\ pub = 0 /\ ValidState(final)
        /\ pub' = pin /\ tomb' = [f \in Everything |-> "kept"]
        /\ s' = final /\ ticket' = "succeeded" /\ lease' = Free /\ Go(c, NoWork)
        /\ UNCHANGED <<pin, cleanups, hold, blobs, retired, remote, out, doomed, asked>>
    BY DEF CompleteCollection, At, local, provider, ValidTransition
  <1>2. s \in AttemptStates /\ s.result = "collecting" /\ Executed /\ lease.owner = c
    BY <1>1 DEF OwnsCollection, IInv, CollectingHalf, StateInv
  <1>3. /\ s' \in AttemptStates /\ s'.result = "available"
        /\ s'.exec = s.exec /\ s'.remote = s.remote
    <2>. DEFINE b == work[c].version \in Completed
    <2>1. b \in BOOLEAN
      OBVIOUS
    <2>2. s' = FinalState(s, b)
      BY <1>1
    <2>. HIDE DEF b, final
    <2>. QED  BY <1>2, <2>1, <2>2, FinalFacts
  <1>. HIDE DEF final
  <1>4. pin \in Versions /\ \A f \in Everything : Present(f, pin)
    BY <1>1, WorkTypes DEF WorkOK
  <1>5. pub' # 0 /\ pub' \in 0..MaxVersion
    BY <1>1, <1>4, ResultAssumption DEF Versions
  <1>6. StateInv'
    BY <1>1, <1>2, <1>3, StateMoves
  <1>7. lease' \in Leases(Collectors) /\ lease'.owner = Nobody /\ ~lease'.live
    BY <1>1 DEF Leases, Free
  <1>8. TicketInv'
    BY <1>1, <1>3, <1>7 DEF TicketInv, TicketStaysServable, CollectingHasTicket
  <1>9. TransferExcludesDeletion'
    BY <1>7 DEF TransferExcludesDeletion
  <1>10. FileInv'
    BY <1>1, <1>4, <1>5 DEF FileInv, FileOK, Present
  <1>11. sweep.pc = "idle" /\ SweepInv'
    BY <1>2, OwnerUnpublished DEF SweepInv
  <1>12. NoWork \in Works /\ NoWork.pc = "idle"
    BY WorkTypes DEF NoWork
  <1>13. work' \in [Collectors -> Works] /\ WorkInv'
    BY <1>1, <1>5, <1>12, WorkStep
  <1>14. Types'
    BY <1>1, <1>5, <1>7, <1>13 DEF IInv, Types, Latest
  <1>15. DeletingHalf'
    BY <1>1, <1>3, DeletingFrame DEF IInv
  <1>. QED  BY <1>6, <1>8, <1>9, <1>10, <1>11, <1>13, <1>14, <1>15 DEF IInv, CollectingHalf

\* FailCollection: the ticket fails and the lease ends.
LEMMA FailCollectionStep ==
    ASSUME IInv, NEW c \in Collectors, FailCollection(c), UNCHANGED <<job, sweep>>
    PROVE  IInv'
  <1>. DEFINE r == IF work[c].invalid THEN "invalid" ELSE "incomplete"
  <1>0. r \in {"invalid", "incomplete"}
    OBVIOUS
  <1>1. /\ OwnsCollection(c) /\ ValidState([s EXCEPT !.orch = "needs_attention", !.result = r])
        /\ s' = [s EXCEPT !.orch = "needs_attention", !.result = r]
        /\ ticket' = "failed" /\ lease' = Free /\ Go(c, NoWork)
        /\ UNCHANGED <<pin, pub, tomb, cleanups, hold, blobs, retired, remote, out, doomed, asked>>
    BY DEF FailCollection, local, provider, ValidTransition
  <1>. HIDE DEF r
  <1>2. s \in AttemptStates /\ s.result = "collecting" /\ Executed /\ lease.owner = c
    BY <1>1 DEF OwnsCollection, IInv, CollectingHalf, StateInv
  <1>3. /\ s' \in AttemptStates /\ s'.result = r /\ s'.orch = "needs_attention"
        /\ s'.exec = s.exec /\ s'.remote = s.remote
    <2>1. r \in Results /\ "needs_attention" \in Orchestrations
      BY <1>0, SomeStates
    <2>2. s' = [s EXCEPT !.orch = "needs_attention", !.result = r]
      BY <1>1
    <2>. QED  BY <1>2, <2>1, <2>2 DEF AttemptStates
  <1>4. StateInv'
    BY <1>1, <1>2, <1>3, StateMoves, SomeStates
  <1>5. lease' \in Leases(Collectors) /\ lease'.owner = Nobody /\ ~lease'.live
    BY <1>1 DEF Leases, Free
  <1>6. pub = 0
    BY <1>2, OwnerUnpublished
  <1>7. TicketInv'
    BY <1>0, <1>1, <1>3, <1>5, <1>6 DEF TicketInv, TicketStaysServable, CollectingHasTicket
  <1>8. TransferExcludesDeletion'
    BY <1>5 DEF TransferExcludesDeletion
  <1>9. NoWork \in Works /\ NoWork.pc = "idle"
    BY WorkTypes DEF NoWork
  <1>10. work' \in [Collectors -> Works] /\ WorkInv'
    BY <1>1, <1>9, WorkStep
  <1>11. Types'
    BY <1>1, <1>5, <1>10 DEF IInv, Types, Latest
  <1>12. FileInv' /\ SweepInv'
    BY <1>1, CollectingFrame DEF IInv
  <1>13. DeletingHalf'
    BY <1>1, <1>3, DeletingFrame DEF IInv
  <1>. QED  BY <1>4, <1>7, <1>8, <1>10, <1>11, <1>12, <1>13 DEF IInv, CollectingHalf

\* The lease of the collection is given up or overtaken: nothing else moves.
LEMMA LeaseStep ==
    ASSUME IInv, lease' \in Leases(Collectors), lease'.owner = lease.owner, lease'.live => lease.live,
           UNCHANGED <<s, ticket, pin, pub, tomb, cleanups, hold, blobs, retired, remote, out,
                       doomed, asked, work, job, sweep>>
    PROVE  IInv'
  <1>1. PendingCleanup' = PendingCleanup
    BY DEF PendingCleanup
  <1>2. TicketInv'
    BY <1>1 DEF IInv, CollectingHalf, TicketInv, TicketStaysServable, CollectingHasTicket
  <1>3. TransferExcludesDeletion'
    BY <1>1 DEF IInv, CollectingHalf, TransferExcludesDeletion
  <1>4. StateInv' /\ FileInv' /\ SweepInv' /\ WorkInv'
    BY CollectingFrame DEF IInv
  <1>5. Types'
    BY DEF IInv, Types, Latest
  <1>6. DeletingHalf'
    BY DeletingFrame DEF IInv
  <1>. QED  BY <1>2, <1>3, <1>4, <1>5, <1>6 DEF IInv, CollectingHalf

\* A lease runs out; its session goes on.
LEMMA ExpireCollectionStep ==
    ASSUME IInv, ExpireCollectionLease, UNCHANGED <<job, sweep>>
    PROVE  IInv'
  <1>1. /\ lease' = [lease EXCEPT !.live = FALSE]
        /\ UNCHANGED <<s, ticket, pin, pub, tomb, cleanups, hold, blobs, retired, remote, out,
                       doomed, asked, work, job, sweep>>
    BY DEF ExpireCollectionLease, local, provider
  <1>2. lease \in Leases(Collectors)
    BY DEF IInv, Types
  <1>3. lease' \in Leases(Collectors) /\ lease'.owner = lease.owner /\ ~lease'.live
    BY <1>1, <1>2 DEF Leases
  <1>. QED  BY <1>1, <1>3, LeaseStep

\* A lease whose attempt was revised is the same lease, no longer current.
LEMMA Overtaking ==
    ASSUME NEW l \in Leases(Collectors)
    PROVE  /\ Overtaken(l) \in Leases(Collectors)
           /\ Overtaken(l).owner = l.owner /\ Overtaken(l).live = l.live
  BY DEF Leases, Overtaken

-----------------------------------------------------------------------------
(* Requests, retention of the local side, and the world outside.           *)

\* A collect request: a new ticket, refused while a cleanup is pending.
LEMMA RequestCollectStep ==
    ASSUME IInv, RequestCollect
    PROVE  IInv'
  <1>1. /\ Executed /\ s.result \notin {"available", "expired"} /\ ~PendingCleanup
        /\ ticket' = "accepted"
        /\ UNCHANGED <<s, pin, pub, tomb, cleanups, lease, hold, blobs, retired, remote, out,
                       doomed, asked, work, job, sweep>>
    BY DEF RequestCollect, local, provider
  <1>2. PendingCleanup' = PendingCleanup /\ Executed' = Executed
    BY <1>1 DEF PendingCleanup, Executed
  <1>3. StateInv'
    BY <1>1, <1>2 DEF IInv, CollectingHalf, StateInv
  <1>4. TicketInv'
    BY <1>1, <1>2 DEF IInv, CollectingHalf, StateInv, TicketInv, TicketStaysServable, CollectingHasTicket
  <1>5. TransferExcludesDeletion' /\ FileInv' /\ SweepInv' /\ WorkInv'
    BY <1>1, CollectingFrame DEF IInv
  <1>6. Types'
    BY <1>1 DEF IInv, Types, Latest
  <1>7. DeletingHalf'
    BY <1>1, DeletingFrame DEF IInv
  <1>. QED  BY <1>3, <1>4, <1>5, <1>6, <1>7 DEF IInv, CollectingHalf

\* An answer to a cancellation that comes after the end is a valid state.
LEMMA AnsweredValid ==
    ASSUME IInv, s.orch \notin OrchestrationTerminal
    PROVE  /\ Executed /\ Answered \in AttemptStates /\ ValidState(Answered)
           /\ Answered.orch = s.orch /\ Answered.result = s.result
           /\ Answered.exec = s.exec /\ Answered.remote = s.remote
  <1>1. /\ s \in AttemptStates /\ ValidState(s) /\ Executed
        /\ s.exec \in ExecutionTerminal /\ s.remote = "inactive"
    BY DEF IInv, CollectingHalf, StateInv
  <1>. DEFINE x == IF s.exec = "cancelled" THEN "confirmed" ELSE "too_late"
  <1>2. x \in Cancellations /\ x \in {"confirmed", "too_late"} /\ (x = "confirmed" => s.exec = "cancelled")
    BY DEF Cancellations
  <1>3. Answered = [s EXCEPT !.cancel = x]
    BY DEF Answered
  <1>. HIDE DEF x
  <1>4. /\ Answered \in AttemptStates
        /\ Answered.orch = s.orch /\ Answered.result = s.result
        /\ Answered.exec = s.exec /\ Answered.remote = s.remote
        /\ Answered.cancel = x /\ Answered.release = s.release /\ Answered.deadline = s.deadline
    BY <1>1, <1>2, <1>3 DEF AttemptStates
  <1>5. ExecutionConsistent(Answered) /\ ResultConsistent(Answered) /\ ReleaseConsistent(Answered)
    BY <1>1, <1>4 DEF ValidState, ExecutionConsistent, ResultConsistent, ReleaseConsistent
  <1>6. CancellationConsistent(Answered)
    BY <1>1, <1>2, <1>4 DEF CancellationConsistent
  <1>7. OrchestrationConsistent(Answered)
    BY <1>1, <1>4 DEF ValidState, OrchestrationConsistent, OrchestrationTerminal
  <1>. QED  BY <1>1, <1>4, <1>5, <1>6, <1>7 DEF ValidState

\* A cancel request after the end only answers, and overtakes the session.
LEMMA RequestCancelStep ==
    ASSUME IInv, RequestCancel
    PROVE  IInv'
  <1>1. /\ s.orch \notin OrchestrationTerminal /\ s' = Answered /\ lease' = Overtaken(lease)
        /\ UNCHANGED <<ticket, pin, pub, tomb, cleanups, hold, blobs, retired, remote, out,
                       doomed, asked, work, job, sweep>>
    BY DEF RequestCancel, local, provider
  <1>2. /\ Executed /\ s' \in AttemptStates /\ ValidState(s')
        /\ s'.orch = s.orch /\ s'.result = s.result /\ s'.exec = s.exec /\ s'.remote = s.remote
    BY <1>1, AnsweredValid
  <1>3. lease' \in Leases(Collectors) /\ lease'.owner = lease.owner /\ lease'.live = lease.live
    BY <1>1, Overtaking DEF IInv, Types
  <1>4. StateInv'
    BY <1>1, <1>2, StateMoves
  <1>5. PendingCleanup' = PendingCleanup
    BY <1>1 DEF PendingCleanup
  <1>6. TicketInv'
    BY <1>1, <1>2, <1>3, <1>5
      DEF IInv, CollectingHalf, TicketInv, TicketStaysServable, CollectingHasTicket
  <1>7. TransferExcludesDeletion'
    BY <1>1, <1>3, <1>5 DEF IInv, CollectingHalf, TransferExcludesDeletion
  <1>8. FileInv' /\ SweepInv' /\ WorkInv'
    BY <1>1, CollectingFrame DEF IInv
  <1>9. Types'
    BY <1>1, <1>3 DEF IInv, Types, Latest
  <1>10. DeletingHalf'
    BY <1>1, <1>2, DeletingFrame DEF IInv
  <1>. QED  BY <1>4, <1>6, <1>7, <1>8, <1>9, <1>10 DEF IInv, CollectingHalf

\* An expired result is a valid state wherever an available one was.
LEMMA ExpiredValid ==
    ASSUME NEW t \in AttemptStates, ValidState(t), t.result = "available"
    PROVE  LET u == [t EXCEPT !.result = "expired"]
           IN  /\ u \in AttemptStates /\ ValidState(u) /\ u.result = "expired"
               /\ u.orch = t.orch /\ u.exec = t.exec /\ u.remote = t.remote
  <1>. DEFINE u == [t EXCEPT !.result = "expired"]
  <1>0. "expired" \in Results
    BY SomeStates
  <1>1. /\ u \in AttemptStates /\ u.result = "expired"
        /\ u.orch = t.orch /\ u.exec = t.exec /\ u.remote = t.remote
        /\ u.cancel = t.cancel /\ u.release = t.release /\ u.deadline = t.deadline
    BY <1>0 DEF AttemptStates
  <1>. HIDE DEF u
  <1>2. ExecutionConsistent(u) /\ CancellationConsistent(u) /\ ReleaseConsistent(u)
    BY <1>1 DEF ValidState, ExecutionConsistent, CancellationConsistent, ReleaseConsistent
  <1>3. ResultConsistent(u)
    BY <1>1 DEF ValidState, ResultConsistent
  <1>4. OrchestrationConsistent(u)
    BY <1>1 DEF ValidState, OrchestrationConsistent
  <1>5. ValidState(u)
    BY <1>2, <1>3, <1>4 DEF ValidState
  <1>. QED  BY <1>1, <1>5 DEF u

\* Local expiry: only of what is published, with no ticket open.
LEMMA TombstoneStep ==
    ASSUME IInv, Tombstone
    PROVE  IInv'
  <1>1. /\ ticket # "accepted" /\ pub # 0 /\ s.result = "available"
        /\ s' = [s EXCEPT !.result = "expired"] /\ tomb' = [f \in Everything |-> "expired"]
        /\ lease' = Overtaken(lease)
        /\ UNCHANGED <<ticket, pin, pub, cleanups, hold, blobs, retired, remote, out,
                       doomed, asked, work, job, sweep>>
    BY DEF Tombstone, Releasable, local, provider
  <1>2. s \in AttemptStates /\ ValidState(s) /\ Executed
    BY <1>1 DEF IInv, CollectingHalf, StateInv
  <1>3. /\ s' \in AttemptStates /\ ValidState(s') /\ s'.result = "expired"
        /\ s'.orch = s.orch /\ s'.exec = s.exec /\ s'.remote = s.remote
    BY <1>1, <1>2, ExpiredValid
  <1>4. lease' \in Leases(Collectors) /\ lease'.owner = lease.owner /\ lease'.live = lease.live
    BY <1>1, Overtaking DEF IInv, Types
  <1>5. StateInv'
    BY <1>1, <1>2, <1>3, StateMoves
  <1>6. PendingCleanup' = PendingCleanup
    BY <1>1 DEF PendingCleanup
  <1>7. TicketInv'
    BY <1>1, <1>3, <1>4
      DEF IInv, CollectingHalf, TicketInv, TicketStaysServable, CollectingHasTicket
  <1>8. TransferExcludesDeletion'
    BY <1>1, <1>4, <1>6 DEF IInv, CollectingHalf, TransferExcludesDeletion
  <1>9. tomb' \in [Everything -> {"none", "kept", "expired", "deleted"}]
    BY <1>1
  <1>10. FileInv'
    BY <1>1 DEF IInv, CollectingHalf, FileInv, FileOK
  <1>11. SweepInv'
    BY <1>1 DEF IInv, CollectingHalf, SweepInv
  <1>12. WorkInv'
    BY <1>1, CollectingFrame DEF IInv
  <1>13. Types'
    BY <1>1, <1>4, <1>9 DEF IInv, Types, Latest
  <1>14. DeletingHalf'
    BY <1>1, <1>3, DeletingFrame DEF IInv
  <1>. QED  BY <1>5, <1>7, <1>8, <1>10, <1>11, <1>12, <1>13, <1>14 DEF IInv, CollectingHalf

\* The types of the sweep.
LEMMA SweepFacts ==
    ASSUME IInv
    PROVE  /\ sweep \in Sweeps /\ Resting \in Sweeps
           /\ tomb \in [Everything -> {"none", "kept", "expired", "deleted"}]
           /\ pub # 0 => pub = pin
           /\ \A f \in Everything : FileOK(f)
  <1>1. Resting \in Sweeps
    BY DEF Resting, Sweeps
  <1>. QED  BY <1>1 DEF IInv, Types, CollectingHalf, FileInv

\* A step of the sweeper keeps the invariant if it keeps what is known of files and sweep.
LEMMA SweeperStep ==
    ASSUME IInv, UNCHANGED <<s, ticket, pin, pub, cleanups, lease, hold, remote, out, doomed,
                             asked, work, job>>,
           tomb' \in [Everything -> {"none", "kept", "expired", "deleted"}],
           sweep' \in Sweeps, FileInv', SweepInv', blobs' = blobs \/ pub # 0
    PROVE  IInv'
  <1>1. Types'
    BY DEF IInv, Types, Latest
  <1>2. StateInv' /\ TicketInv' /\ TransferExcludesDeletion'
    BY CollectingFrame DEF IInv
  <1>3. WorkInv'
    BY DEF IInv, CollectingHalf, WorkInv, WorkOK, Present
  <1>4. DeletingHalf'
    BY DeletingFrame DEF IInv
  <1>. QED  BY <1>1, <1>2, <1>3, <1>4 DEF IInv, CollectingHalf

\* The sweep takes a tombstone that is not completed.
LEMMA PickStep ==
    ASSUME IInv, NEW f \in Everything, PickTombstone(f)
    PROVE  IInv'
  <1>1. /\ tomb[f] = "expired" /\ sweep' = [pc |-> "delete", file |-> f]
        /\ UNCHANGED <<s, ticket, pin, pub, cleanups, lease, hold, remote, out, doomed,
                       asked, work, job, tomb, blobs, retired>>
    BY DEF PickTombstone, ledger, local, provider
  <1>2. pub # 0
    BY <1>1, SweepFacts DEF FileOK
  <1>3. sweep' \in Sweeps
    BY <1>1 DEF Sweeps
  <1>4. FileInv'
    BY <1>1, CollectingFrame DEF IInv
  <1>5. SweepInv'
    BY <1>1, <1>2 DEF SweepInv
  <1>. QED  BY <1>1, <1>3, <1>4, <1>5, SweepFacts, SweeperStep

\* Delete and its second half: the file is renamed into quarantine, then removed.
LEMMA DeleteStep ==
    ASSUME IInv, Delete \/ RemoveRetired
    PROVE  IInv'
  <1>. DEFINE f == sweep.file
              blob == <<f, pub>>
  <1>1. UNCHANGED <<s, ticket, pin, pub, cleanups, lease, hold, remote, out, doomed,
                       asked, work, job, tomb>>
    BY DEF Delete, RemoveRetired, Unswept, ledger, provider
  <1>2. sweep.pc # "idle" /\ sweep \in Sweeps
    BY SweepFacts DEF Delete, RemoveRetired
  <1>3. pub # 0 /\ f \in Everything /\ tomb[f] = "expired"
    BY <1>2 DEF IInv, CollectingHalf, SweepInv
  <1>4. /\ blobs' \in {blobs, blobs \ {blob}}
        /\ retired' \in {retired \cup {blob}, retired \ {blob}}
    BY DEF Delete, RemoveRetired
  <1>5. sweep' \in Sweeps /\ sweep'.file = f /\ sweep'.pc \in {"remove", "complete"}
    <2>1. sweep' \in {[sweep EXCEPT !.pc = "remove"], [sweep EXCEPT !.pc = "complete"]}
      BY DEF Delete, RemoveRetired
    <2>. QED  BY <1>2, <2>1 DEF Sweeps
  <1>6. blob \notin blobs' /\ (sweep'.pc = "complete" => blob \notin retired')
    <2>1. CASE Delete
      <3>1. CASE blob \in blobs
        BY <1>2, <2>1, <3>1 DEF Delete, Sweeps
      <3>2. CASE blob \notin blobs
        BY <2>1, <3>2 DEF Delete
      <3>. QED  BY <3>1, <3>2
    <2>2. CASE RemoveRetired
      <3>1. sweep.pc = "remove" /\ blobs' = blobs /\ retired' = retired \ {blob}
        BY <2>2 DEF RemoveRetired
      <3>2. blob \notin blobs
        BY <3>1 DEF IInv, CollectingHalf, SweepInv
      <3>. QED  BY <3>1, <3>2
    <2>. QED  BY <2>1, <2>2
  <1>7. ASSUME NEW g \in Everything PROVE FileOK(g)'
    <2>1. FileOK(g)
      BY SweepFacts
    <2>2. CASE g = f
      BY <1>1, <1>3, <2>1, <2>2 DEF FileOK
    <2>3. CASE g # f
      <3>1. <<g, pub>> # blob
        BY <2>3
      <3>2. (<<g, pub>> \in blobs' <=> <<g, pub>> \in blobs) /\ (<<g, pub>> \in retired' <=> <<g, pub>> \in retired)
        BY <1>4, <3>1
      <3>. QED  BY <1>1, <2>1, <3>2 DEF FileOK, Present
    <2>. QED  BY <2>2, <2>3
  <1>8. FileInv'
    BY <1>1, <1>7, SweepFacts DEF FileInv
  <1>9. SweepInv'
    BY <1>1, <1>3, <1>5, <1>6 DEF SweepInv
  <1>. HIDE DEF f, blob
  <1>. QED  BY <1>1, <1>3, <1>5, <1>8, <1>9, SweepFacts, SweeperStep

\* CompleteRetention: acknowledged only after the removal.
LEMMA CompleteRetentionStep ==
    ASSUME IInv, CompleteRetention
    PROVE  IInv'
  <1>1. /\ sweep.pc = "complete" /\ tomb' = [tomb EXCEPT ![sweep.file] = "deleted"] /\ sweep' = Resting
        /\ UNCHANGED <<s, ticket, pin, pub, cleanups, lease, hold, remote, out, doomed,
                       asked, work, job, blobs, retired>>
    BY DEF CompleteRetention, local, provider
  <1>2. /\ pub # 0 /\ sweep.file \in Everything
        /\ <<sweep.file, pub>> \notin blobs /\ <<sweep.file, pub>> \notin retired
    BY <1>1 DEF IInv, CollectingHalf, SweepInv
  <1>3. /\ tomb' \in [Everything -> {"none", "kept", "expired", "deleted"}]
        /\ tomb'[sweep.file] = "deleted"
        /\ \A g \in Everything : g # sweep.file => tomb'[g] = tomb[g]
    BY <1>1, <1>2, SweepFacts
  <1>4. ASSUME NEW g \in Everything PROVE FileOK(g)'
    <2>1. FileOK(g)
      BY SweepFacts
    <2>2. CASE g = sweep.file
      BY <1>1, <1>2, <1>3, <2>2 DEF FileOK
    <2>3. CASE g # sweep.file
      BY <1>1, <1>3, <2>1, <2>3 DEF FileOK, Present
    <2>. QED  BY <2>2, <2>3
  <1>5. FileInv'
    BY <1>1, <1>4, SweepFacts DEF FileInv
  <1>6. SweepInv'
    BY <1>1 DEF SweepInv, Resting
  <1>. QED  BY <1>1, <1>3, <1>5, <1>6, SweepFacts, SweeperStep

\* A sweep that fails leaves its tombstone for the next one.
LEMMA SweepErrorStep ==
    ASSUME IInv, SweepError
    PROVE  IInv'
  <1>1. /\ sweep' = Resting
        /\ UNCHANGED <<s, ticket, pin, pub, cleanups, lease, hold, remote, out, doomed,
                       asked, work, job, tomb, blobs, retired>>
    BY DEF SweepError, ledger, local, provider
  <1>2. FileInv'
    BY <1>1, CollectingFrame DEF IInv
  <1>3. SweepInv'
    BY <1>1 DEF SweepInv, Resting
  <1>. QED  BY <1>1, <1>2, <1>3, SweepFacts, SweeperStep

\* Steps that no part of the invariant looks at.
LEMMA OutsideStep ==
    ASSUME IInv, out' \in Versions,
           UNCHANGED <<s, ticket, pin, pub, tomb, cleanups, lease, hold, blobs, retired, remote,
                       doomed, asked, work, job, sweep>>
    PROVE  IInv'
  <1>1. Types'
    BY DEF IInv, Types, Latest
  <1>2. CollectingHalf'
    BY CollectingFrame DEF IInv, CollectingHalf
  <1>3. DeletingHalf'
    BY DeletingFrame DEF IInv
  <1>. QED  BY <1>1, <1>2, <1>3 DEF IInv

\* The owner rewrites an output, another attempt records an object, the dispatcher's
\* lease ends, time passes.
LEMMA WorldStep ==
    ASSUME IInv, Rewrite \/ Share \/ DispatchEnds \/ \E kind \in Kinds : Tick(kind)
    PROVE  IInv'
  <1>1. out \in Versions /\ MaxVersion \in Nat
    BY ResultAssumption DEF IInv, Types
  <1>2. CASE Rewrite
    BY <1>1, <1>2, OutsideStep DEF Rewrite, ledger, local, Versions
  <1>3. CASE Share
    BY <1>1, <1>3, OutsideStep DEF Share, ledger, local
  <1>4. CASE \E kind \in Kinds : Tick(kind)
    BY <1>1, <1>4, OutsideStep DEF Tick, local, provider
  <1>5. CASE DispatchEnds
    BY <1>1, <1>5, OutsideStep DEF DispatchEnds, ledger, local
  <1>. QED  BY <1>2, <1>3, <1>4, <1>5

-----------------------------------------------------------------------------
(* Cleaners.                                                               *)

\* Only the session of k moves.
LEMMA JobMoves ==
    ASSUME IInv, NEW k \in Cleaners, NEW j \in Jobs, Set(k, j)
    PROVE  /\ job' \in [Cleaners -> Jobs] /\ job'[k] = j
           /\ \A l \in Cleaners : l # k => job'[l] = job[l]
  BY DEF IInv, Types, Set

\* While a cleanup is pending the collecting half rests: no ticket is accepted and no
\* lease runs.
LEMMA PendingRests ==
    ASSUME IInv, PendingCleanup
    PROVE  ticket # "accepted" /\ s.result # "collecting" /\ ~lease.live
  BY DEF IInv, CollectingHalf, TicketInv, TicketStaysServable, CollectingHasTicket,
         TransferExcludesDeletion

\* While a cleanup is pending and nothing of it moves, the collecting half holds.
LEMMA CollectingRests ==
    ASSUME IInv, PendingCleanup,
           UNCHANGED <<s, ticket, pin, pub, tomb, lease, blobs, retired, work, sweep>>
    PROVE  CollectingHalf'
  <1>1. ticket # "accepted" /\ s.result # "collecting" /\ ~lease.live
    BY PendingRests
  <1>2. TicketInv'
    BY <1>1 DEF IInv, CollectingHalf, TicketInv, TicketStaysServable, CollectingHasTicket
  <1>3. TransferExcludesDeletion'
    BY <1>1 DEF TransferExcludesDeletion
  <1>4. StateInv' /\ FileInv' /\ SweepInv' /\ WorkInv'
    BY CollectingFrame DEF IInv
  <1>. QED  BY <1>2, <1>3, <1>4 DEF CollectingHalf

\* A session's own step that commits nothing: the others see it send no more than before.
LEMMA QuietCleaner ==
    ASSUME IInv, NEW k \in Cleaners, NEW j \in Jobs, Set(k, j), j.pc # "call",
           UNCHANGED <<ledger, local, provider, work, sweep>>,
           JobOK(k)', CurrentOK(k)'
    PROVE  IInv'
  <1>0. /\ UNCHANGED <<s, ticket, pin, pub, tomb, cleanups, lease, hold, blobs, retired>>
        /\ UNCHANGED <<remote, out, doomed, asked, work, sweep>>
    BY DEF ledger, local, provider
  <1>1. /\ job' \in [Cleaners -> Jobs] /\ job'[k] = j
        /\ \A l \in Cleaners : l # k => job'[l] = job[l]
    BY JobMoves
  <1>2. Executed' = Executed /\ Roles' = Roles /\ RoleDom' = RoleDom /\ Latest' = Latest
    BY <1>0, RolesStay DEF Latest
  <1>3. \A l \in Cleaners : l # k => Role(l)' = Role(l)
    BY <1>1, <1>2 DEF Role
  <1>4. \A l \in Cleaners : Sending(l)' => l # k /\ Sending(l) /\ job'[l] = job[l] /\ Role(l)' = Role(l)
    BY <1>1, <1>3 DEF Sending
  <1>5. Safe' = Safe /\ \A i, r : Touched(i, r)' = Touched(i, r)
    BY <1>0, <1>2 DEF Safe, Touched
  <1>6. OpInv' /\ AskedInv'
    BY <1>0, <1>2, <1>5 DEF IInv, DeletingHalf, OpInv, OpOK, AskedInv, AskedOK, Target
  <1>7. AutoInv'
    BY <1>0, <1>2, <1>4 DEF IInv, DeletingHalf, AutoInv, AutoOK, SendsFor
  <1>8. JobInv'
    <2>1. ASSUME NEW l \in Cleaners, l # k PROVE JobOK(l)'
      <3>1. JobOK(l) /\ job'[l] = job[l] /\ Role(l)' = Role(l)
        BY <1>1, <1>3, <2>1 DEF IInv, DeletingHalf, JobInv
      <3>. QED  BY <1>0, <1>2, <3>1 DEF JobOK, Busy, Target
    <2>. QED  BY <2>1 DEF JobInv
  <1>9. SendInv'
    <2>1. ASSUME NEW l \in Cleaners, Sending(l)' PROVE SendOK(l)'
      <3>1. SendOK(l) /\ Sending(l) /\ job'[l] = job[l] /\ Role(l)' = Role(l)
        BY <1>4, <2>1 DEF IInv, DeletingHalf, SendInv
      <3>2. Touched(job[l].op, Role(l))' = Touched(job[l].op, Role(l))
        BY <1>0, <3>1 DEF Touched
      <3>. QED  BY <1>0, <1>2, <1>5, <3>1, <3>2 DEF SendOK, Fresh, Target
    <2>. QED  BY <2>1 DEF SendInv, SendOK
  <1>10. AloneInv'
    BY <1>4 DEF IInv, DeletingHalf, AloneInv, AloneOK, Fresh
  <1>11. CurrentInv'
    <2>1. ASSUME NEW l \in Cleaners, l # k PROVE CurrentOK(l)'
      <3>1. CurrentOK(l) /\ job'[l] = job[l]
        BY <1>1, <2>1 DEF IInv, DeletingHalf, CurrentInv
      <3>2. Current(l)' = Current(l) /\ \A i : Ahead(l, i)' = Ahead(l, i) /\ Unsent(l, i)' = Unsent(l, i)
        BY <1>0, <1>2, <3>1 DEF Current, Busy, Ahead, Unsent
      <3>. QED  BY <1>0, <1>2, <1>4, <3>1, <3>2 DEF CurrentOK
    <2>. QED  BY <2>1 DEF CurrentInv
  <1>12. DoomInv'
    BY <1>0, <1>5 DEF IInv, DeletingHalf, DoomInv, Target
  <1>13. StagingOutlivesExecution'
    BY <1>0, <1>2 DEF IInv, DeletingHalf, StagingOutlivesExecution
  <1>14. CollectingHalf'
    BY <1>0, CollectingFrame DEF IInv, CollectingHalf
  <1>15. Types'
    BY <1>0, <1>1 DEF IInv, Types, Latest
  <1>. QED  BY <1>6, <1>7, <1>8, <1>9, <1>10, <1>11, <1>12, <1>13, <1>14, <1>15 DEF IInv, DeletingHalf

\* A session at work is at a resource of an operation on record.
LEMMA BusyFacts ==
    ASSUME IInv, NEW k \in Cleaners, Busy(k)
    PROVE  /\ job[k] \in Jobs /\ job[k].op \in 1..Latest /\ job[k].item \in DOMAIN Roles
           /\ job[k].op \in 1..MaxCleanups /\ job[k].op \in Nat /\ job[k].item \in Nat
           /\ job[k].loaded \in [RoleDom -> ResourceStates]
           /\ Role(k) \in RoleDom /\ Role(k) \in RoleSet /\ Role(k) = Roles[job[k].item]
           /\ job[k].loaded[Role(k)] \in ResourceStates
           /\ JobOK(k) /\ SendOK(k) /\ CurrentOK(k)
  <1>1. JobOK(k) /\ SendOK(k) /\ CurrentOK(k) /\ job[k] \in Jobs
    BY DEF IInv, Types, DeletingHalf, JobInv, SendInv, CurrentInv
  <1>2. /\ job[k].op \in 1..Latest /\ job[k].item \in DOMAIN Roles
        /\ job[k].loaded \in [RoleDom -> ResourceStates]
    BY <1>1 DEF JobOK
  <1>3. Role(k) \in RoleDom /\ Role(k) \in RoleSet /\ Role(k) = Roles[job[k].item]
    BY <1>2, RoleFacts DEF Role
  <1>4. job[k].op \in 1..MaxCleanups
    BY <1>2, Shapes DEF IInv
  <1>5. job[k].op \in Nat /\ job[k].item \in Nat
    BY <1>1 DEF Jobs
  <1>6. job[k].loaded[Role(k)] \in ResourceStates
    BY <1>2, <1>3
  <1>. QED  BY <1>1, <1>2, <1>3, <1>4, <1>5, <1>6

\* What a session may still find untouched, before it commits an intent.
LEMMA LookingUnsent ==
    ASSUME IInv, NEW k \in Cleaners, Busy(k), job[k].pc \in {"look", "begin"}, Current(k), Fresh(k)
    PROVE  asked[Latest][Role(k)] = 0
  <1>1. CurrentOK(k) /\ job[k].item \in DOMAIN Roles /\ Role(k) = Roles[job[k].item]
    BY BusyFacts
  <1>. QED  BY <1>1 DEF CurrentOK, Unsent, Ahead, Fresh

\* A session learns what became of its resource.
LEMMA FindingStep ==
    ASSUME IInv, NEW k \in Cleaners, Busy(k),
           NEW o \in {"retained", "failed", "unknown"} \cup Confirmed, Finding(k, o),
           job[k].loaded[Role(k)] \in {"pending", "running"},
           o \in Confirmed => Target(Role(k)) \notin remote,
           o \in {"retained", "failed"} /\ Current(k) /\ Fresh(k) => asked[Latest][Role(k)] = 0,
           UNCHANGED <<ledger, local, provider, work, sweep>>
    PROVE  IInv'
  <1>. DEFINE j == [job[k] EXCEPT !.pc = "record", !.outcome = o]
  <1>0. UNCHANGED <<s, cleanups, hold, remote, asked>>
    BY DEF ledger, provider
  <1>1. job[k] \in Jobs /\ CurrentOK(k) /\ JobOK(k)
    BY BusyFacts
  <1>2. o \in ResourceStates
    BY DEF ResourceStates, Confirmed
  <1>3. /\ j \in Jobs /\ j.pc = "record" /\ j.outcome = o
        /\ j.op = job[k].op /\ j.item = job[k].item /\ j.loaded = job[k].loaded
    BY <1>1, <1>2 DEF Jobs
  <1>4. Set(k, j)
    BY DEF Finding
  <1>. HIDE DEF j
  <1>5. job'[k] = j /\ \A l \in Cleaners : l # k => job'[l] = job[l]
    BY <1>3, <1>4, JobMoves
  <1>6. Executed' = Executed /\ Roles' = Roles /\ RoleDom' = RoleDom /\ Latest' = Latest
    BY <1>0, RolesStay DEF Latest
  <1>7. Role(k)' = Role(k) /\ \A l \in Cleaners : l # k => Role(l)' = Role(l)
    BY <1>3, <1>5, <1>6 DEF Role
  <1>8. JobOK(k)'
    BY <1>0, <1>1, <1>3, <1>5, <1>6, <1>7 DEF JobOK, Busy, Target
  <1>9. Current(k)' => Current(k)
    BY <1>0, <1>3, <1>5, <1>6 DEF Current
  <1>10. \A i \in DOMAIN Roles : Ahead(k, i)' => Ahead(k, i)
    BY <1>3, <1>5 DEF Ahead
  <1>11. \A i \in DOMAIN Roles : Unsent(k, i)' => Unsent(k, i) \/ (i = job[k].item /\ o \in {"retained", "failed"})
    BY <1>3, <1>5, <1>10 DEF Unsent
  <1>12. \A l \in Cleaners : l # k /\ Sending(l)' => Sending(l) /\ job'[l] = job[l] /\ Role(l)' = Role(l)
    BY <1>5, <1>7 DEF Sending
  <1>13. CurrentOK(k)'
    <2>. SUFFICES ASSUME Current(k)' PROVE CurrentOK(k)'
      BY DEF CurrentOK
    <2>1. Current(k) /\ job'[k].loaded = job[k].loaded
      BY <1>3, <1>5, <1>9
    <2>2. \A i \in DOMAIN Roles : Ahead(k, i)' => cleanups[Latest].res[Roles[i]] = job[k].loaded[Roles[i]]
      BY <1>1, <1>10, <2>1 DEF CurrentOK
    <2>3. \A i \in DOMAIN Roles : Unsent(k, i)' /\ job[k].loaded[Roles[i]] = "pending"
                                    => asked[Latest][Roles[i]] = 0
      BY <1>1, <1>11, <2>1 DEF CurrentOK, Fresh, Role
    <2>4. \A l \in Cleaners : l # k /\ Sending(l)' /\ job'[l].op = Latest => job[k].loaded[Role(l)'] # "pending"
      BY <1>1, <1>12, <2>1 DEF CurrentOK
    <2>. QED  BY <1>0, <1>6, <2>1, <2>2, <2>3, <2>4 DEF CurrentOK
  <1>. QED  BY <1>3, <1>4, <1>8, <1>13, QuietCleaner

\* The next item of the work, or its end.
LEMMA NextFacts ==
    ASSUME IInv, NEW k \in Cleaners, Busy(k), NEW b \in BOOLEAN, NextItem(k, b)
    PROVE  \E j \in Jobs :
             /\ Set(k, j) /\ j.op = job[k].op /\ j.loaded = job[k].loaded
             /\ j.item \in DOMAIN Roles
             /\ \/ j.pc = "look" /\ j.item = job[k].item + 1
                \/ j.pc = "finish" /\ j.item = job[k].item /\ job[k].item = Len(Roles)
  <1>. DEFINE more == job[k].item < Len(Roles)
              p == IF more THEN "look" ELSE "finish"
              n == IF more THEN job[k].item + 1 ELSE job[k].item
              u == job[k].unresolved \/ ~b
              j == [job[k] EXCEPT !.pc = p, !.item = n, !.outcome = "pending", !.unresolved = u]
  <1>1. job[k] \in Jobs /\ job[k].item \in DOMAIN Roles /\ job[k].item \in Nat
    BY BusyFacts
  <1>2. /\ p \in {"look", "finish"} /\ n \in Nat /\ u \in BOOLEAN /\ n \in DOMAIN Roles
        /\ \/ p = "look" /\ n = job[k].item + 1
           \/ p = "finish" /\ n = job[k].item /\ job[k].item = Len(Roles)
    BY <1>1, RoleFacts
  <1>3. Set(k, j)
    BY DEF NextItem
  <1>4. "pending" \in ResourceStates
    BY DEF ResourceStates
  <1>. HIDE DEF more, p, n, u
  <1>5. j \in Jobs /\ j.op = job[k].op /\ j.loaded = job[k].loaded /\ j.pc = p /\ j.item = n
    BY <1>1, <1>2, <1>4 DEF Jobs
  <1>. HIDE DEF j
  <1>. QED  BY <1>2, <1>3, <1>5

\* The sessions' own steps that keep the operation and what was loaded of it.
LEMMA LookStep ==
    ASSUME IInv, NEW k \in Cleaners, Look(k), UNCHANGED <<work, sweep>>
    PROVE  IInv'
  <1>1. job[k].pc = "look" /\ Busy(k) /\ UNCHANGED <<ledger, local, provider>>
    BY DEF Look, Doing, Busy
  <1>2. UNCHANGED <<s, cleanups, hold, remote, asked>>
    BY <1>1 DEF ledger, provider
  <1>3. /\ job[k] \in Jobs /\ CurrentOK(k) /\ JobOK(k) /\ job[k].item \in DOMAIN Roles
        /\ job[k].item \in Nat
    BY <1>1, BusyFacts
  <1>4. Executed' = Executed /\ Roles' = Roles /\ RoleDom' = RoleDom /\ Latest' = Latest
    BY <1>2, RolesStay DEF Latest
  <1>5. CASE job[k].loaded[Role(k)] \notin {"pending", "running"}
    <2>. DEFINE b == job[k].loaded[Role(k)] \in Confirmed
    <2>1. b \in BOOLEAN /\ NextItem(k, b)
      BY <1>5 DEF Look
    <2>. HIDE DEF b
    <2>2. PICK j \in Jobs :
             /\ Set(k, j) /\ j.op = job[k].op /\ j.loaded = job[k].loaded
             /\ j.item \in DOMAIN Roles
             /\ \/ j.pc = "look" /\ j.item = job[k].item + 1
                \/ j.pc = "finish" /\ j.item = job[k].item /\ job[k].item = Len(Roles)
      BY <1>1, <2>1, NextFacts
    <2>3. job'[k] = j /\ \A l \in Cleaners : l # k => job'[l] = job[l]
      BY <2>2, JobMoves
    <2>4. JobOK(k)'
      BY <1>1, <1>3, <1>4, <2>2, <2>3 DEF JobOK, Busy
    <2>5. \A i \in DOMAIN Roles : (Ahead(k, i)' => Ahead(k, i)) /\ (Unsent(k, i)' => Unsent(k, i))
      <3>1. \A i \in DOMAIN Roles : i \in Nat /\ i <= Len(Roles)
        BY RoleFacts
      <3>2. Len(Roles) \in Nat
        BY RoleFacts
      <3>. QED  BY <1>3, <2>2, <2>3, <3>1, <3>2 DEF Ahead, Unsent
    <2>6. CurrentOK(k)'
      BY <1>1, <1>2, <1>3, <1>4, <2>2, <2>3, <2>5 DEF CurrentOK, Current, Sending, Role
    <2>. QED  BY <1>1, <2>2, <2>4, <2>6, QuietCleaner
  <1>6. CASE job[k].loaded[Role(k)] \in {"pending", "running"} /\ Finding(k, "retained")
    <2>1. Current(k) /\ Fresh(k) => asked[Latest][Role(k)] = 0
      BY <1>1, LookingUnsent
    <2>2. "retained" \notin Confirmed
      BY DEF Confirmed
    <2>. QED  BY <1>1, <1>6, <2>1, <2>2, FindingStep
  <1>7. CASE job[k].loaded[Role(k)] \in {"pending", "running"} /\ Set(k, [job[k] EXCEPT !.pc = "begin"])
    <2>. DEFINE j == [job[k] EXCEPT !.pc = "begin"]
    <2>1. /\ j \in Jobs /\ j.pc = "begin" /\ j.op = job[k].op /\ j.item = job[k].item
          /\ j.loaded = job[k].loaded
      BY <1>3 DEF Jobs
    <2>2. Set(k, j)
      BY <1>7
    <2>. HIDE DEF j
    <2>3. job'[k] = j /\ \A l \in Cleaners : l # k => job'[l] = job[l]
      BY <2>1, <2>2, JobMoves
    <2>4. Role(k)' = Role(k)
      BY <1>4, <2>1, <2>3 DEF Role
    <2>5. JobOK(k)'
      BY <1>1, <1>3, <1>4, <1>7, <2>1, <2>3, <2>4 DEF JobOK, Busy
    <2>6. \A i \in DOMAIN Roles : (Ahead(k, i)' => Ahead(k, i)) /\ (Unsent(k, i)' => Unsent(k, i))
      BY <1>1, <2>1, <2>3 DEF Ahead, Unsent
    <2>7. CurrentOK(k)'
      BY <1>1, <1>2, <1>3, <1>4, <2>1, <2>3, <2>6 DEF CurrentOK, Current, Sending, Role
    <2>. QED  BY <1>1, <2>1, <2>2, <2>5, <2>7, QuietCleaner
  <1>. QED  BY <1>5, <1>6, <1>7 DEF Look

\* A session of the cleanup that ends without another write.
LEMMA EndJob ==
    ASSUME IInv, NEW k \in Cleaners, Set(k, NoJob), UNCHANGED <<ledger, local, provider, work, sweep>>
    PROVE  IInv'
  <1>1. NoJob \in Jobs /\ NoJob.pc = "idle"
    BY DEF NoJob, Jobs, ResourceStates
  <1>2. job'[k] = NoJob
    BY <1>1, JobMoves
  <1>3. JobOK(k)' /\ CurrentOK(k)'
    BY <1>1, <1>2 DEF JobOK, CurrentOK, Current, Busy
  <1>. QED  BY <1>1, <1>3, QuietCleaner

\* Only a fresh intent sends; every other end of the call is a finding.
LEMMA QuietCalls ==
    ASSUME IInv, NEW k \in Cleaners, UNCHANGED <<work, sweep>>,
           \/ Call(k) /\ UNCHANGED asked /\ UNCHANGED doomed /\ job'[k].pc = "record"
           \/ Reply(k) \/ LoseCleanup(k) \/ AbandonCleanup(k)
    PROVE  IInv'
  <1>1. CASE Call(k) /\ UNCHANGED asked /\ UNCHANGED doomed /\ job'[k].pc = "record"
    <2>1. job[k].pc = "call" /\ Busy(k) /\ UNCHANGED <<ledger, local, provider>>
      BY <1>1 DEF Call, Doing, Busy, provider
    <2>2. JobOK(k) /\ SendOK(k) /\ job[k] \in Jobs
      BY <2>1, BusyFacts
    <2>3. job[k].loaded[Role(k)] \in {"pending", "running"}
      BY <2>1, <2>2 DEF JobOK
    <2>4. Current(k) /\ Fresh(k) => asked[Latest][Role(k)] = 0
      BY <2>1, <2>2 DEF SendOK, Sending, Current
    <2>5. PICK o \in {"absent", "retained", "failed", "unknown"} :
             Finding(k, o) /\ (o = "absent" => Target(Role(k)) \notin remote)
      <3>1. ~Send(k)
        <4>1. [job[k] EXCEPT !.pc = "reply"] \in Jobs /\ [job[k] EXCEPT !.pc = "reply"].pc = "reply"
          BY <2>2 DEF Jobs
        <4>2. Send(k) => job'[k].pc = "reply"
          BY <4>1, JobMoves DEF Send
        <4>. QED  BY <1>1, <4>2
      <3>. QED  BY <1>1, <3>1 DEF Call
    <2>6. o \in {"retained", "failed", "unknown"} \cup Confirmed /\ (o \in Confirmed => o = "absent")
      BY DEF Confirmed
    <2>. QED  BY <2>1, <2>3, <2>4, <2>5, <2>6, FindingStep
  <1>2. CASE Reply(k)
    <2>1. job[k].pc = "reply" /\ Busy(k) /\ UNCHANGED <<ledger, local, provider>>
      BY <1>2 DEF Reply, Doing, Busy
    <2>2. job[k].loaded[Role(k)] \in {"pending", "running"}
      BY <2>1, BusyFacts DEF JobOK
    <2>3. PICK o \in {"unknown"} \cup Confirmed :
             Finding(k, o) /\ (o \in Confirmed => Target(Role(k)) \notin remote)
      BY <1>2 DEF Reply, Confirmed
    <2>4. o \notin {"retained", "failed"} /\ o \in {"retained", "failed", "unknown"} \cup Confirmed
      BY DEF Confirmed
    <2>. QED  BY <2>1, <2>2, <2>3, <2>4, FindingStep
  <1>3. CASE LoseCleanup(k)
    BY <1>3, EndJob DEF LoseCleanup
  <1>4. CASE AbandonCleanup(k)
    BY <1>4, EndJob DEF AbandonCleanup
  <1>. QED  BY <1>1, <1>2, <1>3, <1>4

\* The delete leaves: the intent was fresh and alone, nothing had been sent for it, the
\* resource is not one an automatic cleanup may not touch again, and its loss is lawful.
LEMMA SendStep ==
    ASSUME IInv, NEW k \in Cleaners, Sending(k), Fresh(k), Target(Role(k)) \in remote, Send(k),
           UNCHANGED <<ledger, local, remote, out, work, sweep>>
    PROVE  IInv'
  <1>. DEFINE o == job[k].op
              r == Role(k)
              j == [job[k] EXCEPT !.pc = "reply"]
  <1>0. UNCHANGED <<s, ticket, pin, pub, tomb, cleanups, lease, hold, blobs, retired, remote, out, work, sweep>>
    BY DEF ledger, local
  <1>1. /\ Busy(k) /\ job[k] \in Jobs /\ job[k].item \in DOMAIN Roles /\ JobOK(k) /\ SendOK(k) /\ CurrentOK(k)
        /\ o \in 1..Latest /\ o \in 1..MaxCleanups /\ o \in Nat /\ r \in RoleDom /\ r \in RoleSet
        /\ r = Roles[job[k].item]
    BY BusyFacts DEF Sending, Busy
  <1>2. /\ j \in Jobs /\ j.pc = "reply" /\ j.op = o /\ j.item = job[k].item /\ j.loaded = job[k].loaded
    BY <1>1 DEF Jobs
  <1>3. Set(k, j) /\ asked' = [asked EXCEPT ![o][r] = @ + 1] /\ doomed' = doomed \cup {Target(r)}
    BY DEF Send
  <1>4. SendsFor(k, o, r)
    BY DEF SendsFor
  <1>. HIDE DEF j
  <1>5. job' \in [Cleaners -> Jobs] /\ job'[k] = j /\ \A l \in Cleaners : l # k => job'[l] = job[l]
    BY <1>2, <1>3, JobMoves
  <1>6. Executed' = Executed /\ Roles' = Roles /\ RoleDom' = RoleDom /\ Latest' = Latest
    BY <1>0, RolesStay DEF Latest
  <1>7. Role(k)' = r /\ \A l \in Cleaners : l # k => Role(l)' = Role(l)
    BY <1>2, <1>5, <1>6 DEF Role
  <1>8. \A l \in Cleaners : Sending(l)' => l # k /\ Sending(l) /\ job'[l] = job[l] /\ Role(l)' = Role(l)
    BY <1>2, <1>5, <1>7 DEF Sending
  <1>9. Safe /\ Safe' /\ Touched(o, r) /\ asked[o][r] = 0
        /\ (r = "staging" /\ Executed => Target("execution") \notin remote)
    <2>1. Safe /\ Touched(o, r) /\ asked[o][r] = 0
          /\ (r = "staging" /\ Executed => Target("execution") \notin remote)
      BY <1>1 DEF SendOK
    <2>. QED  BY <1>0, <1>6, <2>1 DEF Safe
  <1>. HIDE DEF o, r
  <1>10. /\ asked' \in [1..MaxCleanups -> [RoleSet -> Nat]]
         /\ asked'[o][r] = 1
         /\ \A i \in 1..MaxCleanups, q \in RoleSet : i # o \/ q # r => asked'[i][q] = asked[i][q]
    <2>1. asked \in [1..MaxCleanups -> [RoleSet -> Nat]]
      BY DEF IInv, Types
    <2>. QED  BY <1>1, <1>3, <1>9, <2>1
  <1>11. \A i \in 1..Latest : i \in 1..MaxCleanups
    BY Shapes DEF IInv
  <1>12. \A i \in 1..Latest : OpOK(i)
    BY DEF IInv, DeletingHalf, OpInv
  <1>13. OpInv'
    BY <1>0, <1>6, <1>12 DEF OpInv, OpOK, Target
  <1>14. AskedInv'
    <2>1. ASSUME NEW i \in 1..MaxCleanups, NEW q \in RoleSet PROVE AskedOK(i, q)'
      <3>1. AskedOK(i, q) /\ Touched(i, q)' = Touched(i, q)
        BY <1>0 DEF IInv, DeletingHalf, AskedInv, Touched
      <3>2. CASE i = o /\ q = r
        BY <1>1, <1>6, <1>9, <1>10, <3>1, <3>2 DEF AskedOK
      <3>3. CASE i # o \/ q # r
        BY <1>6, <1>10, <3>1, <3>3 DEF AskedOK
      <3>. QED  BY <3>2, <3>3
    <2>. QED  BY <2>1 DEF AskedInv
  <1>15. AutoInv'
    <2>1. ASSUME NEW m \in 1..Latest, NEW i \in 1..Latest, NEW q \in RoleSet, i < m, cleanups[m].auto
          PROVE  AutoOK(m, i, q)'
      <3>1. AutoOK(m, i, q) /\ i \in 1..MaxCleanups /\ m \in 1..MaxCleanups
        BY <1>11, <2>1 DEF IInv, DeletingHalf, AutoInv
      <3>2. CASE asked[i][q] = 0 /\ \A l \in Cleaners : ~SendsFor(l, i, q)
        <4>1. ~(i = o /\ q = r)
          BY <1>4, <3>2
        <4>2. asked'[i][q] = 0
          BY <1>10, <3>1, <3>2, <4>1
        <4>3. \A l \in Cleaners : ~SendsFor(l, i, q)'
          BY <1>8, <3>2 DEF SendsFor
        <4>. QED  BY <4>2, <4>3 DEF AutoOK
      <3>3. CASE q \in RoleDom /\ cleanups[m].res[q] \in Confirmed /\ asked[m][q] = 0
        <4>1. Target(q) \notin remote
          BY <1>12, <3>3 DEF OpOK
        <4>2. ~(m = o /\ q = r)
          BY <4>1 DEF r
        <4>3. asked'[m][q] = 0
          BY <1>10, <3>1, <3>3, <4>2
        <4>. QED  BY <1>0, <1>6, <3>3, <4>3 DEF AutoOK
      <3>. QED  BY <2>1, <3>1, <3>2, <3>3 DEF AutoOK
    <2>2. ASSUME NEW m \in 1..Latest, NEW i \in 1..Latest, NEW q \in RoleSet, i < m, ~cleanups[m].auto
          PROVE  AutoOK(m, i, q)'
      BY <1>0, <2>2 DEF AutoOK
    <2>. QED  BY <1>6, <2>1, <2>2 DEF AutoInv
  <1>16. JobInv'
    <2>1. JobOK(k)'
      BY <1>0, <1>1, <1>2, <1>5, <1>6, <1>7 DEF JobOK, Busy, Sending, r
    <2>2. ASSUME NEW l \in Cleaners, l # k PROVE JobOK(l)'
      <3>1. JobOK(l) /\ job'[l] = job[l] /\ Role(l)' = Role(l)
        BY <1>5, <1>7, <2>2 DEF IInv, DeletingHalf, JobInv
      <3>. QED  BY <1>0, <1>6, <3>1 DEF JobOK, Busy, Target
    <2>. QED  BY <2>1, <2>2 DEF JobInv
  <1>17. SendInv'
    <2>1. ASSUME NEW l \in Cleaners, Sending(l)' PROVE SendOK(l)'
      <3>1. SendOK(l) /\ l # k /\ Sending(l) /\ job'[l] = job[l] /\ Role(l)' = Role(l)
        BY <1>8, <2>1 DEF IInv, DeletingHalf, SendInv
      <3>2. job[l].op \in 1..MaxCleanups /\ Role(l) \in RoleSet
        BY <3>1, BusyFacts DEF Sending, Busy
      <3>3. Touched(job[l].op, Role(l))' = Touched(job[l].op, Role(l))
        BY <1>0, <3>1 DEF Touched
      <3>4. Fresh(l) => ~(job[l].op = o /\ Role(l) = r)
        BY <3>1 DEF IInv, DeletingHalf, AloneInv, AloneOK, o, r
      <3>5. Fresh(l)' = Fresh(l)
        BY <3>1 DEF Fresh
      <3>6. Fresh(l) => asked'[job[l].op][Role(l)] = 0
        BY <1>10, <3>1, <3>2, <3>4 DEF SendOK
      <3>. QED  BY <1>0, <1>6, <1>9, <3>1, <3>3, <3>5, <3>6 DEF SendOK, Target
    <2>. QED  BY <2>1 DEF SendInv, SendOK
  <1>18. AloneInv'
    BY <1>8 DEF IInv, DeletingHalf, AloneInv, AloneOK, Fresh
  <1>19. CurrentInv'
    <2>1. ASSUME NEW l \in Cleaners, Current(l)', NEW i \in DOMAIN Roles, Unsent(l, i)',
                 job'[l].loaded[Roles[i]] = "pending"
          PROVE  asked'[Latest][Roles[i]] = 0
      <3>1. Current(l) /\ job'[l].loaded = job[l].loaded
        BY <1>0, <1>1, <1>2, <1>5, <1>6, <2>1 DEF Current, Busy, o
      <3>2. CurrentOK(l) /\ Latest \in 1..MaxCleanups /\ Roles[i] \in RoleSet
        BY <1>11, <3>1, BusyFacts, RoleFacts DEF Current
      <3>3. Unsent(l, i) /\ ~(Latest = o /\ Roles[i] = r)
        <4>1. CASE l = k
          <5>1. i > job[k].item
            BY <1>2, <1>5, <2>1, <4>1 DEF Unsent, Ahead
          <5>2. i # job[k].item
            BY <1>1, <5>1, BusyFacts
          <5>. QED  BY <1>1, <4>1, <5>1, <5>2, RoleFacts DEF Unsent, Ahead
        <4>2. CASE l # k
          <5>1. Unsent(l, i)
            BY <1>5, <2>1, <4>2 DEF Unsent, Ahead
          <5>. QED  BY <2>1, <3>1, <3>2, <4>2, <5>1 DEF CurrentOK, o, r
        <4>. QED  BY <4>1, <4>2
      <3>4. asked[Latest][Roles[i]] = 0
        BY <2>1, <3>1, <3>2, <3>3 DEF CurrentOK
      <3>. QED  BY <1>10, <3>2, <3>3, <3>4
    <2>2. ASSUME NEW l \in Cleaners, Current(l)' PROVE CurrentOK(l)'
      <3>1. Current(l) /\ job'[l].loaded = job[l].loaded /\ CurrentOK(l)
        BY <1>0, <1>1, <1>2, <1>5, <1>6, <2>2 DEF Current, Busy, o, IInv, DeletingHalf, CurrentInv
      <3>2. \A i \in DOMAIN Roles : Ahead(l, i)' => Ahead(l, i)
        BY <1>2, <1>5 DEF Ahead
      <3>3. \A i \in DOMAIN Roles : Ahead(l, i)' => cleanups[Latest].res[Roles[i]] = job[l].loaded[Roles[i]]
        BY <3>1, <3>2 DEF CurrentOK
      <3>4. \A m \in Cleaners : m # l /\ Sending(m)' /\ job'[m].op = Latest
                                  => job[l].loaded[Role(m)'] # "pending"
        BY <1>8, <3>1 DEF CurrentOK
      <3>. QED  BY <1>0, <1>6, <2>1, <2>2, <3>1, <3>3, <3>4 DEF CurrentOK
    <2>. QED  BY <2>2 DEF CurrentInv, CurrentOK
  <1>20. DoomInv'
    <2>1. asked'[o][r] > 0
      BY <1>10
    <2>. QED  BY <1>1, <1>9, <2>1 DEF DoomInv
  <1>21. StagingOutlivesExecution'
    <2>1. ~OneObject /\ Executed /\ "execution" \in remote => r # "staging" /\ Target(r) = r
      BY <1>9 DEF Target
    <2>. QED  BY <1>0, <1>3, <1>6, <2>1 DEF IInv, DeletingHalf, StagingOutlivesExecution
  <1>22. PendingCleanup
    BY <1>1, <1>9, PendingMeans DEF IInv
  <1>23. CollectingHalf'
    BY <1>0, <1>22, CollectingRests
  <1>24. Types'
    BY <1>0, <1>5, <1>10 DEF IInv, Types, Latest
  <1>. QED  BY <1>13, <1>14, <1>15, <1>16, <1>17, <1>18, <1>19, <1>20, <1>21, <1>23, <1>24
         DEF IInv, DeletingHalf

\* The delete request is sent: the one moment at which asked grows.
LEMMA CallStep ==
    ASSUME IInv, NEW k \in Cleaners, Call(k), UNCHANGED <<work, sweep>>
    PROVE  IInv'
  <1>1. job[k].pc = "call" /\ Busy(k) /\ UNCHANGED <<ledger, local, remote, out>>
    BY DEF Call, Doing, Busy
  <1>2. JobOK(k) /\ job[k] \in Jobs
    BY <1>1, BusyFacts
  <1>3. CASE Target(Role(k)) \in remote /\ job[k].loaded[Role(k)] # "running" /\ Send(k)
    <2>1. Sending(k) /\ Fresh(k)
      BY <1>1, <1>2, <1>3 DEF Sending, Fresh, JobOK
    <2>. QED  BY <1>1, <1>3, <2>1, SendStep
  <1>4. CASE UNCHANGED <<doomed, asked>> /\ \E o \in ResourceStates : Finding(k, o)
    <2>1. PICK o \in ResourceStates : Finding(k, o)
      BY <1>4
    <2>. DEFINE j == [job[k] EXCEPT !.pc = "record", !.outcome = o]
    <2>2. j \in Jobs /\ j.pc = "record" /\ Set(k, j)
      BY <1>2, <2>1 DEF Jobs, Finding
    <2>. HIDE DEF j
    <2>3. job'[k].pc = "record"
      BY <2>2, JobMoves
    <2>. QED  BY <1>4, <2>3, QuietCalls
  <1>5. {"absent", "unknown", "retained", "failed"} \subseteq ResourceStates
    BY DEF ResourceStates
  <1>. QED  BY <1>3, <1>4, <1>5 DEF Call

-----------------------------------------------------------------------------
(* Writes of the ledger's latest operation.                                *)

\* The latest operation, where there is one.
LEMMA LatestOp ==
    ASSUME IInv, Latest > 0
    PROVE  /\ Latest \in 1..Latest /\ Latest \in 1..MaxCleanups /\ Latest \in Nat
           /\ cleanups[Latest] \in Operations /\ OpOK(Latest)
           /\ cleanups[Latest].res \in [RoleDom -> ResourceStates]
           /\ DOMAIN cleanups[Latest].res = RoleDom
  <1>1. Latest \in Nat
    BY Shapes DEF IInv
  <1>2. Latest \in 1..Latest
    BY <1>1
  <1>3. OpOK(Latest)
    BY <1>2 DEF IInv, DeletingHalf, OpInv
  <1>. QED  BY <1>1, <1>2, <1>3, Shapes DEF IInv

\* Outcomes per resource of the attempt are outcomes.
LEMMA OutcomesOfRoles ==
    ASSUME NEW x \in [RoleDom -> ResourceStates] PROVE x \in Outcomes
  BY DEF RoleDom, Outcomes

\* A write of the latest operation leaves the earlier ones alone.
LEMMA OpUpdate ==
    ASSUME IInv, Latest > 0, NEW e \in Operations, cleanups' = [cleanups EXCEPT ![Latest] = e]
    PROVE  /\ cleanups' \in Seq(Operations) /\ Latest' = Latest /\ cleanups'[Latest] = e
           /\ \A i \in 1..Latest : i # Latest => cleanups'[i] = cleanups[i]
  <1>1. cleanups \in Seq(Operations) /\ Latest \in 1..Len(cleanups)
    BY LatestOp DEF IInv, Types, Latest
  <1>2. /\ cleanups' \in Seq(Operations)
        /\ Len(cleanups') = Len(cleanups)
        /\ \A i \in 1..Len(cleanups) : cleanups'[i] = IF i = Latest THEN e ELSE cleanups[i]
    BY <1>1, ExceptSeq
  <1>. QED  BY <1>1, <1>2 DEF Latest

\* The latest operation changes, together with the session that changes it.  What was
\* confirmed stays, what is confirmed is gone, and what was sent, or is about to be by
\* another session, stays on record.
LEMMA OpsChange ==
    ASSUME IInv, NEW k \in Cleaners, NEW j \in Jobs, Set(k, j),
           Latest > 0, NEW e \in Operations, cleanups' = [cleanups EXCEPT ![Latest] = e],
           s'.exec = s.exec, UNCHANGED <<pub, asked, remote, doomed>>,
           e.res \in [RoleDom -> ResourceStates],
           e.discard = cleanups[Latest].discard, e.auto = cleanups[Latest].auto,
           e.status = "succeeded" => \A r \in RoleDom : e.res[r] \in Confirmed,
           \A r \in RoleDom : e.res[r] \in Confirmed => Target(r) \notin remote,
           \A r \in RoleDom : cleanups[Latest].res[r] \in Confirmed => e.res[r] \in Confirmed,
           \A r \in RoleDom :
             /\ Touched(Latest, r)
             /\ asked[Latest][r] > 0 \/ \E l \in Cleaners : l # k /\ SendsFor(l, Latest, r)
             => e.res[r] \in Confirmed \cup {"running", "unknown"},
           j.pc = "call" => j.op = Latest,
           JobOK(k)', SendOK(k)', AloneInv', CurrentInv'
    PROVE  DeletingHalf'
  <1>1. /\ job' \in [Cleaners -> Jobs] /\ job'[k] = j
        /\ \A l \in Cleaners : l # k => job'[l] = job[l]
    BY JobMoves
  <1>2. Executed' = Executed /\ Roles' = Roles /\ RoleDom' = RoleDom
    BY RolesStay
  <1>3. /\ Latest' = Latest /\ cleanups'[Latest] = e
        /\ \A i \in 1..Latest : i # Latest => cleanups'[i] = cleanups[i]
    BY OpUpdate
  <1>4. Latest \in 1..Latest /\ Latest \in Nat
    BY LatestOp
  <1>5. \A l \in Cleaners : l # k => Role(l)' = Role(l)
    BY <1>1, <1>2 DEF Role
  <1>6. \A i \in 1..Latest : cleanups'[i].discard = cleanups[i].discard /\ cleanups'[i].auto = cleanups[i].auto
    BY <1>3
  <1>7. Safe' = Safe
    BY <1>2, <1>3, <1>6 DEF Safe
  <1>8. OpInv'
    <2>1. ASSUME NEW i \in 1..Latest PROVE OpOK(i)'
      <3>1. OpOK(i)
        BY DEF IInv, DeletingHalf, OpInv
      <3>2. CASE i = Latest
        BY <1>2, <1>3, <1>4, <3>2 DEF OpOK, Target
      <3>3. CASE i # Latest
        BY <1>2, <1>3, <3>1, <3>3 DEF OpOK, Target
      <3>. QED  BY <3>2, <3>3
    <2>. QED  BY <1>3, <2>1 DEF OpInv
  <1>9. \A i \in 1..Latest, r \in RoleDom :
          /\ Touched(i, r)
          /\ asked[i][r] > 0 \/ \E l \in Cleaners : l # k /\ SendsFor(l, i, r)
          => cleanups'[i].res[r] \in Confirmed \cup {"running", "unknown"}
    BY <1>3 DEF Touched
  <1>10. AskedInv'
    <2>1. ASSUME NEW i \in 1..MaxCleanups, NEW r \in RoleSet PROVE AskedOK(i, r)'
      <3>1. AskedOK(i, r)
        BY DEF IInv, DeletingHalf, AskedInv
      <3>2. CASE asked[i][r] > 0
        <4>1. i \in 1..Latest /\ r \in RoleDom /\ Touched(i, r)
          BY <1>4, <3>1, <3>2 DEF AskedOK
        <4>2. Touched(i, r)'
          BY <1>9, <3>2, <4>1 DEF Touched
        <4>. QED  BY <1>2, <1>3, <3>1, <4>1, <4>2 DEF AskedOK
      <3>3. CASE ~(asked[i][r] > 0)
        BY <3>1, <3>3 DEF AskedOK
      <3>. QED  BY <3>2, <3>3
    <2>. QED  BY <2>1 DEF AskedInv
  <1>11. AutoInv'
    <2>1. ASSUME NEW m \in 1..Latest, NEW i \in 1..Latest, NEW q \in RoleSet, i < m
          PROVE  AutoOK(m, i, q)'
      <3>1. AutoOK(m, i, q) /\ i # Latest
        BY <1>4, <2>1 DEF IInv, DeletingHalf, AutoInv
      <3>2. CASE asked[i][q] = 0 /\ \A l \in Cleaners : ~SendsFor(l, i, q)
        <4>1. \A l \in Cleaners : SendsFor(l, i, q)' => l # k
          BY <1>1, <3>1 DEF SendsFor, Sending
        <4>2. \A l \in Cleaners : ~SendsFor(l, i, q)'
          BY <1>1, <1>5, <3>2, <4>1 DEF SendsFor, Sending
        <4>. QED  BY <3>2, <4>2 DEF AutoOK
      <3>3. CASE q \in RoleDom /\ cleanups[m].res[q] \in Confirmed /\ asked[m][q] = 0
        <4>1. cleanups'[m].res[q] \in Confirmed
          BY <1>3, <3>3
        <4>. QED  BY <1>2, <3>3, <4>1 DEF AutoOK
      <3>4. CASE ~cleanups[m].auto
        BY <1>6, <3>4 DEF AutoOK
      <3>. QED  BY <3>1, <3>2, <3>3, <3>4 DEF AutoOK
    <2>. QED  BY <1>3, <2>1 DEF AutoInv
  <1>12. JobInv'
    <2>1. ASSUME NEW l \in Cleaners, l # k PROVE JobOK(l)'
      <3>1. JobOK(l) /\ job'[l] = job[l] /\ Role(l)' = Role(l)
        BY <1>1, <1>5, <2>1 DEF IInv, DeletingHalf, JobInv
      <3>. QED  BY <1>2, <1>3, <3>1 DEF JobOK, Busy, Target
    <2>. QED  BY <2>1 DEF JobInv
  <1>13. SendInv'
    <2>1. ASSUME NEW l \in Cleaners, l # k, Sending(l)' PROVE SendOK(l)'
      <3>1. SendOK(l) /\ Sending(l) /\ job'[l] = job[l] /\ Role(l)' = Role(l)
        BY <1>1, <1>5, <2>1 DEF IInv, DeletingHalf, SendInv, Sending
      <3>2. job[l].op \in 1..Latest /\ Role(l) \in RoleDom
        BY <3>1, BusyFacts DEF Sending, Busy
      <3>3. Touched(job[l].op, Role(l)) /\ SendsFor(l, job[l].op, Role(l))
        BY <3>1 DEF SendOK, SendsFor
      <3>4. cleanups'[job[l].op].res[Role(l)] \in Confirmed \cup {"running", "unknown"}
        BY <1>9, <2>1, <3>2, <3>3
      <3>. QED  BY <1>2, <1>7, <3>1, <3>4 DEF SendOK, Fresh, Target, Touched
    <2>. QED  BY <2>1 DEF SendInv, SendOK
  <1>14. DoomInv'
    BY <1>7 DEF IInv, DeletingHalf, DoomInv, Target
  <1>15. StagingOutlivesExecution'
    BY <1>2 DEF IInv, DeletingHalf, StagingOutlivesExecution
  <1>. QED  BY <1>8, <1>10, <1>11, <1>12, <1>13, <1>14, <1>15 DEF DeletingHalf

\* Ownership makes a session current, and its operation pending.
LEMMA OwnerFacts ==
    ASSUME IInv, NEW k \in Cleaners, Busy(k), OwnsCleanup(k)
    PROVE  /\ Current(k) /\ job[k].op = Latest /\ Latest > 0
           /\ cleanups[Latest].status = "running" /\ PendingCleanup
           /\ \A l \in Cleaners : Current(l) => l = k
  <1>1. Current(k) /\ job[k].op = Latest /\ cleanups[Latest].status = "running"
    BY DEF OwnsCleanup, Current
  <1>2. Latest \in 1..Latest
    BY <1>1, BusyFacts
  <1>3. Latest > 0
    BY <1>2, Shapes DEF IInv
  <1>4. PendingCleanup
    BY <1>1, <1>2, PendingMeans DEF IInv, OpenOps
  <1>. QED  BY <1>1, <1>3, <1>4 DEF Current

\* One resource of the latest operation is written.
LEMMA ResourceWritten ==
    ASSUME IInv, Latest > 0, NEW r \in RoleDom, NEW x \in ResourceStates, SetResource(Latest, r, x)
    PROVE  \E e \in Operations :
             /\ cleanups' = [cleanups EXCEPT ![Latest] = e]
             /\ e.status = cleanups[Latest].status /\ e.discard = cleanups[Latest].discard
             /\ e.auto = cleanups[Latest].auto
             /\ e.res \in [RoleDom -> ResourceStates] /\ e.res[r] = x
             /\ \A q \in RoleDom : q # r => e.res[q] = cleanups[Latest].res[q]
  <1>. DEFINE res == [cleanups[Latest].res EXCEPT ![r] = x]
              e == [cleanups[Latest] EXCEPT !.res = res]
  <1>1. cleanups[Latest] \in Operations /\ cleanups[Latest].res \in [RoleDom -> ResourceStates]
    BY LatestOp
  <1>2. /\ res \in [RoleDom -> ResourceStates] /\ res[r] = x
        /\ \A q \in RoleDom : q # r => res[q] = cleanups[Latest].res[q]
    BY <1>1
  <1>3. res \in Outcomes
    BY <1>2, OutcomesOfRoles
  <1>4. cleanups' = [cleanups EXCEPT ![Latest] = e]
    BY DEF SetResource
  <1>. HIDE DEF res
  <1>5. /\ e \in Operations /\ e.res = res /\ e.status = cleanups[Latest].status
        /\ e.discard = cleanups[Latest].discard /\ e.auto = cleanups[Latest].auto
    BY <1>1, <1>3 DEF Operations
  <1>. HIDE DEF e
  <1>. QED  BY <1>2, <1>4, <1>5

\* The intent commits: by the current session, for a resource it has not come to before,
\* after the execution object is gone and with the results safe.
LEMMA BeginStep ==
    ASSUME IInv, NEW k \in Cleaners, BeginCleanupResource(k), UNCHANGED <<work, sweep>>
    PROVE  IInv'
  <1>. DEFINE r == Role(k)
  <1>1. /\ job[k].pc = "begin" /\ Busy(k) /\ OwnsCleanup(k)
        /\ UNCHANGED <<s, ticket, pin, pub, tomb, lease, hold, blobs, retired, remote, out, doomed, asked>>
        /\ UNCHANGED <<tickets, rule, local, provider>>
    BY DEF BeginCleanupResource, Doing, Busy, local, provider
  <1>2. /\ Current(k) /\ job[k].op = Latest /\ Latest > 0 /\ PendingCleanup
        /\ \A l \in Cleaners : Current(l) => l = k
        /\ cleanups[Latest].status = "running"
    BY <1>1, OwnerFacts
  <1>3. /\ job[k] \in Jobs /\ job[k].item \in DOMAIN Roles /\ JobOK(k) /\ CurrentOK(k)
        /\ r \in RoleDom /\ r = Roles[job[k].item] /\ job[k].item \in Nat
        /\ job[k].loaded \in [RoleDom -> ResourceStates]
    BY <1>1, BusyFacts
  <1>4. job[k].loaded[r] \in {"pending", "running"}
    BY <1>1, <1>3 DEF JobOK
  <1>5. Fresh(k) => asked[Latest][r] = 0
    BY <1>1, <1>2, LookingUnsent
  <1>6. CASE Finding(k, "retained") /\ UNCHANGED cleanups
    <2>1. UNCHANGED <<ledger, local, provider, work, sweep>> /\ "retained" \notin Confirmed
      BY <1>1, <1>6 DEF ledger, Confirmed
    <2>. QED  BY <1>1, <1>4, <1>5, <1>6, <2>1, FindingStep
  <1>7. CASE /\ Eligible(cleanups[Latest].discard, Latest)
             /\ r = "staging" /\ Executed => cleanups[Latest].res["execution"] \in Confirmed
             /\ SetResource(Latest, r, "running")
             /\ Set(k, [job[k] EXCEPT !.pc = "call"])
    <2>. DEFINE j == [job[k] EXCEPT !.pc = "call"]
    <2>1. /\ j \in Jobs /\ j.pc = "call" /\ j.op = Latest /\ j.item = job[k].item
          /\ j.loaded = job[k].loaded
      BY <1>2, <1>3 DEF Jobs
    <2>2. Set(k, j)
      BY <1>7
    <2>3. "running" \in ResourceStates /\ "running" \notin Confirmed
      BY DEF ResourceStates, Confirmed
    <2>. HIDE DEF j, r
    <2>4. PICK e \in Operations :
             /\ cleanups' = [cleanups EXCEPT ![Latest] = e]
             /\ e.status = cleanups[Latest].status /\ e.discard = cleanups[Latest].discard
             /\ e.auto = cleanups[Latest].auto
             /\ e.res \in [RoleDom -> ResourceStates] /\ e.res[r] = "running"
             /\ \A q \in RoleDom : q # r => e.res[q] = cleanups[Latest].res[q]
      BY <1>2, <1>3, <1>7, <2>3, ResourceWritten
    <2>5. /\ cleanups' \in Seq(Operations) /\ Latest' = Latest /\ cleanups'[Latest] = e
          /\ \A i \in 1..Latest : i # Latest => cleanups'[i] = cleanups[i]
      BY <1>2, <2>4, OpUpdate
    <2>6. job' \in [Cleaners -> Jobs] /\ job'[k] = j /\ \A l \in Cleaners : l # k => job'[l] = job[l]
      BY <2>1, <2>2, JobMoves
    <2>7. Executed' = Executed /\ Roles' = Roles /\ RoleDom' = RoleDom
      BY <1>1, RolesStay
    <2>8. Role(k)' = r /\ \A l \in Cleaners : l # k => Role(l)' = Role(l) /\ Sending(l)' = Sending(l)
      BY <1>3, <2>1, <2>6, <2>7 DEF Role, Sending
    <2>9. cleanups[Latest].res[r] = job[k].loaded[r]
      BY <1>1, <1>2, <1>3 DEF CurrentOK, Ahead
    <2>10. OpOK(Latest) /\ Latest \in 1..Latest
      BY <1>2, LatestOp
    <2>11. Safe'
      <3>1. Executed => pub # 0 \/ cleanups[Latest].discard
        BY <1>7 DEF Eligible, Collected
      <3>. QED  BY <1>1, <2>4, <2>5, <2>7, <2>10, <3>1 DEF Safe
    <2>12. r = "staging" /\ Executed => Target("execution") \notin remote
      BY <1>7, <2>10, RoleFacts DEF OpOK
    <2>13. Latest' = Latest /\ job'[k].op = Latest /\ Touched(job[k].op, Role(k))'
      BY <2>1, <2>4, <2>5, <2>6, <2>8 DEF Touched
    <2>14. Fresh(k)' = Fresh(k)
      BY <2>1, <2>6, <2>8 DEF Fresh, r
    <2>15. SendOK(k)'
      BY <1>1, <1>5, <2>7, <2>8, <2>11, <2>12, <2>13, <2>14 DEF SendOK, Target
    <2>16. JobOK(k)'
      BY <1>2, <1>3, <1>4, <2>1, <2>5, <2>6, <2>7, <2>8, <2>10 DEF JobOK, Busy
    <2>17. \A l \in Cleaners : l # k /\ Sending(l) /\ job[l].op = Latest /\ Role(l) = r => ~Fresh(k)
      BY <1>2, <1>3 DEF CurrentOK, Fresh, r
    <2>18. AloneInv'
      <3>1. ASSUME NEW l \in Cleaners, NEW m \in Cleaners, l # m PROVE AloneOK(l, m)'
        <4>1. CASE l # k /\ m # k
          <5>1. AloneOK(l, m) /\ job'[l] = job[l] /\ job'[m] = job[m]
            BY <2>6, <3>1, <4>1 DEF IInv, DeletingHalf, AloneInv
          <5>. QED  BY <2>8, <4>1, <5>1 DEF AloneOK, Fresh
        <4>2. CASE l = k
          BY <2>1, <2>6, <2>8, <2>14, <2>17, <3>1, <4>2 DEF AloneOK
        <4>3. CASE m = k
          BY <2>1, <2>6, <2>8, <2>14, <2>17, <3>1, <4>3 DEF AloneOK
        <4>. QED  BY <4>1, <4>2, <4>3
      <3>. QED  BY <3>1 DEF AloneInv
    <2>19. CurrentOK(k)'
      <3>1. \A i \in DOMAIN Roles : Ahead(k, i)' \/ Unsent(k, i)' => i > job[k].item
        BY <2>1, <2>6 DEF Ahead, Unsent
      <3>2. \A i \in DOMAIN Roles : i > job[k].item => /\ Ahead(k, i) /\ Unsent(k, i)
                                                       /\ Roles[i] # r /\ Roles[i] \in RoleDom
        <4>1. \A i \in DOMAIN Roles : i \in Nat
          BY RoleFacts
        <4>. QED  BY <1>3, <4>1, RoleFacts DEF Ahead, Unsent
      <3>3. \A i \in DOMAIN Roles : Ahead(k, i)' => e.res[Roles[i]] = job[k].loaded[Roles[i]]
        BY <1>2, <1>3, <2>4, <3>1, <3>2 DEF CurrentOK
      <3>4. \A i \in DOMAIN Roles : Unsent(k, i)' /\ job[k].loaded[Roles[i]] = "pending"
                                      => asked[Latest][Roles[i]] = 0
        BY <1>2, <1>3, <3>1, <3>2 DEF CurrentOK
      <3>5. \A l \in Cleaners : l # k /\ Sending(l)' /\ job'[l].op = Latest
                                  => job[k].loaded[Role(l)'] # "pending"
        BY <1>2, <1>3, <2>6, <2>8 DEF CurrentOK
      <3>. QED  BY <1>1, <2>1, <2>5, <2>6, <2>7, <3>3, <3>4, <3>5 DEF CurrentOK
    <2>20. CurrentInv'
      <3>1. ASSUME NEW l \in Cleaners, l # k PROVE ~Current(l)'
        BY <1>1, <1>2, <3>1 DEF Current
      <3>. QED  BY <2>19, <3>1 DEF CurrentInv, CurrentOK
    <2>21. /\ e.status # "succeeded"
           /\ \A q \in RoleDom : e.res[q] \in Confirmed => Target(q) \notin remote
           /\ \A q \in RoleDom : cleanups[Latest].res[q] \in Confirmed => e.res[q] \in Confirmed
           /\ \A q \in RoleDom : Touched(Latest, q) => e.res[q] \in Confirmed \cup {"running", "unknown"}
      BY <1>2, <1>4, <2>3, <2>4, <2>9, <2>10 DEF OpOK, Touched, Confirmed
    <2>22. DeletingHalf'
      BY <1>1, <1>2, <2>1, <2>2, <2>4, <2>15, <2>16, <2>18, <2>20, <2>21, OpsChange
    <2>23. CollectingHalf'
      BY <1>1, <1>2, CollectingRests
    <2>24. Types'
      BY <1>1, <2>5, <2>6 DEF IInv, Types
    <2>. QED  BY <2>22, <2>23, <2>24 DEF IInv
  <1>. QED  BY <1>6, <1>7 DEF BeginCleanupResource

\* The outcome is recorded: a resource that was never asked for may be given back as
\* retained or failed, one that was stays at least unknown.
LEMMA RecordStep ==
    ASSUME IInv, NEW k \in Cleaners, Record(k), UNCHANGED <<work, sweep>>
    PROVE  IInv'
  <1>. DEFINE r == Role(k)
              x == IF job[k].loaded[r] = "running" /\ job[k].outcome \notin Confirmed
                   THEN "unknown" ELSE job[k].outcome
              b == x \in Confirmed
  <1>1. /\ job[k].pc = "record" /\ Busy(k) /\ OwnsCleanup(k)
        /\ UNCHANGED <<s, ticket, pin, pub, tomb, lease, hold, blobs, retired, remote, out, doomed, asked>>
        /\ cleanups[Latest].res[r] \in {"pending", "running"}
        /\ SetResource(Latest, r, x) /\ NextItem(k, b) /\ b \in BOOLEAN
    BY DEF Record, Doing, Busy, local, provider
  <1>2. /\ Current(k) /\ job[k].op = Latest /\ Latest > 0 /\ PendingCleanup
        /\ \A l \in Cleaners : Current(l) => l = k
        /\ cleanups[Latest].status = "running"
    BY <1>1, OwnerFacts
  <1>3. /\ job[k] \in Jobs /\ job[k].item \in DOMAIN Roles /\ JobOK(k) /\ CurrentOK(k)
        /\ r \in RoleDom /\ r = Roles[job[k].item] /\ job[k].item \in Nat
        /\ job[k].loaded \in [RoleDom -> ResourceStates]
    BY <1>1, BusyFacts
  <1>4. /\ job[k].loaded[r] \in {"pending", "running"}
        /\ job[k].outcome \in {"retained", "failed", "unknown"} \cup Confirmed
        /\ job[k].outcome \in Confirmed => Target(r) \notin remote
    BY <1>1, <1>3 DEF JobOK
  <1>5. /\ x \in ResourceStates
        /\ x \in Confirmed => Target(r) \notin remote
        /\ x \in Confirmed \cup {"running", "unknown"} \/
             (job[k].loaded[r] = "pending" /\ job[k].outcome \in {"retained", "failed"})
    BY <1>4 DEF ResourceStates, Confirmed
  <1>6. job[k].loaded[r] = "pending" /\ job[k].outcome \in {"retained", "failed"} =>
          asked[Latest][r] = 0 /\ \A l \in Cleaners : l # k => ~SendsFor(l, Latest, r)
    BY <1>1, <1>2, <1>3 DEF CurrentOK, Unsent, SendsFor
  <1>. HIDE DEF r, x, b
  <1>7. PICK e \in Operations :
           /\ cleanups' = [cleanups EXCEPT ![Latest] = e]
           /\ e.status = cleanups[Latest].status /\ e.discard = cleanups[Latest].discard
           /\ e.auto = cleanups[Latest].auto
           /\ e.res \in [RoleDom -> ResourceStates] /\ e.res[r] = x
           /\ \A q \in RoleDom : q # r => e.res[q] = cleanups[Latest].res[q]
    BY <1>1, <1>2, <1>3, <1>5, ResourceWritten
  <1>8. /\ cleanups' \in Seq(Operations) /\ Latest' = Latest /\ cleanups'[Latest] = e
        /\ \A i \in 1..Latest : i # Latest => cleanups'[i] = cleanups[i]
    BY <1>2, <1>7, OpUpdate
  <1>9. PICK j \in Jobs :
           /\ Set(k, j) /\ j.op = job[k].op /\ j.loaded = job[k].loaded
           /\ j.item \in DOMAIN Roles
           /\ \/ j.pc = "look" /\ j.item = job[k].item + 1
              \/ j.pc = "finish" /\ j.item = job[k].item /\ job[k].item = Len(Roles)
    BY <1>1, NextFacts
  <1>10. job' \in [Cleaners -> Jobs] /\ job'[k] = j /\ \A l \in Cleaners : l # k => job'[l] = job[l]
    BY <1>9, JobMoves
  <1>11. Executed' = Executed /\ Roles' = Roles /\ RoleDom' = RoleDom
    BY <1>1, RolesStay
  <1>12. j.pc # "call"
    BY <1>9
  <1>13. \A l \in Cleaners : Sending(l)' => l # k /\ Sending(l) /\ job'[l] = job[l] /\ Role(l)' = Role(l)
    BY <1>10, <1>11, <1>12 DEF Role, Sending
  <1>14. JobOK(k)' /\ SendOK(k)'
    <2>1. job[k].op \in 1..Latest
      BY <1>1, BusyFacts
    <2>2. job'[k].pc \in {"look", "finish"} /\ job'[k].op \in 1..Latest'
          /\ job'[k].item \in DOMAIN Roles' /\ job'[k].loaded \in [RoleDom' -> ResourceStates]
      BY <1>3, <1>8, <1>9, <1>10, <1>11, <2>1
    <2>. QED  BY <2>2 DEF JobOK, SendOK, Sending
  <1>15. AloneInv'
    BY <1>13 DEF IInv, DeletingHalf, AloneInv, AloneOK, Fresh
  <1>16. CurrentOK(k)'
    <2>0. Len(Roles) \in Nat /\ \A i \in DOMAIN Roles : i \in Nat /\ i <= Len(Roles)
      BY RoleFacts
    <2>1. \A i \in DOMAIN Roles : Ahead(k, i)' \/ Unsent(k, i)' => i > job[k].item
      BY <1>3, <1>9, <1>10, <2>0 DEF Ahead, Unsent
    <2>2. \A i \in DOMAIN Roles : i > job[k].item => /\ Ahead(k, i) /\ Unsent(k, i)
                                                     /\ Roles[i] # r /\ Roles[i] \in RoleDom
      BY <1>3, <2>0, RoleFacts DEF Ahead, Unsent
    <2>3. \A i \in DOMAIN Roles : Ahead(k, i)' => e.res[Roles[i]] = job[k].loaded[Roles[i]]
      BY <1>2, <1>3, <1>7, <2>1, <2>2 DEF CurrentOK
    <2>4. \A i \in DOMAIN Roles : Unsent(k, i)' /\ job[k].loaded[Roles[i]] = "pending"
                                    => asked[Latest][Roles[i]] = 0
      BY <1>2, <1>3, <2>1, <2>2 DEF CurrentOK
    <2>5. \A l \in Cleaners : l # k /\ Sending(l)' /\ job'[l].op = Latest
                                => job[k].loaded[Role(l)'] # "pending"
      BY <1>2, <1>3, <1>13 DEF CurrentOK
    <2>. QED  BY <1>1, <1>8, <1>9, <1>10, <1>11, <2>3, <2>4, <2>5 DEF CurrentOK
  <1>17. CurrentInv'
    <2>1. ASSUME NEW l \in Cleaners, l # k PROVE ~Current(l)'
      BY <1>1, <1>2, <2>1 DEF Current
    <2>. QED  BY <1>16, <2>1 DEF CurrentInv, CurrentOK
  <1>18. OpOK(Latest)
    BY <1>2, LatestOp
  <1>19. /\ e.status # "succeeded"
         /\ \A q \in RoleDom : e.res[q] \in Confirmed => Target(q) \notin remote
         /\ \A q \in RoleDom : cleanups[Latest].res[q] \in Confirmed => e.res[q] \in Confirmed
    BY <1>1, <1>2, <1>5, <1>7, <1>18 DEF OpOK, Confirmed
  <1>20. \A q \in RoleDom :
             /\ Touched(Latest, q)
             /\ asked[Latest][q] > 0 \/ \E l \in Cleaners : l # k /\ SendsFor(l, Latest, q)
             => e.res[q] \in Confirmed \cup {"running", "unknown"}
    <2>1. ~(0 > 0)
      OBVIOUS
    <2>. QED  BY <1>5, <1>6, <1>7, <2>1 DEF Touched
  <1>21. DeletingHalf'
    BY <1>1, <1>2, <1>7, <1>9, <1>12, <1>14, <1>15, <1>17, <1>19, <1>20, OpsChange
  <1>22. CollectingHalf'
    BY <1>1, <1>2, CollectingRests
  <1>23. Types'
    BY <1>1, <1>8, <1>10 DEF IInv, Types
  <1>. QED  BY <1>21, <1>22, <1>23 DEF IInv

\* The status of the latest operation changes.
LEMMA StatusWritten ==
    ASSUME IInv, Latest > 0, NEW st \in OpenOps \cup SettledOps,
           cleanups' = [cleanups EXCEPT ![Latest].status = st]
    PROVE  \E e \in Operations :
             /\ cleanups' = [cleanups EXCEPT ![Latest] = e]
             /\ e.status = st /\ e.discard = cleanups[Latest].discard
             /\ e.auto = cleanups[Latest].auto /\ e.res = cleanups[Latest].res
  <1>. DEFINE e == [cleanups[Latest] EXCEPT !.status = st]
  <1>1. cleanups[Latest] \in Operations
    BY LatestOp
  <1>2. /\ e \in Operations /\ e.status = st /\ e.discard = cleanups[Latest].discard
        /\ e.auto = cleanups[Latest].auto /\ e.res = cleanups[Latest].res
    BY <1>1 DEF Operations
  <1>3. cleanups' = [cleanups EXCEPT ![Latest] = e]
    OBVIOUS
  <1>. HIDE DEF e
  <1>. QED  BY <1>2, <1>3

\* The operation settles.  A discard that succeeded also ends the wait for results.
LEMMA CompleteCleanupStep ==
    ASSUME IInv, NEW k \in Cleaners, CompleteCleanup(k), UNCHANGED <<work, sweep>>
    PROVE  IInv'
  <1>. DEFINE ok == \A q \in DOMAIN cleanups[Latest].res : cleanups[Latest].res[q] \in Confirmed
              st == IF ok THEN "succeeded" ELSE "failed"
              ended == [s EXCEPT !.orch = "needs_attention"]
  <1>1. /\ Busy(k) /\ OwnsCleanup(k)
        /\ cleanups' = [cleanups EXCEPT ![Latest].status = st]
        /\ \/ s.orch = "collecting" /\ ValidTransition(s, ended) /\ s' = ended /\ lease' = Overtaken(lease)
           \/ UNCHANGED <<s, lease>>
        /\ hold' = Free /\ Set(k, NoJob)
        /\ UNCHANGED <<ticket, pin, pub, tomb, blobs, retired, remote, out, doomed, asked>>
    BY DEF CompleteCleanup, Doing, Busy, local, provider
  <1>2. /\ Latest > 0 /\ PendingCleanup /\ cleanups[Latest].status = "running"
    BY <1>1, OwnerFacts
  <1>3. /\ cleanups[Latest].res \in [RoleDom -> ResourceStates] /\ DOMAIN cleanups[Latest].res = RoleDom
        /\ OpOK(Latest)
    BY <1>2, LatestOp
  <1>4. /\ st \in OpenOps \cup SettledOps
        /\ st = "succeeded" => \A q \in RoleDom : cleanups[Latest].res[q] \in Confirmed
    BY <1>3 DEF SettledOps
  <1>. HIDE DEF ok, st
  <1>5. PICK e \in Operations :
             /\ cleanups' = [cleanups EXCEPT ![Latest] = e]
             /\ e.status = st /\ e.discard = cleanups[Latest].discard
             /\ e.auto = cleanups[Latest].auto /\ e.res = cleanups[Latest].res
    BY <1>1, <1>2, <1>4, StatusWritten
  <1>6. cleanups' \in Seq(Operations) /\ Latest' = Latest
    BY <1>2, <1>5, OpUpdate
  <1>7. NoJob \in Jobs /\ NoJob.pc = "idle"
    BY DEF NoJob, Jobs, ResourceStates
  <1>8. job' \in [Cleaners -> Jobs] /\ job'[k] = NoJob /\ \A l \in Cleaners : l # k => job'[l] = job[l]
    BY <1>1, <1>7, JobMoves
  <1>9. /\ s' \in AttemptStates /\ ValidState(s') /\ s'.exec = s.exec /\ s'.remote = s.remote
        /\ s'.result = s.result /\ StateInv'
    <2>1. s \in AttemptStates /\ ValidState(s)
      BY DEF IInv, CollectingHalf, StateInv
    <2>2. CASE s.orch = "collecting" /\ ValidTransition(s, ended) /\ s' = ended
      <3>1. "needs_attention" \in Orchestrations /\ "collecting" \notin OrchestrationTerminal
            /\ "needs_attention" \notin OrchestrationTerminal
        BY SomeStates
      <3>2. /\ s' \in AttemptStates /\ s'.exec = s.exec /\ s'.remote = s.remote
            /\ s'.result = s.result /\ s'.orch = "needs_attention"
        BY <2>1, <2>2, <3>1 DEF AttemptStates
      <3>3. ValidState(s')
        BY <2>2 DEF ValidTransition
      <3>4. Executed
        BY <2>2, <3>1 DEF IInv, CollectingHalf, StateInv
      <3>5. StateInv'
        BY <3>1, <3>2, <3>3, <3>4, StateMoves
      <3>. QED  BY <3>2, <3>3, <3>5
    <2>3. CASE UNCHANGED <<s, lease>>
      BY <1>1, <2>1, <2>3, CollectingFrame DEF IInv
    <2>. QED  BY <1>1, <2>2, <2>3
  <1>10. lease' \in Leases(Collectors) /\ lease'.owner = lease.owner /\ lease'.live = lease.live
    <2>1. lease \in Leases(Collectors)
      BY DEF IInv, Types
    <2>. QED  BY <1>1, <2>1, Overtaking
  <1>11. ticket # "accepted" /\ s.result # "collecting" /\ ~lease.live
    BY <1>2, PendingRests
  <1>12. TicketInv'
    BY <1>1, <1>9, <1>10, <1>11
      DEF IInv, CollectingHalf, TicketInv, TicketStaysServable, CollectingHasTicket
  <1>13. TransferExcludesDeletion'
    BY <1>10, <1>11 DEF TransferExcludesDeletion
  <1>14. FileInv' /\ SweepInv' /\ WorkInv'
    BY <1>1, CollectingFrame DEF IInv
  <1>15. CollectingHalf'
    BY <1>9, <1>12, <1>13, <1>14 DEF CollectingHalf
  <1>16. Executed' = Executed /\ Roles' = Roles /\ RoleDom' = RoleDom
    BY <1>9, RolesStay
  <1>17. \A l \in Cleaners : Sending(l)' => l # k /\ Sending(l) /\ job'[l] = job[l] /\ Role(l)' = Role(l)
    BY <1>7, <1>8, <1>16 DEF Role, Sending
  <1>18. JobOK(k)' /\ SendOK(k)'
    BY <1>7, <1>8 DEF JobOK, SendOK, Sending, Busy
  <1>19. AloneInv'
    BY <1>17 DEF IInv, DeletingHalf, AloneInv, AloneOK, Fresh
  <1>20. CurrentInv'
    BY <1>1, ResultAssumption DEF CurrentInv, CurrentOK, Current, Free
  <1>21. /\ e.res \in [RoleDom -> ResourceStates]
         /\ e.status = "succeeded" => \A q \in RoleDom : e.res[q] \in Confirmed
         /\ \A q \in RoleDom : e.res[q] \in Confirmed => Target(q) \notin remote
         /\ \A q \in RoleDom : cleanups[Latest].res[q] \in Confirmed => e.res[q] \in Confirmed
         /\ \A q \in RoleDom : Touched(Latest, q) => e.res[q] \in Confirmed \cup {"running", "unknown"}
    BY <1>3, <1>4, <1>5 DEF OpOK, Touched
  <1>22. DeletingHalf'
    BY <1>1, <1>2, <1>5, <1>7, <1>9, <1>18, <1>19, <1>20, <1>21, OpsChange
  <1>23. hold' \in Leases(Cleaners)
    BY <1>1 DEF Leases, Free
  <1>24. Types'
    BY <1>1, <1>6, <1>8, <1>10, <1>23 DEF IInv, Types
  <1>. QED  BY <1>15, <1>22, <1>24 DEF IInv

\* A claim: the session loads what the ledger says.  What is pending there was not sent.
LEMMA ClaimRuns ==
    ASSUME IInv, NEW k \in Cleaners, ~Busy(k), Latest > 0, PendingCleanup,
           cleanups' = [cleanups EXCEPT ![Latest].status = "running"],
           hold' = Held(k),
           Set(k, [NoJob EXCEPT !.pc = "look", !.op = Latest, !.item = 1,
                                !.loaded = cleanups[Latest].res, !.collected = Collected]),
           UNCHANGED <<s, ticket, pin, pub, tomb, lease, blobs, retired, remote, out, doomed, asked, work, sweep>>
    PROVE  IInv'
  <1>. DEFINE b == Collected
              j == [NoJob EXCEPT !.pc = "look", !.op = Latest, !.item = 1,
                                 !.loaded = cleanups[Latest].res, !.collected = b]
  <1>1. /\ cleanups[Latest].res \in [RoleDom -> ResourceStates] /\ OpOK(Latest)
        /\ Latest \in 1..Latest /\ Latest \in 1..MaxCleanups /\ Latest \in Nat
    BY LatestOp
  <1>2. b \in BOOLEAN /\ cleanups[Latest].res \in Outcomes
    BY <1>1, OutcomesOfRoles DEF Collected
  <1>3. NoJob \in Jobs
    BY DEF NoJob, Jobs, ResourceStates
  <1>4. Set(k, j)
    OBVIOUS
  <1>. HIDE DEF b
  <1>5. j \in Jobs
    BY <1>1, <1>2, <1>3 DEF Jobs
  <1>6. j.pc = "look" /\ j.op = Latest /\ j.item = 1 /\ j.loaded = cleanups[Latest].res
    BY <1>3 DEF Jobs
  <1>. HIDE DEF j
  <1>7. PICK e \in Operations :
             /\ cleanups' = [cleanups EXCEPT ![Latest] = e]
             /\ e.status = "running" /\ e.discard = cleanups[Latest].discard
             /\ e.auto = cleanups[Latest].auto /\ e.res = cleanups[Latest].res
    BY StatusWritten DEF OpenOps
  <1>8. cleanups' \in Seq(Operations) /\ Latest' = Latest /\ cleanups'[Latest] = e
    BY <1>7, OpUpdate
  <1>9. job' \in [Cleaners -> Jobs] /\ job'[k] = j /\ \A l \in Cleaners : l # k => job'[l] = job[l]
    BY <1>4, <1>5, JobMoves
  <1>10. Executed' = Executed /\ Roles' = Roles /\ RoleDom' = RoleDom
    BY RolesStay
  <1>11. \A l \in Cleaners : Sending(l)' => l # k /\ Sending(l) /\ job'[l] = job[l] /\ Role(l)' = Role(l)
    BY <1>6, <1>9, <1>10 DEF Role, Sending
  <1>12. JobOK(k)' /\ SendOK(k)'
    <2>1. 1 \in DOMAIN Roles
      BY RoleFacts
    <2>2. /\ job'[k].pc = "look" /\ job'[k].op \in 1..Latest'
          /\ job'[k].item \in DOMAIN Roles' /\ job'[k].loaded \in [RoleDom' -> ResourceStates]
      BY <1>1, <1>6, <1>8, <1>9, <1>10, <2>1
    <2>. QED  BY <2>2 DEF JobOK, SendOK, Sending
  <1>13. AloneInv'
    BY <1>11 DEF IInv, DeletingHalf, AloneInv, AloneOK, Fresh
  <1>14. \A q \in RoleDom : cleanups[Latest].res[q] = "pending" => asked[Latest][q] = 0
    <2>1. ASSUME NEW q \in RoleDom, cleanups[Latest].res[q] = "pending" PROVE asked[Latest][q] = 0
      <3>1. q \in RoleSet /\ asked[Latest][q] \in Nat /\ AskedOK(Latest, q)
        BY <1>1, RoleFacts DEF IInv, Types, DeletingHalf, AskedInv
      <3>2. ~Touched(Latest, q)
        BY <2>1 DEF Touched, Confirmed
      <3>. QED  BY <3>1, <3>2 DEF AskedOK
    <2>. QED  BY <2>1
  <1>15. CurrentInv'
    <2>1. ASSUME NEW l \in Cleaners, l # k PROVE ~Current(l)'
      BY <2>1 DEF Current, Held
    <2>2. \A l \in Cleaners : l # k /\ Sending(l)' /\ job'[l].op = Latest
                                => cleanups[Latest].res[Role(l)'] # "pending"
      <3>1. ASSUME NEW l \in Cleaners, l # k, Sending(l)', job'[l].op = Latest
            PROVE  cleanups[Latest].res[Role(l)'] # "pending"
        <4>1. Sending(l) /\ SendOK(l) /\ job[l].op = Latest /\ Role(l)' = Role(l)
          BY <1>11, <3>1 DEF IInv, DeletingHalf, SendInv
        <4>2. Touched(Latest, Role(l))
          BY <4>1 DEF SendOK
        <4>. QED  BY <4>1, <4>2 DEF Touched, Confirmed
      <3>. QED  BY <3>1
    <2>3. \A i \in DOMAIN Roles : Roles[i] \in RoleDom
      BY RoleFacts
    <2>4. CurrentOK(k)'
      BY <1>6, <1>7, <1>8, <1>9, <1>10, <1>14, <2>2, <2>3 DEF CurrentOK
    <2>. QED  BY <2>1, <2>4 DEF CurrentInv, CurrentOK
  <1>16. /\ e.res \in [RoleDom -> ResourceStates] /\ e.status # "succeeded"
         /\ \A q \in RoleDom : e.res[q] \in Confirmed => Target(q) \notin remote
         /\ \A q \in RoleDom : cleanups[Latest].res[q] \in Confirmed => e.res[q] \in Confirmed
         /\ \A q \in RoleDom : Touched(Latest, q) => e.res[q] \in Confirmed \cup {"running", "unknown"}
    BY <1>1, <1>7 DEF OpOK, Touched
  <1>17. DeletingHalf'
    BY <1>4, <1>5, <1>6, <1>7, <1>12, <1>13, <1>15, <1>16, OpsChange
  <1>18. CollectingHalf'
    BY CollectingRests
  <1>19. hold' \in Leases(Cleaners)
    BY DEF Leases, Held
  <1>20. Types'
    BY <1>8, <1>9, <1>19 DEF IInv, Types
  <1>. QED  BY <1>17, <1>18, <1>20 DEF IInv

\* failCleanup confirms nothing and forgets nothing that may have been sent.
LEMMA SettledFacts ==
    ASSUME NEW res \in [RoleDom -> ResourceStates]
    PROVE  /\ Settled(res) \in [RoleDom -> ResourceStates]
           /\ \A q \in RoleDom : Settled(res)[q] \in Confirmed <=> res[q] \in Confirmed
           /\ \A q \in RoleDom : res[q] \in Confirmed \cup {"running", "unknown"}
                                  => Settled(res)[q] \in Confirmed \cup {"running", "unknown"}
  <1>1. DOMAIN res = RoleDom /\ \A q \in RoleDom : res[q] \in ResourceStates
    OBVIOUS
  <1>2. \A q \in RoleDom : Settled(res)[q] = CASE res[q] = "running" -> "unknown"
                                                [] res[q] = "pending" -> "retained"
                                                [] OTHER -> res[q]
    BY <1>1 DEF Settled
  <1>3. \A q \in RoleDom : \/ res[q] = "running" /\ Settled(res)[q] = "unknown"
                           \/ res[q] = "pending" /\ Settled(res)[q] = "retained"
                           \/ res[q] \notin {"running", "pending"} /\ Settled(res)[q] = res[q]
    BY <1>2
  <1>4. Settled(res) = [q \in RoleDom |-> Settled(res)[q]]
    BY <1>1 DEF Settled
  <1>5. \A q \in RoleDom : Settled(res)[q] \in ResourceStates
    BY <1>1, <1>3 DEF ResourceStates
  <1>6. Settled(res) \in [RoleDom -> ResourceStates]
    BY <1>4, <1>5
  <1>. QED  BY <1>3, <1>6 DEF Confirmed

\* A claim that finds its source ineligible settles the operation as failed.
LEMMA ClaimFails ==
    ASSUME IInv, NEW k \in Cleaners, ~Busy(k), Latest > 0, PendingCleanup,
           cleanups' = [cleanups EXCEPT ![Latest].status = "failed", ![Latest].res = Settled(@)],
           UNCHANGED <<s, ticket, pin, pub, tomb, lease, hold, blobs, retired, remote, out, doomed, asked>>,
           UNCHANGED <<job, work, sweep>>
    PROVE  IInv'
  <1>. DEFINE res == Settled(cleanups[Latest].res)
              e == [cleanups[Latest] EXCEPT !.status = "failed", !.res = res]
  <1>1. /\ cleanups[Latest] \in Operations /\ cleanups[Latest].res \in [RoleDom -> ResourceStates]
        /\ OpOK(Latest) /\ Latest \in 1..Latest
    BY LatestOp
  <1>2. /\ res \in [RoleDom -> ResourceStates]
        /\ \A q \in RoleDom : res[q] \in Confirmed <=> cleanups[Latest].res[q] \in Confirmed
        /\ \A q \in RoleDom : cleanups[Latest].res[q] \in Confirmed \cup {"running", "unknown"}
                                  => res[q] \in Confirmed \cup {"running", "unknown"}
    BY <1>1, SettledFacts
  <1>3. cleanups' = [cleanups EXCEPT ![Latest] = e]
    <2>1. cleanups \in Seq(Operations) /\ Latest \in DOMAIN cleanups
      BY <1>1 DEF IInv, Types, Latest
    <2>. DEFINE c1 == [cleanups EXCEPT ![Latest].status = "failed"]
                d == [cleanups[Latest] EXCEPT !.status = "failed"]
    <2>2. c1 = [cleanups EXCEPT ![Latest] = d] /\ c1[Latest] = d
      BY <2>1
    <2>3. d.res = cleanups[Latest].res
      BY <1>1 DEF Operations
    <2>4. cleanups' = [c1 EXCEPT ![Latest] = [c1[Latest] EXCEPT !.res = Settled(c1[Latest].res)]]
      OBVIOUS
    <2>5. cleanups' = [c1 EXCEPT ![Latest] = [d EXCEPT !.res = res]]
      BY <2>2, <2>3, <2>4
    <2>6. e = [d EXCEPT !.res = res]
      OBVIOUS
    <2>. HIDE DEF res, e, d
    <2>7. cleanups' = [[cleanups EXCEPT ![Latest] = d] EXCEPT ![Latest] = e]
      BY <2>2, <2>5, <2>6
    <2>. QED  BY <2>1, <2>7
  <1>4. res \in Outcomes /\ "failed" \in OpenOps \cup SettledOps
    BY <1>2, OutcomesOfRoles DEF SettledOps
  <1>. HIDE DEF res
  <1>5. /\ e \in Operations /\ e.status = "failed" /\ e.res = res
        /\ e.discard = cleanups[Latest].discard /\ e.auto = cleanups[Latest].auto
    BY <1>1, <1>4 DEF Operations
  <1>. HIDE DEF e
  <1>6. /\ cleanups' \in Seq(Operations) /\ Latest' = Latest /\ cleanups'[Latest] = e
        /\ \A i \in 1..Latest : i # Latest => cleanups'[i] = cleanups[i]
    BY <1>3, <1>5, OpUpdate
  <1>7. job[k] \in Jobs /\ Set(k, job[k])
    BY DEF IInv, Types, Set
  <1>8. Executed' = Executed /\ Roles' = Roles /\ RoleDom' = RoleDom
    BY RolesStay
  <1>9. \A l \in Cleaners : Sending(l)' = Sending(l) /\ Role(l)' = Role(l)
    BY <1>8 DEF Role, Sending
  <1>10. JobOK(k)' /\ SendOK(k)'
    BY DEF JobOK, SendOK, Sending, Busy
  <1>11. AloneInv'
    BY <1>9 DEF IInv, DeletingHalf, AloneInv, AloneOK, Fresh
  <1>12. CurrentInv'
    BY <1>5, <1>6 DEF CurrentInv, CurrentOK, Current
  <1>13. /\ e.res \in [RoleDom -> ResourceStates] /\ e.status # "succeeded"
         /\ \A q \in RoleDom : e.res[q] \in Confirmed => Target(q) \notin remote
         /\ \A q \in RoleDom : cleanups[Latest].res[q] \in Confirmed => e.res[q] \in Confirmed
         /\ \A q \in RoleDom : Touched(Latest, q) => e.res[q] \in Confirmed \cup {"running", "unknown"}
    BY <1>1, <1>2, <1>5 DEF OpOK, Touched
  <1>14. DeletingHalf'
    BY <1>3, <1>5, <1>7, <1>10, <1>11, <1>12, <1>13, OpsChange DEF Busy
  <1>15. CollectingHalf'
    BY CollectingRests
  <1>16. Types'
    BY <1>6 DEF IInv, Types
  <1>. QED  BY <1>14, <1>15, <1>16 DEF IInv

\* ClaimCleanup: a new session, with what the record holds of every resource.
LEMMA ClaimCleanupStep ==
    ASSUME IInv, NEW k \in Cleaners, ClaimCleanup(k), UNCHANGED <<work, sweep>>
    PROVE  IInv'
  <1>1. /\ ~Busy(k) /\ Latest > 0 /\ cleanups[Latest].status \in OpenOps
        /\ UNCHANGED <<s, ticket, pin, pub, tomb, lease, blobs, retired, remote, out, doomed, asked>>
    BY DEF ClaimCleanup, Claimable, OpenOps, local, provider
  <1>2. PendingCleanup
    BY <1>1, LatestOp, PendingMeans DEF IInv
  <1>3. CASE Eligible(cleanups[Latest].discard, Latest)
    BY <1>1, <1>2, <1>3, ClaimRuns DEF ClaimCleanup
  <1>4. CASE ~Eligible(cleanups[Latest].discard, Latest)
    BY <1>1, <1>2, <1>4, ClaimFails DEF ClaimCleanup
  <1>. QED  BY <1>3, <1>4

\* The lease of a cleanup runs out: its owner stays the last one.
LEMMA ExpireCleanupStep ==
    ASSUME IInv, ExpireCleanupLease, UNCHANGED <<work, sweep>>
    PROVE  IInv'
  <1>1. /\ hold' = [hold EXCEPT !.live = FALSE]
        /\ UNCHANGED <<s, ticket, pin, pub, tomb, cleanups, lease, blobs, retired, remote, out, doomed,
                       asked, job, work, sweep>>
    BY DEF ExpireCleanupLease, local, provider
  <1>2. hold \in Leases(Cleaners)
    BY DEF IInv, Types
  <1>3. hold' \in Leases(Cleaners) /\ hold'.owner = hold.owner
    BY <1>1, <1>2 DEF Leases
  <1>4. Executed' = Executed /\ Roles' = Roles /\ RoleDom' = RoleDom /\ Latest' = Latest
    BY <1>1, RolesStay DEF Latest
  <1>5. \A k : Role(k)' = Role(k)
    BY <1>1, <1>4 DEF Role
  <1>6. Safe' = Safe
    BY <1>1, <1>4 DEF Safe
  <1>7. OpInv' /\ AskedInv'
    BY <1>1, <1>4 DEF IInv, DeletingHalf, OpInv, OpOK, AskedInv, AskedOK, Touched, Target
  <1>8. AutoInv' /\ AloneInv'
    BY <1>1, <1>4, <1>5 DEF IInv, DeletingHalf, AutoInv, AutoOK, SendsFor, Sending, AloneInv, AloneOK, Fresh
  <1>9. JobInv'
    BY <1>1, <1>4, <1>5 DEF IInv, DeletingHalf, JobInv, JobOK, Busy, Target
  <1>10. SendInv'
    BY <1>1, <1>4, <1>5, <1>6 DEF IInv, DeletingHalf, SendInv, SendOK, Sending, Fresh, Touched, Target
  <1>11. CurrentInv'
    BY <1>1, <1>3, <1>4, <1>5
      DEF IInv, DeletingHalf, CurrentInv, CurrentOK, Current, Busy, Ahead, Unsent, Sending
  <1>12. DoomInv' /\ StagingOutlivesExecution'
    BY <1>1, <1>4, <1>6 DEF IInv, DeletingHalf, DoomInv, StagingOutlivesExecution, Target
  <1>13. CollectingHalf'
    BY <1>1, CollectingFrame DEF IInv, CollectingHalf
  <1>14. Types'
    BY <1>1, <1>3 DEF IInv, Types, Latest
  <1>. QED  BY <1>7, <1>8, <1>9, <1>10, <1>11, <1>12, <1>13, <1>14 DEF IInv, DeletingHalf

\* The provider acts on a delete, or loses it.
LEMMA ProviderStep ==
    ASSUME IInv, NEW o, Vanish(o) \/ LoseDelete(o), UNCHANGED <<work, sweep>>
    PROVE  IInv'
  <1>1. /\ UNCHANGED <<s, ticket, pin, pub, tomb, cleanups, lease, hold, blobs, retired, out,
                       asked, job, work, sweep>>
        /\ o \in doomed /\ doomed' = doomed \ {o} /\ remote' \in {remote, remote \ {o}}
    BY DEF Vanish, LoseDelete, ledger, local
  <1>2. Executed' = Executed /\ Roles' = Roles /\ RoleDom' = RoleDom /\ Latest' = Latest
    BY <1>1, RolesStay DEF Latest
  <1>3. \A k : Role(k)' = Role(k)
    BY <1>1, <1>2 DEF Role
  <1>4. Safe' = Safe
    BY <1>1, <1>2 DEF Safe
  <1>5. remote' \subseteq remote /\ remote \ doomed \subseteq remote' \ doomed'
    BY <1>1
  <1>6. OpInv' /\ AskedInv'
    BY <1>1, <1>2, <1>5 DEF IInv, DeletingHalf, OpInv, OpOK, AskedInv, AskedOK, Touched, Target
  <1>7. AutoInv' /\ AloneInv'
    BY <1>1, <1>2, <1>3 DEF IInv, DeletingHalf, AutoInv, AutoOK, SendsFor, Sending, AloneInv, AloneOK, Fresh
  <1>8. JobInv'
    BY <1>1, <1>2, <1>3, <1>5 DEF IInv, DeletingHalf, JobInv, JobOK, Busy, Target
  <1>9. SendInv'
    BY <1>1, <1>2, <1>3, <1>4, <1>5 DEF IInv, DeletingHalf, SendInv, SendOK, Sending, Fresh, Touched, Target
  <1>10. CurrentInv'
    BY <1>1, <1>2, <1>3
      DEF IInv, DeletingHalf, CurrentInv, CurrentOK, Current, Busy, Ahead, Unsent, Sending
  <1>11. DoomInv'
    BY <1>1, <1>4, <1>5 DEF IInv, DeletingHalf, DoomInv, Target
  <1>12. StagingOutlivesExecution'
    BY <1>1, <1>2, <1>5 DEF IInv, DeletingHalf, StagingOutlivesExecution
  <1>13. TransferExcludesDeletion'
    <2>1. PendingCleanup' = PendingCleanup
      BY <1>1 DEF PendingCleanup
    <2>. QED  BY <1>1, <2>1 DEF IInv, CollectingHalf, TransferExcludesDeletion
  <1>14. CollectingHalf'
    BY <1>1, <1>13, CollectingFrame DEF IInv, CollectingHalf
  <1>15. Types'
    BY <1>1 DEF IInv, Types, Latest
  <1>. QED  BY <1>6, <1>7, <1>8, <1>9, <1>10, <1>11, <1>12, <1>14, <1>15 DEF IInv, DeletingHalf

-----------------------------------------------------------------------------
(* A new cleanup.                                                          *)

\* A receipt is inherited exactly where some earlier cleanup had one.
LEMMA InheritedFacts ==
    ASSUME NEW r
    PROVE  /\ Inherited(r) \in {"deleted", "absent", "pending"}
           /\ Inherited(r) \in Confirmed <=> \E i \in DOMAIN cleanups : cleanups[i].res[r] \in Confirmed
  <1>. DEFINE earlier == {cleanups[i].res[r] : i \in DOMAIN cleanups}
  <1>1. \/ "deleted" \in earlier /\ Inherited(r) = "deleted"
        \/ "deleted" \notin earlier /\ "absent" \in earlier /\ Inherited(r) = "absent"
        \/ "deleted" \notin earlier /\ "absent" \notin earlier /\ Inherited(r) = "pending"
    BY DEF Inherited
  <1>. QED  BY <1>1 DEF Confirmed

\* discardPendingCollection keeps the attempt valid and nothing collecting.
LEMMA AdmitCollecting ==
    ASSUME IInv, NEW discard \in BOOLEAN, NEW auto \in BOOLEAN, AdmitCleanup(discard, auto),
           UNCHANGED <<pin, pub, tomb, blobs, retired, remote, out, doomed, asked, work, job, sweep>>
    PROVE  CollectingHalf' /\ s'.exec = s.exec /\ lease' \in Leases(Collectors)
  <1>1. /\ ~lease.live /\ (discard \/ ticket # "accepted")
    BY DEF AdmitCleanup, Eligible
  <1>2. s \in AttemptStates /\ ValidState(s) /\ lease \in Leases(Collectors)
    BY DEF IInv, Types, CollectingHalf, StateInv
  <1>3. CASE discard /\ ~Collected /\ ticket = "accepted"
    <2>1. ValidTransition(s, GivenUp) /\ s' = GivenUp /\ ticket' = "failed" /\ lease' = Overtaken(lease)
      BY <1>3 DEF AdmitCleanup
    <2>. DEFINE r == IF s.result = "collecting" THEN "incomplete" ELSE s.result
    <2>2. GivenUp = [s EXCEPT !.orch = "needs_attention", !.result = r]
      <3>1. [s EXCEPT !.orch = "needs_attention"].result = s.result
        BY <1>2 DEF AttemptStates
      <3>. QED  BY <3>1 DEF GivenUp
    <2>3. s.result \in Results /\ "incomplete" \in Results /\ "needs_attention" \in Orchestrations
      BY <1>2, SomeStates DEF AttemptStates
    <2>4. r \in Results /\ r # "collecting"
      BY <2>3
    <2>. HIDE DEF r
    <2>5. /\ s' \in AttemptStates /\ s'.orch = "needs_attention" /\ s'.result = r
          /\ s'.exec = s.exec /\ s'.remote = s.remote
      BY <1>2, <2>1, <2>2, <2>3, <2>4 DEF AttemptStates
    <2>6. Executed /\ pub = 0
      BY <1>3 DEF IInv, CollectingHalf, StateInv, TicketInv, TicketStaysServable
    <2>7. ValidState(s')
      BY <2>1 DEF ValidTransition
    <2>8. StateInv'
      BY <2>5, <2>6, <2>7, StateMoves, SomeStates
    <2>9. lease' \in Leases(Collectors) /\ lease'.live = lease.live
      BY <1>2, <2>1, Overtaking
    <2>10. TicketInv'
      BY <2>1, <2>4, <2>5, <2>6 DEF TicketInv, TicketStaysServable, CollectingHasTicket
    <2>11. TransferExcludesDeletion'
      BY <1>1, <2>9 DEF TransferExcludesDeletion
    <2>12. FileInv' /\ SweepInv' /\ WorkInv'
      BY CollectingFrame DEF IInv
    <2>. QED  BY <2>5, <2>8, <2>9, <2>10, <2>11, <2>12 DEF CollectingHalf
  <1>4. CASE ~(discard /\ ~Collected /\ ticket = "accepted")
    <2>1. UNCHANGED <<s, ticket, lease>>
      BY <1>4 DEF AdmitCleanup
    <2>2. ticket # "accepted"
      BY <1>1, <1>4 DEF IInv, CollectingHalf, TicketInv, TicketStaysServable, Collected
    <2>3. TicketInv'
      BY <1>1, <2>1, <2>2 DEF IInv, CollectingHalf, TicketInv, TicketStaysServable, CollectingHasTicket
    <2>4. TransferExcludesDeletion'
      BY <1>1, <2>1 DEF TransferExcludesDeletion
    <2>5. StateInv' /\ FileInv' /\ SweepInv' /\ WorkInv'
      BY <2>1, CollectingFrame DEF IInv
    <2>. QED  BY <1>2, <2>1, <2>3, <2>4, <2>5 DEF CollectingHalf
  <1>. QED  BY <1>3, <1>4

\* The one way a cleanup is accepted: all earlier ones have failed, and if it is the
\* rules' none of them is ambiguous.
LEMMA AdmitStep ==
    ASSUME IInv, NEW discard \in BOOLEAN, NEW auto \in BOOLEAN, AdmitCleanup(discard, auto),
           \A i \in DOMAIN cleanups : cleanups[i].status = "failed",
           auto => ~AmbiguousPrior,
           UNCHANGED <<pin, pub, tomb, blobs, retired, remote, out, doomed, asked, work, job, sweep>>
    PROVE  IInv'
  <1>0. PICK n \in Nat : n = Latest + 1
    BY Shapes DEF IInv
  <1>. DEFINE res == [r \in RoleDom |-> Inherited(r)]
              e == [status |-> "accepted", discard |-> discard, auto |-> auto, res |-> res]
  <1>1. /\ Latest < MaxCleanups /\ cleanups' = Append(cleanups, e) /\ hold' = Free
    BY RoleFacts DEF AdmitCleanup
  <1>2. CollectingHalf' /\ s'.exec = s.exec /\ lease' \in Leases(Collectors)
    BY AdmitCollecting
  <1>3. res \in [RoleDom -> ResourceStates]
    BY InheritedFacts DEF ResourceStates
  <1>4. /\ \A r \in RoleDom : res[r] = Inherited(r)
    OBVIOUS
  <1>5. res \in Outcomes
    BY <1>3, OutcomesOfRoles
  <1>. HIDE DEF res
  <1>6. e \in Operations /\ e.status = "accepted" /\ e.discard = discard /\ e.auto = auto /\ e.res = res
    BY <1>5 DEF Operations, OpenOps
  <1>. HIDE DEF e
  <1>7. Latest \in Nat /\ MaxCleanups \in Nat /\ cleanups \in Seq(Operations) /\ DOMAIN cleanups = 1..Latest
    BY Shapes, ResultAssumption DEF IInv, Types
  <1>8. /\ cleanups' \in Seq(Operations) /\ Latest' = n /\ cleanups'[n] = e
        /\ \A i \in 1..Latest : cleanups'[i] = cleanups[i]
    BY <1>0, <1>1, <1>6, <1>7, AppendProperties DEF Latest
  <1>9. /\ n \in 1..MaxCleanups /\ n \in 1..n /\ n \in Nat
        /\ \A i \in 1..n : i \in 1..Latest \/ i = n
        /\ \A i \in 1..Latest : i \in 1..n /\ i < n /\ i \in Nat
    BY <1>0, <1>1, <1>7
  <1>10. Executed' = Executed /\ Roles' = Roles /\ RoleDom' = RoleDom
    BY <1>2, RolesStay
  <1>11. \A l : Role(l)' = Role(l) /\ Sending(l)' = Sending(l)
    BY <1>10 DEF Role, Sending
  <1>12. Safe => Safe'
    BY <1>8, <1>9, <1>10 DEF Safe
  <1>13. \A i \in 1..Latest : OpOK(i) /\ cleanups[i].status = "failed"
    BY <1>7 DEF IInv, DeletingHalf, OpInv
  <1>14. OpInv'
    <2>1. OpOK(n)'
      <3>1. ASSUME NEW r \in RoleDom, res[r] \in Confirmed PROVE Target(r) \notin remote
        <4>1. PICK i \in 1..Latest : cleanups[i].res[r] \in Confirmed
          BY <1>4, <1>7, <3>1, InheritedFacts
        <4>. QED  BY <1>13, <4>1 DEF OpOK
      <3>. QED  BY <1>3, <1>6, <1>8, <1>9, <1>10, <3>1 DEF OpOK, Target
    <2>2. ASSUME NEW i \in 1..Latest PROVE OpOK(i)'
      BY <1>8, <1>10, <1>13 DEF OpOK, Target, SettledOps
    <2>. QED  BY <1>8, <1>9, <2>1, <2>2 DEF OpInv
  <1>15. \A i \in 1..Latest, r \in RoleDom : Touched(i, r)' = Touched(i, r)
    BY <1>8 DEF Touched
  <1>16. AskedInv'
    <2>1. ASSUME NEW i \in 1..MaxCleanups, NEW r \in RoleSet PROVE AskedOK(i, r)'
      <3>1. AskedOK(i, r)
        BY DEF IInv, DeletingHalf, AskedInv
      <3>2. CASE asked[i][r] > 0
        <4>1. i <= Latest /\ i \in 1..Latest /\ r \in RoleDom /\ Touched(i, r)
          BY <1>7, <3>1, <3>2 DEF AskedOK
        <4>2. i <= n
          BY <1>9, <4>1
        <4>. QED  BY <1>8, <1>10, <1>15, <3>1, <4>1, <4>2 DEF AskedOK
      <3>3. CASE ~(asked[i][r] > 0)
        BY <3>1, <3>3 DEF AskedOK
      <3>. QED  BY <3>2, <3>3
    <2>. QED  BY <2>1 DEF AskedInv
  <1>17. \A r \in RoleSet : asked[n][r] = 0
    <2>1. ASSUME NEW r \in RoleSet PROVE asked[n][r] = 0
      <3>1. AskedOK(n, r) /\ asked[n][r] \in Nat
        BY <1>9 DEF IInv, Types, DeletingHalf, AskedInv
      <3>2. ~(n <= Latest)
        BY <1>0, <1>7
      <3>. QED  BY <3>1, <3>2 DEF AskedOK
    <2>. QED  BY <2>1
  <1>18. AutoInv'
    <2>1. ASSUME NEW m \in 1..Latest, NEW i \in 1..Latest, NEW q \in RoleSet, i < m
          PROVE  AutoOK(m, i, q)'
      <3>1. AutoOK(m, i, q)
        BY <2>1 DEF IInv, DeletingHalf, AutoInv
      <3>2. \A l \in Cleaners : SendsFor(l, i, q)' = SendsFor(l, i, q)
        BY <1>11 DEF SendsFor
      <3>. QED  BY <1>8, <1>10, <3>1, <3>2 DEF AutoOK
    <2>2. ASSUME NEW i \in 1..Latest, NEW q \in RoleSet, auto PROVE AutoOK(n, i, q)'
      <3>1. i \in 1..MaxCleanups
        BY Shapes DEF IInv
      <3>2. CASE asked[i][q] = 0 /\ \A l \in Cleaners : ~SendsFor(l, i, q)
        <4>1. \A l \in Cleaners : ~SendsFor(l, i, q)'
          BY <1>11, <3>2 DEF SendsFor
        <4>. QED  BY <3>2, <4>1 DEF AutoOK
      <3>3. CASE ~(asked[i][q] = 0 /\ \A l \in Cleaners : ~SendsFor(l, i, q))
        <4>1. q \in RoleDom /\ Touched(i, q)
          <5>1. CASE asked[i][q] # 0
            <6>1. AskedOK(i, q) /\ asked[i][q] \in Nat
              BY <3>1 DEF IInv, Types, DeletingHalf, AskedInv
            <6>. QED  BY <5>1, <6>1 DEF AskedOK
          <5>2. CASE \E l \in Cleaners : SendsFor(l, i, q)
            <6>1. PICK l \in Cleaners : SendsFor(l, i, q)
              BY <5>2
            <6>2. SendOK(l) /\ Role(l) \in RoleDom /\ Role(l) = q /\ job[l].op = i /\ Sending(l)
              BY <6>1, BusyFacts DEF SendsFor, Sending, Busy
            <6>. QED  BY <6>2 DEF SendOK
          <5>. QED  BY <3>3, <5>1, <5>2
        <4>2. DOMAIN cleanups[i].res = RoleDom /\ cleanups[i].status = "failed"
          BY <1>13, Shapes DEF IInv
        <4>3. cleanups[i].res[q] \notin {"running", "unknown"}
          BY <1>7, <2>2, <4>1, <4>2 DEF AmbiguousPrior
        <4>4. cleanups[i].res[q] \in Confirmed
          BY <4>1, <4>3 DEF Touched
        <4>5. res[q] \in Confirmed
          BY <1>4, <1>7, <4>1, <4>4, InheritedFacts
        <4>. QED  BY <1>6, <1>8, <1>10, <1>17, <4>1, <4>5 DEF AutoOK
      <3>. QED  BY <3>2, <3>3
    <2>3. ASSUME NEW i \in 1..Latest, NEW q \in RoleSet, ~auto PROVE AutoOK(n, i, q)'
      BY <1>6, <1>8, <2>3 DEF AutoOK
    <2>4. ASSUME NEW m \in 1..n, NEW i \in 1..n, i < m PROVE i \in 1..Latest
      BY <1>0, <1>7, <2>4
    <2>. QED  BY <1>8, <1>9, <2>1, <2>2, <2>3, <2>4 DEF AutoInv
  <1>19. JobInv'
    <2>1. ASSUME NEW l \in Cleaners PROVE JobOK(l)'
      <3>1. JobOK(l)
        BY DEF IInv, DeletingHalf, JobInv
      <3>. QED  BY <1>8, <1>9, <1>10, <1>11, <3>1 DEF JobOK, Busy, Target
    <2>. QED  BY <2>1 DEF JobInv
  <1>20. SendInv'
    <2>1. ASSUME NEW l \in Cleaners, Sending(l) PROVE SendOK(l)'
      <3>1. SendOK(l) /\ job[l].op \in 1..Latest /\ Role(l) \in RoleDom
        BY <2>1, BusyFacts DEF Sending, Busy
      <3>2. Touched(job[l].op, Role(l))'
        BY <1>8, <1>11, <2>1, <3>1 DEF SendOK, Touched
      <3>. QED  BY <1>10, <1>11, <1>12, <2>1, <3>1, <3>2 DEF SendOK, Fresh, Target
    <2>. QED  BY <1>11, <2>1 DEF SendInv, SendOK
  <1>21. AloneInv'
    BY <1>11 DEF IInv, DeletingHalf, AloneInv, AloneOK, Fresh
  <1>22. CurrentInv'
    BY <1>1, ResultAssumption DEF CurrentInv, CurrentOK, Current, Free
  <1>23. DoomInv' /\ StagingOutlivesExecution'
    BY <1>10, <1>12 DEF IInv, DeletingHalf, DoomInv, StagingOutlivesExecution, Target
  <1>24. hold' \in Leases(Cleaners)
    BY <1>1 DEF Leases, Free
  <1>25. Latest' <= MaxCleanups
    BY <1>8, <1>9
  <1>26. Types'
    BY <1>2, <1>8, <1>24, <1>25 DEF IInv, Types
  <1>. QED  BY <1>2, <1>14, <1>16, <1>18, <1>19, <1>20, <1>21, <1>22, <1>23, <1>26 DEF IInv, DeletingHalf

\* A cleanup request is an admission.
LEMMA RequestCleanupStep ==
    ASSUME IInv, NEW discard \in BOOLEAN, RequestCleanup(discard)
    PROVE  IInv'
  BY AdmitStep DEF RequestCleanup, local, provider

\* ScheduleRetention admits a cleanup by rule, unless an earlier one is ambiguous.
LEMMA ScheduleStep ==
    ASSUME IInv, NEW kind \in Kinds, ScheduleRetention(kind)
    PROVE  IInv'
  <1>1. CASE AmbiguousPrior \/ ~Eligible(kind = "uncollected", 0)
    <2>1. out \in Versions
      BY DEF IInv, Types
    <2>. QED  BY <1>1, <2>1, OutsideStep DEF ScheduleRetention, local, provider
  <1>2. CASE ~(AmbiguousPrior \/ ~Eligible(kind = "uncollected", 0))
    <2>. DEFINE d == kind = "uncollected"
    <2>1. d \in BOOLEAN /\ TRUE \in BOOLEAN
      OBVIOUS
    <2>2. /\ AdmitCleanup(d, TRUE) /\ ~AmbiguousPrior
          /\ \A i \in DOMAIN cleanups : cleanups[i].status = "failed"
          /\ UNCHANGED <<pin, pub, tomb, blobs, retired, remote, out, doomed, asked, work, job, sweep>>
      BY <1>2 DEF ScheduleRetention, local, provider
    <2>. HIDE DEF d
    <2>. QED  BY <2>1, <2>2, AdmitStep
  <1>. QED  BY <1>1, <1>2

\* A crash ends every session and clears the quarantine; the ledger and the requests on
\* their way survive it.
LEMMA CrashStep ==
    ASSUME IInv, Crash
    PROVE  IInv'
  <1>1. /\ work' = [c \in Collectors |-> NoWork] /\ job' = [k \in Cleaners |-> NoJob]
        /\ sweep' = Resting /\ retired' = {}
        /\ UNCHANGED <<s, ticket, pin, pub, tomb, cleanups, lease, hold, blobs, remote, out, doomed, asked>>
    BY DEF Crash, ledger, provider
  <1>2. MaxVersion \in Nat
    BY ResultAssumption
  <1>3. NoWork \in Works /\ NoWork.pc = "idle" /\ NoJob \in Jobs /\ NoJob.pc = "idle"
    BY <1>2 DEF NoWork, Works, NoJob, Jobs, ResourceStates
  <1>4. Executed' = Executed /\ Roles' = Roles /\ RoleDom' = RoleDom /\ Latest' = Latest
    BY <1>1, RolesStay DEF Latest
  <1>5. \A k \in Cleaners : job'[k].pc = "idle"
    BY <1>1, <1>3
  <1>6. JobInv' /\ SendInv' /\ AloneInv' /\ CurrentInv'
    BY <1>5 DEF JobInv, JobOK, SendInv, SendOK, AloneInv, AloneOK, CurrentInv, CurrentOK, Current,
                Busy, Sending
  <1>7. OpInv' /\ AskedInv'
    BY <1>1, <1>4 DEF IInv, DeletingHalf, OpInv, OpOK, AskedInv, AskedOK, Touched, Target
  <1>8. AutoInv'
    BY <1>1, <1>4, <1>5 DEF IInv, DeletingHalf, AutoInv, AutoOK, SendsFor, Sending
  <1>9. DoomInv' /\ StagingOutlivesExecution'
    BY <1>1, <1>4 DEF IInv, DeletingHalf, DoomInv, StagingOutlivesExecution, Target, Safe
  <1>10. StateInv' /\ TicketInv' /\ TransferExcludesDeletion'
    BY <1>1, CollectingFrame DEF IInv
  <1>11. FileInv' /\ SweepInv'
    BY <1>1 DEF IInv, CollectingHalf, FileInv, FileOK, Present, SweepInv, Resting
  <1>12. WorkInv'
    BY <1>1, <1>3 DEF WorkInv, WorkOK
  <1>13. work' \in [Collectors -> Works] /\ job' \in [Cleaners -> Jobs] /\ sweep' \in Sweeps
    BY <1>1, <1>3, SweepFacts
  <1>14. Types'
    BY <1>1, <1>4, <1>13 DEF IInv, Types
  <1>. QED  BY <1>6, <1>7, <1>8, <1>9, <1>10, <1>11, <1>12, <1>14 DEF IInv, CollectingHalf, DeletingHalf

-----------------------------------------------------------------------------
(* The invariant.                                                          *)

\* An attempt whose execution has ended, or never began.
LEMMA InitState ==
    ASSUME LedgerInit
    PROVE  StateInv
  <1>1. /\ InitialAttemptState \in AttemptStates
        /\ InitialAttemptState.exec = "not_submitted" /\ InitialAttemptState.result = "not_available"
        /\ InitialAttemptState.cancel = "not_requested" /\ InitialAttemptState.remote = "not_started"
        /\ InitialAttemptState.release = "unknown" /\ InitialAttemptState.deadline = FALSE
    BY DEF InitialAttemptState, AttemptStates, Orchestrations, Executions, Results, Cancellations,
           RemoteActivities, ReleaseEvidences
  <1>2. ticket = "none" /\ pub = 0
    BY DEF LedgerInit
  <1>3. PICK exec \in Executions0 :
         IF exec = "not_submitted"
         THEN \E orch \in {"failed", "cancelled"} :
                s = [InitialAttemptState EXCEPT
                       !.orch = orch, !.release = "not_applicable",
                       !.cancel = IF orch = "cancelled" THEN "prevented" ELSE @]
         ELSE \E cancel \in {"not_requested",
                             IF exec = "cancelled" THEN "confirmed" ELSE "too_late"} :
                s = [InitialAttemptState EXCEPT
                       !.orch = "collecting", !.exec = exec, !.remote = "inactive",
                       !.cancel = cancel, !.deadline = exec = "timed_out"]
    BY DEF LedgerInit
  <1>4. CASE exec = "not_submitted"
    <2>1. PICK orch \in {"failed", "cancelled"}, cancel \in {"prevented", "not_requested"} :
            /\ s = [InitialAttemptState EXCEPT !.orch = orch, !.release = "not_applicable", !.cancel = cancel]
            /\ cancel = "prevented" <=> orch = "cancelled"
      <3>1. PICK orch \in {"failed", "cancelled"} :
              s = [InitialAttemptState EXCEPT
                       !.orch = orch, !.release = "not_applicable",
                       !.cancel = IF orch = "cancelled" THEN "prevented" ELSE @]
        BY <1>3, <1>4
      <3>2. [InitialAttemptState EXCEPT !.orch = orch, !.release = "not_applicable"].cancel = "not_requested"
        BY <1>1 DEF AttemptStates
      <3>3. CASE orch = "cancelled"
        BY <3>1, <3>3
      <3>4. CASE orch = "failed"
        <4>1. s = [InitialAttemptState EXCEPT !.orch = orch, !.release = "not_applicable",
                                              !.cancel = "not_requested"]
          BY <3>1, <3>2, <3>4
        <4>. QED  BY <3>4, <4>1
      <3>. QED  BY <3>3, <3>4
    <2>2. orch \in Orchestrations /\ cancel \in Cancellations /\ "not_applicable" \in ReleaseEvidences
      BY DEF Orchestrations, OrchestrationTerminal, Cancellations, ReleaseEvidences
    <2>3. /\ s \in AttemptStates
          /\ s.orch = orch /\ s.release = "not_applicable" /\ s.cancel = cancel
          /\ s.exec = "not_submitted" /\ s.result = "not_available" /\ s.remote = "not_started"
          /\ s.deadline = FALSE
      BY <1>1, <2>1, <2>2 DEF AttemptStates
    <2>4. ValidState(s)
      BY <2>1, <2>3 DEF ValidState, ExecutionConsistent, ResultConsistent, CancellationConsistent,
         ReleaseConsistent, OrchestrationConsistent, OrchestrationTerminal, ExecutionTerminal, ExecutionActive
    <2>. QED  BY <1>2, <2>3, <2>4 DEF StateInv, Executed, OrchestrationTerminal
  <1>5. CASE exec # "not_submitted"
    <2>. DEFINE d == exec = "timed_out"
    <2>1. PICK cancel \in {"not_requested", "confirmed", "too_late"} :
            /\ s = [InitialAttemptState EXCEPT !.orch = "collecting", !.exec = exec, !.remote = "inactive",
                                               !.cancel = cancel, !.deadline = d]
            /\ cancel = "confirmed" => exec = "cancelled"
      BY <1>3, <1>5
    <2>2. exec \in ExecutionTerminal /\ d \in BOOLEAN
      BY <1>5, ResultAssumption
    <2>. HIDE DEF d
    <2>3. "collecting" \in Orchestrations /\ cancel \in Cancellations /\ exec \in Executions
          /\ "inactive" \in RemoteActivities
      BY <2>2 DEF Orchestrations, Cancellations, Executions, RemoteActivities
    <2>4. /\ s \in AttemptStates
          /\ s.orch = "collecting" /\ s.release = "unknown" /\ s.cancel = cancel
          /\ s.exec = exec /\ s.result = "not_available" /\ s.remote = "inactive"
      BY <1>1, <2>1, <2>2, <2>3 DEF AttemptStates
    <2>5. ValidState(s)
      BY <2>1, <2>2, <2>4 DEF ValidState, ExecutionConsistent, ResultConsistent, CancellationConsistent,
         ReleaseConsistent, OrchestrationConsistent, OrchestrationTerminal, ExecutionTerminal, ExecutionActive
    <2>. QED  BY <1>2, <1>5, <2>2, <2>4, <2>5, SomeStates DEF StateInv, Executed
  <1>. QED  BY <1>4, <1>5

\* The invariant holds of an attempt that has just ended.
LEMMA InitInv == Init => IInv
  <1>. SUFFICES ASSUME Init PROVE IInv
    OBVIOUS
  <1>1. /\ ticket = "none" /\ pin = 0 /\ pub = 0 /\ cleanups = <<>> /\ lease = Free /\ hold = Free
        /\ blobs = {} /\ retired = {} /\ out = 1 /\ doomed = {}
        /\ tomb = [f \in Everything |-> "none"]
        /\ asked = [i \in 1..MaxCleanups |-> [role \in RoleSet |-> 0]]
        /\ remote = {Target(Roles[i]) : i \in DOMAIN Roles}
        /\ work = [c \in Collectors |-> NoWork] /\ job = [k \in Cleaners |-> NoJob] /\ sweep = Resting
    BY DEF Init, LedgerInit
  <1>2. StateInv
    BY InitState DEF Init
  <1>3. s.result # "collecting"
    BY DEF Init, LedgerInit, InitialAttemptState
  <1>4. MaxVersion \in Nat /\ MaxVersion >= 1 /\ MaxCleanups \in Nat
    BY ResultAssumption
  <1>5. NoWork \in Works /\ NoWork.pc = "idle" /\ NoJob \in Jobs /\ NoJob.pc = "idle"
    BY <1>4 DEF NoWork, Works, NoJob, Jobs, ResourceStates
  <1>6. Latest = 0 /\ cleanups \in Seq(Operations) /\ DOMAIN cleanups = {}
    BY <1>1 DEF Latest
  <1>7. ~PendingCleanup
    BY <1>6 DEF PendingCleanup
  <1>8. /\ Free \in Leases(Collectors) /\ Free \in Leases(Cleaners) /\ Free.owner = Nobody /\ ~Free.live
        /\ Resting \in Sweeps /\ Resting.pc = "idle"
    BY DEF Free, Leases, Resting, Sweeps
  <1>9. Types
    BY <1>1, <1>4, <1>5, <1>6, <1>8 DEF Types, Versions
  <1>10. TicketInv /\ TransferExcludesDeletion
    BY <1>1, <1>3, <1>8 DEF TicketInv, TicketStaysServable, CollectingHasTicket, TransferExcludesDeletion
  <1>11. FileInv /\ SweepInv /\ WorkInv
    BY <1>1, <1>5, <1>8 DEF FileInv, FileOK, SweepInv, WorkInv, WorkOK
  <1>12. OpInv /\ AutoInv
    BY <1>6 DEF OpInv, AutoInv
  <1>13. AskedInv
    BY <1>1 DEF AskedInv, AskedOK
  <1>14. \A k \in Cleaners : job[k].pc = "idle"
    BY <1>1, <1>5
  <1>15. JobInv /\ SendInv /\ AloneInv /\ CurrentInv
    BY <1>14 DEF JobInv, JobOK, SendInv, SendOK, AloneInv, AloneOK, CurrentInv, CurrentOK, Current,
                Busy, Sending
  <1>16. \A r \in RoleDom : Target(r) \in remote
    BY <1>1, RoleFacts
  <1>17. DoomInv
    <2>1. Executed => Target("execution") \in remote
      BY <1>16, RoleFacts
    <2>. QED  BY <1>1, <2>1 DEF DoomInv, Safe
  <1>18. StagingOutlivesExecution
    <2>1. "staging" \in RoleDom
      BY DEF RoleDom, RoleSet
    <2>. QED  BY <1>1, <1>16, <2>1 DEF StagingOutlivesExecution, Target
  <1>. QED  BY <1>2, <1>9, <1>10, <1>11, <1>12, <1>13, <1>15, <1>17, <1>18
         DEF IInv, CollectingHalf, DeletingHalf

\* Every step preserves the invariant: one lemma per action.
LEMMA NextInv == IInv /\ [Next]_vars => IInv'
  <1>. SUFFICES ASSUME IInv, [Next]_vars PROVE IInv'
    OBVIOUS
  <1>1. CASE UNCHANGED vars
    <2>1. out \in Versions
      BY DEF IInv, Types
    <2>. QED  BY <1>1, <2>1, OutsideStep DEF vars, ledger, local, provider
  <1>2. CASE CollectionNext /\ UNCHANGED <<job, sweep>>
    <2>1. CASE ExpireCollectionLease
      BY <1>2, <2>1, ExpireCollectionStep
    <2>2. ASSUME NEW c \in Collectors,
                 \/ ClaimCollection(c) \/ List(c) \/ FetchManifest(c) \/ PinCollection(c)
                 \/ StartTransfer(c) \/ (\E f \in Everything : Transfer(c, f)) \/ Verify(c)
                 \/ CollectionError(c) \/ CompleteCollection(c) \/ FailCollection(c)
                 \/ LoseCollection(c) \/ AbandonCollection(c)
          PROVE  IInv'
      BY <1>2, <2>2, ClaimCollectionStep, QuietCollection, PinStep, TransferStep,
         CompleteCollectionStep, FailCollectionStep
    <2>. QED  BY <1>2, <2>1, <2>2 DEF CollectionNext
  <1>3. CASE CleanupNext /\ UNCHANGED <<work, sweep>>
    <2>1. CASE ExpireCleanupLease
      BY <1>3, <2>1, ExpireCleanupStep
    <2>2. ASSUME NEW o \in Objects, Vanish(o) \/ LoseDelete(o) PROVE IInv'
      BY <1>3, <2>2, ProviderStep
    <2>3. ASSUME NEW k \in Cleaners,
                 \/ ClaimCleanup(k) \/ Look(k) \/ BeginCleanupResource(k) \/ Call(k) \/ Reply(k)
                 \/ Record(k) \/ CompleteCleanup(k) \/ LoseCleanup(k) \/ AbandonCleanup(k)
          PROVE  IInv'
      BY <1>3, <2>3, ClaimCleanupStep, LookStep, BeginStep, CallStep, QuietCalls, RecordStep,
         CompleteCleanupStep
    <2>. QED  BY <1>3, <2>1, <2>2, <2>3 DEF CleanupNext
  <1>4. CASE RequestCollect \/ RequestCancel \/ (\E discard \in BOOLEAN : RequestCleanup(discard))
    BY <1>4, RequestCollectStep, RequestCancelStep, RequestCleanupStep
  <1>5. CASE \E kind \in Kinds : Tick(kind) \/ ScheduleRetention(kind)
    BY <1>5, WorldStep, ScheduleStep
  <1>6. CASE Tombstone \/ SweepStep \/ SweepError
    BY <1>6, TombstoneStep, PickStep, DeleteStep, CompleteRetentionStep, SweepErrorStep DEF SweepStep
  <1>7. CASE Rewrite \/ Share \/ DispatchEnds \/ Crash
    BY <1>7, WorldStep, CrashStep
  <1>. QED  BY <1>1, <1>2, <1>3, <1>4, <1>5, <1>6, <1>7 DEF Next

\* The invariant holds in every state of every behaviour.
THEOREM Invariance == Spec => []IInv
  BY InitInv, NextInv, PTL DEF Spec

-----------------------------------------------------------------------------
(* What it means.                                                          *)

\* While a collector's lease runs, no deletion of the source is requested, under way or
\* possibly done (ClaimCollection and eligibleCleanup exclude each other).
THEOREM TransfersExclude == Spec => []TransferExcludesDeletion
  <1>1. IInv => TransferExcludesDeletion
    BY DEF IInv, CollectingHalf
  <1>. QED  BY <1>1, Invariance, PTL

\* A published result is the pinned snapshot, whole (CompleteCollection).
THEOREM PublishedWhole == Spec => []PublicationWhole
  <1>1. IInv => PublicationWhole
    BY DEF IInv, CollectingHalf, FileInv, FileOK, PublicationWhole
  <1>. QED  BY <1>1, Invariance, PTL

\* An accepted ticket can be claimed, and a transfer under way has one.
THEOREM TicketsServed == Spec => []TicketsServable
  <1>1. IInv => TicketsServable
    BY DEF IInv, CollectingHalf, TicketInv, TicketsServable
  <1>. QED  BY <1>1, Invariance, PTL

\* Nothing remote is deleted before the results are safe or given up, and no inputs
\* before the outputs (eligibleCleanup, BeginCleanupResource).
THEOREM DeletedInTime == Spec => []NothingDeletedEarly
  <1>1. ASSUME IInv PROVE ResultsSurviveCleanup
    <2>. SUFFICES ASSUME Executed, Target("execution") \notin remote \ doomed,
                         \A i \in DOMAIN cleanups : ~cleanups[i].discard
                  PROVE  /\ pub # 0
                         /\ \A f \in Everything : Present(f, pub) \/ tomb[f] \in {"expired", "deleted"}
      BY DEF ResultsSurviveCleanup
    <2>1. Safe
      BY <1>1 DEF IInv, DeletingHalf, DoomInv
    <2>2. pub # 0
      BY <1>1, <2>1, Shapes DEF IInv, Safe
    <2>. QED  BY <1>1, <2>2 DEF IInv, CollectingHalf, FileInv, FileOK
  <1>2. IInv => NothingDeletedEarly
    BY <1>1 DEF IInv, DeletingHalf, NothingDeletedEarly
  <1>. QED  BY <1>2, Invariance, PTL

\* What a cleanup recorded as deleted or absent is gone, across recovered sessions and
\* inherited receipts (CompleteCleanup).
THEOREM ReceiptsTrue == Spec => []ConfirmedMeansGone
  <1>1. ASSUME IInv PROVE ConfirmedMeansGone
    <2>1. DOMAIN cleanups = 1..Latest /\ \A i \in 1..Latest : DOMAIN cleanups[i].res = RoleDom /\ OpOK(i)
      BY <1>1, Shapes DEF IInv, DeletingHalf, OpInv
    <2>. QED  BY <2>1 DEF ConfirmedMeansGone, OpOK
  <1>. QED  BY <1>1, Invariance, PTL

\* Deletes are sent once per request and resource, and never again by a rule
\* (RecoverOnly, ambiguousPriorCleanup).
THEOREM SentAsAsked == Spec => []DeletesAsAsked
  <1>1. ASSUME IInv PROVE DeletesAsAsked
    <2>1. OneDeletePerRequest
      BY <1>1 DEF IInv, DeletingHalf, AskedInv, AskedOK, OneDeletePerRequest
    <2>2. NoAutomaticRepeat
      <3>. SUFFICES ASSUME NEW m \in DOMAIN cleanups, NEW i \in 1..(m - 1), NEW q \in RoleSet,
                           cleanups[m].auto, asked[m][q] > 0
                    PROVE  asked[i][q] = 0
        BY DEF NoAutomaticRepeat
      <3>1. m \in 1..Latest /\ i \in 1..Latest /\ i < m
        BY <1>1, Shapes DEF IInv
      <3>2. AutoOK(m, i, q)
        BY <1>1, <3>1 DEF IInv, DeletingHalf, AutoInv
      <3>. QED  BY <3>2 DEF AutoOK
    <2>. QED  BY <2>1, <2>2 DEF DeletesAsAsked
  <1>. QED  BY <1>1, Invariance, PTL

\* What retention acknowledged as reclaimed is gone, from quarantine too
\* (CompleteRetention): the safety half of LifetimesEnd.
THEOREM ReclaimedGone == Spec => []ReclaimedMeansGone
  <1>1. IInv => ReclaimedMeansGone
    BY DEF IInv, CollectingHalf, FileInv, FileOK, ReclaimedMeansGone
  <1>. QED  BY <1>1, Invariance, PTL
=============================================================================
