-------------------------- MODULE HostStorageProofs -------------------------
(***************************************************************************)
(* What the shared storage of a host promises, for any attempts, any number *)
(* of generations, any budget and any number of faults.  The invariant has *)
(* three groups that lean on each other: the generations and their one     *)
(* writer, the attempts and their one container, the operations and what   *)
(* they may still send.                                                    *)
(***************************************************************************)
EXTENDS HostStorage, WellFoundedInduction, TLAPS

Labelled(g) == vol[g] \in {"empty", "partial", "whole"}
LateCreate(a) == \E g \in Gens : <<"container create", <<a, g>>>> \in late
LateStart(a) == <<"container start", a>> \in late
LateWriter(g) == <<"volume create", g>> \in late \/ <<"write", g>> \in late

\* The call has yet to create its container.
Creating(a) ==
    call[a].pc \in {"look", "resolve", "wait", "claimed", "begun", "made", "written", "bound"}
Writing(a) == call[a].pc \in {"begun", "made", "written"}

\* A generation is written by one permission, paid for when it is given.
GenOK(g) ==
    /\ gen[g].st = "none" <=> gen[g].ph = "none"
    /\ gen[g].st \in {"verified", "retired"} => gen[g].ph = "finished"
    /\ gen[g].ph = "begun" => res[g] = "committed"
    /\ gen[g].ph \in {"none", "intent"} => seen.writes[g] = 0
    /\ seen.writes[g] <= 1
    /\ LateWriter(g) => gen[g].ph = "begun"
GenInv == \A g \in Gens : GenOK(g)

\* The call that holds the permission is the owner's, and has sent nothing before it writes.
WriterOK(a) ==
    /\ call[a].pc \in {"claimed", "bound"} => call[a].g \in Gens
    /\ Writing(a) => /\ call[a].g \in Gens
                     /\ gen[call[a].g].owner = a
                     /\ gen[call[a].g].ph \in {"begun", "finished"}
                     /\ ~LateWriter(call[a].g)
    /\ call[a].pc \in {"begun", "made"} => /\ gen[call[a].g].ph = "begun"
                                           /\ seen.writes[call[a].g] = 0
WriterInv == \A a \in Attempts : WriterOK(a)

\* A volume of the key was made under its permission.  It is paid for, unless it was
\* retired unseen by the scan that discharged it.
VolOK(g) ==
    Labelled(g) =>
        /\ gen[g].ph \in {"begun", "finished"}
        /\ res[g] = "committed" \/ g \in seen.blind
        /\ sample.pc \in {"listed", "stamped"} /\ g \notin sample.vols /\ gen[g].st = "retired"
              => g \in seen.blind \cup sample.after
VolInv == \A g \in Gens : VolOK(g)

\* What carries the marker mounts the whole content.
WholeOK(a) ==
    /\ box[a].st # "none" => box[a].mount \in Gens
    /\ box[a].ready => box[a].st # "none" /\ vol[box[a].mount] = "whole"
WholeInv == \A a \in Attempts : WholeOK(a)

\* An attempt creates one container and starts it once, between its barriers.
AttOK(a) ==
    /\ job[a] \notin {"none", "withdrawn", "cleaned"} => pin[a] = "live"
    /\ job[a] \in {"none", "queued", "withdrawn", "cleaned"} => box[a].st = "none"
    /\ call[a].pc # "idle" =>
          /\ job[a] = IF call[a].pc = "checked" THEN "submitting" ELSE "preparing"
          /\ ~LateCreate(a) /\ ~LateStart(a)
    /\ Creating(a) => box[a].st = "none"
    /\ LateCreate(a) => box[a].st = "none" /\ job[a] \in {"preparing", "abandoned"}
    /\ \A g, h \in Gens : <<"container create", <<a, g>>>> \in late
                          /\ <<"container create", <<a, h>>>> \in late => g = h
    /\ box[a].st \in {"running", "exited"} =>
          /\ job[a] \in {"submitting", "submitted", "ended", "cleaning"}
          /\ call[a].pc # "checked" /\ ~LateStart(a)
    /\ box[a].st = "running" => job[a] \in {"submitting", "submitted"}
    /\ LateStart(a) => job[a] = "submitting"
AttInv == \A a \in Attempts : AttOK(a)

\* An operation follows the end of what it deletes: a finished generation, or an
\* attempt with nothing left to create.
OpenOK(t) ==
    op[t].st # "none" => IF t \in Gens THEN gen[t].ph = "finished"
                         ELSE /\ ~Creating(t) /\ ~LateCreate(t)
                              /\ job[t] \notin {"none", "queued", "withdrawn"}
OpenInv == \A t \in Targets : OpenOK(t)

\* The intent to delete is recorded before the removal is sent.
OpOK(t) ==
    /\ seen.rms[t] <= 1
    /\ op[t].res = "pending" => seen.rms[t] = 0
    /\ op[t].st = "accepted" => op[t].res = "pending"
    /\ op[t].st = "running" => op[t].res \in {"pending", "running"}
OpInv == \A t \in Targets : OpOK(t)

WorkInv ==
    work.pc # "idle" =>
        /\ work.t \in Targets /\ op[work.t].st = "running"
        /\ work.pc \in {"observe", "observed"} => op[work.t].res = "pending"
        /\ work.pc = "begun" => op[work.t].res = "running" /\ seen.rms[work.t] = 0
        /\ work.pc = "done" => work.out # "none"

\* What was reported gone, or is about to be, is gone.
Gone(t) == IF t \in Gens THEN ~Labelled(t) ELSE box[t].st = "none"
GoneInv ==
    /\ \A t \in Targets : op[t].st = "succeeded" => Gone(t)
    /\ work.pc = "done" /\ work.out \in {"deleted", "absent"} => Gone(work.t)

IInv ==
    /\ TypeOK
    /\ GenInv /\ WriterInv /\ VolInv
    /\ WholeInv /\ AttInv
    /\ OpenInv /\ OpInv /\ WorkInv /\ GoneInv

-----------------------------------------------------------------------------
(* The parts and what they depend on.                                      *)

CallPcs == {"idle", "look", "resolve", "wait", "claimed", "begun", "made", "written", "bound",
            "boxed", "failing", "staged", "checked"}

\* Generations are positive, and no attempt is one.
LEMMA Bounds ==
    /\ MaxGen \in Nat /\ MaxGen >= 1 /\ Gens \subseteq Nat
    /\ Gens \cap Attempts = {} /\ 0 \notin Attempts /\ 0 \notin Gens
    /\ \A g \in Gens : g \in 0..MaxGen
  BY HostAssumption DEF Gens

\* Each part survives a step that leaves what it reads.
LEMMA Frames ==
    ASSUME IInv
    PROVE  /\ UNCHANGED <<gen, res, late>> /\ seen'.writes = seen.writes => GenInv'
           /\ UNCHANGED <<call, gen, late>> /\ seen'.writes = seen.writes => WriterInv'
           /\ UNCHANGED <<vol, gen, res, sample>> /\ seen'.blind = seen.blind => VolInv'
           /\ UNCHANGED <<box, vol>> => WholeInv'
           /\ UNCHANGED <<box, job, pin, call, late>> => AttInv'
           /\ UNCHANGED <<op, gen, call, late, job>> => OpenInv'
           /\ UNCHANGED op /\ seen'.rms = seen.rms => OpInv'
           /\ UNCHANGED <<work, op>> /\ seen'.rms = seen.rms => WorkInv'
           /\ UNCHANGED <<work, op, vol, box>> => GoneInv'
  <1>1. UNCHANGED <<gen, res, late>> /\ seen'.writes = seen.writes => GenInv'
    BY DEF IInv, GenInv, GenOK, LateWriter
  <1>2. UNCHANGED <<call, gen, late>> /\ seen'.writes = seen.writes => WriterInv'
    BY DEF IInv, WriterInv, WriterOK, Writing, LateWriter
  <1>3. UNCHANGED <<vol, gen, res, sample>> /\ seen'.blind = seen.blind => VolInv'
    BY DEF IInv, VolInv, VolOK, Labelled
  <1>4. UNCHANGED <<box, vol>> => WholeInv'
    BY DEF IInv, WholeInv, WholeOK
  <1>5. UNCHANGED <<box, job, pin, call, late>> => AttInv'
    BY DEF IInv, AttInv, AttOK, LateCreate, LateStart, Creating
  <1>6. UNCHANGED <<op, gen, call, late, job>> => OpenInv'
    BY DEF IInv, OpenInv, OpenOK, Creating, LateCreate
  <1>7. UNCHANGED op /\ seen'.rms = seen.rms => OpInv'
    BY DEF IInv, OpInv, OpOK
  <1>8. UNCHANGED <<work, op>> /\ seen'.rms = seen.rms => WorkInv'
    BY DEF IInv, WorkInv
  <1>9. UNCHANGED <<work, op, vol, box>> => GoneInv'
    BY DEF IInv, GoneInv, Gone, Labelled
  <1> QED BY <1>1, <1>2, <1>3, <1>4, <1>5, <1>6, <1>7, <1>8, <1>9

\* What the invariant of an attempt reads, and a step that leaves it.
Untouched(b) ==
    /\ box'[b] = box[b] /\ job'[b] = job[b] /\ pin'[b] = pin[b] /\ call'[b] = call[b]
    /\ \A g \in Gens : <<"container create", <<b, g>>>> \in late'
                       <=> <<"container create", <<b, g>>>> \in late
    /\ <<"container start", b>> \in late' <=> <<"container start", b>> \in late

\* A step of one attempt has to answer for that attempt only.
LEMMA OneAttempt ==
    ASSUME IInv, NEW a \in Attempts,
           \A b \in Attempts : b # a => Untouched(b),
           AttOK(a)'
    PROVE  /\ AttInv'
           /\ UNCHANGED op /\ OpenOK(a)'
              /\ (\A h \in Gens : gen[h].ph = "finished" => gen'[h].ph = "finished") => OpenInv'
  <1>1. AttInv'
    <2> SUFFICES ASSUME NEW b \in Attempts PROVE AttOK(b)'
      BY DEF AttInv
    <2>1. CASE b = a
      BY <2>1
    <2>2. CASE b # a
      <3>1. Untouched(b) /\ AttOK(b)
        BY <2>2 DEF IInv, AttInv
      <3> QED BY <3>1 DEF Untouched, AttOK, LateCreate, LateStart, Creating
    <2> QED BY <2>1, <2>2
  <1>2. ASSUME UNCHANGED op, OpenOK(a)',
               \A h \in Gens : gen[h].ph = "finished" => gen'[h].ph = "finished"
        PROVE  OpenInv'
    <2> SUFFICES ASSUME NEW t \in Targets PROVE OpenOK(t)'
      BY DEF OpenInv
    <2>0. OpenOK(t)
      BY DEF IInv, OpenInv
    <2>1. CASE t = a
      BY <2>1, <1>2
    <2>2. CASE t \in Gens
      BY <2>0, <2>2, <1>2 DEF OpenOK
    <2>3. CASE t \in Attempts /\ t # a
      <3>1. Untouched(t) /\ t \notin Gens
        BY <2>3, Bounds
      <3> QED BY <3>1, <2>0, <1>2 DEF Untouched, OpenOK, LateCreate, Creating
    <2> QED BY <2>1, <2>2, <2>3 DEF Targets
  <1> QED BY <1>1, <1>2

\* A step of one call, pointwise.
LEMMA Moves ==
    ASSUME IInv, NEW a \in Attempts
    PROVE  /\ call[a] \in Call /\ call[a].g \in 0..MaxGen /\ call[a].pc \in CallPcs
           /\ Return(a) => /\ call' \in [Attempts -> Call] /\ call'[a].pc = "idle"
                           /\ \A b \in Attempts : b # a => call'[b] = call[b]
           /\ \A pc \in CallPcs : Goto(a, pc) =>
                /\ call' \in [Attempts -> Call] /\ call'[a].pc = pc /\ call'[a].g = call[a].g
                /\ \A b \in Attempts : b # a => call'[b] = call[b]
  <1>1. call \in [Attempts -> Call] /\ call[a] \in Call
    BY DEF IInv, TypeOK
  <1>2. Idle \in Call /\ Idle.pc = "idle"
    BY Bounds DEF Idle, Call, NoGen
  <1>3. \A pc \in CallPcs : [call[a] EXCEPT !.pc = pc] \in Call
    BY <1>1 DEF Call, CallPcs
  <1>4. Return(a) => /\ call' \in [Attempts -> Call] /\ call'[a].pc = "idle"
                     /\ \A b \in Attempts : b # a => call'[b] = call[b]
    BY <1>1, <1>2 DEF Return
  <1>5. ASSUME NEW pc \in CallPcs, Goto(a, pc)
        PROVE  /\ call' \in [Attempts -> Call] /\ call'[a].pc = pc /\ call'[a].g = call[a].g
               /\ \A b \in Attempts : b # a => call'[b] = call[b]
    BY <1>1, <1>3, <1>5 DEF Goto, Call
  <1>6. call[a].g \in 0..MaxGen /\ call[a].pc \in CallPcs
    BY <1>1 DEF Call, CallPcs
  <1> QED BY <1>1, <1>4, <1>5, <1>6

\* What a command on a volume does to each volume.
LEMMA VolumeMoves ==
    ASSUME TypeOK, NEW g \in Gens
    PROVE  /\ VolumeCreated(vol, g) \in [Gens -> Contents]
           /\ \A h \in Gens : VolumeCreated(vol, g)[h] =
                IF h = g /\ vol[g] = "absent" THEN "empty" ELSE vol[h]
           /\ \A content \in {"partial", "whole"} :
                /\ VolumeWritten(vol, g, content) \in [Gens -> Contents]
                /\ \A h \in Gens : VolumeWritten(vol, g, content)[h] =
                     IF h = g /\ vol[g] = "empty" THEN content ELSE vol[h]
           /\ VolumeRemoved(vol, g) \in [Gens -> Contents]
           /\ \A h \in Gens : VolumeRemoved(vol, g)[h] =
                IF h = g /\ ~Referenced(g) THEN "absent" ELSE vol[h]
           /\ Mounted(vol, g) \in [Gens -> Contents]
           /\ \A h \in Gens : Mounted(vol, g)[h] =
                IF h = g /\ vol[g] = "absent" THEN "bare" ELSE vol[h]
  <1>1. vol \in [Gens -> Contents]
    BY DEF TypeOK, HostTypeOK
  <1> QED BY <1>1 DEF VolumeCreated, VolumeWritten, VolumeRemoved, Mounted, Contents

\* What a command on a container does to each container.
LEMMA BoxMoves ==
    ASSUME TypeOK, NEW a \in Attempts
    PROVE  /\ box[a] \in Box /\ box[a].st \in BoxStates /\ NoBox \in Box /\ NoBox.st = "none"
           /\ NoBox.ready = FALSE
           /\ \A g \in Gens :
                /\ BoxCreated(box, a, g) \in [Attempts -> Box]
                /\ \A b \in Attempts : b # a => BoxCreated(box, a, g)[b] = box[b]
                /\ box[a].st # "none" => BoxCreated(box, a, g) = box
                /\ box[a].st = "none" => /\ BoxCreated(box, a, g)[a].st = "created"
                                         /\ BoxCreated(box, a, g)[a].mount = g
                                         /\ BoxCreated(box, a, g)[a].ready = FALSE
           /\ BoxReady(box, a) \in [Attempts -> Box]
           /\ BoxReady(box, a)[a].st = box[a].st /\ BoxReady(box, a)[a].mount = box[a].mount
           /\ \A b \in Attempts : b # a => BoxReady(box, a)[b] = box[b]
           /\ BoxStarted(box, a) \in [Attempts -> Box]
           /\ BoxStarted(box, a)[a].st = IF box[a].st = "created" THEN "running" ELSE box[a].st
           /\ BoxStarted(box, a)[a].mount = box[a].mount /\ BoxStarted(box, a)[a].ready = box[a].ready
           /\ \A b \in Attempts : b # a => BoxStarted(box, a)[b] = box[b]
           /\ BoxStopped(box, a) \in [Attempts -> Box]
           /\ BoxStopped(box, a)[a].st = IF box[a].st = "running" THEN "exited" ELSE box[a].st
           /\ BoxStopped(box, a)[a].mount = box[a].mount /\ BoxStopped(box, a)[a].ready = box[a].ready
           /\ \A b \in Attempts : b # a => BoxStopped(box, a)[b] = box[b]
           /\ BoxRemoved(box, a) \in [Attempts -> Box]
           /\ BoxRemoved(box, a)[a] = IF box[a].st = "running" THEN box[a] ELSE NoBox
           /\ \A b \in Attempts : b # a => BoxRemoved(box, a)[b] = box[b]
  <1>1. box \in [Attempts -> Box] /\ box[a] \in Box
    BY DEF TypeOK, HostTypeOK
  <1>2. /\ box[a].st \in BoxStates /\ NoBox \in Box /\ NoBox.st = "none" /\ NoBox.ready = FALSE
    BY <1>1, Bounds DEF Box, NoBox, BoxStates, NoGen
  <1>3. ASSUME NEW g \in Gens
        PROVE  /\ BoxCreated(box, a, g) \in [Attempts -> Box]
               /\ \A b \in Attempts : b # a => BoxCreated(box, a, g)[b] = box[b]
               /\ box[a].st # "none" => BoxCreated(box, a, g) = box
               /\ box[a].st = "none" => /\ BoxCreated(box, a, g)[a].st = "created"
                                        /\ BoxCreated(box, a, g)[a].mount = g
                                        /\ BoxCreated(box, a, g)[a].ready = FALSE
    <2>1. [st |-> "created", mount |-> g, ready |-> FALSE] \in Box
      BY Bounds DEF Box, BoxStates
    <2> QED BY <1>1, <2>1 DEF BoxCreated
  <1>4. /\ BoxReady(box, a) \in [Attempts -> Box]
        /\ BoxReady(box, a)[a].st = box[a].st /\ BoxReady(box, a)[a].mount = box[a].mount
        /\ \A b \in Attempts : b # a => BoxReady(box, a)[b] = box[b]
    BY <1>1 DEF BoxReady, Box
  <1>5. /\ BoxStarted(box, a) \in [Attempts -> Box]
        /\ BoxStarted(box, a)[a].st = IF box[a].st = "created" THEN "running" ELSE box[a].st
        /\ BoxStarted(box, a)[a].mount = box[a].mount /\ BoxStarted(box, a)[a].ready = box[a].ready
        /\ \A b \in Attempts : b # a => BoxStarted(box, a)[b] = box[b]
    BY <1>1 DEF BoxStarted, Box, BoxStates
  <1>6. /\ BoxStopped(box, a) \in [Attempts -> Box]
        /\ BoxStopped(box, a)[a].st = IF box[a].st = "running" THEN "exited" ELSE box[a].st
        /\ BoxStopped(box, a)[a].mount = box[a].mount /\ BoxStopped(box, a)[a].ready = box[a].ready
        /\ \A b \in Attempts : b # a => BoxStopped(box, a)[b] = box[b]
    BY <1>1 DEF BoxStopped, Box, BoxStates
  <1>7. /\ BoxRemoved(box, a) \in [Attempts -> Box]
        /\ BoxRemoved(box, a)[a] = IF box[a].st = "running" THEN box[a] ELSE NoBox
        /\ \A b \in Attempts : b # a => BoxRemoved(box, a)[b] = box[b]
    BY <1>1, <1>2 DEF BoxRemoved
  <1> QED BY <1>1, <1>2, <1>3, <1>4, <1>5, <1>6, <1>7

\* A fault leaves a legal connection.
LEMMA NetMoves ==
    ASSUME TypeOK
    PROVE  /\ \A kind : Fault(kind) => net' \in Net
           /\ Drop => net' \in Net
  <1>1. net \in Net
    BY DEF TypeOK, HostTypeOK
  <1>2. ASSUME NEW kind, Fault(kind) PROVE net' \in Net
    <2>1. net.left \in 0..MaxFaults /\ net.left > 0 /\ net' = [net EXCEPT !.left = @ - 1]
      BY <1>1, <1>2 DEF Fault, Net
    <2>2. net.left - 1 \in 0..MaxFaults
      BY <2>1, HostAssumption
    <2> QED BY <1>1, <2>1, <2>2 DEF Net
  <1> QED BY <1>2 DEF Drop

\* A step that labels a volume only under its permission, and takes no referenced
\* content away.
LEMMA VolumeStep ==
    ASSUME IInv,
           \A h \in Gens : Labelled(h)' => Labelled(h) \/ gen[h].ph = "begun",
           \A h \in Gens : vol[h] = "whole" /\ vol'[h] # "whole" => ~Referenced(h)
    PROVE  /\ UNCHANGED <<gen, res, sample>> /\ seen'.blind = seen.blind => VolInv'
           /\ UNCHANGED box => WholeInv'
           /\ UNCHANGED <<op, work, box>> => GoneInv'
  <1>1. ASSUME UNCHANGED <<gen, res, sample>>, seen'.blind = seen.blind PROVE VolInv'
    <2> SUFFICES ASSUME NEW h \in Gens PROVE VolOK(h)'
      BY DEF VolInv
    <2>1. VolOK(h) /\ GenOK(h)
      BY DEF IInv, VolInv, GenInv
    <2>2. CASE Labelled(h)
      BY <1>1, <2>1, <2>2 DEF VolOK
    <2>3. CASE ~Labelled(h)
      BY <1>1, <2>1, <2>3 DEF VolOK, GenOK
    <2> QED BY <2>2, <2>3
  <1>2. ASSUME UNCHANGED box PROVE WholeInv'
    <2> SUFFICES ASSUME NEW a \in Attempts PROVE WholeOK(a)'
      BY DEF WholeInv
    <2>1. WholeOK(a)
      BY DEF IInv, WholeInv
    <2> QED BY <1>2, <2>1 DEF WholeOK, Referenced
  <1>3. ASSUME UNCHANGED <<op, work, box>> PROVE GoneInv'
    <2>1. \A t \in Targets : t \in Gens /\ op[t].st # "none" /\ Labelled(t)' => Labelled(t)
      BY DEF IInv, OpenInv, OpenOK
    <2>2. \A t \in Targets : op[t].st # "none" /\ Gone(t) => Gone(t)'
      BY <1>3, <2>1 DEF Gone
    <2>3. work.pc = "done" => work.t \in Targets /\ op[work.t].st # "none"
      BY DEF IInv, WorkInv
    <2>4. work.pc = "done" /\ Gone(work.t) => Gone(work.t)'
      BY <1>3, <2>2, <2>3 DEF Gone, Labelled
    <2>5. \A t \in Targets : op'[t].st = "succeeded" => Gone(t)'
      BY <1>3, <2>2 DEF IInv, GoneInv
    <2> QED BY <1>3, <2>4, <2>5 DEF IInv, GoneInv
  <1> QED BY <1>1, <1>2, <1>3

-----------------------------------------------------------------------------
(* Attempts come and go.                                                   *)

\* A released attempt keeps the pins of the others.
LEMMA ReleaseMoves ==
    ASSUME IInv, NEW a \in Attempts, ReleaseAttempt(a)
    PROVE  /\ pin' \in [Attempts -> PinStates] /\ att' \in [Attempts -> AttemptReservation]
           /\ prov' \in BOOLEAN
           /\ \A b \in Attempts : b # a => pin'[b] = pin[b]
  <1>1. /\ pin \in [Attempts -> PinStates] /\ att \in [Attempts -> AttemptReservation]
        /\ prov \in BOOLEAN
    BY DEF IInv, TypeOK, LedgerTypeOK
  <1>2. /\ pin' \in [Attempts -> PinStates]
        /\ \A b \in Attempts : b # a => pin'[b] = pin[b]
    BY <1>1 DEF ReleaseAttempt, PinStates
  <1>3. att' \in [Attempts -> AttemptReservation]
    BY <1>1 DEF ReleaseAttempt, AttemptReservation
  <1>4. prov' \in BOOLEAN
    BY <1>1 DEF ReleaseAttempt
  <1> QED BY <1>2, <1>3, <1>4

\* Admission keeps the types of its reservations.
LEMMA AdmissionMoves ==
    ASSUME IInv, NEW a \in Attempts, StorageAdmission(a)
    PROVE  att' \in [Attempts -> AttemptReservation] /\ prov' \in BOOLEAN
  <1>1. att \in [Attempts -> AttemptReservation] /\ prov \in BOOLEAN
    BY DEF IInv, TypeOK, LedgerTypeOK
  <1>2. att' \in [Attempts -> AttemptReservation]
    BY <1>1 DEF StorageAdmission, AttemptReservation
  <1>3. prov' \in BOOLEAN
    BY <1>1 DEF StorageAdmission
  <1> QED BY <1>2, <1>3

\* A new attempt pins the content; nothing of it exists yet.
LEMMA AdmittedStep ==
    ASSUME IInv, NEW a \in Attempts, job[a] = "none", StorageAdmission(a),
           pin' = [pin EXCEPT ![a] = "live"], job' = [job EXCEPT ![a] = "queued"],
           UNCHANGED <<host, gen, rcpt, res, scan, op, call, sample, work, seen>>
    PROVE  IInv'
  <1>1. /\ pin' \in [Attempts -> PinStates] /\ pin'[a] = "live"
        /\ \A b \in Attempts : b # a => pin'[b] = pin[b]
    BY DEF IInv, TypeOK, LedgerTypeOK, PinStates
  <1>2. /\ job' \in [Attempts -> Phases] /\ job'[a] = "queued"
        /\ \A b \in Attempts : b # a => job'[b] = job[b]
    BY DEF IInv, TypeOK, Phases
  <1>3. TypeOK'
    BY <1>1, <1>2, AdmissionMoves DEF IInv, TypeOK, HostTypeOK, LedgerTypeOK, host
  <1>4. \A b \in Attempts : b # a => Untouched(b)
    BY <1>1, <1>2 DEF Untouched, host
  <1>5. AttOK(a) /\ OpenOK(a) /\ a \notin Gens
    BY Bounds DEF IInv, AttInv, OpenInv, Targets
  <1>6. AttOK(a)'
    BY <1>1, <1>2, <1>5 DEF AttOK, LateCreate, LateStart, Creating, host
  <1>7. OpenOK(a)'
    BY <1>5 DEF OpenOK
  <1> QED BY <1>3, <1>4, <1>6, <1>7, OneAttempt, Frames DEF IInv, host

\* Admission pins content that nothing deletes.
LEMMA AdmitStep ==
    ASSUME IInv, NEW a \in Attempts, Admit(a)
    PROVE  IInv'
  BY AdmittedStep DEF Admit, PinAdmission

\* A retry inherits the pins.
LEMMA RetryStep ==
    ASSUME IInv, NEW a \in Attempts, NEW old \in Attempts, Retry(old, a)
    PROVE  IInv'
  BY AdmittedStep DEF Retry, PinRetry

\* Pins go where nothing is mounted and nothing can be created any more.
LEMMA ReleasedStep ==
    ASSUME IInv, NEW a \in Attempts, ReleaseAttempt(a),
           NEW phase \in {"withdrawn", "cleaned"}, job' = [job EXCEPT ![a] = phase],
           box[a].st = "none",
           \/ phase = "withdrawn" /\ job[a] = "queued"
           \/ phase = "cleaned" /\ job[a] = "cleaning",
           UNCHANGED <<host, gen, rcpt, res, scan, op, call, sample, work, seen>>
    PROVE  IInv'
  <1>2. /\ job' \in [Attempts -> Phases] /\ job'[a] = phase
        /\ \A b \in Attempts : b # a => job'[b] = job[b]
    BY DEF IInv, TypeOK, Phases
  <1>3. TypeOK'
    BY <1>2, ReleaseMoves DEF IInv, TypeOK, HostTypeOK, LedgerTypeOK, host
  <1>4. \A b \in Attempts : b # a => Untouched(b)
    BY <1>2, ReleaseMoves DEF Untouched, host
  <1>5. AttOK(a) /\ OpenOK(a) /\ a \notin Gens
    BY Bounds DEF IInv, AttInv, OpenInv, Targets
  <1>6. AttOK(a)'
    BY <1>2, <1>5 DEF AttOK, LateCreate, LateStart, Creating, host
  <1>7. OpenOK(a)'
    BY <1>2, <1>5 DEF OpenOK, LateCreate, Creating, host
  <1> QED BY <1>3, <1>4, <1>6, <1>7, OneAttempt, Frames DEF IInv, host

\* An attempt is withdrawn before its barrier, so with nothing mounted.
LEMMA WithdrawStep ==
    ASSUME IInv, NEW a \in Attempts, Withdraw(a)
    PROVE  IInv'
  <1>1. box[a].st = "none"
    BY DEF IInv, AttInv, AttOK, Withdraw
  <1> QED BY <1>1, ReleasedStep DEF Withdraw

\* Pins are released once the container is seen to be absent.
LEMMA ConfirmCleanupStep ==
    ASSUME IInv, NEW a \in Attempts, ConfirmCleanup(a)
    PROVE  IInv'
  <1>1. box[a].st = "none"
    BY DEF ConfirmCleanup, Reach, Boxes
  <1> QED BY <1>1, ReleasedStep DEF ConfirmCleanup

\* The barrier: from here on the attempt may create its container.
LEMMA BeginPreparationStep ==
    ASSUME IInv, NEW a \in Attempts, BeginPreparation(a)
    PROVE  IInv'
  <1>1. /\ call' \in [Attempts -> Call] /\ call'[a].pc = "look"
        /\ \A b \in Attempts : b # a => call'[b] = call[b]
    BY Moves DEF BeginPreparation, Goto, CallPcs
  <1>2. /\ job' \in [Attempts -> Phases] /\ job'[a] = "preparing"
        /\ \A b \in Attempts : b # a => job'[b] = job[b]
    BY DEF BeginPreparation, IInv, TypeOK, Phases
  <1>u. job[a] = "queued" /\ UNCHANGED <<host, ledger, sample, work, seen>>
    BY DEF BeginPreparation
  <1>3. TypeOK'
    BY <1>1, <1>2, <1>u DEF IInv, TypeOK, HostTypeOK, LedgerTypeOK, host, ledger
  <1>4. \A b \in Attempts : b # a => Untouched(b)
    BY <1>1, <1>2, <1>u DEF Untouched, host, ledger
  <1>5. AttOK(a) /\ OpenOK(a) /\ a \notin Gens
    BY Bounds DEF IInv, AttInv, OpenInv, Targets
  <1>6. AttOK(a)'
    BY <1>1, <1>2, <1>u, <1>5 DEF AttOK, LateCreate, LateStart, Creating, host, ledger
  <1>7. OpenOK(a)'
    BY <1>5, <1>u DEF OpenOK, ledger
  <1>8. WriterInv'
    <2> SUFFICES ASSUME NEW b \in Attempts PROVE WriterOK(b)'
      BY DEF WriterInv
    <2>1. WriterOK(b)
      BY DEF IInv, WriterInv
    <2>2. CASE b = a
      BY <1>1, <2>2 DEF WriterOK, Writing
    <2>3. CASE b # a
      BY <1>1, <1>u, <2>1, <2>3 DEF WriterOK, Writing, LateWriter, host, ledger
    <2> QED BY <2>2, <2>3
  <1> QED BY <1>u, <1>3, <1>4, <1>6, <1>7, <1>8, OneAttempt, Frames DEF IInv, host, ledger

-----------------------------------------------------------------------------
(* Prepare: the cache.                                                     *)

\* A call that holds nothing goes on looking, or returns.
LEMMA CallStep ==
    ASSUME IInv, NEW a \in Attempts, Creating(a),
           call' \in [Attempts -> Call], call'[a].pc \in {"idle", "resolve", "wait"},
           \A b \in Attempts : b # a => call'[b] = call[b],
           net' \in Net, UNCHANGED <<vol, box, late, ledger, job, sample, work, seen>>
    PROVE  IInv'
  <1>3. TypeOK'
    BY DEF IInv, TypeOK, HostTypeOK, LedgerTypeOK, ledger
  <1>4. \A b \in Attempts : b # a => Untouched(b)
    BY DEF Untouched, ledger
  <1>5. AttOK(a) /\ OpenOK(a) /\ a \notin Gens
    BY Bounds DEF IInv, AttInv, OpenInv, Targets
  <1>6. AttOK(a)'
    BY <1>5 DEF AttOK, LateCreate, LateStart, Creating, ledger
  <1>7. OpenOK(a)'
    BY <1>5 DEF OpenOK, ledger
  <1>8. WriterInv'
    <2> SUFFICES ASSUME NEW b \in Attempts PROVE WriterOK(b)'
      BY DEF WriterInv
    <2>1. WriterOK(b)
      BY DEF IInv, WriterInv
    <2>2. CASE b = a
      BY <2>2 DEF WriterOK, Writing
    <2>3. CASE b # a
      BY <2>1, <2>3 DEF WriterOK, Writing, LateWriter, ledger
    <2> QED BY <2>2, <2>3
  <1> QED BY <1>3, <1>4, <1>6, <1>7, <1>8, OneAttempt, Frames DEF IInv, ledger

\* A call that gives up leaves nothing of its own under way.
LEMMA FailStep ==
    ASSUME IInv, NEW a \in Attempts, Fail(a)
    PROVE  IInv'
  <1>1. Creating(a)
    BY DEF Fail, Creating
  <1>2. net \in Net
    BY DEF IInv, TypeOK, HostTypeOK
  <1>3. net' \in Net
    BY <1>2, NetMoves DEF Fail, IInv
  <1>4. Return(a) /\ UNCHANGED <<vol, box, late, ledger, job, sample, work, seen>>
    BY DEF Fail
  <1> QED BY <1>1, <1>3, <1>4, Moves, CallStep

\* Nothing is active: the call goes on to claim.
LEMMA LookEmptyStep ==
    ASSUME IInv, NEW a \in Attempts, LookEmpty(a)
    PROVE  IInv'
  <1>1. Creating(a) /\ Goto(a, "resolve") /\ "resolve" \in CallPcs /\ net' \in Net
    BY DEF LookEmpty, At, Creating, CallPcs, host, IInv, TypeOK, HostTypeOK
  <1>2. UNCHANGED <<vol, box, late, ledger, job, sample, work, seen>>
    BY DEF LookEmpty, host
  <1> QED BY <1>1, <1>2, Moves, CallStep

\* A peer's claim is waited for.
LEMMA WaitForPeerStep ==
    ASSUME IInv, NEW a \in Attempts, WaitForPeer(a)
    PROVE  IInv'
  <1>1. Creating(a) /\ Goto(a, "wait") /\ "wait" \in CallPcs /\ net' \in Net
    BY DEF WaitForPeer, At, Creating, CallPcs, host, IInv, TypeOK, HostTypeOK
  <1>2. UNCHANGED <<vol, box, late, ledger, job, sample, work, seen>>
    BY DEF WaitForPeer, host
  <1> QED BY <1>1, <1>2, Moves, CallStep

\* The second try is the last one.
LEMMA NextTries ==
    ASSUME IInv, NEW a \in Attempts
    PROVE  NextTry(call[a]) \in Call /\ NextTry(call[a]).pc \in {"idle", "resolve"}
  <1>1. call[a] \in Call
    BY Moves
  <1>2. CASE call[a].tries = 1
    BY <1>2, Bounds DEF NextTry, Idle, Call, NoGen
  <1>3. CASE call[a].tries # 1
    <2>1. call[a].tries = 0
      BY <1>1, <1>3 DEF Call
    <2> DEFINE d == [call[a] EXCEPT !.pc = "resolve"]
    <2>2. d \in Call /\ d.pc = "resolve"
      BY <1>1 DEF Call
    <2>3. NextTry(call[a]) = [d EXCEPT !.tries = 1]
      BY <1>3, <2>1 DEF NextTry
    <2> HIDE DEF d
    <2> QED BY <2>2, <2>3 DEF Call
  <1> QED BY <1>2, <1>3

\* A settled peer is resolved once more.
LEMMA PeerSettledStep ==
    ASSUME IInv, NEW a \in Attempts, PeerSettled(a)
    PROVE  IInv'
  <1>1. Creating(a) /\ net' \in Net /\ call \in [Attempts -> Call]
    BY DEF PeerSettled, At, Creating, host, IInv, TypeOK, HostTypeOK
  <1>2. UNCHANGED <<vol, box, late, ledger, job, sample, work, seen>>
    BY DEF PeerSettled, host
  <1>3. /\ call' \in [Attempts -> Call] /\ call'[a].pc \in {"idle", "resolve"}
        /\ \A b \in Attempts : b # a => call'[b] = call[b]
    BY <1>1, NextTries DEF PeerSettled
  <1> QED BY <1>1, <1>2, <1>3, CallStep

\* Retirement is noted: by the scan that is stamped, or in the history of one that is not.
LEMMA NoteMoves ==
    ASSUME IInv, NEW g \in Gens, NoteRetired(g)
    PROVE  /\ sample' \in Sample /\ seen' \in History
           /\ sample'.pc = sample.pc /\ sample'.vols = sample.vols
           /\ seen'.writes = seen.writes /\ seen'.rms = seen.rms
           /\ sample.after \subseteq sample'.after /\ seen.blind \subseteq seen'.blind
           /\ sample.pc \in {"listed", "stamped"} /\ g \notin sample.vols =>
                 g \in seen'.blind \cup sample'.after
  <1>1. sample \in Sample /\ seen \in History
    BY DEF IInv, TypeOK
  <1>2. /\ sample' \in Sample /\ sample'.pc = sample.pc /\ sample'.vols = sample.vols
        /\ sample.after \subseteq sample'.after
        /\ sample.pc = "stamped" => g \in sample'.after
    BY <1>1 DEF NoteRetired, Sample
  <1>3. /\ seen' \in History /\ seen'.writes = seen.writes /\ seen'.rms = seen.rms
        /\ seen.blind \subseteq seen'.blind
        /\ sample.pc = "listed" /\ g \notin sample.vols => g \in seen'.blind
    BY <1>1 DEF NoteRetired, History
  <1> QED BY <1>2, <1>3

\* A writer that ended leaves nothing behind that could still write.
Quiet(g) ==
    /\ ~LateWriter(g)
    /\ \A b \in Attempts : call[b].pc \in {"begun", "made"} => call[b].g # g

\* No writer of a finished generation is left.
LEMMA FinishedIsQuiet ==
    ASSUME IInv, NEW g \in Gens, gen[g].ph = "finished"
    PROVE  Quiet(g)
  BY DEF IInv, GenInv, GenOK, WriterInv, WriterOK, Writing, Quiet

\* A generation without a writer is finished, verified or retired.
LEMMA GenerationStep ==
    ASSUME IInv, NEW g \in Gens, Quiet(g),
           gen' \in [Gens -> Generation],
           \A h \in Gens : h # g => gen'[h] = gen[h],
           gen'[g].owner = gen[g].owner, gen'[g].ph = "finished",
           gen'[g].st \in {"claimed", "verified", "retired"},
           gen[g].ph \in {"begun", "finished"},
           UNCHANGED <<late, res>>, seen'.writes = seen.writes
    PROVE  /\ GenInv'
           /\ \A b \in Attempts : call'[b] = call[b] => WriterOK(b)'
           /\ UNCHANGED <<op, call, job>> => OpenInv'
           /\ (gen'[g].st # "retired" \/ gen[g].st = "retired")
              /\ UNCHANGED <<vol, sample>> /\ seen'.blind = seen.blind => VolInv'
           /\ UNCHANGED vol /\ NoteRetired(g) => VolInv'
  <1>1. GenInv'
    <2> SUFFICES ASSUME NEW h \in Gens PROVE GenOK(h)'
      BY DEF GenInv
    <2>1. GenOK(h)
      BY DEF IInv, GenInv
    <2>2. CASE h = g
      BY <2>1, <2>2 DEF GenOK, LateWriter, Quiet
    <2>3. CASE h # g
      BY <2>1, <2>3 DEF GenOK, LateWriter
    <2> QED BY <2>2, <2>3
  <1>2. ASSUME NEW b \in Attempts, call'[b] = call[b] PROVE WriterOK(b)'
    <2>1. WriterOK(b)
      BY DEF IInv, WriterInv
    <2>2. CASE Writing(b) /\ call[b].g = g
      BY <1>2, <2>1, <2>2 DEF WriterOK, Writing, LateWriter, Quiet
    <2>3. CASE Writing(b) /\ call[b].g # g
      BY <1>2, <2>1, <2>3 DEF WriterOK, Writing, LateWriter
    <2>4. CASE ~Writing(b)
      BY <1>2, <2>1, <2>4 DEF WriterOK, Writing
    <2> QED BY <2>2, <2>3, <2>4
  <1>3. ASSUME UNCHANGED <<op, call, job>> PROVE OpenInv'
    <2> SUFFICES ASSUME NEW t \in Targets PROVE OpenOK(t)'
      BY DEF OpenInv
    <2>1. OpenOK(t)
      BY DEF IInv, OpenInv
    <2> QED BY <1>3, <2>1 DEF OpenOK, LateCreate, Creating
  <1>4. ASSUME gen'[g].st # "retired" \/ gen[g].st = "retired",
               UNCHANGED <<vol, sample>>, seen'.blind = seen.blind
        PROVE  VolInv'
    <2> SUFFICES ASSUME NEW h \in Gens PROVE VolOK(h)'
      BY DEF VolInv
    <2>1. VolOK(h)
      BY DEF IInv, VolInv
    <2>2. CASE h = g
      BY <1>4, <2>1, <2>2 DEF VolOK, Labelled
    <2>3. CASE h # g
      BY <1>4, <2>1, <2>3 DEF VolOK, Labelled
    <2> QED BY <2>2, <2>3
  <1>5. ASSUME UNCHANGED vol, NoteRetired(g) PROVE VolInv'
    <2> SUFFICES ASSUME NEW h \in Gens PROVE VolOK(h)'
      BY DEF VolInv
    <2>1. VolOK(h)
      BY DEF IInv, VolInv
    <2>2. CASE h = g
      BY <1>5, <2>1, <2>2, NoteMoves DEF VolOK, Labelled
    <2>3. CASE h # g
      BY <1>5, <2>1, <2>3, NoteMoves DEF VolOK, Labelled
    <2> QED BY <2>2, <2>3
  <1> QED BY <1>1, <1>2, <1>3, <1>4, <1>5

\* Verification and retirement, pointwise.
LEMMA SettleMoves ==
    ASSUME IInv, NEW g \in Gens
    PROVE  /\ gen[g].ph \in WritePhases
           /\ Verify(g) => /\ gen' \in [Gens -> Generation]
                           /\ \A h \in Gens : h # g => gen'[h] = gen[h]
                           /\ gen'[g].owner = gen[g].owner
                           /\ gen'[g].ph = "finished" /\ gen'[g].st = "verified"
           /\ Retire(g) => /\ gen' \in [Gens -> Generation]
                           /\ \A h \in Gens : h # g => gen'[h] = gen[h]
                           /\ gen'[g].owner = gen[g].owner
                           /\ gen'[g].ph = gen[g].ph /\ gen'[g].st = "retired"
  <1>1. gen \in [Gens -> Generation] /\ gen[g] \in Generation
    BY DEF IInv, TypeOK, LedgerTypeOK
  <1> QED BY <1>1 DEF Verify, Retire, Generation, WritePhases

\* An active generation that a caller may settle has no writer left.
LEMMA SettledIsFinished ==
    ASSUME IInv, Settled, NEW g \in Active
    PROVE  g \in Gens /\ gen[g].ph = "finished" /\ Quiet(g)
  <1>1. g \in Gens /\ gen[g].ph = "finished"
    BY DEF Settled, Active, IInv, GenInv, GenOK
  <1> QED BY <1>1, FinishedIsQuiet

\* A settled generation is bound when it is whole, else retired.
LEMMA UseActiveStep ==
    ASSUME IInv, NEW a \in Attempts, UseActive(a)
    PROVE  IInv'
  <1>1. PICK g \in Active :
          LET o == ObserveVolume(g) IN
          \/ /\ o = "complete" /\ Verify(g)
             /\ call' = [call EXCEPT ![a].pc = "bound", ![a].g = g]
             /\ UNCHANGED <<sample, seen>>
          \/ /\ o # "complete" /\ Retire(g) /\ NoteRetired(g)
             /\ call' = [call EXCEPT ![a] = IF @.pc = "look" THEN [@ EXCEPT !.pc = "resolve"]
                                            ELSE NextTry(@)]
    BY DEF UseActive
  <1>g. g \in Gens /\ gen[g].ph = "finished" /\ Quiet(g) /\ g \in 0..MaxGen
    BY SettledIsFinished, Bounds DEF UseActive
  <1>u. /\ UNCHANGED <<host, pin, rcpt, res, prov, att, scan, op, job, work>>
        /\ Creating(a)
    BY DEF UseActive, At, Creating
  <1>t. call \in [Attempts -> Call] /\ call[a] \in Call /\ sample \in Sample /\ seen \in History
    BY Moves DEF IInv, TypeOK
  <1>c. /\ call' \in [Attempts -> Call]
        /\ call'[a].pc \in {"idle", "resolve", "bound"}
        /\ call'[a].pc = "bound" => call'[a].g = g
        /\ \A b \in Attempts : b # a => call'[b] = call[b]
    <2>1. CASE call' = [call EXCEPT ![a].pc = "bound", ![a].g = g]
      <3>1. [call[a] EXCEPT !.pc = "bound", !.g = g] \in Call
        BY <1>t, <1>g DEF Call
      <3>2. call' = [call EXCEPT ![a] = [call[a] EXCEPT !.pc = "bound", !.g = g]]
        BY <2>1, <1>t
      <3> QED BY <1>t, <3>1, <3>2 DEF Call
    <2>2. CASE call' = [call EXCEPT ![a] = IF @.pc = "look" THEN [@ EXCEPT !.pc = "resolve"]
                                           ELSE NextTry(@)]
      <3>1. [call[a] EXCEPT !.pc = "resolve"] \in Call
        BY <1>t DEF Call
      <3> QED BY <1>t, <2>2, <3>1, NextTries DEF Call
    <2> QED BY <1>1, <2>1, <2>2
  <1>s. /\ sample' \in Sample /\ seen' \in History
        /\ seen'.writes = seen.writes /\ seen'.rms = seen.rms
    BY <1>1, <1>g, <1>t, NoteMoves
  <1>e. /\ gen' \in [Gens -> Generation] /\ \A h \in Gens : h # g => gen'[h] = gen[h]
        /\ gen'[g].owner = gen[g].owner /\ gen'[g].ph = "finished"
        /\ gen'[g].st \in {"verified", "retired"}
        /\ \/ gen'[g].st = "verified" /\ UNCHANGED <<sample, seen>>
           \/ NoteRetired(g)
    BY <1>1, <1>g, SettleMoves
  <1>3. TypeOK'
    BY <1>c, <1>e, <1>s, <1>u DEF IInv, TypeOK, HostTypeOK, LedgerTypeOK, host
  <1>4. \A b \in Attempts : b # a => Untouched(b)
    BY <1>c, <1>u DEF Untouched, host
  <1>5. AttOK(a) /\ OpenOK(a) /\ a \notin Gens
    BY Bounds DEF IInv, AttInv, OpenInv, Targets
  <1>6. AttOK(a)'
    BY <1>c, <1>u, <1>5 DEF AttOK, LateCreate, LateStart, Creating, host
  <1>7. /\ GenInv' /\ VolInv'
        /\ \A b \in Attempts : b # a => WriterOK(b)'
    BY <1>g, <1>e, <1>s, <1>u, <1>c, GenerationStep DEF host
  <1>8. WriterOK(a)'
    BY <1>c, <1>g DEF WriterOK, Writing
  <1>9. OpenOK(a)'
    BY <1>5, <1>u DEF OpenOK
  <1>10. \A h \in Gens : gen[h].ph = "finished" => gen'[h].ph = "finished"
    BY <1>e
  <1> QED BY <1>u, <1>s, <1>3, <1>4, <1>6, <1>7, <1>8, <1>9, <1>10, OneAttempt, Frames
        DEF IInv, WriterInv, host

\* The claim goes to the lowest generation nobody used.
LEMMA FreeIsFree ==
    ASSUME Free # {}
    PROVE  Min(Free) \in Gens /\ gen[Min(Free)].st = "none"
  <1>1. Free \subseteq Nat
    BY Bounds DEF Free
  <1>2. PICK x \in Free : \A y \in Free : ~(<<y, x>> \in OpToRel(<, Nat))
    BY <1>1, WFMin, NatLessThanWellFounded
  <1>3. \A y \in Free : ~(y < x)
    BY <1>1, <1>2 DEF OpToRel
  <1>4. \A y \in Free : x <= y
    BY <1>1, <1>3
  <1>5. Min(Free) \in Free
    BY <1>4 DEF Min
  <1> QED BY <1>5 DEF Free

\* A claim takes a generation that nobody wrote.
LEMMA ClaimGenerationStep ==
    ASSUME IInv, NEW a \in Attempts, ClaimGeneration(a)
    PROVE  IInv'
  <1> DEFINE g == Min(Free)
  <1>g. g \in Gens /\ gen[g].st = "none" /\ g \in 0..MaxGen
    BY FreeIsFree, Bounds DEF ClaimGeneration, Claim
  <1>u. /\ UNCHANGED <<host, pin, rcpt, res, prov, att, scan, op, job, sample, work, seen>>
        /\ Creating(a)
        /\ call' = [call EXCEPT ![a].pc = "claimed", ![a].g = g]
        /\ gen' = [gen EXCEPT ![g] = [st |-> "claimed", ph |-> "intent", owner |-> a]]
    BY DEF ClaimGeneration, Claim, At, Creating
  <1> HIDE DEF g
  <1>t. /\ call \in [Attempts -> Call] /\ call[a] \in Call
        /\ gen \in [Gens -> Generation] /\ gen[g] \in Generation
    BY <1>g, Moves DEF IInv, TypeOK, LedgerTypeOK
  <1>c. /\ call' \in [Attempts -> Call] /\ call'[a].pc = "claimed" /\ call'[a].g = g
        /\ \A b \in Attempts : b # a => call'[b] = call[b]
    <2>1. [call[a] EXCEPT !.pc = "claimed", !.g = g] \in Call
      BY <1>t, <1>g DEF Call
    <2>2. call' = [call EXCEPT ![a] = [call[a] EXCEPT !.pc = "claimed", !.g = g]]
      BY <1>u, <1>t
    <2> QED BY <1>t, <2>1, <2>2 DEF Call
  <1>e. /\ gen' \in [Gens -> Generation] /\ \A h \in Gens : h # g => gen'[h] = gen[h]
        /\ gen'[g].ph = "intent" /\ gen'[g].st = "claimed"
    <2>1. [st |-> "claimed", ph |-> "intent", owner |-> a] \in Generation
      BY DEF Generation, WritePhases
    <2> QED BY <1>t, <1>u, <1>g, <2>1
  <1>k. /\ GenOK(g) /\ gen[g].ph = "none" /\ ~LateWriter(g) /\ ~Labelled(g)
        /\ \A b \in Attempts : Writing(b) => call[b].g # g
    BY <1>g DEF IInv, GenInv, GenOK, VolInv, VolOK, WriterInv, WriterOK
  <1>3. TypeOK'
    BY <1>c, <1>e, <1>u DEF IInv, TypeOK, HostTypeOK, LedgerTypeOK, host
  <1>4. \A b \in Attempts : b # a => Untouched(b)
    BY <1>c, <1>u DEF Untouched, host
  <1>5. AttOK(a) /\ OpenOK(a) /\ a \notin Gens
    BY Bounds DEF IInv, AttInv, OpenInv, Targets
  <1>6. AttOK(a)'
    BY <1>c, <1>u, <1>5 DEF AttOK, LateCreate, LateStart, Creating, host
  <1>7. GenInv'
    <2> SUFFICES ASSUME NEW h \in Gens PROVE GenOK(h)'
      BY DEF GenInv
    <2>1. GenOK(h)
      BY DEF IInv, GenInv
    <2>2. CASE h = g
      BY <1>e, <1>k, <1>u, <2>2 DEF GenOK, LateWriter, host
    <2>3. CASE h # g
      BY <1>e, <1>u, <2>1, <2>3 DEF GenOK, LateWriter, host
    <2> QED BY <2>2, <2>3
  <1>8. VolInv'
    <2> SUFFICES ASSUME NEW h \in Gens PROVE VolOK(h)'
      BY DEF VolInv
    <2>1. VolOK(h)
      BY DEF IInv, VolInv
    <2> QED BY <1>e, <1>k, <1>u, <2>1 DEF VolOK, Labelled, host
  <1>9. WriterInv'
    <2> SUFFICES ASSUME NEW b \in Attempts PROVE WriterOK(b)'
      BY DEF WriterInv
    <2>1. WriterOK(b)
      BY DEF IInv, WriterInv
    <2>2. CASE b = a
      BY <1>c, <1>g, <2>2 DEF WriterOK, Writing
    <2>3. CASE b # a /\ Writing(b)
      BY <1>c, <1>e, <1>k, <1>u, <2>1, <2>3 DEF WriterOK, Writing, LateWriter, host
    <2>4. CASE b # a /\ ~Writing(b)
      BY <1>c, <2>1, <2>4 DEF WriterOK, Writing
    <2> QED BY <2>2, <2>3, <2>4
  <1>10. OpenOK(a)'
    BY <1>5, <1>u DEF OpenOK
  <1>11. \A h \in Gens : gen[h].ph = "finished" => gen'[h].ph = "finished"
    BY <1>e, <1>k
  <1> QED BY <1>u, <1>3, <1>4, <1>6, <1>7, <1>8, <1>9, <1>10, <1>11, OneAttempt, Frames
        DEF IInv, host

\* The permission to write is given once, and paid for.
LEMMA BeginGenerationStep ==
    ASSUME IInv, NEW a \in Attempts, BeginGeneration(a)
    PROVE  IInv'
  <1> DEFINE g == call[a].g
  <1>u. /\ UNCHANGED <<host, pin, rcpt, att, scan, op, job, sample, work, seen>>
        /\ call[a].pc = "claimed" /\ Creating(a) /\ Goto(a, "begun") /\ "begun" \in CallPcs
        /\ gen[g] = [st |-> "claimed", ph |-> "intent", owner |-> a]
        /\ gen' = [gen EXCEPT ![g].ph = "begun"]
        /\ res' = [res EXCEPT ![g] = "committed"] /\ prov' = FALSE
    BY DEF BeginGeneration, BeginWrite, CommitReservation, At, Creating, CallPcs
  <1>g. g \in Gens
    BY <1>u DEF IInv, WriterInv, WriterOK
  <1>c. /\ call' \in [Attempts -> Call] /\ call'[a].pc = "begun" /\ call'[a].g = g
        /\ \A b \in Attempts : b # a => call'[b] = call[b]
    BY <1>u, Moves
  <1> HIDE DEF g
  <1>t. /\ gen \in [Gens -> Generation] /\ gen[g] \in Generation
        /\ res \in [Gens -> {"none", "committed", "released"}]
    BY <1>g DEF IInv, TypeOK, LedgerTypeOK
  <1>i. gen[g].st = "claimed" /\ gen[g].ph = "intent" /\ gen[g].owner = a
    BY <1>u
  <1>e. /\ gen' \in [Gens -> Generation] /\ \A h \in Gens : h # g => gen'[h] = gen[h]
        /\ gen'[g].ph = "begun" /\ gen'[g].st = "claimed" /\ gen'[g].owner = a
    BY <1>t, <1>u, <1>g, <1>i DEF Generation, WritePhases
  <1>r. /\ res' \in [Gens -> {"none", "committed", "released"}] /\ res'[g] = "committed"
        /\ \A h \in Gens : h # g => res'[h] = res[h]
    BY <1>t, <1>u, <1>g
  <1>k. /\ seen.writes[g] = 0 /\ ~LateWriter(g) /\ ~Labelled(g)
        /\ \A b \in Attempts : Writing(b) => call[b].g # g
    BY <1>g, <1>i DEF IInv, GenInv, GenOK, VolInv, VolOK, WriterInv, WriterOK
  <1>3. TypeOK'
    BY <1>c, <1>e, <1>r, <1>u DEF IInv, TypeOK, HostTypeOK, LedgerTypeOK, host
  <1>4. \A b \in Attempts : b # a => Untouched(b)
    BY <1>c, <1>u DEF Untouched, host
  <1>5. AttOK(a) /\ OpenOK(a) /\ a \notin Gens
    BY Bounds DEF IInv, AttInv, OpenInv, Targets
  <1>6. AttOK(a)'
    BY <1>c, <1>u, <1>5 DEF AttOK, LateCreate, LateStart, Creating, host
  <1>7. GenInv'
    <2> SUFFICES ASSUME NEW h \in Gens PROVE GenOK(h)'
      BY DEF GenInv
    <2>1. GenOK(h)
      BY DEF IInv, GenInv
    <2>2. CASE h = g
      <3>1. seen' = seen /\ seen.writes[h] = 0
        BY <1>u, <1>k, <2>2
      <3> QED BY <1>e, <1>r, <2>2, <3>1 DEF GenOK
    <2>3. CASE h # g
      BY <1>e, <1>r, <1>u, <2>1, <2>3 DEF GenOK, LateWriter, host
    <2> QED BY <2>2, <2>3
  <1>8. VolInv'
    <2> SUFFICES ASSUME NEW h \in Gens PROVE VolOK(h)'
      BY DEF VolInv
    <2>1. VolOK(h)
      BY DEF IInv, VolInv
    <2> QED BY <1>e, <1>r, <1>k, <1>u, <2>1 DEF VolOK, Labelled, host
  <1>9. WriterInv'
    <2> SUFFICES ASSUME NEW b \in Attempts PROVE WriterOK(b)'
      BY DEF WriterInv
    <2>1. WriterOK(b)
      BY DEF IInv, WriterInv
    <2>2. CASE b = a
      BY <1>c, <1>e, <1>g, <1>k, <1>u, <2>2 DEF WriterOK, Writing, LateWriter, host
    <2>3. CASE b # a /\ Writing(b)
      BY <1>c, <1>e, <1>k, <1>u, <2>1, <2>3 DEF WriterOK, Writing, LateWriter, host
    <2>4. CASE b # a /\ ~Writing(b)
      BY <1>c, <2>1, <2>4 DEF WriterOK, Writing
    <2> QED BY <2>2, <2>3, <2>4
  <1>10. OpenOK(a)'
    BY <1>5, <1>u DEF OpenOK
  <1>11. \A h \in Gens : gen[h].ph = "finished" => gen'[h].ph = "finished"
    BY <1>e, <1>i
  <1> QED BY <1>u, <1>3, <1>4, <1>6, <1>7, <1>8, <1>9, <1>10, <1>11, OneAttempt, Frames
        DEF IInv, host

\* A call on a volume: its commands concern no container and no other generation.
LEMMA WriterCallStep ==
    ASSUME IInv, NEW a \in Attempts, Writing(a),
           call' \in [Attempts -> Call],
           \A b \in Attempts : b # a => call'[b] = call[b],
           call'[a].pc \in {"idle", "made", "written"},
           call'[a].pc # "idle" => call'[a].g = call[a].g,
           NEW cmd \in {"volume create", "write"},
           \/ late' = late
           \/ call'[a].pc = "idle" /\ late' = late \cup {<<cmd, call[a].g>>},
           call[a].pc \in {"begun", "made"},
           \A h \in Gens : h # call[a].g => seen'.writes[h] = seen.writes[h],
           seen'.writes[call[a].g] <= 1,
           call'[a].pc = "made" => seen'.writes[call[a].g] = 0,
           UNCHANGED <<box, gen, pin, res, op, job>>
    PROVE  GenInv' /\ WriterInv' /\ AttInv' /\ OpenInv' /\ late' \subseteq Commands
  <1> DEFINE g == call[a].g
  <1>w. /\ WriterOK(a) /\ g \in Gens /\ gen[g].owner = a /\ gen[g].ph = "begun"
        /\ ~LateWriter(g)
    BY DEF IInv, WriterInv, WriterOK, Writing
  <1>l. /\ \A h \in Gens : h # g /\ ~LateWriter(h) => ~LateWriter(h)'
        /\ call'[a].pc # "idle" => ~LateWriter(g)'
    BY <1>w DEF LateWriter
  <1>x. \A x : /\ <<"container create", x>> \in late' <=> <<"container create", x>> \in late
               /\ <<"container start", x>> \in late' <=> <<"container start", x>> \in late
    <2>1. \A x : <<cmd, g>> # <<"container create", x>> /\ <<cmd, g>> # <<"container start", x>>
      OBVIOUS
    <2>2. CASE late' = late \cup {<<cmd, g>>}
      BY <2>1, <2>2
    <2> QED BY <2>2
  <1>4. \A b \in Attempts : b # a => Untouched(b)
    BY <1>x DEF Untouched
  <1>5. AttOK(a) /\ OpenOK(a) /\ a \notin Gens
    BY Bounds DEF IInv, AttInv, OpenInv, Targets
  <1>b. /\ LateCreate(a)' <=> LateCreate(a)
        /\ LateStart(a)' <=> LateStart(a)
    BY <1>x DEF LateCreate, LateStart
  <1>6. AttOK(a)'
    BY <1>5, <1>b, <1>x DEF AttOK, Writing, Creating
  <1>7. GenInv'
    <2> SUFFICES ASSUME NEW h \in Gens PROVE GenOK(h)'
      BY DEF GenInv
    <2>1. GenOK(h)
      BY DEF IInv, GenInv
    <2>2. CASE h = g
      <3>1. seen'.writes[h] <= 1 /\ gen'[h].ph = "begun"
        BY <1>w, <2>2
      <3> QED BY <3>1, <2>1 DEF GenOK
    <2>3. CASE h # g
      BY <1>l, <2>1, <2>3 DEF GenOK
    <2> QED BY <2>2, <2>3
  <1>9. WriterInv'
    <2> SUFFICES ASSUME NEW b \in Attempts PROVE WriterOK(b)'
      BY DEF WriterInv
    <2>1. WriterOK(b)
      BY DEF IInv, WriterInv
    <2>2. CASE b = a
      BY <1>w, <1>l, <2>2 DEF WriterOK, Writing, LateWriter
    <2>3. CASE b # a /\ Writing(b)
      <3>1. call[b].g # g
        BY <1>w, <2>1, <2>3 DEF WriterOK
      <3>2. call'[b] = call[b] /\ call[b].g \in Gens /\ ~LateWriter(call[b].g)
        BY <2>1, <2>3 DEF WriterOK
      <3>3. /\ <<"volume create", call[b].g>> \notin late'
            /\ <<"write", call[b].g>> \notin late'
        BY <3>1, <3>2 DEF LateWriter
      <3> QED BY <3>1, <3>2, <3>3, <2>1, <2>3 DEF WriterOK, Writing, LateWriter
    <2>4. CASE b # a /\ ~Writing(b)
      BY <2>1, <2>4 DEF WriterOK, Writing
    <2> QED BY <2>2, <2>3, <2>4
  <1>10. OpenOK(a)'
    BY <1>5 DEF OpenOK, Writing, Creating
  <1>11. late' \subseteq Commands
    <2>1. <<cmd, g>> \in Commands
      BY <1>w DEF Commands
    <2> QED BY <2>1 DEF IInv, TypeOK, HostTypeOK
  <1> QED BY <1>4, <1>6, <1>7, <1>9, <1>10, <1>11, OneAttempt

\* The holder of the permission creates the volume, or loses the command.
LEMMA CreateVolumeStep ==
    ASSUME IInv, NEW a \in Attempts, CreateVolume(a)
    PROVE  IInv'
  <1> DEFINE g == call[a].g
  <1>u. /\ UNCHANGED <<box, ledger, job, sample, work, seen>>
        /\ call[a].pc = "begun" /\ Writing(a)
    BY DEF CreateVolume, At, Writing
  <1>w. g \in Gens /\ gen[g].ph = "begun" /\ seen.writes[g] = 0
    BY <1>u DEF IInv, WriterInv, WriterOK
  <1>v. /\ vol' = VolumeCreated(vol, g) \/ vol' = vol
        /\ net' \in Net
        /\ call' \in [Attempts -> Call] /\ call'[a].pc \in {"idle", "made"}
        /\ call'[a].pc # "idle" => call'[a].g = g
        /\ \A b \in Attempts : b # a => call'[b] = call[b]
        /\ \/ late' = late
           \/ call'[a].pc = "idle" /\ late' = late \cup {<<"volume create", g>>}
    <2>1. "made" \in CallPcs /\ net \in Net
      BY DEF CallPcs, IInv, TypeOK, HostTypeOK
    <2> QED BY <2>1, Moves, NetMoves DEF CreateVolume, IInv
  <1>1. vol' \in [Gens -> Contents]
    BY <1>v, <1>w, VolumeMoves DEF IInv, TypeOK, HostTypeOK
  <1>2. VolInv' /\ WholeInv' /\ GoneInv'
    <2>0. \A h \in Gens : vol'[h] # vol[h] => h = g /\ vol[h] = "absent"
      <3>1. \A h \in Gens : VolumeCreated(vol, g)[h] =
              IF h = g /\ vol[g] = "absent" THEN "empty" ELSE vol[h]
        BY <1>w, VolumeMoves DEF IInv
      <3> QED BY <1>v, <3>1
    <2>1. \A h \in Gens : Labelled(h)' => Labelled(h) \/ gen[h].ph = "begun"
      BY <1>w, <2>0 DEF Labelled
    <2>2. \A h \in Gens : vol[h] = "whole" /\ vol'[h] # "whole" => ~Referenced(h)
      BY <2>0
    <2> QED BY <1>u, <2>1, <2>2, VolumeStep DEF ledger
  <1>3. GenInv' /\ WriterInv' /\ AttInv' /\ OpenInv' /\ late' \subseteq Commands
    <2>1. UNCHANGED <<box, gen, pin, res, op, job>>
      BY <1>u DEF ledger
    <2>2. seen'.writes[g] = 0 /\ \A h \in Gens : h # g => seen'.writes[h] = seen.writes[h]
      BY <1>u, <1>w
    <2>3. seen'.writes[g] <= 1
      BY <2>2
    <2>4. "volume create" \in {"volume create", "write"}
      OBVIOUS
    <2> QED BY <1>u, <1>v, <2>1, <2>2, <2>3, <2>4, WriterCallStep
  <1>4. TypeOK'
    BY <1>u, <1>v, <1>1, <1>3 DEF IInv, TypeOK, HostTypeOK, LedgerTypeOK, ledger
  <1> QED BY <1>u, <1>2, <1>3, <1>4, Frames DEF IInv, ledger

\* The holder writes once, or loses the command.
LEMMA WriteVolumeStep ==
    ASSUME IInv, NEW a \in Attempts, WriteVolume(a)
    PROVE  IInv'
  <1> DEFINE g == call[a].g
  <1>u. /\ UNCHANGED <<box, ledger, job, sample, work>>
        /\ call[a].pc = "made" /\ Writing(a)
    BY DEF WriteVolume, At, Writing
  <1>w. g \in Gens /\ gen[g].ph = "begun" /\ seen.writes[g] = 0
    BY <1>u DEF IInv, WriterInv, WriterOK
  <1>v. /\ vol' = vol \/ \E content \in {"partial", "whole"} : vol' = VolumeWritten(vol, g, content)
        /\ net' \in Net
        /\ call' \in [Attempts -> Call] /\ call'[a].pc \in {"idle", "written"}
        /\ call'[a].pc # "idle" => call'[a].g = g
        /\ \A b \in Attempts : b # a => call'[b] = call[b]
        /\ \/ late' = late
           \/ call'[a].pc = "idle" /\ late' = late \cup {<<"write", g>>}
    <2>1. "written" \in CallPcs /\ net \in Net
      BY DEF CallPcs, IInv, TypeOK, HostTypeOK
    <2> QED BY <2>1, Moves, NetMoves DEF WriteVolume, IInv
  <1>s. /\ seen' \in History /\ seen'.rms = seen.rms /\ seen'.blind = seen.blind
        /\ seen'.writes[g] = 1
        /\ \A h \in Gens : h # g => seen'.writes[h] = seen.writes[h]
    <2>1. seen \in History /\ seen.writes \in [Gens -> 0..2]
      BY DEF IInv, TypeOK, History
    <2>2. seen' = [seen EXCEPT !.writes = [seen.writes EXCEPT ![g] = 1]]
      BY <1>w, <2>1 DEF WriteVolume
    <2>3. [seen.writes EXCEPT ![g] = 1] \in [Gens -> 0..2]
      BY <2>1, <1>w
    <2> QED BY <1>w, <2>1, <2>2, <2>3 DEF History
  <1>1. vol' \in [Gens -> Contents]
    BY <1>v, <1>w, VolumeMoves DEF IInv, TypeOK, HostTypeOK
  <1>2. VolInv' /\ WholeInv' /\ GoneInv'
    <2>0. \A h \in Gens : vol'[h] # vol[h] => h = g /\ vol[h] = "empty"
      BY <1>v, <1>w, VolumeMoves DEF IInv
    <2>1. \A h \in Gens : Labelled(h)' => Labelled(h) \/ gen[h].ph = "begun"
      BY <1>w, <2>0 DEF Labelled
    <2>2. \A h \in Gens : vol[h] = "whole" /\ vol'[h] # "whole" => ~Referenced(h)
      BY <2>0
    <2> QED BY <1>u, <1>s, <2>1, <2>2, VolumeStep DEF ledger
  <1>3. GenInv' /\ WriterInv' /\ AttInv' /\ OpenInv' /\ late' \subseteq Commands
    <2>1. UNCHANGED <<box, gen, pin, res, op, job>>
      BY <1>u DEF ledger
    <2>2. seen'.writes[g] <= 1
      BY <1>s
    <2>3. "write" \in {"volume create", "write"}
      OBVIOUS
    <2> QED BY <1>u, <1>v, <1>s, <2>1, <2>2, <2>3, WriterCallStep
  <1>4. TypeOK'
    BY <1>u, <1>v, <1>s, <1>1, <1>3 DEF IInv, TypeOK, HostTypeOK, LedgerTypeOK, ledger
  <1> QED BY <1>u, <1>s, <1>2, <1>3, <1>4, Frames DEF IInv, ledger

\* A writer that is known to have ended finishes its generation.
LEMMA FinishGenerationStep ==
    ASSUME IInv, NEW a \in Attempts, FinishGeneration(a)
    PROVE  IInv'
  <1> DEFINE g == call[a].g
  <1>u. /\ UNCHANGED <<host, pin, rcpt, res, prov, att, scan, op, job, work>>
        /\ call[a].pc = "written" /\ Creating(a) /\ Writing(a)
    BY DEF FinishGeneration, At, Creating, Writing
  <1>w. g \in Gens /\ gen[g].owner = a /\ gen[g].ph \in {"begun", "finished"} /\ ~LateWriter(g)
    BY <1>u DEF IInv, WriterInv, WriterOK
  <1>q. Quiet(g)
    BY <1>u, <1>w DEF IInv, WriterInv, WriterOK, Writing, Quiet
  <1>t. call \in [Attempts -> Call] /\ sample \in Sample /\ seen \in History
    BY DEF IInv, TypeOK
  <1>c. /\ call' \in [Attempts -> Call] /\ call'[a].pc \in {"idle", "written", "bound"}
        /\ call'[a].pc # "idle" => call'[a].g = g
        /\ call'[a].pc = "written" => call'[a] = call[a]
        /\ \A b \in Attempts : b # a => call'[b] = call[b]
    <2>1. "bound" \in CallPcs
      BY DEF CallPcs
    <2>2. UNCHANGED call \/ Goto(a, "bound") \/ Return(a)
      BY DEF FinishGeneration
    <2> QED BY <1>t, <1>u, <2>1, <2>2, Moves
  <1>e. /\ gen' \in [Gens -> Generation] /\ \A h \in Gens : h # g => gen'[h] = gen[h]
        /\ gen'[g].owner = gen[g].owner /\ gen'[g].ph = "finished"
        /\ gen'[g].st \in {"claimed", "verified", "retired"}
        /\ \/ gen'[g].st # "retired" /\ UNCHANGED <<sample, seen>>
           \/ NoteRetired(g)
    <2>1. CASE FinishWrite(a, g) /\ UNCHANGED <<call, sample, seen>>
      <3>1. gen \in [Gens -> Generation] /\ gen[g] \in Generation
        BY <1>w DEF IInv, TypeOK, LedgerTypeOK
      <3> QED BY <1>w, <2>1, <3>1 DEF FinishWrite, Generation, WritePhases
    <2>2. CASE Verify(g) /\ UNCHANGED <<sample, seen>>
      BY <1>w, <2>2, SettleMoves
    <2>3. CASE gen[g].ph = "finished" /\ Retire(g) /\ NoteRetired(g)
      BY <1>w, <2>3, SettleMoves
    <2> QED BY <2>1, <2>2, <2>3 DEF FinishGeneration
  <1>s. /\ sample' \in Sample /\ seen' \in History
        /\ seen'.writes = seen.writes /\ seen'.rms = seen.rms
    BY <1>e, <1>w, <1>t, NoteMoves
  <1>3. TypeOK'
    BY <1>c, <1>e, <1>s, <1>u DEF IInv, TypeOK, HostTypeOK, LedgerTypeOK, host
  <1>4. \A b \in Attempts : b # a => Untouched(b)
    BY <1>c, <1>u DEF Untouched, host
  <1>5. AttOK(a) /\ OpenOK(a) /\ a \notin Gens
    BY Bounds DEF IInv, AttInv, OpenInv, Targets
  <1>6. AttOK(a)'
    BY <1>c, <1>u, <1>5 DEF AttOK, LateCreate, LateStart, Creating, host
  <1>7. /\ GenInv' /\ VolInv'
        /\ \A b \in Attempts : call'[b] = call[b] => WriterOK(b)'
    BY <1>w, <1>q, <1>e, <1>s, <1>u, GenerationStep DEF host
  <1>8. WriterOK(a)'
    BY <1>c, <1>w, <1>7 DEF WriterOK, Writing
  <1>9. OpenOK(a)'
    BY <1>5, <1>u DEF OpenOK
  <1>10. \A h \in Gens : gen[h].ph = "finished" => gen'[h].ph = "finished"
    BY <1>e
  <1> QED BY <1>c, <1>u, <1>s, <1>3, <1>4, <1>6, <1>7, <1>8, <1>9, <1>10, OneAttempt, Frames
        DEF IInv, WriterInv, host

-----------------------------------------------------------------------------
(* Prepare: the container.                                                 *)

\* A step on one container: only an attempt without an operation gets a new one.
LEMMA BoxStep ==
    ASSUME IInv, NEW a \in Attempts,
           \A b \in Attempts : b # a => box'[b] = box[b],
           \A h \in Gens : vol[h] = "whole" => vol'[h] = "whole",
           \A h \in Gens : Labelled(h)' => Labelled(h)
    PROVE  /\ WholeOK(a)' => WholeInv'
           /\ UNCHANGED <<op, work>>
              /\ (box[a].st = "none" /\ box'[a].st # "none" => op[a].st = "none") => GoneInv'
  <1>1. ASSUME WholeOK(a)' PROVE WholeInv'
    <2> SUFFICES ASSUME NEW b \in Attempts PROVE WholeOK(b)'
      BY DEF WholeInv
    <2>1. CASE b = a
      BY <1>1, <2>1
    <2>2. CASE b # a
      <3>1. WholeOK(b) /\ box'[b] = box[b]
        BY <2>2 DEF IInv, WholeInv
      <3> QED BY <3>1 DEF WholeOK
    <2> QED BY <2>1, <2>2
  <1>2. ASSUME UNCHANGED <<op, work>>,
               box[a].st = "none" /\ box'[a].st # "none" => op[a].st = "none"
        PROVE  GoneInv'
    <2>1. \A t \in Targets : op[t].st # "none" /\ Gone(t) => Gone(t)'
      BY <1>2 DEF Gone, Targets
    <2>2. work.pc = "done" => work.t \in Targets /\ op[work.t].st # "none"
      BY DEF IInv, WorkInv
    <2>3. work.pc = "done" /\ Gone(work.t) => Gone(work.t)'
      BY <1>2, <2>1, <2>2 DEF Gone, Labelled
    <2>4. \A t \in Targets : op'[t].st = "succeeded" => Gone(t)'
      BY <1>2, <2>1 DEF IInv, GoneInv
    <2> QED BY <1>2, <2>3, <2>4 DEF IInv, GoneInv
  <1> QED BY <1>1, <1>2

\* A call that left the writer behind.
LEMMA CallElsewhere ==
    ASSUME IInv, NEW a \in Attempts,
           \A b \in Attempts : b # a => call'[b] = call[b],
           call'[a].pc \in {"idle", "boxed", "failing", "staged", "checked"},
           \A h \in Gens : ~LateWriter(h) => ~LateWriter(h)',
           UNCHANGED gen, seen'.writes = seen.writes
    PROVE  WriterInv'
  <1> SUFFICES ASSUME NEW b \in Attempts PROVE WriterOK(b)'
    BY DEF WriterInv
  <1>1. WriterOK(b)
    BY DEF IInv, WriterInv
  <1>2. CASE b = a
    BY <1>2 DEF WriterOK, Writing
  <1>3. CASE b # a /\ Writing(b)
    <2>1. /\ call'[b] = call[b] /\ call[b].g \in Gens
          /\ <<"volume create", call[b].g>> \notin late' /\ <<"write", call[b].g>> \notin late'
      BY <1>1, <1>3 DEF WriterOK, LateWriter
    <2> QED BY <1>1, <1>3, <2>1 DEF WriterOK, Writing, LateWriter
  <1>4. CASE b # a /\ ~Writing(b)
    BY <1>1, <1>4 DEF WriterOK, Writing
  <1> QED BY <1>2, <1>3, <1>4

\* Fewer writers are left, if anything.
LEMMA GenLate ==
    ASSUME IInv, UNCHANGED <<gen, res>>, seen'.writes = seen.writes,
           \A h \in Gens : ~LateWriter(h) => ~LateWriter(h)'
    PROVE  GenInv'
  <1> SUFFICES ASSUME NEW h \in Gens PROVE GenOK(h)'
    BY DEF GenInv
  <1>1. GenOK(h)
    BY DEF IInv, GenInv
  <1> QED BY <1>1 DEF GenOK

\* The one container of the attempt is created, or its command is lost.
LEMMA CreateBoxStep ==
    ASSUME IInv, NEW a \in Attempts, CreateBox(a)
    PROVE  IInv'
  <1> DEFINE g == call[a].g
  <1>u. /\ UNCHANGED <<ledger, job, sample, work, seen>>
        /\ call[a].pc = "bound" /\ Creating(a)
    BY DEF CreateBox, At, Creating
  <1>g. g \in Gens
    BY <1>u DEF IInv, WriterInv, WriterOK
  <1>t. "boxed" \in CallPcs /\ net \in Net /\ vol \in [Gens -> Contents] /\ box \in [Attempts -> Box]
    BY DEF CallPcs, IInv, TypeOK, HostTypeOK
  <1>v. /\ net' \in Net /\ call' \in [Attempts -> Call]
        /\ \A b \in Attempts : b # a => call'[b] = call[b]
        /\ \/ /\ box' = BoxCreated(box, a, g) /\ vol' = Mounted(vol, g) /\ late' = late
              /\ call'[a].pc = "boxed"
           \/ /\ late' = late \cup {<<"container create", <<a, g>>>>}
              /\ call'[a].pc = "idle" /\ UNCHANGED <<vol, box>>
    BY <1>t, Moves, NetMoves DEF CreateBox, IInv
  <1>5. AttOK(a) /\ OpenOK(a) /\ WholeOK(a) /\ a \notin Gens
    BY Bounds DEF IInv, AttInv, OpenInv, WholeInv, Targets
  <1>n. box[a].st = "none" /\ op[a].st = "none" /\ ~LateCreate(a) /\ ~LateStart(a)
    BY <1>5, <1>u DEF AttOK, OpenOK, Creating
  <1>b. /\ box' \in [Attempts -> Box] /\ \A b \in Attempts : b # a => box'[b] = box[b]
        /\ box'[a].st # "none" => box'[a].st = "created" /\ box'[a].mount = g /\ box'[a].ready = FALSE
        /\ box'[a].st = "none" => box'[a] = box[a]
    <2>1. CASE box' = BoxCreated(box, a, g)
      BY <1>n, <1>g, <2>1, BoxMoves DEF IInv
    <2>2. CASE UNCHANGED <<vol, box>>
      BY <1>n, <1>t, <2>2
    <2> QED BY <1>v, <2>1, <2>2
  <1>m. /\ vol' \in [Gens -> Contents]
        /\ \A h \in Gens : vol'[h] = vol[h] \/ (vol[h] = "absent" /\ vol'[h] = "bare")
    <2>1. \A h \in Gens : Mounted(vol, g)[h] = IF h = g /\ vol[g] = "absent" THEN "bare" ELSE vol[h]
      BY <1>g, VolumeMoves DEF IInv
    <2>2. Mounted(vol, g) \in [Gens -> Contents]
      BY <1>g, VolumeMoves DEF IInv
    <2>3. CASE vol' = Mounted(vol, g)
      BY <2>1, <2>2, <2>3
    <2>4. CASE UNCHANGED <<vol, box>>
      BY <1>t, <2>4
    <2> QED BY <1>v, <2>3, <2>4
  <1>l. /\ late' \subseteq Commands
        /\ \A h \in Gens : LateWriter(h)' <=> LateWriter(h)
        /\ \A b \in Attempts : b # a => \A h \in Gens :
             <<"container create", <<b, h>>>> \in late' <=> <<"container create", <<b, h>>>> \in late
        /\ \A b \in Attempts :
             <<"container start", b>> \in late' <=> <<"container start", b>> \in late
        /\ \A h \in Gens : <<"container create", <<a, h>>>> \in late' =>
             h = g /\ call'[a].pc = "idle" /\ box' = box
    <2>1. <<"container create", <<a, g>>>> \in Commands /\ late \subseteq Commands
      BY <1>g DEF Commands, IInv, TypeOK, HostTypeOK
    <2>2. \A h \in Gens : <<"container create", <<a, h>>>> \notin late
      BY <1>n DEF LateCreate
    <2>3. /\ late' = late \/ late' = late \cup {<<"container create", <<a, g>>>>}
          /\ late' # late => call'[a].pc = "idle" /\ box' = box
      BY <1>v
    <2>4. /\ late' \subseteq Commands
          /\ \A d : d # <<"container create", <<a, g>>>> => (d \in late' <=> d \in late)
      <3>1. CASE late' = late \cup {<<"container create", <<a, g>>>>}
        BY <2>1, <3>1
      <3> QED BY <2>1, <2>3, <3>1
    <2>5. \A h \in Gens : LateWriter(h)' <=> LateWriter(h)
      <3> TAKE h \in Gens
      <3>1. /\ <<"volume create", h>> # <<"container create", <<a, g>>>>
            /\ <<"write", h>> # <<"container create", <<a, g>>>>
        OBVIOUS
      <3> QED BY <2>4, <3>1 DEF LateWriter
    <2>6. \A b \in Attempts : b # a => \A h \in Gens :
            <<"container create", <<b, h>>>> \in late' <=> <<"container create", <<b, h>>>> \in late
      <3> TAKE b \in Attempts
      <3>1. b # a => \A h \in Gens :
              <<"container create", <<b, h>>>> # <<"container create", <<a, g>>>>
        OBVIOUS
      <3> QED BY <2>4, <3>1
    <2>7. \A b \in Attempts :
            <<"container start", b>> \in late' <=> <<"container start", b>> \in late
      <3> TAKE b \in Attempts
      <3>1. <<"container start", b>> # <<"container create", <<a, g>>>>
        OBVIOUS
      <3> QED BY <2>4, <3>1
    <2>8. \A h \in Gens : <<"container create", <<a, h>>>> \in late' =>
            h = g /\ call'[a].pc = "idle" /\ box' = box
      <3> TAKE h \in Gens
      <3>1. h # g => <<"container create", <<a, h>>>> # <<"container create", <<a, g>>>>
        OBVIOUS
      <3> QED BY <2>2, <2>3, <2>4, <3>1
    <2> QED BY <2>4, <2>5, <2>6, <2>7, <2>8
  <1>3. TypeOK'
    BY <1>u, <1>v, <1>b, <1>m, <1>l DEF IInv, TypeOK, HostTypeOK, LedgerTypeOK, ledger
  <1>4. \A b \in Attempts : b # a => Untouched(b)
    BY <1>u, <1>v, <1>b, <1>l DEF Untouched, ledger
  <1>6. AttOK(a)'
    <2>1. job[a] = "preparing" /\ job'[a] = "preparing" /\ pin'[a] = "live"
      BY <1>5, <1>u DEF AttOK, ledger
    <2>2. ~LateStart(a)' /\ (call'[a].pc = "boxed" => ~LateCreate(a)')
      BY <1>l, <1>n, <1>v DEF LateStart, LateCreate
    <2>3. LateCreate(a)' => box'[a].st = "none"
      BY <1>l, <1>n DEF LateCreate
    <2> QED BY <1>v, <1>b, <1>l, <1>n, <2>1, <2>2, <2>3 DEF AttOK, Creating
  <1>7. OpenOK(a)'
    BY <1>n, <1>u DEF OpenOK, ledger
  <1>8. WholeOK(a)'
    BY <1>b, <1>g, <1>n, <1>5 DEF WholeOK
  <1>9. WholeInv' /\ GoneInv' /\ VolInv'
    <2>1. \A h \in Gens : vol[h] = "whole" => vol'[h] = "whole"
      BY <1>m
    <2>2. \A h \in Gens : Labelled(h)' => Labelled(h)
      BY <1>m DEF Labelled
    <2>3. VolInv'
      BY <1>u, <2>1, <2>2, VolumeStep DEF ledger
    <2> QED BY <1>b, <1>n, <1>u, <1>8, <2>1, <2>2, <2>3, BoxStep DEF ledger
  <1>10. GenInv' /\ WriterInv'
    BY <1>u, <1>v, <1>l, GenLate, CallElsewhere DEF ledger
  <1> QED BY <1>u, <1>3, <1>4, <1>6, <1>7, <1>9, <1>10, OneAttempt, Frames DEF IInv, ledger

\* A start or a removal whose connection broke: what else may be left is as it was.
LEMMA LateCommand ==
    ASSUME IInv, NEW what \in {"container start", "container rm", "volume rm"}, NEW x,
           <<what, x>> \in Commands,
           late' = late \/ late' = late \cup {<<what, x>>}
    PROVE  /\ late' \subseteq Commands
           /\ \A h \in Gens : LateWriter(h)' <=> LateWriter(h)
           /\ \A b \in Attempts, h \in Gens :
                <<"container create", <<b, h>>>> \in late' <=> <<"container create", <<b, h>>>> \in late
           /\ \A b \in Attempts : what # "container start" \/ b # x =>
                (<<"container start", b>> \in late' <=> <<"container start", b>> \in late)
  <1>1. /\ late' \subseteq Commands
        /\ \A d : d # <<what, x>> => (d \in late' <=> d \in late)
    <2>1. late \subseteq Commands
      BY DEF IInv, TypeOK, HostTypeOK
    <2>2. CASE late' = late \cup {<<what, x>>}
      BY <2>1, <2>2
    <2> QED BY <2>1, <2>2
  <1>2. \A h \in Gens : LateWriter(h)' <=> LateWriter(h)
    <2> TAKE h \in Gens
    <2>1. <<"volume create", h>> # <<what, x>> /\ <<"write", h>> # <<what, x>>
      OBVIOUS
    <2> QED BY <1>1, <2>1 DEF LateWriter
  <1>3. \A b \in Attempts, h \in Gens :
          <<"container create", <<b, h>>>> \in late' <=> <<"container create", <<b, h>>>> \in late
    <2> TAKE b \in Attempts, h \in Gens
    <2>1. <<"container create", <<b, h>>>> # <<what, x>>
      OBVIOUS
    <2> QED BY <1>1, <2>1
  <1>4. \A b \in Attempts : what # "container start" \/ b # x =>
          (<<"container start", b>> \in late' <=> <<"container start", b>> \in late)
    <2> TAKE b \in Attempts
    <2>1. what # "container start" \/ b # x => <<"container start", b>> # <<what, x>>
      OBVIOUS
    <2> QED BY <1>1, <2>1
  <1> QED BY <1>1, <1>2, <1>3, <1>4

\* An attempt that has its container: a step of its call, its journal, its container
\* and the commands that are left of it.
LEMMA ContainerStep ==
    ASSUME IInv, NEW a \in Attempts,
           job' \in [Attempts -> Phases], \A b \in Attempts : b # a => job'[b] = job[b],
           call' \in [Attempts -> Call], \A b \in Attempts : b # a => call'[b] = call[b],
           call'[a].pc \in {"idle", "boxed", "failing", "staged", "checked"},
           box' \in [Attempts -> Box], \A b \in Attempts : b # a => box'[b] = box[b],
           box[a].st = "none" => box'[a].st = "none",
           NEW what \in {"container start", "container rm"},
           late' = late \/ late' = late \cup {<<what, a>>},
           rcpt' \in [Attempts -> Receipt], net' \in Net,
           AttOK(a)', WholeOK(a)',
           job[a] \notin {"none", "queued", "withdrawn"},
           job'[a] \notin {"none", "queued", "withdrawn"},
           UNCHANGED <<vol, gen, pin, res, prov, att, scan, op, sample, work, seen>>
    PROVE  IInv'
  <1>1. <<what, a>> \in Commands
    BY DEF Commands
  <1>l. /\ late' \subseteq Commands
        /\ \A h \in Gens : LateWriter(h)' <=> LateWriter(h)
        /\ \A b \in Attempts, h \in Gens :
             <<"container create", <<b, h>>>> \in late' <=> <<"container create", <<b, h>>>> \in late
        /\ \A b \in Attempts : b # a =>
             (<<"container start", b>> \in late' <=> <<"container start", b>> \in late)
    BY <1>1, LateCommand
  <1>3. TypeOK'
    BY <1>l DEF IInv, TypeOK, HostTypeOK, LedgerTypeOK
  <1>4. \A b \in Attempts : b # a => Untouched(b)
    BY <1>l DEF Untouched
  <1>5. OpenOK(a)'
    <2>1. OpenOK(a) /\ a \notin Gens
      BY Bounds DEF IInv, OpenInv, Targets
    <2>2. LateCreate(a)' <=> LateCreate(a)
      BY <1>l DEF LateCreate
    <2> QED BY <2>1, <2>2 DEF OpenOK, Creating
  <1>6. WholeInv' /\ GoneInv'
    <2>1. \A h \in Gens : Labelled(h)' => Labelled(h)
      BY DEF Labelled
    <2> QED BY <2>1, BoxStep
  <1>7. GenInv' /\ WriterInv'
    BY <1>l, GenLate, CallElsewhere
  <1> QED BY <1>3, <1>4, <1>5, <1>6, <1>7, OneAttempt, Frames DEF IInv

\* The types such a step starts from.
LEMMA ContainerTypes ==
    ASSUME IInv, NEW a \in Attempts
    PROVE  /\ job \in [Attempts -> Phases] /\ call \in [Attempts -> Call]
           /\ box \in [Attempts -> Box] /\ rcpt \in [Attempts -> Receipt] /\ net \in Net
           /\ box[a].mount \in Receipt
           /\ \A phase \in Phases : job' = [job EXCEPT ![a] = phase] =>
                /\ job' \in [Attempts -> Phases] /\ job'[a] = phase
                /\ \A b \in Attempts : b # a => job'[b] = job[b]
           /\ AttOK(a) /\ WholeOK(a)
  <1>1. /\ job \in [Attempts -> Phases] /\ call \in [Attempts -> Call]
        /\ box \in [Attempts -> Box] /\ rcpt \in [Attempts -> Receipt] /\ net \in Net
    BY DEF IInv, TypeOK, HostTypeOK, LedgerTypeOK
  <1>2. box[a].mount \in Receipt
    BY <1>1 DEF Box, Receipt
  <1>3. AttOK(a) /\ WholeOK(a)
    BY DEF IInv, AttInv, WholeInv
  <1> QED BY <1>1, <1>2, <1>3

\* The mounts are verified on the volume that is there.
LEMMA VerifiedIsWhole ==
    ASSUME IInv, NEW a \in Attempts, MountVerified(a)
    PROVE  /\ box[a].st # "none" /\ box[a].st \notin {"running", "exited"}
           /\ box[a].mount \in Gens /\ vol[box[a].mount] = "whole"
  <1>1. box[a].st # "none" /\ box[a].st \notin {"running", "exited"}
    BY DEF MountVerified, Boxes, Started
  <1>2. box[a].mount \in Gens
    BY <1>1, ContainerTypes DEF WholeOK
  <1>3. vol[box[a].mount] = "whole"
    BY DEF MountVerified, ObserveVolume
  <1> QED BY <1>1, <1>2, <1>3

\* The marker is written where the mount was read as whole.
LEMMA StageStep ==
    ASSUME IInv, NEW a \in Attempts, Stage(a)
    PROVE  IInv'
  <1>u. /\ UNCHANGED <<vol, late, gen, pin, res, prov, att, scan, op, job, sample, work, seen>>
        /\ call[a].pc = "boxed"
    BY DEF Stage, At
  <1>t. AttOK(a) /\ WholeOK(a) /\ job[a] = "preparing" /\ ~LateCreate(a) /\ ~LateStart(a)
    BY <1>u, ContainerTypes DEF AttOK
  <1>1. /\ call' \in [Attempts -> Call] /\ \A b \in Attempts : b # a => call'[b] = call[b]
        /\ call'[a].pc \in {"boxed", "staged", "failing"}
    <2>1. "staged" \in CallPcs /\ "failing" \in CallPcs
      BY DEF CallPcs
    <2>2. Goto(a, "staged") \/ Goto(a, "failing") \/ UNCHANGED call
      BY DEF Stage
    <2> QED BY <1>u, <2>1, <2>2, Moves, ContainerTypes
  <1>2. net' \in Net
    BY NetMoves, ContainerTypes DEF Stage, IInv
  <1>3. \/ UNCHANGED <<box, rcpt>>
        \/ /\ MountVerified(a) /\ rcpt' = [rcpt EXCEPT ![a] = box[a].mount]
           /\ box' = box \/ box' = BoxReady(box, a)
    BY DEF Stage
  <1>4. rcpt' \in [Attempts -> Receipt]
    BY <1>3, ContainerTypes
  <1>5. /\ box' \in [Attempts -> Box] /\ \A b \in Attempts : b # a => box'[b] = box[b]
        /\ box'[a].st = box[a].st /\ box'[a].mount = box[a].mount
    <2>1. CASE box' = box
      BY <2>1, ContainerTypes
    <2>2. CASE box' = BoxReady(box, a)
      BY <2>2, BoxMoves DEF IInv
    <2> QED BY <1>3, <2>1, <2>2
  <1>6. WholeOK(a)'
    <2>1. CASE UNCHANGED box
      BY <1>u, <1>t, <2>1 DEF WholeOK
    <2>2. CASE MountVerified(a)
      BY <1>u, <1>5, <2>2, VerifiedIsWhole DEF WholeOK
    <2> QED BY <1>3, <2>1, <2>2
  <1>7. AttOK(a)'
    BY <1>u, <1>t, <1>1, <1>5 DEF AttOK, LateCreate, LateStart, Creating
  <1>8. /\ job' \in [Attempts -> Phases] /\ \A b \in Attempts : b # a => job'[b] = job[b]
        /\ job'[a] = job[a] /\ "container rm" \in {"container start", "container rm"}
    BY <1>u, ContainerTypes
  <1> QED BY <1>u, <1>t, <1>1, <1>2, <1>4, <1>5, <1>6, <1>7, <1>8, ContainerStep

\* Removal, done or lost.
LEMMA RemovedMoves ==
    ASSUME IInv, NEW a \in Attempts, box' = box \/ box' = BoxRemoved(box, a)
    PROVE  /\ box' \in [Attempts -> Box] /\ \A b \in Attempts : b # a => box'[b] = box[b]
           /\ box'[a] = box[a] \/ (box'[a].st = "none" /\ box'[a].ready = FALSE)
  <1>1. CASE box' = box
    BY <1>1, ContainerTypes
  <1>2. CASE box' = BoxRemoved(box, a)
    <2>1. /\ BoxRemoved(box, a) \in [Attempts -> Box]
          /\ BoxRemoved(box, a)[a] = IF box[a].st = "running" THEN box[a] ELSE NoBox
          /\ \A b \in Attempts : b # a => BoxRemoved(box, a)[b] = box[b]
          /\ NoBox.st = "none" /\ NoBox.ready = FALSE
      BY BoxMoves DEF IInv
    <2> QED BY <1>2, <2>1
  <1> QED BY <1>1, <1>2

\* A failed staging removes its own container at most once.
LEMMA RemoveFailedStep ==
    ASSUME IInv, NEW a \in Attempts, RemoveFailed(a)
    PROVE  IInv'
  <1>u. /\ UNCHANGED <<vol, ledger, job, sample, work, seen>>
        /\ call[a].pc = "failing" /\ Return(a)
    BY DEF RemoveFailed, At
  <1>t. AttOK(a) /\ WholeOK(a) /\ job[a] = "preparing" /\ ~LateCreate(a) /\ ~LateStart(a)
    BY <1>u, ContainerTypes DEF AttOK
  <1>b. /\ box' \in [Attempts -> Box] /\ \A b \in Attempts : b # a => box'[b] = box[b]
        /\ box'[a] = box[a] \/ (box'[a].st = "none" /\ box'[a].ready = FALSE)
    <2>1. box' = box \/ box' = BoxRemoved(box, a)
      BY DEF RemoveFailed
    <2> QED BY <2>1, RemovedMoves
  <1>l. late' = late \/ late' = late \cup {<<"container rm", a>>}
    BY DEF RemoveFailed
  <1>n. net' \in Net
    BY NetMoves, ContainerTypes DEF RemoveFailed, IInv
  <1>c. /\ call' \in [Attempts -> Call] /\ call'[a].pc = "idle"
        /\ \A b \in Attempts : b # a => call'[b] = call[b]
    BY <1>u, Moves
  <1>m. ~LateCreate(a)' /\ ~LateStart(a)'
    <2>1. <<"container rm", a>> \in Commands
      BY DEF Commands
    <2> QED BY <1>l, <1>t, <2>1, LateCommand DEF LateCreate, LateStart
  <1>4. WholeOK(a)'
    BY <1>u, <1>t, <1>b DEF WholeOK
  <1>5. AttOK(a)'
    BY <1>u, <1>t, <1>b, <1>c, <1>m DEF AttOK, LateCreate, Creating, ledger
  <1> QED BY <1>u, <1>t, <1>b, <1>l, <1>n, <1>c, <1>4, <1>5, ContainerTypes, ContainerStep DEF ledger

\* The journal moves on and the container stays as it is.
LEMMA JournalStep ==
    ASSUME IInv, NEW a \in Attempts, NEW phase \in Phases,
           job' = [job EXCEPT ![a] = phase],
           call' = call \/ Return(a) \/ (Goto(a, "checked") /\ phase = "submitting"),
           call'[a].pc \in {"idle", "checked"},
           rcpt' \in [Attempts -> Receipt], net' \in Net,
           AttOK(a)',
           job[a] \notin {"none", "queued", "withdrawn"}, phase \notin {"none", "queued", "withdrawn"},
           UNCHANGED <<vol, box, late, gen, pin, res, prov, att, scan, op, sample, work, seen>>
    PROVE  IInv'
  <1>1. /\ job' \in [Attempts -> Phases] /\ job'[a] = phase
        /\ \A b \in Attempts : b # a => job'[b] = job[b]
    BY ContainerTypes
  <1>2. /\ call' \in [Attempts -> Call]
        /\ \A b \in Attempts : b # a => call'[b] = call[b]
    <2>1. "checked" \in CallPcs
      BY DEF CallPcs
    <2> QED BY <2>1, Moves, ContainerTypes
  <1>3. /\ box' \in [Attempts -> Box] /\ \A b \in Attempts : box'[b] = box[b]
        /\ late' = late
    BY ContainerTypes
  <1>4. WholeOK(a)'
    BY ContainerTypes DEF WholeOK
  <1>5. "container rm" \in {"container start", "container rm"}
    OBVIOUS
  <1> QED BY <1>1, <1>2, <1>3, <1>4, <1>5, ContainerStep

\* The journal records what the call staged.
LEMMA RecordPreparedStep ==
    ASSUME IInv, NEW a \in Attempts, RecordPrepared(a)
    PROVE  IInv'
  <1>u. /\ UNCHANGED <<host, ledger, sample, work, seen>> /\ call[a].pc = "staged"
        /\ job' = [job EXCEPT ![a] = "prepared"] /\ Return(a) /\ "prepared" \in Phases
    BY DEF RecordPrepared, At, Phases
  <1>c. call'[a].pc = "idle" /\ job'[a] = "prepared"
    BY <1>u, Moves, ContainerTypes
  <1>t. AttOK(a) /\ job[a] = "preparing" /\ ~LateCreate(a) /\ ~LateStart(a)
    BY <1>u, ContainerTypes DEF AttOK
  <1>5. AttOK(a)'
    BY <1>u, <1>c, <1>t DEF AttOK, LateCreate, LateStart, Creating, host, ledger
  <1> QED BY <1>u, <1>c, <1>t, <1>5, ContainerTypes, JournalStep DEF host, ledger

\* Reconciliation records a container with its marker.
LEMMA ReconcilePrepareStep ==
    ASSUME IInv, NEW a \in Attempts, ReconcilePrepare(a)
    PROVE  IInv'
  <1>u. /\ UNCHANGED <<host, gen, pin, res, prov, att, scan, op, call, sample, work, seen>>
        /\ call[a].pc = "idle" /\ job[a] = "preparing" /\ MountVerified(a)
        /\ job' = [job EXCEPT ![a] = "prepared"] /\ "prepared" \in Phases
        /\ rcpt' = [rcpt EXCEPT ![a] = box[a].mount]
    BY DEF ReconcilePrepare, At, Phases
  <1>c. job'[a] = "prepared" /\ rcpt' \in [Attempts -> Receipt]
    BY <1>u, ContainerTypes
  <1>t. AttOK(a) /\ ~LateCreate(a) /\ ~LateStart(a)
    BY <1>u, ContainerTypes, VerifiedIsWhole DEF AttOK
  <1>5. AttOK(a)'
    BY <1>u, <1>c, <1>t DEF AttOK, LateCreate, LateStart, Creating, host
  <1> QED BY <1>u, <1>c, <1>5, ContainerTypes, JournalStep DEF host

\* An attempt that was not found keeps its pins.
LEMMA AbandonStep ==
    ASSUME IInv, NEW a \in Attempts, Abandon(a)
    PROVE  IInv'
  <1>u. /\ UNCHANGED <<host, ledger, call, sample, work, seen>>
        /\ call[a].pc = "idle" /\ job[a] = "preparing"
        /\ job' = [job EXCEPT ![a] = "abandoned"] /\ "abandoned" \in Phases
    BY DEF Abandon, At, Phases
  <1>c. job'[a] = "abandoned" /\ AttOK(a)
    BY <1>u, ContainerTypes
  <1>5. AttOK(a)'
    BY <1>u, <1>c DEF AttOK, LateCreate, LateStart, Creating, host, ledger
  <1> QED BY <1>u, <1>c, <1>5, ContainerTypes, JournalStep DEF host, ledger

-----------------------------------------------------------------------------
(* Submission, observation and the attempt's own cleanup.                  *)

\* The second barrier: checked and submitting, or rejected unstarted.
LEMMA BeginSubmissionStep ==
    ASSUME IInv, NEW a \in Attempts, BeginSubmission(a)
    PROVE  IInv'
  <1>u. /\ UNCHANGED <<vol, box, late, ledger, sample, work, seen>>
        /\ call[a].pc = "idle" /\ job[a] = "prepared"
        /\ "submitting" \in Phases /\ "rejected" \in Phases /\ "checked" \in CallPcs
    BY DEF BeginSubmission, At, Phases, CallPcs
  <1>t. /\ AttOK(a) /\ ~LateCreate(a) /\ ~LateStart(a) /\ pin[a] = "live"
        /\ box[a].st \notin {"running", "exited"}
    BY <1>u, ContainerTypes DEF AttOK
  <1>1. CASE Goto(a, "checked") /\ job' = [job EXCEPT ![a] = "submitting"] /\ UNCHANGED net
    <2>1. call'[a].pc = "checked" /\ job'[a] = "submitting"
      BY <1>1, <1>u, Moves, ContainerTypes
    <2>2. AttOK(a)'
      BY <1>u, <1>t, <2>1 DEF AttOK, LateCreate, LateStart, Creating, ledger
    <2> QED BY <1>1, <1>u, <2>1, <2>2, ContainerTypes, JournalStep DEF ledger
  <1>2. CASE /\ net' \in Net /\ UNCHANGED call
             /\ job' = [job EXCEPT ![a] = IF Reach /\ Started(a) THEN "submitting" ELSE "rejected"]
    <2>1. ~Started(a)
      BY <1>t DEF Started
    <2>2. job' = [job EXCEPT ![a] = "rejected"]
      BY <1>2, <2>1
    <2>3. call'[a].pc = "idle" /\ job'[a] = "rejected"
      BY <1>2, <1>u, <2>2, ContainerTypes
    <2>4. AttOK(a)'
      BY <1>u, <1>t, <2>3 DEF AttOK, LateCreate, LateStart, Creating, ledger
    <2> QED BY <1>2, <1>u, <2>2, <2>3, <2>4, ContainerTypes, JournalStep DEF ledger
  <1> QED BY <1>1, <1>2, NetMoves, ContainerTypes DEF BeginSubmission, IInv

\* The one start is sent, or its command is lost.
LEMMA SendStartStep ==
    ASSUME IInv, NEW a \in Attempts, SendStart(a)
    PROVE  IInv'
  <1>u. /\ UNCHANGED <<vol, ledger, sample, work, seen>>
        /\ call[a].pc = "checked" /\ Return(a) /\ "submitted" \in Phases
    BY DEF SendStart, At, Phases
  <1>t. /\ AttOK(a) /\ WholeOK(a) /\ job[a] = "submitting" /\ pin[a] = "live"
        /\ ~LateCreate(a) /\ ~LateStart(a) /\ box[a].st \notin {"running", "exited"}
    BY <1>u, ContainerTypes DEF AttOK
  <1>c. /\ call' \in [Attempts -> Call] /\ call'[a].pc = "idle"
        /\ \A b \in Attempts : b # a => call'[b] = call[b]
    BY <1>u, Moves
  <1>s. "container start" \in {"container start", "container rm"}
    OBVIOUS
  <1>1. CASE /\ box' = BoxStarted(box, a) /\ UNCHANGED <<late, net>>
             /\ job' = [job EXCEPT ![a] = "submitted"]
    <2>1. /\ box' \in [Attempts -> Box] /\ \A b \in Attempts : b # a => box'[b] = box[b]
          /\ box'[a].st = IF box[a].st = "created" THEN "running" ELSE box[a].st
          /\ box'[a].mount = box[a].mount /\ box'[a].ready = box[a].ready
      BY <1>1, BoxMoves DEF IInv
    <2>2. /\ job' \in [Attempts -> Phases] /\ job'[a] = "submitted"
          /\ \A b \in Attempts : b # a => job'[b] = job[b]
      BY <1>1, <1>u, ContainerTypes
    <2>3. AttOK(a)'
      BY <1>1, <1>u, <1>t, <1>c, <2>1, <2>2 DEF AttOK, LateCreate, LateStart, Creating, ledger
    <2>4. WholeOK(a)'
      BY <1>u, <1>t, <2>1 DEF WholeOK
    <2>5. net' \in Net /\ rcpt' \in [Attempts -> Receipt]
      BY <1>1, <1>u, ContainerTypes DEF ledger
    <2>6. box[a].st = "none" => box'[a].st = "none"
      BY <2>1
    <2> QED BY <1>1, <1>u, <1>t, <1>c, <1>s, <2>1, <2>2, <2>3, <2>4, <2>5, <2>6, ContainerStep DEF ledger
  <1>2. CASE /\ UNCHANGED <<box, job>> /\ net' \in Net
             /\ late' = late \/ late' = late \cup {<<"container start", a>>}
    <2>1. /\ box' \in [Attempts -> Box] /\ job' \in [Attempts -> Phases]
          /\ \A b \in Attempts : box'[b] = box[b] /\ job'[b] = job[b]
          /\ rcpt' \in [Attempts -> Receipt]
      BY <1>2, <1>u, ContainerTypes DEF ledger
    <2>2. \A h \in Gens : <<"container create", <<a, h>>>> \notin late'
      <3>1. "container start" \in {"container start", "container rm", "volume rm"}
            /\ <<"container start", a>> \in Commands
        BY DEF Commands
      <3> QED BY <1>2, <1>t, <3>1, LateCommand DEF LateCreate
    <2>3. AttOK(a)'
      BY <1>u, <1>t, <1>c, <2>1, <2>2 DEF AttOK, LateCreate, Creating, ledger
    <2>4. WholeOK(a)'
      BY <1>u, <1>t, <2>1 DEF WholeOK
    <2> QED BY <1>2, <1>u, <1>t, <1>c, <1>s, <2>1, <2>3, <2>4, ContainerStep DEF ledger
  <1>3. net \in Net
    BY ContainerTypes
  <1> QED BY <1>1, <1>2, <1>3, NetMoves DEF SendStart, IInv

\* A start that took effect is recorded.
LEMMA ReconcileStep ==
    ASSUME IInv, NEW a \in Attempts, Reconcile(a)
    PROVE  IInv'
  <1>u. /\ UNCHANGED <<host, ledger, call, sample, work, seen>>
        /\ call[a].pc = "idle" /\ job[a] = "submitting" /\ box[a].st \in {"running", "exited"}
        /\ job' = [job EXCEPT ![a] = "submitted"] /\ "submitted" \in Phases
    BY DEF Reconcile, At, Phases, Started
  <1>c. job'[a] = "submitted" /\ AttOK(a)
    BY <1>u, ContainerTypes
  <1>5. AttOK(a)'
    BY <1>u, <1>c DEF AttOK, LateCreate, LateStart, Creating, host, ledger
  <1> QED BY <1>u, <1>c, <1>5, ContainerTypes, JournalStep DEF host, ledger

\* An exit or an absence ends the attempt.
LEMMA ObserveStep ==
    ASSUME IInv, NEW a \in Attempts, Observe(a)
    PROVE  IInv'
  <1>u. /\ UNCHANGED <<host, ledger, call, sample, work, seen>>
        /\ job[a] = "submitted" /\ box[a].st \in {"none", "exited"}
        /\ job' = [job EXCEPT ![a] = "ended"] /\ "ended" \in Phases
    BY DEF Observe, Phases, Boxes, Reach
  <1>c. job'[a] = "ended" /\ AttOK(a)
    BY <1>u, ContainerTypes
  <1>i. call[a].pc = "idle"
    BY <1>u, <1>c DEF AttOK
  <1>5. AttOK(a)'
    BY <1>u, <1>c, <1>i DEF AttOK, LateCreate, LateStart, Creating, host, ledger
  <1> QED BY <1>u, <1>c, <1>i, <1>5, ContainerTypes, JournalStep DEF host, ledger

\* A run ends: stopped on request, by itself, by its deadline or by the machine.
LEMMA StoppedStep ==
    ASSUME IInv, NEW a \in Attempts, box[a].st = "running", box' = BoxStopped(box, a),
           UNCHANGED <<vol, late, net, ledger, job, call, sample, work, seen>>
    PROVE  IInv'
  <1>1. /\ box' \in [Attempts -> Box] /\ \A b \in Attempts : b # a => box'[b] = box[b]
        /\ box'[a].st = "exited" /\ box'[a].mount = box[a].mount /\ box'[a].ready = box[a].ready
    BY BoxMoves DEF IInv
  <1>3. TypeOK'
    BY <1>1 DEF IInv, TypeOK, HostTypeOK, LedgerTypeOK, ledger
  <1>4. \A b \in Attempts : b # a => Untouched(b)
    BY <1>1 DEF Untouched, ledger
  <1>5. AttOK(a) /\ WholeOK(a)
    BY ContainerTypes
  <1>6. AttOK(a)'
    BY <1>1, <1>5 DEF AttOK, LateCreate, LateStart, Creating, ledger
  <1>7. WholeOK(a)'
    BY <1>1, <1>5 DEF WholeOK
  <1>8. WholeInv' /\ GoneInv'
    <2>1. \A h \in Gens : Labelled(h)' => Labelled(h)
      BY DEF Labelled
    <2> QED BY <1>1, <1>7, <2>1, BoxStep DEF ledger
  <1> QED BY <1>3, <1>4, <1>6, <1>8, OneAttempt, Frames DEF IInv, ledger

\* A cancelled container stops.
LEMMA CancelStep ==
    ASSUME IInv, NEW a \in Attempts, Cancel(a)
    PROVE  IInv'
  BY StoppedStep DEF Cancel

\* The attempt's own removal, never of a running container.
LEMMA SendCleanupStep ==
    ASSUME IInv, NEW a \in Attempts, SendCleanup(a)
    PROVE  IInv'
  <1>u. /\ UNCHANGED <<vol, ledger, call, sample, work, seen>>
        /\ job[a] \in {"rejected", "ended"} /\ "cleaning" \in Phases
        /\ job' = [job EXCEPT ![a] = "cleaning"]
    BY DEF SendCleanup, Phases
  <1>t. /\ AttOK(a) /\ WholeOK(a) /\ pin[a] = "live" /\ call[a].pc = "idle"
        /\ ~LateCreate(a) /\ ~LateStart(a) /\ box[a].st # "running"
    BY <1>u, ContainerTypes DEF AttOK
  <1>b. /\ box' \in [Attempts -> Box] /\ \A b \in Attempts : b # a => box'[b] = box[b]
        /\ box'[a] = box[a] \/ (box'[a].st = "none" /\ box'[a].ready = FALSE)
    <2>1. box' = box \/ box' = BoxRemoved(box, a)
      BY DEF SendCleanup
    <2> QED BY <2>1, RemovedMoves
  <1>l. late' = late \/ late' = late \cup {<<"container rm", a>>}
    BY DEF SendCleanup
  <1>n. net' \in Net /\ rcpt' \in [Attempts -> Receipt]
    BY <1>u, NetMoves, ContainerTypes DEF SendCleanup, IInv, ledger
  <1>j. /\ job' \in [Attempts -> Phases] /\ job'[a] = "cleaning"
        /\ \A b \in Attempts : b # a => job'[b] = job[b]
    BY <1>u, ContainerTypes
  <1>m. ~LateCreate(a)' /\ ~LateStart(a)'
    <2>1. <<"container rm", a>> \in Commands
      BY DEF Commands
    <2> QED BY <1>l, <1>t, <2>1, LateCommand DEF LateCreate, LateStart
  <1>4. WholeOK(a)'
    BY <1>u, <1>t, <1>b DEF WholeOK
  <1>5. AttOK(a)'
    BY <1>u, <1>t, <1>b, <1>j, <1>m DEF AttOK, LateCreate, Creating, ledger
  <1>6. call' \in [Attempts -> Call] /\ call'[a].pc = "idle" /\ call' = call
    BY <1>u, <1>t, ContainerTypes
  <1> QED BY <1>u, <1>t, <1>b, <1>l, <1>n, <1>j, <1>4, <1>5, <1>6, ContainerStep DEF ledger

-----------------------------------------------------------------------------
(* The storage guard.                                                      *)

\* The types of what the guard and the janitor keep.
LEMMA KeeperTypes ==
    ASSUME IInv
    PROVE  /\ sample \in Sample /\ work \in Work /\ seen \in History /\ scan \in Scan
           /\ op \in [Targets -> Operation] /\ gen \in [Gens -> Generation]
           /\ res \in [Gens -> {"none", "committed", "released"}]
           /\ net \in Net /\ vol \in [Gens -> Contents] /\ box \in [Attempts -> Box]
           /\ late \subseteq Commands
           /\ seen.rms \in [Targets -> 0..2] /\ sample.vols \in SUBSET Gens
           /\ sample.boxes \in SUBSET Attempts /\ sample.after \in SUBSET Gens
  <1>1. /\ sample \in Sample /\ work \in Work /\ seen \in History /\ scan \in Scan
        /\ op \in [Targets -> Operation] /\ gen \in [Gens -> Generation]
        /\ res \in [Gens -> {"none", "committed", "released"}]
        /\ net \in Net /\ vol \in [Gens -> Contents] /\ box \in [Attempts -> Box]
        /\ late \subseteq Commands
    BY DEF IInv, TypeOK, HostTypeOK, LedgerTypeOK
  <1>2. seen.rms \in [Targets -> 0..2]
    BY <1>1 DEF History
  <1>3. /\ sample.vols \in SUBSET Gens /\ sample.boxes \in SUBSET Attempts
        /\ sample.after \in SUBSET Gens
    BY <1>1 DEF Sample
  <1> QED BY <1>1, <1>2, <1>3

\* A scan lists what is on the machine.
LEMMA ScanListStep ==
    ASSUME IInv, ScanList
    PROVE  IInv'
  <1>1. /\ UNCHANGED <<host, ledger, job, call, work, seen>>
        /\ sample' = [pc |-> "listed", vols |-> Listed, boxes |-> Boxes, after |-> {}]
        /\ net.same
    BY DEF ScanList, Reach
  <1>2. sample' \in Sample
    BY <1>1 DEF Sample, Listed, Boxes
  <1>3. TypeOK'
    BY <1>1, <1>2 DEF IInv, TypeOK, HostTypeOK, LedgerTypeOK, host, ledger
  <1>4. VolInv'
    <2> SUFFICES ASSUME NEW g \in Gens PROVE VolOK(g)'
      BY DEF VolInv
    <2>1. VolOK(g)
      BY DEF IInv, VolInv
    <2>2. Labelled(g) => g \in sample'.vols
      BY <1>1 DEF Listed, Labelled
    <2> QED BY <1>1, <2>1, <2>2 DEF VolOK, Labelled, host, ledger
  <1> QED BY <1>1, <1>3, <1>4, Frames DEF IInv, host, ledger

\* The stamp follows the listing.
LEMMA ScanStampStep ==
    ASSUME IInv, ScanStamp
    PROVE  IInv'
  <1>1. /\ UNCHANGED <<host, ledger, job, call, work, seen>> /\ sample.pc = "listed"
        /\ sample' = [sample EXCEPT !.pc = "stamped"]
    BY DEF ScanStamp
  <1>2. /\ sample' \in Sample /\ sample'.pc = "stamped"
        /\ sample'.vols = sample.vols /\ sample'.after = sample.after
    BY <1>1, KeeperTypes DEF Sample
  <1>3. TypeOK'
    BY <1>1, <1>2 DEF IInv, TypeOK, HostTypeOK, LedgerTypeOK, host, ledger
  <1>4. VolInv'
    <2> SUFFICES ASSUME NEW g \in Gens PROVE VolOK(g)'
      BY DEF VolInv
    <2>1. VolOK(g)
      BY DEF IInv, VolInv
    <2> QED BY <1>1, <1>2, <2>1 DEF VolOK, Labelled, host, ledger
  <1> QED BY <1>1, <1>3, <1>4, Frames DEF IInv, host, ledger

\* A change of an operation's age is none of its state.
LEMMA RecordScanStep ==
    ASSUME IInv, RecordScan
    PROVE  IInv'
  <1>1. /\ UNCHANGED <<host, gen, pin, rcpt, prov, att, job, call, work, seen>>
        /\ sample.pc = "stamped"
        /\ sample' = [NoSample EXCEPT !.pc = "recorded"]
        /\ scan' = [state |-> "complete", fresh |-> TRUE, vols |-> sample.vols, boxes |-> sample.boxes]
        /\ res' = [g \in Gens |-> IF res[g] = "committed" /\ Discharged(g, sample.vols, sample.after)
                                  THEN "released" ELSE res[g]]
        /\ op' = [t \in Targets |-> [op[t] EXCEPT !.since = FALSE]]
    BY DEF RecordScan, RecordStorageScan
  <1>2. sample' \in Sample /\ sample'.pc = "recorded"
    BY <1>1 DEF Sample, NoSample
  <1>3. scan' \in Scan
    BY <1>1, KeeperTypes DEF Scan
  <1>4. res' \in [Gens -> {"none", "committed", "released"}]
    BY <1>1, KeeperTypes
  <1>5. /\ op' \in [Targets -> Operation]
        /\ \A t \in Targets : op'[t].st = op[t].st /\ op'[t].res = op[t].res
    BY <1>1, KeeperTypes DEF Operation
  <1>6. TypeOK'
    BY <1>1, <1>2, <1>3, <1>4, <1>5 DEF IInv, TypeOK, HostTypeOK, LedgerTypeOK, host
  <1>7. GenInv'
    <2> SUFFICES ASSUME NEW g \in Gens PROVE GenOK(g)'
      BY DEF GenInv
    <2>1. GenOK(g)
      BY DEF IInv, GenInv
    <2>2. gen[g].ph = "begun" => res'[g] = res[g]
      BY <1>1 DEF Discharged
    <2> QED BY <1>1, <2>1, <2>2 DEF GenOK, LateWriter, host
  <1>8. VolInv'
    <2> SUFFICES ASSUME NEW g \in Gens PROVE VolOK(g)'
      BY DEF VolInv
    <2>1. VolOK(g)
      BY DEF IInv, VolInv
    <2>2. Labelled(g) => res'[g] = res[g] \/ g \in seen.blind
      BY <1>1, <2>1 DEF Discharged, VolOK
    <2> QED BY <1>1, <1>2, <2>1, <2>2 DEF VolOK, Labelled, host
  <1>9. OpInv' /\ WorkInv'
    BY <1>1, <1>5 DEF IInv, OpInv, OpOK, WorkInv
  <1>10. OpenInv'
    BY <1>1, <1>5 DEF IInv, OpenInv, OpenOK, Creating, LateCreate, host
  <1>11. GoneInv'
    BY <1>1, <1>5 DEF IInv, GoneInv, Gone, Labelled, host
  <1> QED BY <1>1, <1>6, <1>7, <1>8, <1>9, <1>10, <1>11, Frames DEF IInv, host

\* A decision to delete: the operation starts over and has sent nothing.
LEMMA AcceptedStep ==
    ASSUME IInv, NEW E \in SUBSET Targets,
           \A t \in E : /\ op[t].st \notin {"accepted", "running"}
                        /\ IF t \in Gens THEN gen[t].ph = "finished" ELSE box[t].st # "none",
           op' = [t \in Targets |-> IF t \in E THEN Accepted ELSE op[t]],
           seen' \in History, seen'.writes = seen.writes, seen'.blind = seen.blind,
           \A t \in Targets : seen'.rms[t] = IF t \in E THEN 0 ELSE seen.rms[t],
           sample' \in Sample, sample' = sample \/ sample'.pc = "idle",
           UNCHANGED <<host, gen, pin, rcpt, res, prov, att, scan, job, call, work>>
    PROVE  IInv'
  <1>1. Accepted \in Operation /\ Accepted.st = "accepted" /\ Accepted.res = "pending"
    BY DEF Accepted, Operation
  <1>2. /\ op' \in [Targets -> Operation]
        /\ \A t \in Targets : t \in E => op'[t].st = "accepted" /\ op'[t].res = "pending"
        /\ \A t \in Targets : t \notin E => op'[t] = op[t]
    BY <1>1, KeeperTypes
  <1>3. TypeOK'
    BY <1>2 DEF IInv, TypeOK, HostTypeOK, LedgerTypeOK, host
  <1>4. VolInv'
    <2> SUFFICES ASSUME NEW g \in Gens PROVE VolOK(g)'
      BY DEF VolInv
    <2>1. VolOK(g)
      BY DEF IInv, VolInv
    <2> QED BY <2>1 DEF VolOK, Labelled, host
  <1>5. OpInv'
    <2> SUFFICES ASSUME NEW t \in Targets PROVE OpOK(t)'
      BY DEF OpInv
    <2>1. OpOK(t)
      BY DEF IInv, OpInv
    <2> QED BY <1>2, <2>1 DEF OpOK
  <1>6. OpenInv'
    <2> SUFFICES ASSUME NEW t \in Targets PROVE OpenOK(t)'
      BY DEF OpenInv
    <2>1. OpenOK(t)
      BY DEF IInv, OpenInv
    <2>2. CASE t \notin E
      BY <1>2, <2>1, <2>2 DEF OpenOK, Creating, LateCreate, host
    <2>3. CASE t \in E /\ t \in Gens
      BY <2>3 DEF OpenOK
    <2>4. CASE t \in E /\ t \notin Gens
      <3>1. t \in Attempts /\ box[t].st # "none"
        BY <2>4 DEF Targets
      <3>2. AttOK(t)
        BY <3>1 DEF IInv, AttInv
      <3>3. ~Creating(t) /\ ~LateCreate(t) /\ job[t] \notin {"none", "queued", "withdrawn"}
        BY <3>1, <3>2 DEF AttOK
      <3> QED BY <2>4, <3>3 DEF OpenOK, Creating, LateCreate, host
    <2> QED BY <2>2, <2>3, <2>4
  <1>7. work.pc # "idle" => work.t \in Targets /\ work.t \notin E
    BY DEF IInv, WorkInv
  <1>8. WorkInv'
    BY <1>2, <1>7 DEF IInv, WorkInv
  <1>9. GoneInv'
    BY <1>2, <1>7 DEF IInv, GoneInv, Gone, Labelled, host
  <1> QED BY <1>3, <1>4, <1>5, <1>6, <1>8, <1>9, Frames DEF IInv, host

\* Evictions are queued for settled objects without an open operation.
LEMMA QueueEvictionsStep ==
    ASSUME IInv, QueueEvictions
    PROVE  IInv'
  <1>1. PICK E \in SUBSET Candidates : op' = [t \in Targets |-> IF t \in E THEN Accepted ELSE op[t]]
    BY DEF QueueEvictions, QueueStorageEvictions
  <1>2. /\ UNCHANGED <<host, gen, pin, rcpt, res, prov, att, scan, job, call, work>>
        /\ sample' = NoSample
        /\ seen' = [seen EXCEPT !.rms = [t \in Targets |-> IF op'[t] # op[t] THEN 0 ELSE seen.rms[t]]]
    BY DEF QueueEvictions
  <1>3. Candidates \subseteq Gens
    BY KeeperTypes DEF Candidates, Scan
  <1>4. E \in SUBSET Targets
    BY <1>3 DEF Targets
  <1>5. \A t \in E : /\ op[t].st \notin {"accepted", "running"}
                     /\ IF t \in Gens THEN gen[t].ph = "finished" ELSE box[t].st # "none"
    BY <1>3 DEF Candidates, Blocked, Evictable
  <1>6. \A t \in Targets : op'[t] # op[t] <=> t \in E
    BY <1>1, <1>4, <1>5 DEF Accepted
  <1>7. /\ seen' \in History /\ seen'.writes = seen.writes /\ seen'.blind = seen.blind
        /\ \A t \in Targets : seen'.rms[t] = IF t \in E THEN 0 ELSE seen.rms[t]
    <2> DEFINE rms == [t \in Targets |-> IF op'[t] # op[t] THEN 0 ELSE seen.rms[t]]
    <2>1. rms \in [Targets -> 0..2] /\ \A t \in Targets : rms[t] = IF t \in E THEN 0 ELSE seen.rms[t]
      BY <1>6, KeeperTypes
    <2>2. seen' = [seen EXCEPT !.rms = rms]
      BY <1>2
    <2> HIDE DEF rms
    <2> QED BY <2>1, <2>2, KeeperTypes DEF History
  <1>8. sample' \in Sample /\ sample'.pc = "idle"
    BY <1>2 DEF Sample, NoSample
  <1> QED BY <1>1, <1>2, <1>4, <1>5, <1>7, <1>8, AcceptedStep

\* Scans that fail or grow old say nothing about the machine.
LEMMA ScanLostStep ==
    ASSUME IInv, scan' \in Scan, net' \in Net,
           sample' \in Sample, sample' = sample \/ sample'.pc = "idle",
           UNCHANGED <<vol, box, late, gen, pin, rcpt, res, prov, att, op, job, call, work, seen>>
    PROVE  IInv'
  <1>1. TypeOK'
    BY DEF IInv, TypeOK, HostTypeOK, LedgerTypeOK
  <1>2. VolInv'
    <2> SUFFICES ASSUME NEW g \in Gens PROVE VolOK(g)'
      BY DEF VolInv
    <2>1. VolOK(g)
      BY DEF IInv, VolInv
    <2> QED BY <2>1 DEF VolOK, Labelled
  <1> QED BY <1>1, <1>2, Frames DEF IInv

\* A failed scan is incomplete.
LEMMA ScanFailsStep ==
    ASSUME IInv, ScanFails
    PROVE  IInv'
  <1>1. scan' \in Scan
    BY DEF ScanFails, RecordIncompleteScan, Scan
  <1>2. sample' \in Sample /\ sample'.pc = "idle"
    BY DEF ScanFails, NoSample, Sample
  <1>3. net' \in Net
    BY KeeperTypes, NetMoves DEF ScanFails, IInv
  <1> QED BY <1>1, <1>2, <1>3, ScanLostStep DEF ScanFails

\* A scan grows stale.
LEMMA AgeStep ==
    ASSUME IInv, Age
    PROVE  IInv'
  <1>1. scan' \in Scan
    BY KeeperTypes DEF Age, Scan
  <1>2. net' \in Net /\ sample' = sample /\ sample \in Sample
    BY KeeperTypes, NetMoves DEF Age, IInv
  <1> QED BY <1>1, <1>2, ScanLostStep DEF Age

-----------------------------------------------------------------------------
(* The deletion of volumes and containers.                                 *)

\* An operator's deletion targets a container of the latest scan.
LEMMA AdmitStorageCleanupStep ==
    ASSUME IInv, NEW a \in Attempts, AdmitStorageCleanup(a)
    PROVE  IInv'
  <1>1. /\ UNCHANGED <<host, gen, pin, rcpt, res, prov, att, scan, job, call, sample, work>>
        /\ op' = [op EXCEPT ![a] = Accepted] /\ seen' = [seen EXCEPT !.rms[a] = 0]
        /\ op[a].st \notin {"accepted", "running"} /\ Present(a)
    BY DEF AdmitStorageCleanup
  <1>2. a \in Targets /\ a \notin Gens
    BY Bounds DEF Targets
  <1>3. box[a].st # "none"
    BY <1>1, <1>2 DEF Present, Listed, Boxes
  <1>4. op' = [t \in Targets |-> IF t \in {a} THEN Accepted ELSE op[t]]
    BY <1>1, <1>2, KeeperTypes
  <1>5. /\ seen' \in History /\ seen'.writes = seen.writes /\ seen'.blind = seen.blind
        /\ \A t \in Targets : seen'.rms[t] = IF t \in {a} THEN 0 ELSE seen.rms[t]
    <2> DEFINE rms == [seen.rms EXCEPT ![a] = 0]
    <2>1. rms \in [Targets -> 0..2] /\ \A t \in Targets : rms[t] = IF t \in {a} THEN 0 ELSE seen.rms[t]
      BY <1>2, KeeperTypes
    <2>2. seen' = [seen EXCEPT !.rms = rms]
      BY <1>1
    <2> HIDE DEF rms
    <2> QED BY <2>1, <2>2, KeeperTypes DEF History
  <1>6. \A t \in {a} : /\ op[t].st \notin {"accepted", "running"}
                       /\ IF t \in Gens THEN gen[t].ph = "finished" ELSE box[t].st # "none"
    BY <1>1, <1>2, <1>3
  <1>7. {a} \in SUBSET Targets /\ sample' = sample /\ sample' \in Sample
    BY <1>1, <1>2, KeeperTypes
  <1> QED BY <1>1, <1>4, <1>5, <1>6, <1>7, AcceptedStep

\* A step of the worker on its own operation, as far as it sends nothing.
LEMMA WorkerStep ==
    ASSUME IInv, NEW t \in Targets,
           op' \in [Targets -> Operation], \A u \in Targets : u # t => op'[u] = op[u],
           op[t].st \in {"accepted", "running"}, op'[t].st = "running",
           op'[t].res = op[t].res \/ op'[t].res = "running",
           work' \in Work, work'.pc # "idle" => work'.t = t,
           WorkInv', work'.pc = "done" /\ work'.out \in {"deleted", "absent"} => Gone(work'.t),
           net' \in Net,
           UNCHANGED <<vol, box, late, gen, pin, rcpt, res, prov, att, scan, job, call, sample, seen>>
    PROVE  IInv'
  <1>1. TypeOK'
    BY DEF IInv, TypeOK, HostTypeOK, LedgerTypeOK
  <1>2. OpInv'
    <2> SUFFICES ASSUME NEW u \in Targets PROVE OpOK(u)'
      BY DEF OpInv
    <2>1. OpOK(u)
      BY DEF IInv, OpInv
    <2>2. CASE u = t
      BY <2>1, <2>2 DEF OpOK
    <2>3. CASE u # t
      BY <2>1, <2>3 DEF OpOK
    <2> QED BY <2>2, <2>3
  <1>3. OpenInv'
    <2> SUFFICES ASSUME NEW u \in Targets PROVE OpenOK(u)'
      BY DEF OpenInv
    <2>1. OpenOK(u)
      BY DEF IInv, OpenInv
    <2> QED BY <2>1 DEF OpenOK, Creating, LateCreate
  <1>4. GoneInv'
    <2>1. \A u \in Targets : op'[u].st = "succeeded" => Gone(u)'
      BY DEF IInv, GoneInv, Gone, Labelled
    <2>2. work'.pc = "done" /\ work'.out \in {"deleted", "absent"} => Gone(work.t)'
      BY DEF Gone, Labelled
    <2> QED BY <2>1, <2>2 DEF GoneInv
  <1> QED BY <1>1, <1>2, <1>3, <1>4, Frames DEF IInv

\* A worker takes an operation up, or recovers it.
LEMMA ClaimStorageCleanupStep ==
    ASSUME IInv, NEW t \in Targets, ClaimStorageCleanup(t)
    PROVE  IInv'
  <1>1. /\ UNCHANGED <<host, gen, pin, rcpt, res, prov, att, scan, job, call, sample, seen>>
        /\ op[t].st \in {"accepted", "running"} /\ op' = [op EXCEPT ![t].st = "running"]
        /\ work' = [pc |-> IF op[t].res = "running" THEN "recover" ELSE "observe", t |-> t, out |-> "none"]
    BY DEF ClaimStorageCleanup
  <1>2. /\ op' \in [Targets -> Operation] /\ \A u \in Targets : u # t => op'[u] = op[u]
        /\ op'[t].st = "running" /\ op'[t].res = op[t].res
    BY <1>1, KeeperTypes DEF Operation
  <1>3. /\ work' \in Work /\ work'.t = t /\ work'.pc \in {"recover", "observe"}
        /\ work'.pc = "observe" => op[t].res # "running"
    BY <1>1 DEF Work
  <1>4. op[t].res \in {"pending", "running"}
    BY <1>1 DEF IInv, OpInv, OpOK
  <1>5. WorkInv'
    BY <1>1, <1>2, <1>3, <1>4 DEF WorkInv
  <1>6. net' \in Net
    BY <1>1, KeeperTypes DEF host
  <1> QED BY <1>1, <1>2, <1>3, <1>5, <1>6, WorkerStep DEF host

\* What the worker holds.
LEMMA WorkFacts ==
    ASSUME IInv, work.pc # "idle"
    PROVE  /\ work.t \in Targets /\ op[work.t].st = "running"
           /\ work.t \in Gens \/ (work.t \in Attempts /\ work.t \notin Gens)
           /\ work.pc \in {"observe", "observed"} => op[work.t].res = "pending"
           /\ work.pc = "begun" => op[work.t].res = "running" /\ seen.rms[work.t] = 0
           /\ \A o \in {"deleted", "absent", "retained", "unknown"} : Outcome(o) =>
                work' \in Work /\ work'.pc = "done" /\ work'.t = work.t /\ work'.out = o
  <1>1. /\ work.t \in Targets /\ op[work.t].st = "running"
        /\ work.pc \in {"observe", "observed"} => op[work.t].res = "pending"
        /\ work.pc = "begun" => op[work.t].res = "running" /\ seen.rms[work.t] = 0
    BY DEF IInv, WorkInv
  <1>2. \A o \in {"deleted", "absent", "retained", "unknown"} : Outcome(o) =>
          work' \in Work /\ work'.pc = "done" /\ work'.t = work.t /\ work'.out = o
    BY KeeperTypes DEF Outcome, Work
  <1> QED BY <1>1, <1>2, Bounds DEF Targets

\* A target that was not found on the verified engine is gone.
LEMMA NotPresentIsGone ==
    ASSUME IInv, NEW t \in Targets, Reach, ~Present(t)
    PROVE  Gone(t)
  <1>1. CASE t \in Gens
    BY <1>1 DEF Present, Listed, Gone, Labelled, Reach
  <1>2. CASE t \notin Gens
    BY <1>2 DEF Present, Boxes, Gone, Reach, Targets
  <1> QED BY <1>1, <1>2

\* The worker notes an outcome and the machine is left alone.
LEMMA OutcomeStep ==
    ASSUME IInv, work.pc # "idle", NEW o \in {"deleted", "absent", "retained", "unknown"},
           Outcome(o), o \in {"deleted", "absent"} => Gone(work.t), net' \in Net,
           UNCHANGED <<vol, box, late, ledger, job, call, sample, seen>>
    PROVE  IInv'
  <1>1. /\ work' \in Work /\ work'.pc = "done" /\ work'.t = work.t /\ work'.out = o
        /\ work.t \in Targets /\ op[work.t].st = "running"
    BY WorkFacts
  <1>2. op' = op /\ op \in [Targets -> Operation]
    BY KeeperTypes DEF ledger
  <1>3. WorkInv'
    BY <1>1, <1>2 DEF WorkInv
  <1> QED BY <1>1, <1>2, <1>3, WorkerStep DEF ledger

\* The worker looks before it records its intent.
LEMMA ObserveTargetStep ==
    ASSUME IInv, ObserveTarget
    PROVE  IInv'
  <1>u. UNCHANGED <<vol, box, late, ledger, job, call, sample, seen>> /\ work.pc = "observe"
    BY DEF ObserveTarget
  <1>n. net' \in Net
    BY KeeperTypes, NetMoves DEF ObserveTarget, IInv
  <1>1. CASE Outcome("retained")
    BY <1>1, <1>u, <1>n, OutcomeStep
  <1>2. CASE Reach /\ ~Present(work.t) /\ Outcome("absent")
    BY <1>2, <1>u, <1>n, WorkFacts, NotPresentIsGone, OutcomeStep
  <1>3. CASE work' = [work EXCEPT !.pc = "observed"]
    <2>1. /\ work' \in Work /\ work'.pc = "observed" /\ work'.t = work.t
          /\ work.t \in Targets /\ op[work.t].st = "running" /\ op[work.t].res = "pending"
      BY <1>3, <1>u, WorkFacts, KeeperTypes DEF Work
    <2>2. op' = op /\ op \in [Targets -> Operation]
      BY <1>u, KeeperTypes DEF ledger
    <2>3. WorkInv'
      BY <2>1, <2>2 DEF WorkInv
    <2> QED BY <1>u, <1>n, <2>1, <2>2, <2>3, WorkerStep DEF ledger
  <1> QED BY <1>1, <1>2, <1>3 DEF ObserveTarget

\* The intent is recorded before anything is sent.
LEMMA BeginDeleteStep ==
    ASSUME IInv, BeginDelete
    PROVE  IInv'
  <1> DEFINE t == work.t
  <1>u. /\ UNCHANGED <<host, gen, pin, rcpt, res, prov, att, scan, job, call, sample, seen>>
        /\ work.pc = "observed"
    BY DEF BeginDelete
  <1>w. t \in Targets /\ op[t].st = "running" /\ op[t].res = "pending"
    BY <1>u, WorkFacts
  <1>n. net' \in Net
    BY <1>u, KeeperTypes DEF host
  <1>1. CASE op' = [op EXCEPT ![t].res = "running"] /\ work' = [work EXCEPT !.pc = "begun"]
    <2>1. work' \in Work /\ work'.pc = "begun" /\ work'.t = t
      BY <1>1, KeeperTypes DEF Work
    <2> HIDE DEF t
    <2>2. /\ op' \in [Targets -> Operation] /\ \A u \in Targets : u # t => op'[u] = op[u]
          /\ op'[t].st = "running" /\ op'[t].res = "running"
      BY <1>1, <1>w, KeeperTypes DEF Operation
    <2>3. seen' = seen /\ seen.rms[t] = 0
      BY <1>u, <1>w DEF IInv, OpInv, OpOK
    <2>4. WorkInv'
      BY <1>w, <2>1, <2>2, <2>3 DEF WorkInv
    <2> QED BY <1>u, <1>w, <1>n, <2>1, <2>2, <2>4, WorkerStep DEF host
  <1>2. CASE Outcome("retained") /\ UNCHANGED op
    BY <1>2, <1>u, <1>n, OutcomeStep DEF host, ledger
  <1> QED BY <1>1, <1>2 DEF BeginDelete, BeginStorageCleanup

\* Recovery only looks.
LEMMA RecoverStep ==
    ASSUME IInv, Recover
    PROVE  IInv'
  <1>u. UNCHANGED <<vol, box, late, ledger, job, call, sample, seen>> /\ work.pc = "recover"
    BY DEF Recover
  <1>n. net' \in Net
    BY KeeperTypes, NetMoves DEF Recover, IInv
  <1>1. CASE Reach
    <2>1. PICK o \in {"absent", "unknown", "retained"} :
            Outcome(o) /\ (o = "absent" => ~Present(work.t))
      BY <1>1 DEF Recover
    <2>2. o = "absent" => Gone(work.t)
      BY <1>1, <1>u, <2>1, WorkFacts, NotPresentIsGone
    <2> QED BY <1>u, <1>n, <2>1, <2>2, OutcomeStep
  <1>2. CASE ~Reach
    <2>1. work' = NoWork /\ NoWork.pc = "idle" /\ NoWork \in Work
      BY <1>2 DEF Recover, NoWork, Work
    <2>2. /\ work.t \in Targets /\ op[work.t].st = "running"
          /\ op' = op /\ op \in [Targets -> Operation]
      BY <1>u, WorkFacts, KeeperTypes DEF ledger
    <2>3. WorkInv'
      BY <2>1 DEF WorkInv
    <2> QED BY <1>u, <1>n, <2>1, <2>2, <2>3, WorkerStep DEF ledger
  <1> QED BY <1>1, <1>2

\* One removal is counted for the operation that sends it.
LEMMA SentMoves ==
    ASSUME IInv, work.pc = "begun",
           seen' = [seen EXCEPT !.rms[work.t] = IF @ < 2 THEN @ + 1 ELSE @]
    PROVE  /\ seen' \in History /\ seen'.writes = seen.writes /\ seen'.blind = seen.blind
           /\ seen'.rms[work.t] = 1
           /\ \A u \in Targets : u # work.t => seen'.rms[u] = seen.rms[u]
  <1> DEFINE t == work.t
  <1>1. t \in Targets /\ seen.rms[t] = 0
    BY WorkFacts
  <1>2. seen' = [seen EXCEPT !.rms = [seen.rms EXCEPT ![t] = 1]]
    BY <1>1
  <1>3. [seen.rms EXCEPT ![t] = 1] \in [Targets -> 0..2]
    BY <1>1, KeeperTypes
  <1> QED BY <1>1, <1>2, <1>3, KeeperTypes DEF History

\* After a removal the operation has one to its name and keeps its recorded intent.
LEMMA SentStep ==
    ASSUME IInv, work.pc = "begun", UNCHANGED ledger,
           seen'.rms[work.t] = 1,
           \A u \in Targets : u # work.t => seen'.rms[u] = seen.rms[u]
    PROVE  OpInv'
  <1>1. work.t \in Targets /\ op[work.t].res = "running" /\ op' = op
    BY WorkFacts DEF ledger
  <1> SUFFICES ASSUME NEW u \in Targets PROVE OpOK(u)'
    BY DEF OpInv
  <1>2. OpOK(u)
    BY DEF IInv, OpInv
  <1>3. CASE u = work.t
    <2>1. op'[u].res = "running" /\ seen'.rms[u] <= 1
      BY <1>1, <1>3
    <2> QED BY <1>1, <1>2, <2>1 DEF OpOK
  <1>4. CASE u # work.t
    BY <1>1, <1>2, <1>4 DEF OpOK
  <1> QED BY <1>3, <1>4

\* A container that is gone leaves nothing to answer for.
LEMMA RemovedStep ==
    ASSUME IInv, NEW a \in Attempts, box' = BoxRemoved(box, a),
           UNCHANGED <<vol, late, job, pin, call, op, gen>>
    PROVE  WholeInv' /\ AttInv' /\ OpenInv'
  <1>1. /\ \A b \in Attempts : b # a => box'[b] = box[b]
        /\ box'[a] = box[a] \/ (box'[a].st = "none" /\ box'[a].ready = FALSE)
    BY RemovedMoves
  <1>2. \A b \in Attempts : b # a => Untouched(b)
    BY <1>1 DEF Untouched
  <1>3. AttOK(a) /\ WholeOK(a)
    BY ContainerTypes
  <1>4. AttOK(a)'
    BY <1>1, <1>3 DEF AttOK, LateCreate, LateStart, Creating
  <1>5. WholeOK(a)'
    BY <1>1, <1>3 DEF WholeOK
  <1>6. \A h \in Gens : Labelled(h)' => Labelled(h)
    BY DEF Labelled
  <1> QED BY <1>1, <1>2, <1>4, <1>5, <1>6, OneAttempt, BoxStep, Frames

\* The one removal takes effect, or its command is lost.
LEMMA SendDeleteStep ==
    ASSUME IInv, work.pc = "begun", Reach, Present(work.t), Removable(work.t), SendDelete,
           UNCHANGED <<ledger, job, call, sample>>
    PROVE  IInv'
  <1> DEFINE t == work.t
             rm == <<IF t \in Gens THEN "volume rm" ELSE "container rm", t>>
  <1>w. t \in Targets /\ (t \in Gens \/ (t \in Attempts /\ t \notin Gens)) /\ op[t].st = "running"
    BY WorkFacts
  <1>s. /\ seen' \in History /\ seen'.writes = seen.writes /\ seen'.blind = seen.blind
        /\ seen'.rms[t] = 1 /\ \A u \in Targets : u # t => seen'.rms[u] = seen.rms[u]
    BY SentMoves DEF SendDelete
  <1>o. OpInv'
    BY <1>s, SentStep
  <1>1. CASE /\ vol' = IF t \in Gens THEN VolumeRemoved(vol, t) ELSE vol
             /\ box' = IF t \in Gens THEN box ELSE BoxRemoved(box, t)
             /\ Outcome("deleted") /\ UNCHANGED <<late, net>>
    <2>1. work' \in Work /\ work'.pc = "done" /\ work'.t = t /\ work'.out = "deleted"
      BY <1>1, WorkFacts
    <2>2. WorkInv'
      BY <1>w, <2>1 DEF WorkInv, ledger
    <2>3. CASE t \in Gens
      <3>1. /\ vol' \in [Gens -> Contents] /\ box' = box
            /\ \A h \in Gens : vol'[h] = IF h = t THEN "absent" ELSE vol[h]
        BY <1>1, <2>3, VolumeMoves DEF IInv, Removable
      <3>2. TypeOK'
        BY <1>1, <1>s, <2>1, <3>1 DEF IInv, TypeOK, HostTypeOK, LedgerTypeOK, ledger
      <3>3. \A h \in Gens : Labelled(h)' => Labelled(h)
        BY <3>1 DEF Labelled
      <3>4. \A h \in Gens : vol[h] = "whole" /\ vol'[h] # "whole" => ~Referenced(h)
        BY <3>1, <2>3 DEF Removable
      <3>5. VolInv' /\ WholeInv'
        BY <1>s, <3>1, <3>3, <3>4, VolumeStep DEF ledger
      <3>6. GoneInv'
        <4>1. \A u \in Targets : op[u].st = "succeeded" => Gone(u)'
          BY <3>1, <3>3 DEF IInv, GoneInv, Gone
        <4>2. Gone(t)'
          BY <2>1, <2>3, <3>1 DEF Gone, Labelled
        <4> QED BY <2>1, <4>1, <4>2 DEF GoneInv, Gone, Labelled, ledger
      <3> QED BY <1>1, <1>s, <1>o, <2>2, <3>1, <3>2, <3>5, <3>6, Frames DEF IInv, ledger
    <2>4. CASE t \notin Gens
      <3>1. box' = BoxRemoved(box, t) /\ vol' = vol /\ t \in Attempts
        BY <1>1, <1>w, <2>4
      <3>2. box' \in [Attempts -> Box] /\ \A b \in Attempts : b # t => box'[b] = box[b]
        BY <3>1, RemovedMoves
      <3>3. box'[t].st = "none"
        BY <3>1, <2>4, BoxMoves DEF IInv, Removable
      <3>4. TypeOK'
        BY <1>1, <1>s, <2>1, <3>1, <3>2 DEF IInv, TypeOK, HostTypeOK, LedgerTypeOK, ledger
      <3>5. WholeInv' /\ AttInv' /\ OpenInv'
        BY <1>1, <3>1, RemovedStep DEF ledger
      <3>6. GoneInv'
        <4>1. \A u \in Targets : op[u].st = "succeeded" => Gone(u)'
          BY <3>1, <3>2, <3>3 DEF IInv, GoneInv, Gone, Labelled, Targets
        <4>2. Gone(t)'
          BY <2>1, <2>4, <3>3 DEF Gone
        <4> QED BY <2>1, <4>1, <4>2 DEF GoneInv, Gone, Labelled, ledger
      <3> QED BY <1>1, <1>s, <1>o, <2>2, <3>1, <3>4, <3>5, <3>6, Frames DEF IInv, ledger
    <2> QED BY <2>3, <2>4
  <1>2. CASE /\ Drop /\ late' = late \cup {rm} /\ UNCHANGED <<vol, box>>
             /\ Outcome("unknown") \/ work' = NoWork
    <2>1. /\ work' \in Work /\ work'.pc \in {"idle", "done"} /\ (work'.pc = "done" => work'.t = t)
          /\ work'.out \in {"none", "unknown"} /\ (work'.pc = "done" => work'.out = "unknown")
      <3>1. NoWork \in Work /\ NoWork.pc = "idle" /\ NoWork.out = "none"
        BY DEF NoWork, Work
      <3> QED BY <1>2, <3>1, WorkFacts
    <2>2. WorkInv'
      BY <1>w, <2>1 DEF WorkInv, ledger
    <2>3. PICK what \in {"container rm", "volume rm"} : rm = <<what, t>> /\ <<what, t>> \in Commands
      BY <1>w DEF Commands
    <2> HIDE DEF rm
    <2>4. /\ late' \subseteq Commands
          /\ \A h \in Gens : LateWriter(h)' <=> LateWriter(h)
          /\ \A b \in Attempts, h \in Gens :
               <<"container create", <<b, h>>>> \in late' <=> <<"container create", <<b, h>>>> \in late
          /\ \A b \in Attempts :
               <<"container start", b>> \in late' <=> <<"container start", b>> \in late
      BY <1>2, <2>3, LateCommand
    <2>5. net' \in Net
      BY <1>2, NetMoves DEF IInv
    <2>6. TypeOK'
      BY <1>2, <1>s, <2>1, <2>4, <2>5 DEF IInv, TypeOK, HostTypeOK, LedgerTypeOK, ledger
    <2>7. GenInv' /\ WriterInv'
      <3>1. GenInv'
        BY <1>s, <2>4, GenLate DEF ledger
      <3>2. WriterInv'
        <4> SUFFICES ASSUME NEW b \in Attempts PROVE WriterOK(b)'
          BY DEF WriterInv
        <4>1. WriterOK(b)
          BY DEF IInv, WriterInv
        <4>2. CASE Writing(b)
          <5>1. /\ <<"volume create", call[b].g>> \notin late'
                /\ <<"write", call[b].g>> \notin late'
            BY <2>4, <4>1, <4>2 DEF WriterOK, LateWriter
          <5> QED BY <1>s, <4>1, <4>2, <5>1 DEF WriterOK, Writing, LateWriter, ledger
        <4>3. CASE ~Writing(b)
          BY <4>1, <4>3 DEF WriterOK, Writing
        <4> QED BY <4>2, <4>3
      <3> QED BY <3>1, <3>2
    <2>8. AttInv' /\ OpenInv'
      <3>1. \A b \in Attempts : Untouched(b)
        BY <1>2, <2>4 DEF Untouched, ledger
      <3>2. AttInv'
        <4> SUFFICES ASSUME NEW b \in Attempts PROVE AttOK(b)'
          BY DEF AttInv
        <4>1. Untouched(b) /\ AttOK(b)
          BY <3>1 DEF IInv, AttInv
        <4> QED BY <4>1 DEF Untouched, AttOK, LateCreate, LateStart, Creating
      <3>3. PICK b \in Attempts : TRUE
        BY HostAssumption
      <3>4. OpenOK(b)'
        <4>1. Untouched(b) /\ OpenOK(b)
          BY <3>1 DEF IInv, OpenInv, Targets
        <4> QED BY <4>1, Bounds DEF Untouched, OpenOK, LateCreate, Creating, ledger
      <3>5. AttOK(b)'
        BY <3>2 DEF AttInv
      <3> QED BY <3>1, <3>2, <3>4, <3>5, OneAttempt DEF ledger
    <2>9. GoneInv'
      <3>1. \A u \in Targets : op[u].st = "succeeded" => Gone(u)'
        BY <1>2 DEF IInv, GoneInv, Gone, Labelled
      <3> QED BY <2>1, <3>1 DEF GoneInv, ledger
    <2> QED BY <1>2, <1>s, <1>o, <2>2, <2>6, <2>7, <2>8, <2>9, Frames DEF IInv, ledger
  <1> QED BY <1>1, <1>2 DEF SendDelete

\* The removal follows one more look.
LEMMA DeleteStep ==
    ASSUME IInv, Delete
    PROVE  IInv'
  <1>u. UNCHANGED <<ledger, job, call, sample>> /\ work.pc = "begun"
    BY DEF Delete
  <1>n. net \in Net
    BY KeeperTypes
  <1>1. CASE Reach /\ Present(work.t) /\ Removable(work.t) /\ SendDelete
    BY <1>1, <1>u, SendDeleteStep
  <1>2. CASE /\ UNCHANGED <<host, seen>>
             /\ Outcome("unknown") \/ Outcome("retained")
    BY <1>2, <1>u, <1>n, OutcomeStep DEF host
  <1>3. CASE UNCHANGED <<host, seen>> /\ Reach /\ ~Present(work.t) /\ Outcome("absent")
    BY <1>3, <1>u, <1>n, WorkFacts, NotPresentIsGone, OutcomeStep DEF host
  <1>4. CASE Drop /\ Outcome("unknown") /\ UNCHANGED <<vol, box, late, seen>>
    BY <1>4, <1>u, NetMoves, OutcomeStep DEF IInv
  <1> QED BY <1>1, <1>2, <1>3, <1>4 DEF Delete

\* The outcome is recorded; what is gone is retired and given back.
LEMMA CompleteDeleteStep ==
    ASSUME IInv, CompleteDelete
    PROVE  IInv'
  <1> DEFINE t == work.t
             gone == work.out \in {"deleted", "absent"}
  <1>u. /\ UNCHANGED <<host, pin, rcpt, prov, att, scan, job, call>> /\ work' = NoWork
        /\ work.pc = "done" /\ CompleteStorageCleanup(t, work.out)
    BY DEF CompleteDelete
  <1>w. t \in Targets /\ op[t].st = "running" /\ work.out # "none"
    BY <1>u DEF IInv, WorkInv
  <1>g. gone => Gone(t)
    BY <1>u DEF IInv, GoneInv
  <1>f. t \in Gens => gen[t].ph = "finished"
    BY <1>w DEF IInv, OpenInv, OpenOK
  <1>o. /\ op' \in [Targets -> Operation] /\ \A u \in Targets : u # t => op'[u] = op[u]
        /\ op'[t].st = (IF gone THEN "succeeded" ELSE "failed") /\ op'[t].res = work.out
    <2>1. work.out \in {"deleted", "absent", "retained", "unknown"}
      BY <1>w, KeeperTypes DEF Work
    <2>2. [st |-> IF gone THEN "succeeded" ELSE "failed", res |-> work.out, since |-> gone] \in Operation
      BY <2>1 DEF Operation
    <2>3. op' = [op EXCEPT ![t] = [st |-> IF gone THEN "succeeded" ELSE "failed",
                                   res |-> work.out, since |-> gone]]
      BY <1>u DEF CompleteStorageCleanup
    <2> HIDE DEF t, gone
    <2> QED BY <1>w, <2>2, <2>3, KeeperTypes
  <1>e. /\ gen' = [g \in Gens |-> IF gone /\ g = t /\ gen[g].st = "verified"
                                  THEN [gen[g] EXCEPT !.st = "retired"] ELSE gen[g]]
        /\ res' = [g \in Gens |-> IF gone /\ g = t /\ res[g] = "committed"
                                  THEN "released" ELSE res[g]]
    BY <1>u DEF CompleteStorageCleanup
  <1> HIDE DEF gone
  <1>h. /\ gen' \in [Gens -> Generation]
        /\ \A g \in Gens : gen'[g].ph = gen[g].ph /\ gen'[g].owner = gen[g].owner
        /\ \A g \in Gens : gen'[g] = gen[g] \/ (gone /\ g = t /\ gen'[g].st = "retired" /\ gen[g].st = "verified")
    <2>1. \A g \in Gens : gen[g] \in Generation
      BY KeeperTypes
    <2>2. \A g \in Gens : /\ [gen[g] EXCEPT !.st = "retired"] \in Generation
                          /\ [gen[g] EXCEPT !.st = "retired"].ph = gen[g].ph
                          /\ [gen[g] EXCEPT !.st = "retired"].owner = gen[g].owner
                          /\ [gen[g] EXCEPT !.st = "retired"].st = "retired"
      BY <2>1 DEF Generation
    <2> HIDE DEF t
    <2> QED BY <1>e, <2>1, <2>2
  <1>r. /\ res' \in [Gens -> {"none", "committed", "released"}]
        /\ \A g \in Gens : res'[g] = res[g] \/ (gone /\ g = t)
    BY <1>e, KeeperTypes
  <1>s. /\ sample' \in Sample /\ seen' \in History
        /\ sample'.pc = sample.pc /\ sample'.vols = sample.vols
        /\ seen'.writes = seen.writes /\ seen'.rms = seen.rms
        /\ sample.after \subseteq sample'.after /\ seen.blind \subseteq seen'.blind
    <2>1. (t \in Gens /\ NoteRetired(t)) \/ UNCHANGED <<sample, seen>>
      BY DEF CompleteDelete
    <2> QED BY <2>1, NoteMoves, KeeperTypes
  <1>n. NoWork \in Work /\ NoWork.pc = "idle"
    BY DEF NoWork, Work
  <1>1. TypeOK'
    BY <1>u, <1>o, <1>h, <1>r, <1>s, <1>n DEF IInv, TypeOK, HostTypeOK, LedgerTypeOK, host
  <1>2. GenInv'
    <2> SUFFICES ASSUME NEW g \in Gens PROVE GenOK(g)'
      BY DEF GenInv
    <2>1. GenOK(g)
      BY DEF IInv, GenInv
    <2>2. gen[g].ph = "begun" => res'[g] = res[g] /\ gen'[g] = gen[g]
      BY <1>f, <1>h, <1>r
    <2>3. (gen'[g].st = "none" <=> gen'[g].ph = "none")
          /\ (gen'[g].st \in {"verified", "retired"} => gen'[g].ph = "finished")
      BY <1>f, <1>h, <2>1 DEF GenOK
    <2> QED BY <1>u, <1>h, <1>s, <2>1, <2>2, <2>3 DEF GenOK, LateWriter, host
  <1>3. WriterInv'
    <2> SUFFICES ASSUME NEW b \in Attempts PROVE WriterOK(b)'
      BY DEF WriterInv
    <2>1. WriterOK(b)
      BY DEF IInv, WriterInv
    <2> QED BY <1>u, <1>h, <1>s, <2>1 DEF WriterOK, Writing, LateWriter, host
  <1>4. VolInv'
    <2> SUFFICES ASSUME NEW g \in Gens PROVE VolOK(g)'
      BY DEF VolInv
    <2>1. VolOK(g)
      BY DEF IInv, VolInv
    <2>2. CASE gone /\ g = t
      BY <1>u, <1>g, <2>2 DEF VolOK, Labelled, Gone, host
    <2>3. CASE ~(gone /\ g = t)
      BY <1>u, <1>h, <1>r, <1>s, <2>1, <2>3 DEF VolOK, Labelled, host
    <2> QED BY <2>2, <2>3
  <1>5. OpenInv'
    <2> SUFFICES ASSUME NEW u \in Targets PROVE OpenOK(u)'
      BY DEF OpenInv
    <2>1. OpenOK(u) /\ (u # t => op'[u] = op[u])
      BY <1>o DEF IInv, OpenInv
    <2> QED BY <1>u, <1>w, <1>h, <2>1 DEF OpenOK, Creating, LateCreate, host
  <1>6. OpInv'
    <2> SUFFICES ASSUME NEW u \in Targets PROVE OpOK(u)'
      BY DEF OpInv
    <2>1. OpOK(u)
      BY DEF IInv, OpInv
    <2>2. work.out # "pending"
      BY KeeperTypes DEF Work
    <2>3. CASE u = t
      BY <1>o, <1>s, <2>1, <2>2, <2>3 DEF OpOK
    <2>4. CASE u # t
      BY <1>o, <1>s, <2>1, <2>4 DEF OpOK
    <2> QED BY <2>3, <2>4
  <1>7. WorkInv'
    BY <1>u, <1>n DEF WorkInv
  <1>8. GoneInv'
    <2>1. \A u \in Targets : op'[u].st = "succeeded" => Gone(u)
      BY <1>o, <1>g DEF IInv, GoneInv
    <2> QED BY <1>u, <1>n, <2>1 DEF GoneInv, Gone, Labelled, host
  <1> QED BY <1>u, <1>1, <1>2, <1>3, <1>4, <1>5, <1>6, <1>7, <1>8, Frames DEF IInv, host

-----------------------------------------------------------------------------
(* The process dies, the machine goes on.                                  *)

\* A crash ends every call, and no command.
LEMMA CrashStep ==
    ASSUME IInv, Crash
    PROVE  IInv'
  <1>u. /\ UNCHANGED <<vol, box, late, ledger, job, seen>> /\ work' = NoWork /\ sample' = NoSample
        /\ call' = [a \in Attempts |-> Idle]
    BY DEF Crash
  <1>n. NoWork \in Work /\ NoWork.pc = "idle" /\ NoSample \in Sample /\ NoSample.pc = "idle"
    BY DEF NoWork, Work, NoSample, Sample
  <1>c. call' \in [Attempts -> Call] /\ \A a \in Attempts : call'[a].pc = "idle"
    <2>1. Idle \in Call /\ Idle.pc = "idle"
      BY Bounds DEF Idle, Call, NoGen
    <2> QED BY <1>u, <2>1
  <1>1. net' \in Net
    BY NetMoves DEF Crash, IInv
  <1>2. TypeOK'
    BY <1>u, <1>n, <1>c, <1>1 DEF IInv, TypeOK, HostTypeOK, LedgerTypeOK, ledger
  <1>3. WriterInv'
    BY <1>c DEF WriterInv, WriterOK, Writing
  <1>4. VolInv'
    <2> SUFFICES ASSUME NEW g \in Gens PROVE VolOK(g)'
      BY DEF VolInv
    <2>1. VolOK(g)
      BY DEF IInv, VolInv
    <2> QED BY <1>u, <1>n, <2>1 DEF VolOK, Labelled, ledger
  <1>5. AttInv'
    <2> SUFFICES ASSUME NEW a \in Attempts PROVE AttOK(a)'
      BY DEF AttInv
    <2>1. AttOK(a)
      BY DEF IInv, AttInv
    <2> QED BY <1>u, <1>c, <2>1 DEF AttOK, LateCreate, LateStart, Creating, ledger
  <1>6. OpenInv'
    <2> SUFFICES ASSUME NEW t \in Targets PROVE OpenOK(t)'
      BY DEF OpenInv
    <2>1. OpenOK(t)
      BY DEF IInv, OpenInv
    <2>2. t \notin Gens => t \in Attempts
      BY DEF Targets
    <2> QED BY <1>u, <1>c, <2>1, <2>2 DEF OpenOK, LateCreate, Creating, ledger
  <1>7. WorkInv'
    BY <1>u, <1>n DEF WorkInv
  <1>8. GoneInv'
    BY <1>u, <1>n DEF IInv, GoneInv, Gone, Labelled, ledger
  <1> QED BY <1>u, <1>2, <1>3, <1>4, <1>5, <1>6, <1>7, <1>8, Frames DEF IInv, ledger

\* Fewer commands are left: every part that reads them is kept, but for the container
\* that a command is about.
LEMMA FewerLate ==
    ASSUME IInv, late' \subseteq late,
           UNCHANGED <<ledger, job, call, sample, work, seen>>
    PROVE  /\ GenInv' /\ WriterInv' /\ OpenInv'
           /\ \A b \in Attempts : box'[b] = box[b] => AttOK(b)'
  <1>1. GenInv'
    <2> SUFFICES ASSUME NEW h \in Gens PROVE GenOK(h)'
      BY DEF GenInv
    <2>1. GenOK(h)
      BY DEF IInv, GenInv
    <2> QED BY <2>1 DEF GenOK, LateWriter, ledger
  <1>2. WriterInv'
    <2> SUFFICES ASSUME NEW b \in Attempts PROVE WriterOK(b)'
      BY DEF WriterInv
    <2>1. WriterOK(b)
      BY DEF IInv, WriterInv
    <2> QED BY <2>1 DEF WriterOK, Writing, LateWriter, ledger
  <1>3. OpenInv'
    <2> SUFFICES ASSUME NEW t \in Targets PROVE OpenOK(t)'
      BY DEF OpenInv
    <2>1. OpenOK(t)
      BY DEF IInv, OpenInv
    <2> QED BY <2>1 DEF OpenOK, LateCreate, Creating, ledger
  <1>4. ASSUME NEW b \in Attempts, box'[b] = box[b] PROVE AttOK(b)'
    <2>1. AttOK(b)
      BY DEF IInv, AttInv
    <2> QED BY <1>4, <2>1 DEF AttOK, LateCreate, LateStart, Creating, ledger
  <1> QED BY <1>1, <1>2, <1>3, <1>4

\* The components of a pair.
LEMMA Pairs ==
    ASSUME NEW S, NEW T, NEW c \in S \X T
    PROVE  c[1] \in S /\ c[2] \in T /\ c = <<c[1], c[2]>>
  OBVIOUS

\* What a command is about.
LEMMA CommandForm ==
    ASSUME NEW c \in Commands
    PROVE  /\ c[1] \in {"volume create", "write", "volume rm"} => c[2] \in Gens /\ c = <<c[1], c[2]>>
           /\ c[1] \in {"container start", "container rm"} => c[2] \in Attempts /\ c = <<c[1], c[2]>>
           /\ c[1] = "container create" =>
                 /\ c[2][1] \in Attempts /\ c[2][2] \in Gens
                 /\ c = <<"container create", <<c[2][1], c[2][2]>>>>
  <1>1. CASE c \in {"volume create", "write", "volume rm"} \X Gens
    <2>1. c[1] \in {"volume create", "write", "volume rm"} /\ c[2] \in Gens /\ c = <<c[1], c[2]>>
      BY <1>1, Pairs, Zenon
    <2>2. c[1] \notin {"container start", "container rm", "container create"}
      BY <2>1
    <2> QED BY <2>1, <2>2
  <1>2. CASE c \in {"container start", "container rm"} \X Attempts
    <2>1. c[1] \in {"container start", "container rm"} /\ c[2] \in Attempts /\ c = <<c[1], c[2]>>
      BY <1>2, Pairs, Zenon
    <2>2. c[1] \notin {"volume create", "write", "volume rm", "container create"}
      BY <2>1
    <2> QED BY <2>1, <2>2
  <1>3. CASE c \in {"container create"} \X (Attempts \X Gens)
    <2>0. c[1] \in {"container create"} /\ c[2] \in Attempts \X Gens /\ c = <<c[1], c[2]>>
      <3> DEFINE one == {"container create"}
                 both == Attempts \X Gens
      <3>1. c \in one \X both
        BY <1>3
      <3> HIDE DEF one, both
      <3>2. c[1] \in one /\ c[2] \in both /\ c = <<c[1], c[2]>>
        BY <3>1, Pairs, Zenon
      <3> QED BY <3>2 DEF one, both
    <2> DEFINE p == c[2]
    <2> HIDE DEF p
    <2>1. c[1] = "container create" /\ p \in Attempts \X Gens /\ c = <<"container create", p>>
      BY <2>0 DEF p
    <2>2. p[1] \in Attempts /\ p[2] \in Gens /\ p = <<p[1], p[2]>>
      BY <2>1, Pairs, Zenon
    <2>3. c[1] \notin {"volume create", "write", "volume rm", "container start", "container rm"}
      BY <2>1
    <2> QED BY <2>1, <2>2, <2>3 DEF p
  <1> QED BY <1>1, <1>2, <1>3 DEF Commands

\* A late command on a volume.
LEMMA LateVolumeStep ==
    ASSUME IInv, late' \subseteq late, net' \in Net,
           vol' \in [Gens -> Contents], UNCHANGED box,
           \A h \in Gens : Labelled(h)' => Labelled(h) \/ gen[h].ph = "begun",
           \A h \in Gens : vol[h] = "whole" /\ vol'[h] # "whole" => ~Referenced(h),
           UNCHANGED <<ledger, job, call, sample, work, seen>>
    PROVE  IInv'
  <1>1. VolInv' /\ WholeInv' /\ GoneInv'
    BY VolumeStep DEF ledger
  <1>2. GenInv' /\ WriterInv' /\ OpenInv' /\ AttInv'
    BY FewerLate DEF AttInv
  <1>3. TypeOK'
    BY DEF IInv, TypeOK, HostTypeOK, LedgerTypeOK, ledger
  <1> QED BY <1>1, <1>2, <1>3, Frames DEF IInv, ledger

\* A late command on a container.
LEMMA LateBoxStep ==
    ASSUME IInv, NEW a \in Attempts, late' \subseteq late, net' \in Net,
           box' \in [Attempts -> Box], \A b \in Attempts : b # a => box'[b] = box[b],
           vol' \in [Gens -> Contents],
           \A h \in Gens : vol[h] = "whole" => vol'[h] = "whole",
           \A h \in Gens : Labelled(h)' => Labelled(h),
           AttOK(a)', WholeOK(a)',
           box[a].st = "none" /\ box'[a].st # "none" => op[a].st = "none",
           UNCHANGED <<ledger, job, call, sample, work, seen>>
    PROVE  IInv'
  <1>1. WholeInv' /\ GoneInv'
    BY BoxStep DEF ledger
  <1>2. GenInv' /\ WriterInv' /\ OpenInv'
    BY FewerLate
  <1>3. AttInv'
    <2> SUFFICES ASSUME NEW b \in Attempts PROVE AttOK(b)'
      BY DEF AttInv
    <2>1. CASE b = a
      BY <2>1
    <2>2. CASE b # a
      BY <2>2, FewerLate
    <2> QED BY <2>1, <2>2
  <1>4. TypeOK'
    BY DEF IInv, TypeOK, HostTypeOK, LedgerTypeOK, ledger
  <1>5. VolInv'
    BY VolumeStep DEF ledger
  <1> QED BY <1>1, <1>2, <1>3, <1>4, <1>5, Frames DEF IInv, ledger

\* A command whose connection broke takes effect.
LEMMA RunLateStep ==
    ASSUME IInv, NEW c \in late, RunLate(c), UNCHANGED <<ledger, job, call, sample, work, seen>>
    PROVE  IInv'
  <1>u. late' = late \ {c} /\ net' \in Net /\ net' = net
    BY KeeperTypes DEF RunLate
  <1>c. c \in Commands
    BY KeeperTypes
  <1>t. vol \in [Gens -> Contents] /\ box \in [Attempts -> Box] /\ TypeOK
    BY KeeperTypes DEF IInv
  <1>1. CASE c[1] \in {"volume create", "write"} /\ box' = box
             /\ \E content \in {"partial", "whole"} :
                  \/ c[1] = "volume create" /\ vol' = VolumeCreated(vol, c[2])
                  \/ c[1] = "write" /\ vol' = VolumeWritten(vol, c[2], content)
    <2> DEFINE g == c[2]
    <2>1. g \in Gens /\ c = <<c[1], g>>
      BY <1>1, <1>c, CommandForm
    <2>2. gen[g].ph = "begun"
      <3>1. LateWriter(g)
        BY <1>1, <2>1 DEF LateWriter
      <3> QED BY <2>1, <3>1 DEF IInv, GenInv, GenOK
    <2> PICK content \in {"partial", "whole"} :
                  \/ c[1] = "volume create" /\ vol' = VolumeCreated(vol, g)
                  \/ c[1] = "write" /\ vol' = VolumeWritten(vol, g, content)
      BY <1>1
    <2>3. /\ vol' \in [Gens -> Contents] /\ \A h \in Gens : h # g => vol'[h] = vol[h]
          /\ vol[g] = "whole" => vol'[g] = "whole"
      <3> HIDE DEF g
      <3>1. CASE vol' = VolumeCreated(vol, g)
        BY <2>1, <3>1, <1>t, VolumeMoves
      <3>2. CASE vol' = VolumeWritten(vol, g, content)
        BY <2>1, <3>2, <1>t, VolumeMoves
      <3> QED BY <3>1, <3>2
    <2>4. \A h \in Gens : Labelled(h)' => Labelled(h) \/ gen[h].ph = "begun"
      BY <2>2, <2>3 DEF Labelled
    <2>5. \A h \in Gens : vol[h] = "whole" /\ vol'[h] # "whole" => ~Referenced(h)
      BY <2>3
    <2> QED BY <1>u, <1>1, <2>3, <2>4, <2>5, LateVolumeStep
  <1>2. CASE c[1] = "volume rm" /\ vol' = VolumeRemoved(vol, c[2]) /\ box' = box
    <2> DEFINE g == c[2]
    <2>1. g \in Gens
      BY <1>2, <1>c, CommandForm
    <2>3. /\ vol' \in [Gens -> Contents]
          /\ \A h \in Gens : vol'[h] = IF h = g /\ ~Referenced(g) THEN "absent" ELSE vol[h]
      BY <1>2, <2>1, <1>t, VolumeMoves
    <2>4. \A h \in Gens : Labelled(h)' => Labelled(h) \/ gen[h].ph = "begun"
      BY <2>3 DEF Labelled
    <2>5. \A h \in Gens : vol[h] = "whole" /\ vol'[h] # "whole" => ~Referenced(h)
      BY <2>3
    <2> QED BY <1>u, <1>2, <2>3, <2>4, <2>5, LateVolumeStep
  <1>3. CASE c[1] = "container create" /\ box' = BoxCreated(box, c[2][1], c[2][2])
             /\ (vol' = vol \/ vol' = Mounted(vol, c[2][2]))
    <2> DEFINE a == c[2][1]
               g == c[2][2]
    <2>1. a \in Attempts /\ g \in Gens /\ c = <<"container create", <<a, g>>>>
      BY <1>3, <1>c, CommandForm
    <2> HIDE DEF a, g
    <2>a. LateCreate(a) /\ AttOK(a) /\ OpenOK(a) /\ a \notin Gens
      BY <2>1, Bounds DEF LateCreate, IInv, AttInv, OpenInv, Targets
    <2>2. box[a].st = "none" /\ job[a] \in {"preparing", "abandoned"} /\ op[a].st = "none"
      BY <2>a DEF AttOK, OpenOK
    <2>3. /\ box' \in [Attempts -> Box] /\ \A b \in Attempts : b # a => box'[b] = box[b]
          /\ box'[a].st = "created" /\ box'[a].mount = g /\ box'[a].ready = FALSE
      BY <1>3, <2>1, <2>2, <1>t, BoxMoves DEF a, g
    <2>4. /\ vol' \in [Gens -> Contents]
          /\ \A h \in Gens : vol'[h] = vol[h] \/ (vol[h] = "absent" /\ vol'[h] = "bare")
      <3>1. CASE vol' = vol
        BY <1>t, <3>1
      <3>2. CASE vol' = Mounted(vol, g)
        BY <1>t, <2>1, <3>2, VolumeMoves
      <3> QED BY <1>3, <3>1, <3>2 DEF g
    <2>5. ~LateCreate(a)'
      <3> SUFFICES ASSUME NEW h \in Gens, <<"container create", <<a, h>>>> \in late' PROVE FALSE
        BY DEF LateCreate
      <3>1. <<"container create", <<a, h>>>> \in late /\ <<"container create", <<a, h>>>> # c
        BY <1>u
      <3>2. h = g
        BY <2>a, <2>1, <3>1 DEF AttOK
      <3> QED BY <3>1, <3>2, <2>1
    <2>6. call[a].pc = "idle" /\ pin[a] = "live" /\ ~LateStart(a)
      BY <2>a, <2>2 DEF AttOK
    <2>7. AttOK(a)'
      <3>1. \A h \in Gens : <<"container create", <<a, h>>>> \notin late'
        BY <2>5 DEF LateCreate
      <3>2. ~LateStart(a)'
        BY <1>u, <2>6 DEF LateStart
      <3> QED BY <2>2, <2>3, <2>5, <2>6, <3>1, <3>2 DEF AttOK, Creating, ledger
    <2>8. WholeOK(a)'
      BY <2>1, <2>3 DEF WholeOK
    <2>9. /\ \A h \in Gens : vol[h] = "whole" => vol'[h] = "whole"
          /\ \A h \in Gens : Labelled(h)' => Labelled(h)
      BY <2>4 DEF Labelled
    <2> QED BY <1>u, <2>1, <2>2, <2>3, <2>4, <2>7, <2>8, <2>9, LateBoxStep
  <1>4. CASE c[1] \in {"container start", "container rm"} /\ vol' = vol
             /\ \/ c[1] = "container start" /\ box' = BoxStarted(box, c[2])
                \/ c[1] = "container rm" /\ box' = BoxRemoved(box, c[2])
    <2> DEFINE a == c[2]
    <2>1. a \in Attempts /\ c = <<c[1], a>>
      BY <1>4, <1>c, CommandForm
    <2> HIDE DEF a
    <2>2. AttOK(a) /\ WholeOK(a)
      BY <2>1, ContainerTypes
    <2>3. /\ box' \in [Attempts -> Box] /\ \A b \in Attempts : b # a => box'[b] = box[b]
          /\ c[1] = "container start" =>
               /\ box'[a].st = IF box[a].st = "created" THEN "running" ELSE box[a].st
               /\ box'[a].mount = box[a].mount /\ box'[a].ready = box[a].ready
          /\ c[1] = "container rm" =>
               box'[a] = box[a] \/ (box'[a].st = "none" /\ box'[a].ready = FALSE)
      <3>1. CASE c[1] = "container start" /\ box' = BoxStarted(box, a)
        BY <2>1, <3>1, <1>t, BoxMoves
      <3>2. CASE c[1] = "container rm" /\ box' = BoxRemoved(box, a)
        <4>1. box'[a] = IF box[a].st = "running" THEN box[a] ELSE NoBox
          BY <2>1, <3>2, <1>t, BoxMoves
        <4> QED BY <2>1, <3>2, <4>1, <1>t, BoxMoves
      <3> QED BY <1>4, <3>1, <3>2 DEF a
    <2>4. c[1] = "container start" => /\ job[a] = "submitting" /\ call[a].pc = "idle"
                                      /\ ~LateStart(a)' /\ ~LateCreate(a)
      <3> SUFFICES ASSUME c[1] = "container start"
                   PROVE  /\ job[a] = "submitting" /\ call[a].pc = "idle"
                          /\ ~LateStart(a)' /\ ~LateCreate(a)
        OBVIOUS
      <3>1. LateStart(a)
        BY <2>1 DEF LateStart
      <3>2. ~LateStart(a)'
        BY <1>u, <2>1 DEF LateStart
      <3> QED BY <2>2, <3>1, <3>2 DEF AttOK
    <2>5. \A d : d \in late' => d \in late
      BY <1>u
    <2>6. AttOK(a)'
      <3>1. CASE c[1] = "container start"
        <4>1. job'[a] = "submitting" /\ call'[a].pc = "idle" /\ pin'[a] = "live"
          BY <2>2, <2>4, <3>1 DEF AttOK, ledger
        <4>2. ~LateCreate(a)' /\ ~LateStart(a)' /\ ~Creating(a)'
          BY <2>4, <2>5, <3>1, <4>1 DEF LateCreate, Creating
        <4>3. \A h \in Gens : <<"container create", <<a, h>>>> \notin late'
          BY <4>2 DEF LateCreate
        <4> QED BY <4>1, <4>2, <4>3 DEF AttOK
      <3>2. CASE c[1] = "container rm"
        <4>1. job'[a] = job[a] /\ call'[a] = call[a] /\ pin'[a] = pin[a]
          BY DEF ledger
        <4>2. /\ LateCreate(a)' => LateCreate(a)
              /\ LateStart(a)' => LateStart(a)
              /\ Creating(a)' <=> Creating(a)
          BY <2>5, <4>1 DEF LateCreate, LateStart, Creating
        <4>3. box'[a] = box[a] \/ box'[a].st = "none"
          BY <2>3, <3>2
        <4> QED BY <2>2, <2>5, <4>1, <4>2, <4>3 DEF AttOK
      <3> QED BY <1>4, <3>1, <3>2
    <2>7. WholeOK(a)'
      BY <1>4, <2>2, <2>3 DEF WholeOK
    <2>8. box[a].st = "none" => box'[a].st = "none"
      BY <1>4, <2>3
    <2>9. /\ \A h \in Gens : vol[h] = "whole" => vol'[h] = "whole"
          /\ \A h \in Gens : Labelled(h)' => Labelled(h)
      BY <1>4 DEF Labelled
    <2> QED BY <1>u, <1>t, <1>4, <2>1, <2>3, <2>6, <2>7, <2>8, <2>9, LateBoxStep
  <1>5. \/ c[1] = "volume create" /\ vol' = VolumeCreated(vol, c[2]) /\ box' = box
        \/ /\ c[1] = "write" /\ box' = box
           /\ \E content \in {"partial", "whole"} : vol' = VolumeWritten(vol, c[2], content)
        \/ c[1] = "volume rm" /\ vol' = VolumeRemoved(vol, c[2]) /\ box' = box
        \/ /\ c[1] = "container create" /\ box' = BoxCreated(box, c[2][1], c[2][2])
           /\ vol' = vol \/ vol' = Mounted(vol, c[2][2])
        \/ c[1] = "container start" /\ box' = BoxStarted(box, c[2]) /\ vol' = vol
        \/ c[1] = "container rm" /\ box' = BoxRemoved(box, c[2]) /\ vol' = vol
    BY DEF RunLate
  <1> QED BY <1>1, <1>2, <1>3, <1>4, <1>5

\* The machine on its own.
LEMMA MachineStep ==
    ASSUME IInv, Machine
    PROVE  IInv'
  <1>u. UNCHANGED <<ledger, job, call, sample, work, seen>>
    BY DEF Machine
  <1>1. ASSUME NEW c \in late, RunLate(c) PROVE IInv'
    BY <1>u, <1>1, RunLateStep
  <1>2. ASSUME NEW a \in Attempts, Exit(a) PROVE IInv'
    BY <1>u, <1>2, StoppedStep DEF Exit
  <1>3. ASSUME NEW g \in Gens, Prune(g) PROVE IInv'
    <2>1. /\ net' \in Net /\ ~Referenced(g) /\ vol' = [vol EXCEPT ![g] = "absent"]
          /\ UNCHANGED <<box, late>>
      BY <1>3, NetMoves DEF Prune, IInv
    <2>2. /\ vol' \in [Gens -> Contents]
          /\ \A h \in Gens : vol'[h] = IF h = g THEN "absent" ELSE vol[h]
      BY <2>1, KeeperTypes DEF Contents
    <2>3. \A h \in Gens : Labelled(h)' => Labelled(h) \/ gen[h].ph = "begun"
      BY <2>2 DEF Labelled
    <2>4. \A h \in Gens : vol[h] = "whole" /\ vol'[h] # "whole" => ~Referenced(h)
      BY <2>1, <2>2
    <2> QED BY <1>u, <2>1, <2>2, <2>3, <2>4, LateVolumeStep
  <1>4. ASSUME SwitchEngine \/ SwitchBack PROVE IInv'
    <2>1. net' \in Net
      <3>1. net \in [same : BOOLEAN, left : 0..MaxFaults]
        BY KeeperTypes DEF Net
      <3>2. CASE SwitchEngine
        <4>1. net.left - 1 \in 0..MaxFaults
          BY <3>1, <3>2, HostAssumption DEF SwitchEngine
        <4> QED BY <3>2, <4>1 DEF SwitchEngine, Net
      <3>3. CASE SwitchBack
        BY <3>1, <3>3 DEF SwitchBack, Net
      <3> QED BY <1>4, <3>2, <3>3
    <2>2. UNCHANGED <<vol, box, late>>
      BY <1>4 DEF SwitchEngine, SwitchBack
    <2>3. TypeOK'
      BY <1>u, <2>1, <2>2 DEF IInv, TypeOK, HostTypeOK, LedgerTypeOK, ledger
    <2> QED BY <1>u, <2>2, <2>3, Frames DEF IInv, ledger
  <1> QED BY <1>1, <1>2, <1>3, <1>4 DEF Machine, HostStep

-----------------------------------------------------------------------------
(* The invariant.                                                          *)

\* The initial state.
LEMMA InitInv == Init => IInv
  <1> SUFFICES ASSUME Init PROVE IInv
    OBVIOUS
  <1>h. HostInit /\ LedgerInit /\ job = [a \in Attempts |-> "none"]
        /\ call = [a \in Attempts |-> Idle]
    BY DEF Init
  <1>v. /\ \A g \in Gens : vol[g] = "absent" /\ gen[g].st = "none" /\ gen[g].ph = "none"
        /\ late = {}
        /\ \A a \in Attempts : box[a] = NoBox /\ job[a] = "none" /\ call[a] = Idle
        /\ \A t \in Targets : op[t].st = "none" /\ op[t].res = "none"
    BY <1>h DEF HostInit, LedgerInit
  <1>s. sample.pc = "idle" /\ work.pc = "idle"
    BY DEF Init, NoSample, NoWork
  <1>w. /\ \A g \in Gens : seen.writes[g] = 0
        /\ \A t \in Targets : seen.rms[t] = 0
    BY DEF Init
  <1>1. HostTypeOK
    <2>1. NoBox \in Box
      BY HostAssumption DEF NoBox, Box, BoxStates, NoGen
    <2>2. net \in Net
      BY <1>h, HostAssumption DEF HostInit, Net
    <2> QED BY <1>h, <2>1, <2>2 DEF HostInit, HostTypeOK, Contents
  <1>2. LedgerTypeOK
    <2>1. gen \in [Gens -> Generation]
      BY <1>h DEF LedgerInit, Generation, WritePhases, NoGen
    <2>2. op \in [Targets -> Operation]
      BY <1>h DEF LedgerInit, Operation
    <2>3. scan \in Scan
      BY <1>h DEF LedgerInit, Scan
    <2>4. rcpt \in [Attempts -> Receipt]
      BY <1>h, HostAssumption DEF LedgerInit, Receipt, NoGen
    <2> QED BY <1>h, <2>1, <2>2, <2>3, <2>4
        DEF LedgerInit, LedgerTypeOK, PinStates, AttemptReservation
  <1>3. /\ job \in [Attempts -> Phases] /\ call \in [Attempts -> Call]
        /\ sample \in Sample /\ work \in Work
    <2>1. Idle \in Call
      BY HostAssumption DEF Idle, Call, NoGen
    <2>2. NoSample \in Sample
      BY DEF NoSample, Sample
    <2>3. NoWork \in Work
      BY DEF NoWork, Work
    <2> QED BY <1>h, <2>1, <2>2, <2>3 DEF Init, Phases
  <1>4. seen \in History
    BY DEF Init, History
  <1>5. TypeOK
    BY <1>1, <1>2, <1>3, <1>4 DEF TypeOK
  <1>6. GenInv
    BY <1>v, <1>w DEF GenInv, GenOK, LateWriter
  <1>7. WriterInv
    BY <1>v DEF WriterInv, WriterOK, Writing, Idle
  <1>8. VolInv
    BY <1>v DEF VolInv, VolOK, Labelled
  <1>9. WholeInv
    BY <1>v DEF WholeInv, WholeOK, NoBox
  <1>10. AttInv
    BY <1>v DEF AttInv, AttOK, LateCreate, LateStart, Creating, Idle, NoBox
  <1>11. OpenInv /\ OpInv
    BY <1>v, <1>w DEF OpenInv, OpenOK, OpInv, OpOK
  <1>12. WorkInv /\ GoneInv
    BY <1>v, <1>s DEF WorkInv, GoneInv
  <1> QED BY <1>5, <1>6, <1>7, <1>8, <1>9, <1>10, <1>11, <1>12 DEF IInv

\* One case per action.
LEMMA AttemptInv ==
    ASSUME IInv, NEW a \in Attempts, Attempt(a)
    PROVE  IInv'
  <1>1. ASSUME NEW old \in Attempts \ {a}, Retry(old, a) PROVE IInv'
    BY <1>1, RetryStep
  <1>2. CASE Admit(a) \/ Withdraw(a) \/ BeginPreparation(a)
    BY <1>2, AdmitStep, WithdrawStep, BeginPreparationStep
  <1>3. CASE Fail(a) \/ UseActive(a) \/ LookEmpty(a) \/ ClaimGeneration(a)
             \/ WaitForPeer(a) \/ PeerSettled(a)
    BY <1>3, FailStep, UseActiveStep, LookEmptyStep, ClaimGenerationStep,
       WaitForPeerStep, PeerSettledStep
  <1>4. CASE BeginGeneration(a) \/ CreateVolume(a) \/ WriteVolume(a) \/ FinishGeneration(a)
    BY <1>4, BeginGenerationStep, CreateVolumeStep, WriteVolumeStep, FinishGenerationStep
  <1>5. CASE CreateBox(a) \/ Stage(a) \/ RemoveFailed(a) \/ RecordPrepared(a)
    BY <1>5, CreateBoxStep, StageStep, RemoveFailedStep, RecordPreparedStep
  <1>6. CASE ReconcilePrepare(a) \/ Abandon(a) \/ BeginSubmission(a) \/ SendStart(a)
    BY <1>6, ReconcilePrepareStep, AbandonStep, BeginSubmissionStep, SendStartStep
  <1>7. CASE Reconcile(a) \/ Observe(a) \/ Cancel(a) \/ SendCleanup(a) \/ ConfirmCleanup(a)
    BY <1>7, ReconcileStep, ObserveStep, CancelStep, SendCleanupStep, ConfirmCleanupStep
  <1> QED BY <1>1, <1>2, <1>3, <1>4, <1>5, <1>6, <1>7 DEF Attempt

\* A stuttering step keeps every part.
LEMMA StutterInv ==
    ASSUME IInv, UNCHANGED vars
    PROVE  IInv'
  <1>1. UNCHANGED <<host, ledger, job, call, sample, work, seen>>
    BY DEF vars
  <1>2. TypeOK'
    BY <1>1 DEF IInv, TypeOK, HostTypeOK, LedgerTypeOK, host, ledger
  <1> QED BY <1>1, <1>2, Frames DEF IInv, host, ledger

\* Every step of the guard, of the workers and of the machine keeps the invariant.
LEMMA NextInv ==
    ASSUME IInv, [Next]_vars
    PROVE  IInv'
  <1>1. ASSUME NEW a \in Attempts, Attempt(a) PROVE IInv'
    BY <1>1, AttemptInv
  <1>2. CASE Guard
    BY <1>2, ScanListStep, ScanStampStep, RecordScanStep, QueueEvictionsStep,
       ScanFailsStep, AgeStep DEF Guard
  <1>3. ASSUME NEW a \in Attempts, AdmitStorageCleanup(a) PROVE IInv'
    BY <1>3, AdmitStorageCleanupStep
  <1>4. ASSUME NEW t \in Targets, ClaimStorageCleanup(t) PROVE IInv'
    BY <1>4, ClaimStorageCleanupStep
  <1>5. CASE ObserveTarget \/ BeginDelete \/ Delete \/ Recover \/ CompleteDelete
    BY <1>5, ObserveTargetStep, BeginDeleteStep, DeleteStep, RecoverStep, CompleteDeleteStep
  <1>6. CASE Machine
    BY <1>6, MachineStep
  <1>7. CASE Crash
    BY <1>7, CrashStep
  <1>8. CASE UNCHANGED vars
    BY <1>8, StutterInv
  <1> QED BY <1>1, <1>2, <1>3, <1>4, <1>5, <1>6, <1>7, <1>8 DEF Next, Janitor

\* The invariant holds in every state of every behaviour.
THEOREM Invariance == Spec => []IInv
  BY InitInv, NextInv, PTL DEF Spec

\* Type correctness of the machine, the ledger, the calls and the workers.
THEOREM TypeCorrect == Spec => []TypeOK
  <1>1. IInv => TypeOK
    BY DEF IInv
  <1> QED BY <1>1, Invariance, PTL

\* A container with its marker mounts the whole content for as long as it is there:
\* the marker is written after the volume was read back (verifyCacheMounts), a
\* referenced volume is never removed, and a writer never replaces what is finished.
THEOREM MountsStayWhole == Spec => []MountedStaysWhole
  <1>1. IInv => MountedStaysWhole
    BY DEF IInv, WholeInv, WholeOK, MountedStaysWhole
  <1> QED BY <1>1, Invariance, PTL

\* A container exists only while its attempt pins the content, also one that a lost
\* create makes after its call returned: pins are released before the preparation
\* barrier, where nothing was sent, or after absence was confirmed at the end.
THEOREM PinsOutliveMounts == Spec => []PinHeldWhileMounted
  <1>1. IInv => PinHeldWhileMounted
    BY DEF IInv, AttInv, AttOK, PinHeldWhileMounted
  <1> QED BY <1>1, Invariance, PTL

\* One writer per generation (BeginWrite gives the permission once, and a lost answer
\* ends the call that held it), one removal per operation (BeginStorageCleanup is
\* recorded before the removal is sent, and an open intent is only recovered).
THEOREM MutatesOnce == Spec => []MutationsOnce
  <1>1. IInv => MutationsOnce
    BY DEF IInv, GenInv, GenOK, OpInv, OpOK, MutationsOnce, WrittenOnce, DeletedOnce
  <1> QED BY <1>1, Invariance, PTL

\* What an operation reported deleted or absent stays gone, and an attempt recorded as
\* over has nothing running and no start under way, whatever a broken connection left.
THEOREM EndsStayFinal == Spec => []EndsAreFinal
  <1>1. IInv => ConfirmedGone
    <2> SUFFICES ASSUME IInv PROVE ConfirmedGone
      OBVIOUS
    <2>1. \A t \in Targets : op[t].st = "succeeded" => Gone(t)
      BY DEF IInv, GoneInv
    <2>2. \A g \in Gens : vol[g] \in Contents
      BY KeeperTypes
    <2> QED BY <2>1, <2>2, Bounds DEF ConfirmedGone, Gone, Labelled, Contents, Targets
  <1>2. IInv => OverMeansOver
    BY DEF IInv, AttInv, AttOK, LateStart, OverMeansOver
  <1> QED BY <1>1, <1>2, Invariance, PTL DEF EndsAreFinal

\* Every labelled volume is charged to the budget, seen by a scan or not, except one
\* that was retired between a scan's listing and its stamp: a write is paid for when it
\* is permitted (BeginWrite), and only a scan stamped after a retirement, or a confirmed
\* deletion, gives the reservation back.
THEOREM ChargeCovers == Spec => []ChargeCoversMachine
  <1>1. IInv => ChargeCoversMachine
    BY DEF IInv, VolInv, VolOK, Labelled, ChargeCoversMachine, Charged, ByReservation
  <1> QED BY <1>1, Invariance, PTL
=============================================================================
