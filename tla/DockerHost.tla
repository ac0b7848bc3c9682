----------------------------- MODULE DockerHost -----------------------------
(***************************************************************************)
(* The machine behind an SSH connection, as the adapter's Docker commands  *)
(* see it: the shared cache volume of each generation of one content key,  *)
(* the container of each attempt, and the commands whose connection broke. *)
(* Every call dials anew, pins the host key and proves the machine and the *)
(* engine before its first command, so a call on another engine fails.     *)
(***************************************************************************)
EXTENDS Naturals, FiniteSets

CONSTANTS Attempts,   \* attempts that stage the same content
          MaxGen,     \* bound: generations of the content key
          Faults,     \* what may go wrong at all
          MaxFaults   \* bound: faults in one behaviour

ASSUME HostAssumption ==
    /\ MaxGen \in Nat \ {0}
    /\ Attempts # {} /\ Attempts \cap (0..MaxGen) = {}   \* an attempt is no generation
    /\ Faults \subseteq {"drop", "engine", "crash", "prune", "age"} /\ MaxFaults \in Nat

VARIABLES
    vol,     \* per generation: the volume of that name
    box,     \* per attempt: the container of that name
    late,    \* commands whose connection broke: they may still take effect
    net      \* whether another engine answers, and how many faults are left

host == <<vol, box, late, net>>

Gens == 1..MaxGen
NoGen == 0

Contents == {"absent", "bare", "empty", "partial", "whole"}

NoBox == [st |-> "none", mount |-> NoGen, ready |-> FALSE]
BoxStates == {"none", "created", "running", "exited"}
Box == [st : BoxStates, mount : 0..MaxGen, ready : BOOLEAN]
Commands == {"volume create", "write", "volume rm"} \X Gens
            \cup {"container start", "container rm"} \X Attempts
            \cup {"container create"} \X (Attempts \X Gens)

\* Every command verifies machine and engine first: another engine is another machine.
Net == [same : BOOLEAN, left : 0..MaxFaults]

HostTypeOK ==
    /\ vol \in [Gens -> Contents]
    /\ box \in [Attempts -> Box]
    /\ late \subseteq Commands
    /\ net \in Net

HostInit ==
    /\ vol = [g \in Gens |-> "absent"]
    /\ box = [a \in Attempts |-> NoBox]
    /\ late = {}
    /\ net = [same |-> TRUE, left |-> MaxFaults]

\* One fault of that kind happens.
Fault(kind) ==
    /\ kind \in Faults /\ net.left > 0
    /\ net' = [net EXCEPT !.left = @ - 1]

\* The connection breaks: the command may have been lost, or takes effect later.
Drop == Fault("drop")

-----------------------------------------------------------------------------
(* What a command reads.                                                   *)

\* Mutant: the engine that answers is taken for the frozen one.
ReachAny == TRUE

\* withDocker: the dialled machine and engine are the ones that were verified.
Reach == net.same

\* Labelled volumes; docker mounts a volume that is missing by making a bare one.
\* On another engine nothing of this is found.
Listed == IF net.same THEN {g \in Gens : vol[g] \in {"empty", "partial", "whole"}} ELSE {}
Boxes == IF net.same THEN {a \in Attempts : box[a].st # "none"} ELSE {}

\* A container or a writer holds the volume.
Referenced(g) ==
    \/ \E a \in Attempts : box[a].st # "none" /\ box[a].mount = g
    \/ <<"write", g>> \in late

\* observeVolume(s): the labelled volume and the digest of its content.
ObserveVolume(g) ==
    IF g \notin Listed THEN "missing" ELSE IF vol[g] = "whole" THEN "complete" ELSE "corrupt"

Started(a) == a \in Boxes /\ box[a].st \in {"running", "exited"}

-----------------------------------------------------------------------------
(* What a command changes, as the new value of the state it changes.       *)

VolumeCreated(v, g) == [v EXCEPT ![g] = IF @ = "absent" THEN "empty" ELSE @]

\* The writer links a finished file into place and never replaces one.
VolumeWritten(v, g, content) == [v EXCEPT ![g] = IF @ = "empty" THEN content ELSE @]

VolumeRemoved(v, g) == [v EXCEPT ![g] = IF Referenced(g) THEN @ ELSE "absent"]

BoxCreated(b, a, g) ==
    [b EXCEPT ![a] = IF @.st = "none" THEN [st |-> "created", mount |-> g, ready |-> FALSE] ELSE @]
Mounted(v, g) == [v EXCEPT ![g] = IF @ = "absent" THEN "bare" ELSE @]

BoxReady(b, a) == [b EXCEPT ![a].ready = TRUE]
BoxStarted(b, a) == [b EXCEPT ![a].st = IF @ = "created" THEN "running" ELSE @]
BoxStopped(b, a) == [b EXCEPT ![a].st = IF @ = "running" THEN "exited" ELSE @]

\* Removal is never forced: a running container stays.
BoxRemoved(b, a) == [b EXCEPT ![a] = IF @.st = "running" THEN @ ELSE NoBox]

-----------------------------------------------------------------------------
(* The machine on its own.                                                 *)

\* A command whose connection broke takes effect after all.
RunLate(c) ==
    /\ c \in late
    /\ late' = late \ {c}
    /\ LET what == c[1] IN
         \/ /\ what = "volume create" /\ vol' = VolumeCreated(vol, c[2]) /\ box' = box
         \/ /\ what = "write" /\ box' = box
            /\ \E content \in {"partial", "whole"} : vol' = VolumeWritten(vol, c[2], content)
         \/ /\ what = "volume rm" /\ vol' = VolumeRemoved(vol, c[2]) /\ box' = box
         \/ /\ what = "container create"
            /\ box' = BoxCreated(box, c[2][1], c[2][2])
            /\ vol' = IF box' = box THEN vol ELSE Mounted(vol, c[2][2])
         \/ /\ what = "container start" /\ box' = BoxStarted(box, c[2]) /\ vol' = vol
         \/ /\ what = "container rm" /\ box' = BoxRemoved(box, c[2]) /\ vol' = vol
    /\ UNCHANGED net

\* The run ends, by itself, by its deadline or by the machine.
Exit(a) ==
    /\ box[a].st = "running"
    /\ box' = BoxStopped(box, a)
    /\ UNCHANGED <<vol, late, net>>

\* An operator prunes a volume that nothing references.
Prune(g) ==
    /\ Fault("prune")
    /\ g \in Listed /\ ~Referenced(g)
    /\ vol' = [vol EXCEPT ![g] = "absent"]
    /\ UNCHANGED <<box, late>>

\* The account's Docker context points at another engine, and back again.
SwitchEngine ==
    /\ "engine" \in Faults /\ net.same /\ net.left > 0
    /\ net' = [same |-> FALSE, left |-> net.left - 1]
    /\ UNCHANGED <<vol, box, late>>

SwitchBack ==
    /\ ~net.same /\ net' = [net EXCEPT !.same = TRUE]
    /\ UNCHANGED <<vol, box, late>>

HostStep ==
    \/ \E c \in late : RunLate(c)
    \/ \E a \in Attempts : Exit(a)
    \/ \E g \in Gens : Prune(g)
    \/ SwitchEngine \/ SwitchBack
=============================================================================
