---------------------------- MODULE MCScheduler -----------------------------
(***************************************************************************)
(* An instance of Scheduler for TLC.  Three workspaces, so that the cursor *)
(* wraps around and has somebody to skip; two accounts on one machine and  *)
(* rows with different frozen limits, so that every limit is the binding   *)
(* one somewhere; and two rows of one account that compete for its         *)
(* accelerator quota while the operator pauses, resumes and changes limits.*)
(***************************************************************************)
EXTENDS Scheduler

MCWorkspaceOf == <<1, 2, 3, 1>>
MCAccountOf == <<"a1", "a2", "a1", "a1">>
MCFrozen == <<2, 2, 1, 2>>
MCWall == <<1, 2, 1, 1>>
MCMachineOf == [a \in {"a1", "a2"} |-> "m"]

Steady == [paused |-> FALSE, workers |-> 2, active |-> 2]
MCConfigurations == {Steady, [Steady EXCEPT !.paused = TRUE, !.workers = 1]}
MCPolicies == {[disabled |-> FALSE, active |-> n] : n \in 1..2}
=============================================================================
