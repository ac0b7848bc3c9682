---------------------------- MODULE MCHostStorage ---------------------------
(***************************************************************************)
(* HostStorage for TLC: the attempts are interchangeable.                  *)
(***************************************************************************)
EXTENDS HostStorage, TLC

CONSTANTS a1, a2

MCAttempts == {a1, a2}
Symmetry == Permutations(MCAttempts)
=============================================================================
