----------------------------- MODULE MCDispatch -----------------------------
(***************************************************************************)
(* Instances of Dispatch for TLC.  Workers are interchangeable: no action  *)
(* and no property tells them apart.                                       *)
(***************************************************************************)
EXTENDS Dispatch, TLC

Symmetry == Permutations(Workers)
=============================================================================
