---------------------------- MODULE MCResultLife ----------------------------
(* Workers of one kind are interchangeable (safety runs only).             *)
EXTENDS ResultLife, TLC

Symmetry == Permutations(Collectors) \cup Permutations(Cleaners)
=============================================================================
