---------------------------- MODULE MCBootstrap ----------------------------
(***************************************************************************)
(* Module Bootstrap for TLC: the accounts of the chain are interchangeable *)
(***************************************************************************)
EXTENDS Bootstrap, TLC

Symmetry == Permutations(LiveKeys)
=============================================================================
