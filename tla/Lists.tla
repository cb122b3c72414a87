-------------------------------- MODULE Lists --------------------------------
(***************************************************************************)
(* Selecting from a list: the filters and the removals of duplicates in    *)
(* the code's vectors and iterators.  They are defined by the places that  *)
(* are kept, so that proofs can speak of them (a library selection is      *)
(* recursive).                                                             *)
(***************************************************************************)
EXTENDS Integers, Sequences, FiniteSets, SequencesExt

\* The elements of s at the positions I, in their order.
PickedFrom(s, I) ==
    [n \in 1..Cardinality(I) |-> s[CHOOSE i \in I : Cardinality({j \in I : j <= i}) = n]]

\* The elements of s that are in keep, each where it comes up first.
KeptOnce(s, keep) ==
    PickedFrom(s, {i \in DOMAIN s : s[i] \in keep /\ \A j \in 1..i - 1 : s[j] # s[i]})

Dedup(s) == KeptOnce(s, ToSet(s))
==============================================================================
