--------------------------- MODULE MCCollections ----------------------------
(***************************************************************************)
(* TLC instances of Collections.                                           *)
(***************************************************************************)
EXTENDS Collections, TLC

Symmetry == Permutations(ItemIds) \cup Permutations(Requests)
=============================================================================
