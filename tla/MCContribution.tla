--------------------------- MODULE MCContribution ---------------------------
(***************************************************************************)
(* TLC instances of Contribution.                                          *)
(***************************************************************************)
EXTENDS Contribution, TLC

Symmetry ==
    Permutations(Users) \cup Permutations(Admins) \cup Permutations(Payloads)
    \cup Permutations(Ids) \cup Permutations(Requests)
=============================================================================
