---------------------------- MODULE MCFriendship ----------------------------
(***************************************************************************)
(* TLC instances of Friendship.                                            *)
(***************************************************************************)
EXTENDS Friendship, FiniteSets, Naturals, TLC

Symmetry ==
    Permutations(Users) \cup Permutations(RowIds) \cup Permutations(Requests)

(* Bound of the overlapping runs: users make at most MaxCalls different    *)
(* calls of send_request, accept or block (each as often as they like).    *)
CONSTANT MaxCalls

FewCalls == Cardinality(calls) <= MaxCalls
=============================================================================
