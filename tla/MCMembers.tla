------------------------------ MODULE MCMembers -------------------------------
(* TLC instance of what members do with what is theirs.                    *)
EXTENDS MemberData, TLC

(* Two entries for the backup: one the database keeps unique, one not.     *)
ACollection == [table |-> "collection", name |-> "books"]
AReview == [table |-> "review", name |-> "book"]

TwoTables == <<"collection", "review">>
OneOfEach == <<ACollection, AReview>>
Both == {ACollection, AReview}
Reviews == {AReview}

Symmetry ==
    Permutations(Requests) \cup Permutations(ThreadIds)
    \cup Permutations(SessionIds) \cup Permutations(Releases)
=============================================================================
