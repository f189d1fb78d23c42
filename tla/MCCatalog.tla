------------------------------ MODULE MCCatalog -------------------------------
(***************************************************************************)
(* TLC instance of the catalog.                                            *)
(***************************************************************************)
EXTENDS CatalogData, TLC

(* Two editions of a book, another book whose second code is the first     *)
(* one's, and one with an ISBN-10 and an ISBN-13 that are the same code.   *)
First == [title |-> "t", people |-> {"p"}, codes |-> <<1>>]
Second == [title |-> "t", people |-> {"p"}, codes |-> <<2>>]
Sharing == [title |-> "u", people |-> {}, codes |-> <<2, 1>>]
Twice == [title |-> "u", people |-> {}, codes |-> <<3, 3>>]

Editions == {First, Second, Sharing, Twice}

(* A file that names a book twice.                                         *)
OneFile == {<<1, 1>>}

Symmetry == Permutations(Books) \cup Permutations(RowIds) \cup Permutations(Requests)
            \cup Permutations(Values)
=============================================================================
