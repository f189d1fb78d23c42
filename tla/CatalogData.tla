----------------------------- MODULE CatalogData ------------------------------
(***************************************************************************)
(* The catalog: the edits of its rows and their versions, the rows that    *)
(* refer to books and the merges of books, and imports.  Each part is told *)
(* apart from the others by the rows it names, so a property of one sees   *)
(* nothing of the others.                                                  *)
(***************************************************************************)
EXTENDS EntityVersions

CONSTANTS Books, Users, RowIds, Kinds, Requests,    \* of Catalog
          Details, Files, MaxCount                  \* of Imports

VARIABLES books, refs, merges, disturbed,
          rows, shelf, owned, records, work, crossed

Merges == INSTANCE Catalog
External == INSTANCE Imports WITH BookIds <- Books

(* The rows that refer to books are of the kinds there are; the bound is a *)
(* number.                                                                 *)
ASSUME KindsAssumption == Kinds \subseteq Merges!AllKinds
ASSUME CountAssumption == MaxCount \in Nat

mergeVars == <<books, refs, merges, disturbed>>
importVars == <<rows, shelf, owned, records, work, crossed>>

allVars == <<vars, mergeVars, importVars>>

-----------------------------------------------------------------------------
AllInit == Init /\ Merges!Init /\ External!Init

(* Bound: a part moves while the others are where they began.              *)
HistoryStep ==
    /\ Merges!Init /\ External!Init
    /\ Next
    /\ UNCHANGED <<mergeVars, importVars>>

MergeStep ==
    /\ Init /\ External!Init
    /\ Merges!Next
    /\ UNCHANGED <<vars, importVars>>

ImportStep ==
    /\ Init /\ Merges!Init
    /\ External!Next
    /\ UNCHANGED <<vars, mergeVars>>

AllNext == HistoryStep \/ MergeStep \/ ImportStep

AllSpec == AllInit /\ [][AllNext]_allVars

-----------------------------------------------------------------------------
(* The properties of the parts, stated and explained in their modules: a   *)
(* merge that nobody disturbs is not refused,                              *)
MergeGoesThrough == Merges!MergeGoesThrough

(* and loses nothing that was on its source;                               *)
MergeKeepsAll == [][Merges!MergeKeepsAllStep]_mergeVars

(* no book is imported twice or by half;                                   *)
ImportedOnce == External!ImportedOnce

(* and none is put on the shelf twice by a file.                           *)
RowsOnce == External!RowsOnce
=============================================================================
