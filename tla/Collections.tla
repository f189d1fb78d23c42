---------------------------- MODULE Collections -----------------------------
(***************************************************************************)
(* One collection of a user and the order of its items: CollectionService  *)
(* over CollectionRepository, with any number of the owner's requests in   *)
(* flight (several tabs, retries).                                         *)
(*                                                                         *)
(* The order is a position column of each item.  Nothing in the database   *)
(* makes positions distinct: add_item takes the highest plus one, a        *)
(* reorder numbers the items it loaded, and a PATCH of an item may put it  *)
(* anywhere.  Every operation is its reads, with the checks that reject    *)
(* the call, and then one commit; reorder reads twice, the ids and then    *)
(* the items.                                                              *)
(***************************************************************************)
EXTENDS Integers, FiniteSets

CONSTANTS ItemIds,      \* primary keys of the collection's items
          Details,      \* name, visibility, cover: what the collection says of itself
          Requests,     \* concurrent HTTP requests of the owner
          MaxPosition,  \* bound: the highest position
          Absent        \* no such row

VARIABLES collection,  \* its details, or Absent
          items,       \* the position of each of its items, or Absent
          inflight,    \* what each request has read and is about to do
          raced,       \* history: requests whose writing of positions
                       \* overlapped another's
          muddled      \* history: positions were written by hand, or by a
                       \* raced request, and not by a reorder alone since

vars == <<collection, items, inflight, raced, muddled>>

ASSUME AbsentAssumption == Absent \notin Details \cup Int
ASSUME BoundAssumption == MaxPosition \in Nat

Placed == {i \in ItemIds : items[i] # Absent}

(* A requested order as the place of every id in the list, Absent for ids  *)
(* that are not in it.                                                     *)
Orders == [ItemIds -> Nat \cup {Absent}]

Named(order) == {i \in ItemIds : order[i] # Absent}

Idle == [kind |-> "idle"]

Work ==
    [kind : {"describe"}, loaded : Details, edited : Details]
    \cup [kind : {"drop"}]
    \cup [kind : {"add"}, id : ItemIds, position : Int]
    \cup [kind : {"remove"}, id : ItemIds]
    \cup [kind : {"edit"}, id : ItemIds, loaded : Int, edited : Int]
    \cup [kind : {"order"}, order : Orders]
    \cup [kind : {"reorder"}, order : Orders,
          loaded : [ItemIds -> Int \cup {Absent}]]

(* The requests that will write positions.                                 *)
WritesPositions(w) ==
    \/ w.kind \in {"add", "order", "reorder"}
    \/ w.kind = "edit" /\ w.edited # w.loaded

Writers == {r \in Requests : WritesPositions(inflight[r])}

-----------------------------------------------------------------------------
(* _get_owned, the other reads of the operation, and what it will commit.  *)
Begin(r, w) ==
    /\ inflight[r] = Idle
    /\ collection # Absent
    /\ inflight' = [inflight EXCEPT ![r] = w]
    /\ raced' = IF WritesPositions(w) /\ Writers # {}
                THEN raced \cup Writers \cup {r} ELSE raced
    /\ UNCHANGED <<collection, items, muddled>>

(* create_collection: a single INSERT.  Its uuid4 is new, so no request    *)
(* knows it yet.                                                           *)
CreateCollection(details) ==
    /\ collection = Absent
    /\ \A r \in Requests : inflight[r] = Idle
    /\ collection' = details
    /\ muddled' = FALSE
    /\ UNCHANGED <<items, inflight, raced>>

UpdateCollection(r, details) ==
    Begin(r, [kind |-> "describe", loaded |-> collection, edited |-> details])

DeleteCollection(r) == Begin(r, [kind |-> "drop"])

(* Mutant of NextPosition: the highest position itself.                    *)
LastPosition(p) ==
    IF Placed = {}
    THEN p = 0
    ELSE /\ \E i \in Placed : p = items[i]
         /\ \A i \in Placed : items[i] <= p

(* get_next_position: p is the highest position plus one, 0 for no items.  *)
NextPosition(p) ==
    IF Placed = {}
    THEN p = 0
    ELSE /\ \E i \in Placed : p = items[i] + 1
         /\ \A i \in Placed : items[i] < p

(* The items a request in flight knows by their keys.                      *)
Knows(w) ==
    CASE w.kind \in {"add", "remove", "edit"} -> {w.id}
      [] w.kind \in {"order", "reorder"}      -> Named(w.order)
      [] OTHER                               -> {}

AddItem(r, i) ==
    /\ items[i] = Absent
    /\ \A s \in Requests : i \notin Knows(inflight[s])
    /\ \E p \in 0 .. MaxPosition :
           /\ NextPosition(p)
           /\ Begin(r, [kind |-> "add", id |-> i, position |-> p])

RemoveItem(r, i) ==
    /\ i \in Placed
    /\ Begin(r, [kind |-> "remove", id |-> i])

(* update_item: a position, which stands where it was if the PATCH is of   *)
(* the item's note only.                                                   *)
UpdateItem(r, i, position) ==
    /\ i \in Placed
    /\ Begin(r, [kind |-> "edit", id |-> i,
                 loaded |-> items[i], edited |-> position])

(* Mutant of Numbering: the list may be incomplete.                        *)
NumberingOfSome(order) ==
    /\ Named(order) \subseteq Placed
    /\ \A i, j \in Named(order) : order[i] = order[j] => i = j

(* The requested list names every item once; an item's place in the list   *)
(* is its new position.                                                    *)
Numbering(order) ==
    /\ Named(order) = Placed
    /\ \A i, j \in Named(order) : order[i] = order[j] => i = j

ReorderItems(r, order) ==
    /\ Numbering(order)
    /\ Begin(r, [kind |-> "order", order |-> order])

-----------------------------------------------------------------------------
End(r) ==
    /\ inflight' = [inflight EXCEPT ![r] = Idle]
    /\ raced' = raced \ {r}

(* The second read of reorder; an item that has gone is a KeyError.        *)
LoadItems(r) ==
    LET w == inflight[r]
    IN  /\ w.kind = "order"
        /\ IF Named(w.order) \subseteq Placed
           THEN /\ inflight' = [inflight EXCEPT ![r] =
                       [kind |-> "reorder", order |-> w.order,
                        loaded |-> items]]
                /\ UNCHANGED raced
           ELSE End(r)
        /\ UNCHANGED <<collection, items, muddled>>

(* An UPDATE goes to each loaded item whose position changes, in one       *)
(* transaction: one that is gone (StaleDataError) undoes them all.         *)
Moved(w) == {i \in Named(w.order) : w.order[i] # w.loaded[i]}

CommitReorder(r) ==
    LET w == inflight[r]
    IN  /\ w.kind = "reorder"
        /\ Moved(w) \subseteq Placed
        /\ items' = [i \in ItemIds |->
               IF i \in Moved(w)
               THEN w.order[i] ELSE items[i]]
        /\ muddled' = (r \in raced)
        /\ End(r)
        /\ UNCHANGED collection

CommitAdd(r) ==
    LET w == inflight[r]
    IN  /\ w.kind = "add"
        /\ collection # Absent
        /\ items' = [items EXCEPT ![w.id] = w.position]
        /\ muddled' = (muddled \/ r \in raced)
        /\ End(r)
        /\ UNCHANGED collection

(* Mutant of CommitEdit: the position is written whether it changes or not. *)
CommitEditAnyway(r) ==
    LET w == inflight[r]
    IN  /\ w.kind = "edit"
        /\ items[w.id] # Absent
        /\ items' = [items EXCEPT ![w.id] = w.edited]
        /\ muddled' = (muddled \/ WritesPositions(w))
        /\ End(r)
        /\ UNCHANGED collection

CommitEdit(r) ==
    LET w == inflight[r]
    IN  /\ w.kind = "edit"
        /\ items[w.id] # Absent
        /\ items' = [items EXCEPT ![w.id] =
                          IF WritesPositions(w) THEN w.edited ELSE @]
        /\ muddled' = (muddled \/ WritesPositions(w))
        /\ End(r)
        /\ UNCHANGED collection

(* A row that is gone by now is no error.                                  *)
CommitRemove(r) ==
    /\ inflight[r].kind = "remove"
    /\ items' = [items EXCEPT ![inflight[r].id] = Absent]
    /\ End(r)
    /\ UNCHANGED <<collection, muddled>>

CommitDetails(r) ==
    LET w == inflight[r]
    IN  /\ w.kind = "describe"
        /\ collection # Absent
        /\ collection' = IF w.edited = w.loaded THEN collection ELSE w.edited
        /\ End(r)
        /\ UNCHANGED <<items, muddled>>

(* Mutant of CommitDrop: the items are not deleted with the collection.    *)
CommitDropAlone(r) ==
    /\ inflight[r].kind = "drop"
    /\ collection' = Absent
    /\ End(r)
    /\ UNCHANGED <<items, muddled>>

(* ondelete=CASCADE takes the items along.                                 *)
CommitDrop(r) ==
    /\ inflight[r].kind = "drop"
    /\ collection' = Absent
    /\ items' = [i \in ItemIds |-> Absent]
    /\ End(r)
    /\ UNCHANGED muddled

(* The request ends in an error and its session rolls back: its row is     *)
(* gone, or the database refuses the change, for a book that does not      *)
(* exist, a null where none may be, a chat message that attaches the       *)
(* collection to be deleted.                                               *)
Fails(r) ==
    LET w == inflight[r]
    IN  /\ \/ w.kind \in {"add", "describe", "edit", "drop"}
           \/ w.kind = "reorder" /\ ~(Moved(w) \subseteq Placed)
        /\ End(r)
        /\ UNCHANGED <<collection, items, muddled>>

-----------------------------------------------------------------------------
Init ==
    /\ collection = Absent
    /\ items = [i \in ItemIds |-> Absent]
    /\ inflight = [r \in Requests |-> Idle]
    /\ raced = {}
    /\ muddled = FALSE

(* The lists a reorder may send.                                           *)
Lists ==
    {order \in [ItemIds -> (0 .. Cardinality(ItemIds) - 1) \cup {Absent}] :
        \A i \in Named(order) : order[i] < Cardinality(Named(order))}

Calls(r) ==
    \/ \E details \in Details : UpdateCollection(r, details)
    \/ DeleteCollection(r)
    \/ \E i \in ItemIds :
           \/ AddItem(r, i)
           \/ RemoveItem(r, i)
           \/ \E position \in 0 .. MaxPosition : UpdateItem(r, i, position)
    \/ \E order \in Lists : ReorderItems(r, order)

Commits(r) ==
    \/ CommitReorder(r) \/ CommitAdd(r)     \/ CommitEdit(r) \/ CommitRemove(r)
    \/ CommitDrop(r)    \/ CommitDetails(r) \/ Fails(r)

Next ==
    \/ \E details \in Details : CreateCollection(details)
    \/ \E r \in Requests : Calls(r) \/ LoadItems(r) \/ Commits(r)

Spec == Init /\ [][Next]_vars

-----------------------------------------------------------------------------
(* Types; and no item outlives its collection.                             *)
TypeOK ==
    /\ collection \in Details \cup {Absent}
    /\ items \in [ItemIds -> Int \cup {Absent}]
    /\ inflight \in [Requests -> Work \cup {Idle}]
    /\ raced \subseteq {r \in Requests : inflight[r] # Idle}
    /\ muddled \in BOOLEAN
    /\ collection = Absent => Placed = {}

(* Although neither the database nor a lock keeps two items from one       *)
(* position, they have distinct ones, whatever removals, note edits and    *)
(* failed calls overlap with what; as long as no two calls that write      *)
(* positions overlapped, and none was written by hand, since a reorder     *)
(* that ran alone.                                                         *)
DistinctPositions ==
    ~muddled => \A i, j \in Placed : items[i] = items[j] => i = j

(* A reorder that no other writer of positions overlapped puts every item  *)
(* the collection then has where the list asked, out of any muddle, or     *)
(* changes nothing because an item of the list has been removed meanwhile. *)
ReorderedAsAskedStep ==
    \A r \in Requests \ raced :
        LET order == inflight[r].order
        IN  inflight[r].kind = "reorder" /\ inflight'[r] # inflight[r] =>
                \/ items' = items /\ Named(order) \ Placed # {}
                \/ \A i \in Placed' : i \in Named(order) /\ items'[i] = order[i]

ReorderedAsAsked == [][ReorderedAsAskedStep]_vars

(* As long as the positions are not muddled, only a reorder changes how    *)
(* two items stand to each other, and a new item comes last: a note edit   *)
(* that read the item before a reorder and commits after it does not undo  *)
(* the reorder.                                                            *)
KeepsOrderStep ==
    ~muddled /\ ~muddled' =>
        \/ \E r \in Requests : inflight[r].kind = "reorder" /\ inflight'[r] = Idle
        \/ \A i, j \in ItemIds :
               /\ i \in Placed /\ j \in Placed /\ i \in Placed' /\ j \in Placed' =>
                      (items'[i] < items'[j]
                       <=> items[i] < items[j])
               /\ i \in Placed' /\ j \in Placed' /\ i \in Placed /\ j \notin Placed =>
                      items'[i] < items'[j]

KeepsOrder == [][KeepsOrderStep]_vars
=============================================================================
