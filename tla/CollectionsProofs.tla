-------------------------- MODULE CollectionsProofs -------------------------
(***************************************************************************)
(* Theorems of Collections, for any items, positions and requests and any  *)
(* overlap of the requests.                                                *)
(***************************************************************************)
EXTENDS Collections, TLAPS

-----------------------------------------------------------------------------
(* Two requests that write positions at one time have both raced; so what  *)
(* a request that has not raced found out about the positions still holds, *)
(* except that items may have gone.                                        *)
Injective(order) ==
    \A i, j \in Named(order) : order[i] = order[j] => i = j

Current(w) ==
    /\ w.kind = "add" => \A i \in Placed : items[i] < w.position
    /\ w.kind \in {"order", "reorder"} =>
           Placed \subseteq Named(w.order) /\ Injective(w.order)
    /\ w.kind = "reorder" => \A i \in Placed : items[i] = w.loaded[i]

(* The key of an item to be added is its own.                              *)
OwnKey(r) ==
    inflight[r].kind = "add" =>
        /\ items[inflight[r].id] = Absent
        /\ \A s \in Requests \ {r} :
               inflight[s].kind = "add" => inflight[s].id # inflight[r].id

IInv ==
    /\ TypeOK
    /\ DistinctPositions
    /\ \A r \in Requests : OwnKey(r)
    /\ \A r, s \in Writers : r # s => r \in raced
    /\ \A r \in Requests \ raced : Current(inflight[r])

LEMMA WorkFields ==
    ASSUME NEW w \in Work
    PROVE  /\ w # Idle
           /\ w.kind \in {"describe", "drop", "add", "remove", "edit", "order", "reorder"}
           /\ w.kind = "add" => w.id \in ItemIds /\ w.position \in Int
           /\ w.kind = "remove" => w.id \in ItemIds
           /\ w.kind = "edit" => w.id \in ItemIds /\ w.loaded \in Int /\ w.edited \in Int
           /\ w.kind = "describe" => w.edited \in Details
           /\ w.kind \in {"order", "reorder"} => w.order \in Orders
           /\ w.kind = "reorder" => w.loaded \in [ItemIds -> Int \cup {Absent}]
BY DEF Work, Idle

LEMMA IdleWritesNothing == ~WritesPositions(Idle) /\ Idle.kind = "idle" /\ Current(Idle)
BY DEF WritesPositions, Idle, Current

(* Beginning a call whose findings are current.                            *)
LEMMA BeginInv ==
    ASSUME IInv, NEW r \in Requests, NEW w \in Work, Begin(r, w), Current(w),
           w.kind = "add" =>
               /\ items[w.id] = Absent
               /\ \A s \in Requests : inflight[s].kind = "add" => inflight[s].id # w.id
    PROVE  IInv'
<1> USE DEF IInv, TypeOK
<1>1. /\ inflight[r] = Idle /\ inflight' = [inflight EXCEPT ![r] = w]
      /\ UNCHANGED <<collection, items, muddled>>
      /\ raced' = IF WritesPositions(w) /\ Writers # {}
                  THEN raced \cup Writers \cup {r} ELSE raced
  BY DEF Begin
<1>2. /\ inflight'[r] = w /\ \A s \in Requests \ {r} : inflight'[s] = inflight[s]
      /\ inflight' \in [Requests -> Work \cup {Idle}]
  BY <1>1
<1>3. Writers' = IF WritesPositions(w) THEN Writers \cup {r} ELSE Writers
  BY <1>1, <1>2, IdleWritesNothing DEF Writers, WritesPositions
<1>4. raced' \subseteq {s \in Requests : inflight'[s] # Idle}
  <2>1. r \notin raced /\ w # Idle
    BY <1>1, WorkFields
  <2>2. \A s \in Writers : inflight[s] # Idle
    BY IdleWritesNothing DEF Writers
  <2> QED BY <1>1, <1>2, <2>1, <2>2 DEF Writers
<1>5. TypeOK'
  BY <1>1, <1>2, <1>4 DEF Placed
<1>6. DistinctPositions'
  BY <1>1 DEF DistinctPositions, Placed
<1>7. \A s \in Requests : OwnKey(s)'
  BY <1>1, <1>2, IdleWritesNothing DEF OwnKey
<1>8. \A s, t \in Writers' : s # t => s \in raced'
  BY <1>1, <1>3
<1>9. \A s \in Requests \ raced' : Current(inflight[s])'
  <2>1. Current(w)'
    BY <1>1 DEF Current, Placed, Named, Injective
  <2>2. \A s \in Requests \ raced : Current(inflight[s])
    OBVIOUS
  <2>3. ASSUME NEW s \in Requests \ raced', s # r
        PROVE  Current(inflight[s])'
    <3>1. s \notin raced /\ inflight'[s] = inflight[s]
      BY <1>1, <1>2, <2>3
    <3>2. Current(inflight[s])
      BY <2>2, <3>1
    <3> QED BY <1>1, <3>1, <3>2 DEF Current, Placed, Named, Injective
  <2> QED BY <1>2, <2>1, <2>3
<1> QED BY <1>5, <1>6, <1>7, <1>8, <1>9

(* Ending a call that leaves the others' findings current.                 *)
LEMMA EndInv ==
    ASSUME IInv, NEW r \in Requests, End(r),
           collection' \in Details \cup {Absent},
           items' \in [ItemIds -> Int \cup {Absent}],
           muddled' \in BOOLEAN,
           collection' = Absent => Placed' = {},
           DistinctPositions',
           \A s \in Requests \ {r} :
               inflight[s].kind = "add" => items'[inflight[s].id] = Absent,
           \A s \in Requests \ raced : s # r =>
               \/ inflight[s].kind \notin {"add", "order", "reorder"}
               \/ \A i \in Placed' : i \in Placed /\ items'[i] = items[i]
    PROVE  IInv'
<1> USE DEF IInv, TypeOK
<1>1. inflight' = [inflight EXCEPT ![r] = Idle] /\ raced' = raced \ {r}
  BY DEF End
<1>2. /\ inflight'[r] = Idle /\ \A s \in Requests \ {r} : inflight'[s] = inflight[s]
      /\ inflight' \in [Requests -> Work \cup {Idle}]
  BY <1>1
<1>3. Writers' = Writers \ {r}
  BY <1>1, <1>2, IdleWritesNothing DEF Writers, WritesPositions
<1>4. TypeOK'
  BY <1>1, <1>2
<1>5. \A s \in Requests : OwnKey(s)'
  BY <1>1, <1>2, IdleWritesNothing DEF OwnKey
<1>6. \A s, t \in Writers' : s # t => s \in raced'
  BY <1>1, <1>3
<1>7. ASSUME NEW s \in Requests \ raced', s # r
      PROVE  Current(inflight[s])'
  <2>1. s \notin raced /\ inflight'[s] = inflight[s] /\ Current(inflight[s])
    BY <1>1, <1>2, <1>7
  <2>2. CASE inflight[s].kind \notin {"add", "order", "reorder"}
    BY <2>1, <2>2 DEF Current
  <2>3. CASE \A i \in Placed' : i \in Placed /\ items'[i] = items[i]
    <3>1. Named(inflight[s].order)' = Named(inflight[s].order)
      BY <2>1 DEF Named
    <3>2. Injective(inflight[s].order)' <=> Injective(inflight[s].order)
      BY <2>1, <3>1 DEF Injective
    <3>3. Placed' \subseteq Placed
      BY <2>3
    <3>4. /\ inflight[s].kind = "add" =>
                 \A i \in Placed' : items'[i] < inflight[s].position
          /\ inflight[s].kind = "reorder" =>
                 \A i \in Placed' : items'[i] = inflight[s].loaded[i]
      BY <2>1, <2>3 DEF Current
    <3>5. inflight[s].kind \in {"order", "reorder"} =>
              Placed' \subseteq Named(inflight[s].order) /\ Injective(inflight[s].order)
      BY <2>1, <3>3 DEF Current
    <3> QED BY <2>1, <3>1, <3>2, <3>4, <3>5 DEF Current
  <2> QED BY <1>7, <2>1, <2>2, <2>3
<1>8. Current(inflight[r])'
  BY <1>2 DEF Current, Idle
<1> QED BY <1>4, <1>5, <1>6, <1>7, <1>8

(* Nobody else's findings are disturbed by a writer that commits: whoever  *)
(* else writes positions at that time has raced.                           *)
LEMMA OthersRaced ==
    ASSUME IInv, NEW r \in Writers, NEW s \in Requests \ raced, s # r
    PROVE  inflight[s].kind \notin {"add", "order", "reorder"}
BY DEF IInv, Writers, WritesPositions

-----------------------------------------------------------------------------
(* A list names its places by numbers.                                     *)
LEMMA ListsAreOrders == Lists \subseteq Orders
<1> SUFFICES ASSUME NEW order \in Lists, NEW i \in ItemIds
             PROVE  order[i] \in Nat \cup {Absent}
  BY DEF Lists, Orders
<1> QED BY DEF Lists

(* Every call begins on what is current.                                   *)
LEMMA CallsInv ==
    ASSUME IInv, NEW r \in Requests, Calls(r)
    PROVE  IInv'
<1> USE DEF IInv, TypeOK
<1>1. ASSUME NEW details \in Details, UpdateCollection(r, details)
      PROVE  IInv'
  <2> DEFINE w == [kind |-> "describe", loaded |-> collection, edited |-> details]
  <2>1. Begin(r, w) /\ collection # Absent
    BY <1>1 DEF UpdateCollection, Begin
  <2>2. w \in Work /\ Current(w)
    BY <2>1 DEF Work, Current
  <2> QED BY <2>1, <2>2, BeginInv
<1>2. ASSUME DeleteCollection(r)
      PROVE  IInv'
  <2> DEFINE w == [kind |-> "drop"]
  <2>1. w \in Work /\ Current(w)
    BY DEF Work, Current
  <2> QED BY <1>2, <2>1, BeginInv DEF DeleteCollection
<1>3. ASSUME NEW i \in ItemIds, AddItem(r, i)
      PROVE  IInv'
  <2>1. PICK p \in 0 .. MaxPosition :
            NextPosition(p) /\ Begin(r, [kind |-> "add", id |-> i, position |-> p])
    BY <1>3 DEF AddItem
  <2> DEFINE w == [kind |-> "add", id |-> i, position |-> p]
  <2>2. p \in Int /\ \A j \in Placed : items[j] < p
    BY <2>1, BoundAssumption DEF NextPosition
  <2>3. w \in Work /\ Current(w)
    BY <2>2 DEF Work, Current
  <2>4. items[i] = Absent /\ \A s \in Requests : inflight[s].kind = "add" => inflight[s].id # i
    BY <1>3 DEF AddItem, Knows
  <2> QED BY <2>1, <2>3, <2>4, BeginInv
<1>4. ASSUME NEW i \in ItemIds, RemoveItem(r, i)
      PROVE  IInv'
  <2> DEFINE w == [kind |-> "remove", id |-> i]
  <2>1. w \in Work /\ Current(w)
    BY DEF Work, Current
  <2> QED BY <1>4, <2>1, BeginInv DEF RemoveItem
<1>5. ASSUME NEW i \in ItemIds, NEW position \in 0 .. MaxPosition,
             UpdateItem(r, i, position)
      PROVE  IInv'
  <2> DEFINE w == [kind |-> "edit", id |-> i, loaded |-> items[i], edited |-> position]
  <2>1. items[i] \in Int /\ position \in Int
    BY <1>5, BoundAssumption DEF UpdateItem, Placed
  <2>2. w \in Work /\ Current(w)
    BY <2>1 DEF Work, Current
  <2> QED BY <1>5, <2>2, BeginInv DEF UpdateItem
<1>6. ASSUME NEW order \in Lists, ReorderItems(r, order)
      PROVE  IInv'
  <2> DEFINE w == [kind |-> "order", order |-> order]
  <2>1. order \in Orders
    BY <1>6, ListsAreOrders
  <2>2. w \in Work /\ Current(w)
    BY <1>6, <2>1 DEF Work, Current, ReorderItems, Numbering, Injective
  <2> QED BY <1>6, <2>2, BeginInv DEF ReorderItems
<1> QED BY <1>1, <1>2, <1>3, <1>4, <1>5, <1>6 DEF Calls

-----------------------------------------------------------------------------
(* What each commit does to the positions.                                 *)
LEMMA ReorderCommits ==
    ASSUME IInv, NEW r \in Requests, CommitReorder(r)
    PROVE  LET w == inflight[r]
           IN  /\ w.order \in Orders /\ Placed' = Placed
               /\ \A i \in ItemIds : i \in Moved(w) \/ items'[i] = items[i]
               /\ r \notin raced =>
                      \A i \in Placed : i \in Named(w.order) /\ items'[i] = w.order[i]
<1> USE DEF IInv, TypeOK
<1> DEFINE w == inflight[r]
<1>1. /\ w.kind = "reorder" /\ Moved(w) \subseteq Placed
      /\ items' = [i \in ItemIds |-> IF i \in Moved(w) THEN w.order[i] ELSE items[i]]
  BY DEF CommitReorder
<1>2. w \in Work
  BY <1>1, IdleWritesNothing
<1>3. w.order \in Orders
  BY <1>1, <1>2, WorkFields
<1>4. \A i \in Moved(w) : i \in ItemIds /\ w.order[i] # Absent
  BY DEF Moved, Named
<1>5. Placed' = Placed
  BY <1>1, <1>4 DEF Placed
<1>6. ASSUME r \notin raced, NEW i \in Placed
      PROVE  i \in Named(w.order) /\ items'[i] = w.order[i]
  <2>1. i \in ItemIds /\ i \in Named(w.order) /\ items[i] = w.loaded[i]
    BY <1>1, <1>6 DEF Current, Placed
  <2> QED BY <1>1, <2>1 DEF Moved
<1> HIDE DEF w
<1>7. /\ w.order \in Orders /\ Placed' = Placed
      /\ \A i \in ItemIds : i \in Moved(w) \/ items'[i] = items[i]
      /\ r \notin raced =>
             \A i \in Placed : i \in Named(w.order) /\ items'[i] = w.order[i]
  BY <1>1, <1>3, <1>5, <1>6
<1> QED BY <1>7 DEF w

LEMMA AddCommits ==
    ASSUME IInv, NEW r \in Requests, CommitAdd(r)
    PROVE  LET w == inflight[r]
           IN  /\ w.kind = "add" /\ w.id \in ItemIds \ Placed /\ w.position \in Int
               /\ Placed' = Placed \cup {w.id}
               /\ items'[w.id] = w.position
               /\ \A i \in ItemIds \ {w.id} : items'[i] = items[i]
               /\ r \notin raced => \A i \in Placed : items[i] < w.position
<1> USE DEF IInv, TypeOK
<1>1. inflight[r].kind = "add" /\ inflight[r] \in Work
  BY IdleWritesNothing DEF CommitAdd
<1>2. inflight[r].id \in ItemIds /\ inflight[r].position \in Int
  BY <1>1, WorkFields
<1>3. items[inflight[r].id] = Absent
  BY <1>1 DEF OwnKey
<1>4. items' = [items EXCEPT ![inflight[r].id] = inflight[r].position]
  BY DEF CommitAdd
<1>5. Placed' = Placed \cup {inflight[r].id}
  BY <1>2, <1>4, AbsentAssumption DEF Placed
<1> QED BY <1>1, <1>2, <1>3, <1>4, <1>5 DEF Current, Placed

LEMMA EditCommits ==
    ASSUME IInv, NEW r \in Requests, CommitEdit(r)
    PROVE  LET w == inflight[r]
           IN  /\ w.kind = "edit" /\ w.id \in Placed
               /\ items' \in [ItemIds -> Int \cup {Absent}] /\ Placed' = Placed
               /\ \A i \in ItemIds \ {w.id} : items'[i] = items[i]
               /\ IF WritesPositions(w) THEN muddled' ELSE items' = items /\ muddled' = muddled
<1> USE DEF IInv, TypeOK
<1>1. inflight[r].kind = "edit" /\ inflight[r] \in Work
  BY IdleWritesNothing DEF CommitEdit
<1>2. inflight[r].id \in ItemIds /\ inflight[r].edited \in Int
  BY <1>1, WorkFields
<1>3. /\ items[inflight[r].id] # Absent
      /\ items' = [items EXCEPT ![inflight[r].id] =
                        IF WritesPositions(inflight[r]) THEN inflight[r].edited ELSE @]
      /\ muddled' = (muddled \/ WritesPositions(inflight[r]))
  BY DEF CommitEdit
<1>4. CASE WritesPositions(inflight[r])
  <2>1. items' = [items EXCEPT ![inflight[r].id] = inflight[r].edited]
    BY <1>3, <1>4
  <2>2. Placed' = Placed
    BY <1>2, <1>3, <2>1, AbsentAssumption DEF Placed
  <2> QED BY <1>1, <1>2, <1>3, <1>4, <2>1, <2>2 DEF Placed
<1>5. CASE ~WritesPositions(inflight[r])
  <2>1. items' = items /\ muddled' = muddled
    BY <1>3, <1>5
  <2> QED BY <1>1, <1>2, <1>3, <1>5, <2>1 DEF Placed
<1> QED BY <1>4, <1>5

(* The other commits only let items go.                                    *)
OnlyGo == \A i \in Placed' : i \in Placed /\ items'[i] = items[i]

LEMMA OthersLetGo ==
    ASSUME IInv, NEW r \in Requests,
           CommitRemove(r) \/ CommitDetails(r) \/ CommitDrop(r) \/ Fails(r)
    PROVE  /\ End(r) /\ OnlyGo /\ muddled' = muddled
           /\ items' \in [ItemIds -> Int \cup {Absent}]
           /\ \A i \in ItemIds : items[i] = Absent => items'[i] = Absent
           /\ collection' \in Details \cup {Absent}
           /\ collection' = Absent => Placed' = {}
<1> USE DEF IInv, TypeOK
<1>1. CASE CommitRemove(r)
  <2>1. inflight[r].id \in ItemIds
    BY <1>1, WorkFields, IdleWritesNothing DEF CommitRemove
  <2> QED BY <1>1, <2>1 DEF CommitRemove, OnlyGo, Placed
<1>2. CASE CommitDetails(r)
  <2>1. inflight[r].edited \in Details
    BY <1>2, WorkFields, IdleWritesNothing DEF CommitDetails
  <2> QED BY <1>2, <2>1, AbsentAssumption DEF CommitDetails, OnlyGo, Placed
<1>3. CASE CommitDrop(r)
  BY <1>3 DEF CommitDrop, OnlyGo, Placed
<1>4. CASE Fails(r)
  BY <1>4 DEF Fails, OnlyGo, Placed
<1> QED BY <1>1, <1>2, <1>3, <1>4

LEMMA CommitsInv ==
    ASSUME IInv, NEW r \in Requests, Commits(r)
    PROVE  IInv'
<1> USE DEF IInv, TypeOK
<1>1. CASE CommitReorder(r)
  <2> DEFINE w == inflight[r]
  <2>1. /\ End(r) /\ collection' = collection /\ muddled' = (r \in raced)
        /\ Moved(w) \subseteq Placed /\ r \in Writers
        /\ items' = [i \in ItemIds |-> IF i \in Moved(w) THEN w.order[i] ELSE items[i]]
    BY <1>1 DEF CommitReorder, Writers, WritesPositions
  <2>2. /\ w.order \in Orders /\ Placed' = Placed
        /\ \A i \in ItemIds : i \in Moved(w) \/ items'[i] = items[i]
        /\ r \notin raced =>
               \A i \in Placed : i \in Named(w.order) /\ items'[i] = w.order[i]
    BY <1>1, ReorderCommits
  <2>3. items' \in [ItemIds -> Int \cup {Absent}]
    BY <2>1, <2>2 DEF Orders
  <2>4. DistinctPositions'
    <3> SUFFICES ASSUME r \notin raced, NEW i \in Placed, NEW j \in Placed,
                        items'[i] = items'[j]
                 PROVE  i = j
      BY <2>1, <2>2 DEF DistinctPositions
    <3>1. Injective(w.order)
      BY <1>1 DEF CommitReorder, Current
    <3> QED BY <2>2, <3>1 DEF Injective
  <2>5. \A s \in Requests \ {r} :
            inflight[s].kind = "add" => items'[inflight[s].id] = Absent
    <3> SUFFICES ASSUME NEW s \in Requests \ {r}, inflight[s].kind = "add"
                 PROVE  items'[inflight[s].id] = Absent
      OBVIOUS
    <3>1. inflight[s].id \in ItemIds /\ items[inflight[s].id] = Absent
      BY WorkFields, IdleWritesNothing DEF OwnKey
    <3> QED BY <2>1, <2>2, <3>1 DEF Placed
  <2>6. \A s \in Requests \ raced :
            s # r => inflight[s].kind \notin {"add", "order", "reorder"}
    BY <2>1, OthersRaced
  <2> QED BY <2>1, <2>2, <2>3, <2>4, <2>5, <2>6, EndInv
<1>2. CASE CommitAdd(r)
  <2> DEFINE w == inflight[r]
  <2>1. /\ End(r) /\ collection' = collection /\ collection # Absent
        /\ muddled' = (muddled \/ r \in raced) /\ r \in Writers
        /\ items' = [items EXCEPT ![w.id] = w.position]
    BY <1>2 DEF CommitAdd, Writers, WritesPositions
  <2>2. /\ w.kind = "add" /\ w.id \in ItemIds \ Placed /\ w.position \in Int
        /\ Placed' = Placed \cup {w.id}
        /\ items'[w.id] = w.position
        /\ \A i \in ItemIds \ {w.id} : items'[i] = items[i]
        /\ r \notin raced => \A i \in Placed : items[i] < w.position
    BY <1>2, AddCommits
  <2>3. items' \in [ItemIds -> Int \cup {Absent}]
    BY <2>1, <2>2
  <2>4. DistinctPositions'
    <3> SUFFICES ASSUME ~muddled, r \notin raced,
                        NEW i \in Placed', NEW j \in Placed', items'[i] = items'[j]
                 PROVE  i = j
      BY <2>1 DEF DistinctPositions
    <3>1. \A k \in Placed : items'[k] = items[k] /\ items[k] \in Int /\ items[k] < w.position
      BY <2>2 DEF Placed
    <3>2. CASE i = w.id \/ j = w.id
      BY <2>2, <3>1, <3>2
    <3>3. CASE i # w.id /\ j # w.id
      BY <2>2, <3>1, <3>3 DEF DistinctPositions
    <3> QED BY <3>2, <3>3
  <2>5. \A s \in Requests \ {r} :
            inflight[s].kind = "add" => items'[inflight[s].id] = Absent
    <3> SUFFICES ASSUME NEW s \in Requests \ {r}, inflight[s].kind = "add"
                 PROVE  items'[inflight[s].id] = Absent
      OBVIOUS
    <3>1. /\ inflight[s].id \in ItemIds /\ items[inflight[s].id] = Absent
          /\ inflight[s].id # w.id
      BY <2>2, WorkFields, IdleWritesNothing DEF OwnKey
    <3> QED BY <2>2, <3>1
  <2>6. \A s \in Requests \ raced :
            s # r => inflight[s].kind \notin {"add", "order", "reorder"}
    BY <2>1, OthersRaced
  <2>7. collection' \in Details \cup {Absent} /\ muddled' \in BOOLEAN
    BY <2>1
  <2>8. collection' = Absent => Placed' = {}
    BY <2>1
  <2> QED BY <2>1, <2>3, <2>4, <2>5, <2>6, <2>7, <2>8, EndInv
<1>3. CASE CommitEdit(r)
  <2> DEFINE w == inflight[r]
  <2>1. End(r) /\ collection' = collection
    BY <1>3 DEF CommitEdit
  <2>2. /\ w.kind = "edit" /\ w.id \in Placed
        /\ items' \in [ItemIds -> Int \cup {Absent}] /\ Placed' = Placed
        /\ \A i \in ItemIds \ {w.id} : items'[i] = items[i]
        /\ IF WritesPositions(w) THEN muddled' ELSE items' = items /\ muddled' = muddled
    BY <1>3, EditCommits
  <2>3. muddled' \in BOOLEAN
    BY <1>3 DEF CommitEdit
  <2>4. DistinctPositions'
    BY <2>2 DEF DistinctPositions
  <2>5. \A s \in Requests \ {r} :
            inflight[s].kind = "add" => items'[inflight[s].id] = Absent
    <3> SUFFICES ASSUME NEW s \in Requests \ {r}, inflight[s].kind = "add"
                 PROVE  items'[inflight[s].id] = Absent
      OBVIOUS
    <3>1. inflight[s].id \in ItemIds /\ items[inflight[s].id] = Absent
      BY WorkFields, IdleWritesNothing DEF OwnKey
    <3> QED BY <2>2, <3>1 DEF Placed
  <2>6. \A s \in Requests \ raced : s # r =>
            \/ inflight[s].kind \notin {"add", "order", "reorder"}
            \/ \A i \in Placed' : i \in Placed /\ items'[i] = items[i]
    <3>1. CASE WritesPositions(w)
      <4>1. r \in Writers
        BY <3>1 DEF Writers
      <4> QED BY <4>1, OthersRaced
    <3>2. CASE ~WritesPositions(w)
      BY <2>2, <3>2
    <3> QED BY <3>1, <3>2
  <2> QED BY <2>1, <2>2, <2>3, <2>4, <2>5, <2>6, EndInv
<1>4. CASE CommitRemove(r) \/ CommitDetails(r) \/ CommitDrop(r) \/ Fails(r)
  <2>1. /\ End(r) /\ OnlyGo /\ muddled' = muddled
        /\ items' \in [ItemIds -> Int \cup {Absent}]
        /\ \A i \in ItemIds : items[i] = Absent => items'[i] = Absent
        /\ collection' \in Details \cup {Absent}
        /\ collection' = Absent => Placed' = {}
    BY <1>4, OthersLetGo
  <2>2. DistinctPositions'
    BY <2>1 DEF DistinctPositions, OnlyGo
  <2>3. \A s \in Requests \ {r} :
            inflight[s].kind = "add" => items'[inflight[s].id] = Absent
    BY <2>1, WorkFields, IdleWritesNothing DEF OwnKey
  <2>4. \A s \in Requests \ raced : s # r =>
            \A i \in Placed' : i \in Placed /\ items'[i] = items[i]
    BY <2>1 DEF OnlyGo
  <2> QED BY <2>1, <2>2, <2>3, <2>4, EndInv
<1> QED BY <1>1, <1>2, <1>3, <1>4 DEF Commits

(* The second read of a reorder finds what the first one found, unless     *)
(* another writer has been at work, or items have gone.                    *)
LEMMA LoadItemsInv ==
    ASSUME IInv, NEW r \in Requests, LoadItems(r)
    PROVE  IInv'
<1> USE DEF IInv, TypeOK
<1> DEFINE w == inflight[r]
<1>1. w.kind = "order" /\ UNCHANGED <<collection, items, muddled>>
  BY DEF LoadItems
<1>2. CASE End(r)
  <2>1. DistinctPositions' /\ Placed' = Placed
    BY <1>1 DEF DistinctPositions, Placed
  <2>2. \A s \in Requests \ {r} :
            inflight[s].kind = "add" => items'[inflight[s].id] = Absent
    BY <1>1 DEF OwnKey
  <2> QED BY <1>1, <1>2, <2>1, <2>2, EndInv
<1>3. CASE /\ inflight' = [inflight EXCEPT ![r] =
                  [kind |-> "reorder", order |-> w.order, loaded |-> items]]
           /\ UNCHANGED raced
  <2> DEFINE v == [kind |-> "reorder", order |-> w.order, loaded |-> items]
  <2>1. v \in Work
    BY <1>1, WorkFields, IdleWritesNothing DEF Work
  <2>2. v # Idle /\ WritesPositions(v) /\ WritesPositions(w)
    BY <1>1 DEF Idle, WritesPositions
  <2>3. /\ inflight'[r] = v /\ \A s \in Requests \ {r} : inflight'[s] = inflight[s]
        /\ inflight' \in [Requests -> Work \cup {Idle}]
    BY <1>3, <2>1
  <2> HIDE DEF v
  <2>4. Writers' = Writers
    BY <2>2, <2>3 DEF Writers, WritesPositions
  <2>5. TypeOK'
    BY <1>1, <1>3, <2>2, <2>3 DEF Placed
  <2>6. DistinctPositions'
    BY <1>1 DEF DistinctPositions, Placed
  <2>7. \A s \in Requests : OwnKey(s)'
    <3>1. v.kind # "add"
      BY DEF v
    <3> QED BY <1>1, <2>3, <3>1 DEF OwnKey
  <2>8. \A s, t \in Writers' : s # t => s \in raced'
    BY <1>3, <2>4
  <2>9. ASSUME NEW s \in Requests \ raced'
        PROVE  Current(inflight[s])'
    <3>1. Current(inflight[s])
      BY <1>3
    <3>2. CASE s = r
      <4>1. Placed \subseteq Named(w.order) /\ Injective(w.order)
        BY <1>1, <3>1, <3>2 DEF Current
      <4>2. Current(v)
        BY <4>1 DEF Current, v
      <4> QED BY <1>1, <2>3, <3>2, <4>2 DEF Current, Placed, Named, Injective
    <3>3. CASE s # r
      BY <1>1, <2>3, <3>1, <3>3 DEF Current, Placed, Named, Injective
    <3> QED BY <3>2, <3>3
  <2> QED BY <2>5, <2>6, <2>7, <2>8, <2>9
<1> QED BY <1>2, <1>3 DEF LoadItems

LEMMA CreateInv ==
    ASSUME IInv, NEW details \in Details, CreateCollection(details)
    PROVE  IInv'
<1> USE DEF IInv, TypeOK
<1>1. /\ collection = Absent /\ collection' = details /\ muddled' = FALSE
      /\ UNCHANGED <<items, inflight, raced>>
      /\ \A r \in Requests : inflight[r] = Idle
  BY DEF CreateCollection
<1>2. Placed = {} /\ Placed' = {}
  BY <1>1 DEF Placed
<1>3. TypeOK'
  BY <1>1, <1>2
<1>4. DistinctPositions'
  BY <1>2 DEF DistinctPositions
<1>5. \A r \in Requests : OwnKey(r)' /\ Current(inflight[r])'
  BY <1>1, IdleWritesNothing DEF OwnKey, Current
<1>6. Writers' = {}
  BY <1>1, IdleWritesNothing DEF Writers, WritesPositions
<1> QED BY <1>3, <1>4, <1>5, <1>6

-----------------------------------------------------------------------------
LEMMA InitInv == Init => IInv
<1> SUFFICES ASSUME Init
             PROVE  IInv
  OBVIOUS
<1> USE DEF Init
<1>1. Placed = {}
  BY DEF Placed
<1>2. Writers = {}
  BY IdleWritesNothing DEF Writers
<1>3. TypeOK
  BY <1>1 DEF TypeOK
<1>4. \A r \in Requests : OwnKey(r) /\ Current(inflight[r])
  BY IdleWritesNothing DEF OwnKey
<1> QED BY <1>1, <1>2, <1>3, <1>4 DEF IInv, DistinctPositions

LEMMA NextInv == IInv /\ [Next]_vars => IInv'
<1> SUFFICES ASSUME IInv, [Next]_vars
             PROVE  IInv'
  OBVIOUS
<1>1. ASSUME NEW details \in Details, CreateCollection(details)
      PROVE  IInv'
  BY <1>1, CreateInv
<1>2. ASSUME NEW r \in Requests, Calls(r) \/ LoadItems(r) \/ Commits(r)
      PROVE  IInv'
  BY <1>2, CallsInv, LoadItemsInv, CommitsInv
<1>3. CASE UNCHANGED vars
  <2> USE <1>3 DEF vars
  <2>1. Placed' = Placed /\ Writers' = Writers
    BY DEF Placed, Writers, WritesPositions
  <2>2. TypeOK'
    BY <2>1 DEF IInv, TypeOK
  <2>3. DistinctPositions'
    BY <2>1 DEF IInv, DistinctPositions
  <2>4. \A r \in Requests : OwnKey(r)'
    BY DEF IInv, OwnKey
  <2>5. \A r, s \in Writers' : r # s => r \in raced'
    BY <2>1 DEF IInv
  <2>6. \A r \in Requests \ raced' : Current(inflight[r])'
    BY <2>1 DEF IInv, Current, Named, Injective
  <2> QED BY <2>2, <2>3, <2>4, <2>5, <2>6 DEF IInv
<1> QED BY <1>1, <1>2, <1>3 DEF Next

(* The state is well-typed and no item outlives its collection.            *)
THEOREM TypeCorrect == Spec => []TypeOK
<1>1. IInv => TypeOK
  BY DEF IInv
<1> QED BY <1>1, InitInv, NextInv, PTL DEF Spec

(* Positions are distinct as long as they are not muddled.                 *)
THEOREM Distinct == Spec => []DistinctPositions
<1>1. IInv => DistinctPositions
  BY DEF IInv
<1> QED BY <1>1, InitInv, NextInv, PTL DEF Spec

-----------------------------------------------------------------------------
(* A step is a commit of one request, or leaves the items alone.           *)
LEMMA Steps ==
    ASSUME IInv, [Next]_vars
    PROVE  \/ \E r \in Requests :
                 /\ Commits(r)
                 /\ inflight'[r] = Idle
                 /\ \A s \in Requests \ {r} : inflight'[s] = inflight[s]
           \/ /\ items' = items
              /\ \A r \in Requests :
                     inflight'[r] # inflight[r] => inflight[r].kind # "reorder"
<1> DEFINE Goes(r) == /\ inflight'[r] = Idle
                      /\ \A s \in Requests \ {r} : inflight'[s] = inflight[s]
           Keeps == /\ items' = items
                    /\ \A r \in Requests :
                           inflight'[r] # inflight[r] => inflight[r].kind # "reorder"
<1>1. ASSUME NEW details \in Details, CreateCollection(details)
      PROVE  Keeps
  BY <1>1 DEF CreateCollection
<1>2. ASSUME NEW r \in Requests, Calls(r)
      PROVE  Keeps
  <2>1. \E w : Begin(r, w)
    BY <1>2 DEF Calls, UpdateCollection, DeleteCollection, AddItem, RemoveItem,
                UpdateItem, ReorderItems
  <2> QED BY <2>1, IdleWritesNothing DEF Begin, IInv, TypeOK
<1>3. ASSUME NEW r \in Requests, LoadItems(r)
      PROVE  Keeps
  <2>1. items' = items /\ inflight[r].kind = "order"
    BY <1>3 DEF LoadItems
  <2>2. \A s \in Requests \ {r} : inflight'[s] = inflight[s]
    BY <1>3 DEF LoadItems, End, IInv, TypeOK
  <2> QED BY <2>1, <2>2
<1>4. ASSUME NEW r \in Requests, Commits(r)
      PROVE  Goes(r)
  <2>1. End(r)
    BY <1>4 DEF Commits, CommitReorder, CommitAdd, CommitEdit, CommitRemove,
                CommitDrop, CommitDetails, Fails
  <2> QED BY <2>1 DEF End, IInv, TypeOK
<1>5. CASE UNCHANGED vars
  BY <1>5 DEF vars
<1> QED BY <1>1, <1>2, <1>3, <1>4, <1>5 DEF Next

LEMMA ReorderSteps == IInv /\ [Next]_vars => ReorderedAsAskedStep
<1> SUFFICES ASSUME IInv, [Next]_vars, NEW r \in Requests \ raced,
                    inflight[r].kind = "reorder", inflight'[r] # inflight[r]
             PROVE  \/ items' = items /\ Named(inflight[r].order) \ Placed # {}
                    \/ \A i \in Placed' : /\ i \in Named(inflight[r].order)
                                          /\ items'[i] = inflight[r].order[i]
  BY DEF ReorderedAsAskedStep
<1>1. Commits(r)
  BY Steps
<1>2. CASE CommitReorder(r)
  BY <1>2, ReorderCommits
<1>3. CASE Fails(r)
  BY <1>3 DEF Fails, Moved
<1> QED BY <1>1, <1>2, <1>3
        DEF Commits, CommitAdd, CommitEdit, CommitRemove, CommitDrop, CommitDetails

(* Every reorder that ran alone leaves the order it was asked for.         *)
THEOREM Reordered == Spec => ReorderedAsAsked
<1> QED BY InitInv, NextInv, ReorderSteps, PTL DEF Spec, ReorderedAsAsked

LEMMA OrderSteps == IInv /\ [Next]_vars => KeepsOrderStep
<1> SUFFICES ASSUME IInv, [Next]_vars, ~muddled, ~muddled',
                    ~ \E r \in Requests :
                          inflight[r].kind = "reorder" /\ inflight'[r] = Idle,
                    NEW i \in ItemIds, NEW j \in ItemIds, i \in Placed, i \in Placed'
             PROVE  /\ j \in Placed /\ j \in Placed' =>
                           (items'[i] < items'[j] <=> items[i] < items[j])
                    /\ j \in Placed' /\ j \notin Placed => items'[i] < items'[j]
  BY DEF KeepsOrderStep
<1>1. CASE items' = items
  BY <1>1 DEF Placed
<1>2. ASSUME NEW r \in Requests, Commits(r), inflight'[r] = Idle
      PROVE  /\ j \in Placed /\ j \in Placed' =>
                    (items'[i] < items'[j] <=> items[i] < items[j])
             /\ j \in Placed' /\ j \notin Placed => items'[i] < items'[j]
  <2>1. CASE CommitReorder(r)
    BY <1>2, <2>1 DEF CommitReorder
  <2>2. CASE CommitAdd(r)
    <3>1. r \notin raced
      BY <2>2 DEF CommitAdd
    <3> QED BY <2>2, <3>1, AddCommits
  <2>3. CASE CommitEdit(r)
    BY <1>1, <2>3, EditCommits
  <2>4. CASE CommitRemove(r) \/ CommitDetails(r) \/ CommitDrop(r) \/ Fails(r)
    BY <2>4, OthersLetGo DEF OnlyGo
  <2> QED BY <1>2, <2>1, <2>2, <2>3, <2>4 DEF Commits
<1> QED BY <1>1, <1>2, Steps

(* Only a reorder changes the order of the items while it is not muddled,  *)
(* and an item is added behind the others.                                 *)
THEOREM OrderKept == Spec => KeepsOrder
<1> QED BY InitInv, NextInv, OrderSteps, PTL DEF Spec, KeepsOrder
=============================================================================
