---------------------------- MODULE CatalogProofs -----------------------------
(***************************************************************************)
(* What holds of the catalog for any number of rows, columns and requests. *)
(* Of versions: the numbers of edits that changed something follow their   *)
(* order, the last version is the row unless edits overlapped or nobody    *)
(* was listening, and a metadata refresh leaves alone what it found        *)
(* filled.  Of merges: an undisturbed one goes through, and none loses     *)
(* what was on its source.  Of imports: none makes a book twice or by      *)
(* half.  Each part has an inductive invariant of its own.                 *)
(***************************************************************************)
EXTENDS CatalogData, TLAPS

(* Of the numbers of an entity, one is the greatest.                       *)
Bounded ==
    \A e \in Entities :
        \E m \in {0} \cup Numbers(e) : \A n \in {0} \cup Numbers(e) : n <= m

Updating(r) == edits[r].at = "flushed" /\ Updates(edits[r])

(* The row lock lets one through at a time.                                *)
Exclusive ==
    \A r, s \in Editors : Updating(r) /\ Updating(s) /\ edits[r].id = edits[s].id => r = s

(* An edit that holds the lock has its row, and, when it is recorded, a    *)
(* number above those of earlier ones.                                     *)
Above(r) ==
    Updating(r) =>
        /\ edits[r].id \in DOMAIN entities
        /\ ~edits[r].refresh => \A i \in DOMAIN versions[edits[r].id] :
               versions[edits[r].id][i].updates
               => versions[edits[r].id][i].number < edits[r].number

(* A copy that nobody has outdated is the row, while there is one.         *)
Fresh(r) ==
    edits[r] # Idle /\ ~edits[r].stale /\ edits[r].id \in DOMAIN entities
        => entities[edits[r].id] = edits[r].copy

(* What a refresh is about to write keeps what it found.                   *)
Respectful(r) ==
    edits[r].at = "flushed" /\ edits[r].refresh =>
        \A c \in Columns : edits[r].copy[c] # {} => edits[r].edited[c] = edits[r].copy[c]

TypeInv ==
    /\ DOMAIN entities \subseteq Entities
    /\ entities \in [DOMAIN entities -> Entity]
    /\ versions \in [Entities -> Seq(Version)]
    /\ missed \subseteq DOMAIN entities
    /\ edits \in [Editors -> Work \cup {Idle}]

IInv ==
    /\ TypeInv
    /\ Bounded
    /\ Exclusive
    /\ \A r \in Editors : Above(r) /\ Fresh(r) /\ Respectful(r)
    /\ NumbersInOrder
    /\ LatestIsCurrent

-----------------------------------------------------------------------------
(* The fields of an edit on hand.                                          *)
LEMMA WorkFields ==
    ASSUME NEW w \in Work
    PROVE  /\ w # Idle
           /\ w.at \in {"read", "flushed"}
           /\ w.refresh \in BOOLEAN /\ w.stale \in BOOLEAN
           /\ w.id \in Entities /\ w.copy \in Entity /\ w.edited \in Entity
           /\ w.at = "flushed" => w.number \in Nat
  BY DEF Work, Idle

LEMMA IdleFields == Idle.at = "idle"
  BY DEF Idle

LEMMA InitInv == Init => IInv
  BY IdleFields DEF Init, IInv, TypeInv, Bounded, Exclusive, Above, Fresh, Respectful,
                    Updating, NumbersInOrder, LatestIsCurrent, Entity, Numbers

-----------------------------------------------------------------------------
LEMMA CreateInv ==
    ASSUME IInv, NEW e \in Entities, NEW columns \in Entity, NEW recorded \in BOOLEAN,
           Create(e, columns, recorded)
    PROVE  IInv'
  <1> DEFINE first == [number |-> 1, snapshot |-> columns, updates |-> TRUE, stale |-> FALSE]
  <1>1. first \in Version
    BY DEF Version
  <1>2. /\ versions[e] = << >> /\ edits' = edits
        /\ DOMAIN entities' = DOMAIN entities \cup {e}
        /\ entities'[e] = columns
        /\ \A d \in DOMAIN entities : d # e => entities'[d] = entities[d]
    BY DEF Create
  <1>3. <<first>> \in Seq(Version) /\ Len(<<first>>) = 1 /\ <<first>>[1] = first
    BY <1>1
  <1>4. /\ \/ versions'[e] = <<first>> /\ missed' = missed
           \/ versions'[e] = << >> /\ missed' = missed \cup {e}
        /\ versions' \in [Entities -> Seq(Version)]
        /\ \A d \in Entities : d # e => versions'[d] = versions[d]
    BY <1>2, <1>3 DEF Create, IInv, TypeInv
  <1>5. e \notin DOMAIN entities /\ \A r \in Editors : edits[r] # Idle => edits[r].id # e
    BY DEF Create, Exists
  <1>6. TypeInv'
    <2>1. entities' \in [DOMAIN entities' -> Entity]
      BY <1>2 DEF Create, IInv, TypeInv
    <2> QED  BY <1>2, <1>4, <2>1 DEF IInv, TypeInv
  <1>7. Bounded'
    <2>1. Numbers(e)' = {1} \/ Numbers(e)' = {}
      BY <1>3, <1>4 DEF Numbers
    <2>2. \A d \in Entities : d # e => Numbers(d)' = Numbers(d)
      BY <1>4 DEF Numbers
    <2>3. \E m \in {0} \cup Numbers(e)' : \A n \in {0} \cup Numbers(e)' : n <= m
      BY <2>1
    <2> QED  BY <2>2, <2>3 DEF IInv, Bounded
  <1>8. Exclusive'
    BY <1>2 DEF IInv, Exclusive, Updating
  <1>9. ASSUME NEW r \in Editors PROVE Above(r)' /\ Fresh(r)' /\ Respectful(r)'
    <2>1. edits[r] # Idle => versions'[edits[r].id] = versions[edits[r].id]
      BY <1>4, <1>5, WorkFields DEF IInv, TypeInv
    <2>2. edits[r].at = "flushed" => edits[r] # Idle
      BY IdleFields
    <2> QED  BY <1>2, <1>5, <2>1, <2>2 DEF IInv, Above, Fresh, Respectful, Updating
  <1>10. NumbersInOrder'
    BY <1>3, <1>4 DEF IInv, NumbersInOrder
  <1>11. LatestIsCurrent'
    <2> SUFFICES ASSUME NEW d \in DOMAIN entities' \ missed'
                 PROVE  /\ versions'[d] # << >>
                        /\ \/ versions'[d][Len(versions'[d])].stale
                           \/ versions'[d][Len(versions'[d])].snapshot = entities'[d]
      BY DEF LatestIsCurrent
    <2>1. CASE d = e
      <3>1. versions'[e] = <<first>>
        BY <1>4, <2>1
      <3> QED  BY <1>2, <1>3, <2>1, <3>1
    <2>2. CASE d # e
      <3>1. d \in DOMAIN entities \ missed /\ d \in Entities
        BY <1>2, <1>4, <2>2 DEF IInv, TypeInv
      <3> QED  BY <1>2, <1>4, <2>2, <3>1 DEF IInv, LatestIsCurrent
    <2> QED  BY <2>1, <2>2
  <1> QED  BY <1>6, <1>7, <1>8, <1>9, <1>10, <1>11 DEF IInv

-----------------------------------------------------------------------------
(* A step that changes one editor's record only.                           *)
LEMMA RecordInv ==
    ASSUME IInv, NEW r \in Editors, NEW w \in Work \cup {Idle},
           edits' = [edits EXCEPT ![r] = w], UNCHANGED <<entities, versions, missed>>,
           Exclusive', Above(r)', Fresh(r)', Respectful(r)'
    PROVE  IInv'
  <1>1. \A s \in Editors : edits'[s] = IF s = r THEN w ELSE edits[s]
    BY DEF IInv, TypeInv
  <1>2. edits' \in [Editors -> Work \cup {Idle}]
    BY DEF IInv, TypeInv
  <1>3. \A s \in Editors : s # r => Above(s)' /\ Fresh(s)' /\ Respectful(s)'
    BY <1>1 DEF IInv, Above, Fresh, Respectful, Updating
  <1>4. Bounded'
    BY DEF IInv, Bounded, Numbers
  <1> QED
    BY <1>2, <1>3, <1>4 DEF IInv, TypeInv, NumbersInOrder, LatestIsCurrent

LEMMA ReadInv ==
    ASSUME IInv, NEW r \in Editors, NEW e \in Entities, NEW edited \in Entity,
           NEW refresh \in BOOLEAN, Read(r, e, edited, refresh)
    PROVE  IInv'
  <1> DEFINE w == [at |-> "read", refresh |-> refresh, id |-> e, copy |-> entities[e],
                   edited |-> edited, stale |-> FALSE]
  <1>1. e \in DOMAIN entities /\ entities[e] \in Entity
    BY DEF Read, Exists, IInv, TypeInv
  <1>2. w \in Work
    BY <1>1 DEF Work
  <1>4. /\ edits' = [edits EXCEPT ![r] = w] /\ UNCHANGED <<entities, versions, missed>>
        /\ \A s \in Editors : edits'[s] = IF s = r THEN w ELSE edits[s]
    BY DEF Read, IInv, TypeInv
  <1>5. Exclusive'
    BY <1>4 DEF IInv, Exclusive, Updating
  <1>6. Above(r)' /\ Fresh(r)' /\ Respectful(r)'
    BY <1>4 DEF Above, Fresh, Respectful, Updating
  <1> QED  BY <1>2, <1>4, <1>5, <1>6, RecordInv

(* The number an edit gets is above all there are.                         *)
LEMMA MaxAbove ==
    ASSUME IInv, NEW e \in Entities
    PROVE  /\ 1 + Max({0} \cup Numbers(e)) \in Nat
           /\ \A i \in DOMAIN versions[e] :
                  versions[e][i].number < 1 + Max({0} \cup Numbers(e))
  <1> DEFINE all == {0} \cup Numbers(e)
  <1>1. \A i \in DOMAIN versions[e] : versions[e][i].number \in Nat
    <2>1. versions[e] \in Seq(Version)
      BY DEF IInv, TypeInv
    <2>2. \A i \in DOMAIN versions[e] : versions[e][i] \in Version
      BY <2>1
    <2> QED  BY <2>2 DEF Version
  <1>2. PICK m \in all : \A n \in all : n <= m
    BY DEF IInv, Bounded
  <1>3. all \subseteq Nat /\ \A i \in DOMAIN versions[e] : versions[e][i].number \in all
    BY <1>1 DEF Numbers
  <1> HIDE DEF all
  <1>4. Max(all) \in all /\ \A n \in all : Max(all) >= n
    BY <1>2, <1>3 DEF Max
  <1> DEFINE greatest == Max(all)
  <1>5. greatest \in Nat /\ \A i \in DOMAIN versions[e] : versions[e][i].number <= greatest
    BY <1>1, <1>3, <1>4
  <1> HIDE DEF greatest
  <1>6. 1 + greatest \in Nat /\ \A i \in DOMAIN versions[e] : versions[e][i].number < 1 + greatest
    BY <1>1, <1>5
  <1> QED  BY <1>6 DEF greatest, all

LEMMA FlushInv ==
    ASSUME IInv, NEW r \in Editors, NEW edited \in Entity, NEW number \in Nat,
           edits[r].at = "read", Flush(r, edited, number),
           ~edits[r].refresh => \A i \in DOMAIN versions[edits[r].id] :
               versions[edits[r].id][i].number < number,
           edits[r].refresh =>
               \A c \in Columns : edits[r].copy[c] # {} => edited[c] = edits[r].copy[c]
    PROVE  IInv'
  <1>1. PICK v \in Work : v = edits[r]
    BY IdleFields DEF IInv, TypeInv
  <1> DEFINE w == [at |-> "flushed", refresh |-> v.refresh, id |-> v.id, copy |-> v.copy,
                   edited |-> edited, stale |-> v.stale, number |-> number]
  <1>2. v \in [at : {"read"}, refresh : BOOLEAN, id : Entities, copy : Entity,
               edited : Entity, stale : BOOLEAN]
    BY <1>1 DEF Work
  <1>4. w \in Work
    BY <1>2 DEF Work
  <1>5. /\ edits' = [edits EXCEPT ![r] = w] /\ UNCHANGED <<entities, versions, missed>>
        /\ \A s \in Editors : edits'[s] = IF s = r THEN w ELSE edits[s]
    BY <1>1, <1>2 DEF Flush, IInv, TypeInv
  <1>6. Updates(w) => \A s \in Editors \ {r} : ~(Updating(s) /\ edits[s].id = v.id)
    <2>1. Updates([v EXCEPT !.edited = edited]) <=> Updates(w)
      BY <1>2 DEF Updates, Changed
    <2>2. [v EXCEPT !.edited = edited].id = v.id
      BY <1>2
    <2> QED  BY <1>1, <2>1, <2>2 DEF Flush, Locked, Holds, Updating
  <1>7. Exclusive'
    <2> SUFFICES ASSUME NEW s \in Editors, NEW t \in Editors, Updating(s)', Updating(t)',
                        (edits[s].id)' = (edits[t].id)'
                 PROVE  s = t
      BY DEF Exclusive
    <2> QED  BY <1>5, <1>6 DEF IInv, Exclusive, Updating
  <1>8. Above(r)'
    <2>1. Updates(w) => v.id \in DOMAIN entities
      <3>1. Updates([v EXCEPT !.edited = edited]) <=> Updates(w)
        BY <1>2 DEF Updates, Changed
      <3>2. [v EXCEPT !.edited = edited].id = v.id
        BY <1>2
      <3> QED  BY <1>1, <3>1, <3>2 DEF Flush, Exists
    <2> QED  BY <1>1, <1>5, <2>1 DEF Above, Updating
  <1>9. Fresh(r)'
    <2>1. edits[r] # Idle
      BY IdleFields
    <2> QED  BY <1>1, <1>5, <2>1 DEF IInv, Fresh
  <1>10. Respectful(r)'
    BY <1>1, <1>5 DEF Respectful
  <1> QED  BY <1>4, <1>5, <1>7, <1>8, <1>9, <1>10, RecordInv

LEMMA FailsInv ==
    ASSUME IInv, NEW r \in Editors, Fails(r)
    PROVE  IInv'
  <1>1. /\ edits' = [edits EXCEPT ![r] = Idle] /\ UNCHANGED <<entities, versions, missed>>
        /\ \A s \in Editors : edits'[s] = IF s = r THEN Idle ELSE edits[s]
    BY DEF Fails, IInv, TypeInv
  <1>2. Exclusive' /\ Above(r)' /\ Fresh(r)' /\ Respectful(r)'
    BY <1>1, IdleFields DEF IInv, Exclusive, Above, Fresh, Respectful, Updating
  <1> QED  BY <1>1, <1>2, RecordInv

LEMMA DeleteInv ==
    ASSUME IInv, NEW e \in Entities, Delete(e)
    PROVE  IInv'
  <1>1. /\ DOMAIN entities' = DOMAIN entities \ {e}
        /\ \A d \in DOMAIN entities' : entities'[d] = entities[d]
        /\ entities' \in [DOMAIN entities' -> Entity]
        /\ missed' = missed \ {e}
        /\ UNCHANGED <<versions, edits>>
    BY DEF Delete, IInv, TypeInv
  <1>2. \A r \in Editors : Updating(r) => edits[r].id # e
    BY DEF Delete, Holds, Updating
  <1>3. TypeInv'
    BY <1>1 DEF IInv, TypeInv
  <1>4. Bounded'
    <2>1. \A d \in Entities : Numbers(d)' = Numbers(d)
      BY <1>1 DEF Numbers
    <2> QED  BY <2>1 DEF IInv, Bounded
  <1>5. Exclusive' /\ NumbersInOrder'
    BY <1>1 DEF IInv, Exclusive, Updating, NumbersInOrder
  <1>6. LatestIsCurrent'
    BY <1>1 DEF IInv, LatestIsCurrent
  <1>7. ASSUME NEW r \in Editors PROVE Above(r)' /\ Fresh(r)' /\ Respectful(r)'
    BY <1>1, <1>2 DEF IInv, Above, Fresh, Respectful, Updating
  <1> QED  BY <1>3, <1>4, <1>5, <1>6, <1>7 DEF IInv

-----------------------------------------------------------------------------
(* What a commit, recorded or not, does to the row and to others' copies.  *)
LEMMA SaveFacts ==
    ASSUME IInv, NEW r \in Editors, NEW w \in Work, w = edits[r], Save(r)
    PROVE  /\ DOMAIN entities' = DOMAIN entities
           /\ entities' \in [DOMAIN entities' -> Entity]
           /\ \A e \in DOMAIN entities : e # w.id => entities'[e] = entities[e]
           /\ ~w.stale /\ w.id \in DOMAIN entities => entities'[w.id] = w.edited
           /\ edits' \in [Editors -> Work \cup {Idle}]
           /\ \A s \in Editors : Updating(s)' =>
                  /\ Updating(s) /\ s # r /\ edits[s].id \in Entities
                  /\ edits'[s].id = edits[s].id /\ edits'[s].number = edits[s].number
                  /\ edits'[s].refresh = edits[s].refresh
           /\ \A s \in Editors : Fresh(s)' /\ Respectful(s)'
  <1> DEFINE Outdated(v) == [v EXCEPT !.stale = TRUE]
             row == [c \in Columns |-> IF c \in Sent(w) THEN w.edited[c] ELSE entities[w.id][c]]
  <1>1. /\ w.at = "flushed" /\ w.id \in Entities /\ w.number \in Nat
        /\ w.edited \in Entity /\ w.copy \in Entity /\ w.stale \in BOOLEAN
    BY WorkFields DEF Save
  <1>2. /\ DOMAIN entities' = DOMAIN entities
        /\ \A e \in DOMAIN entities : entities'[e] = IF e = w.id THEN row ELSE entities[e]
        /\ entities' = [e \in DOMAIN entities |-> IF e = w.id THEN row ELSE entities[e]]
    BY DEF Save
  <1>3. edits' = [s \in Editors |->
            IF s = r THEN Idle
            ELSE IF edits[s] # Idle /\ edits[s].id = w.id /\ Updates(w)
            THEN Outdated(edits[s]) ELSE edits[s]]
    BY DEF Save
  <1>4. ASSUME NEW v \in Work
        PROVE  /\ Outdated(v) \in Work
               /\ Outdated(v).at = v.at /\ Outdated(v).refresh = v.refresh
               /\ Outdated(v).id = v.id /\ Outdated(v).copy = v.copy
               /\ Outdated(v).edited = v.edited /\ Outdated(v).stale = TRUE
               /\ v.at = "flushed" => Outdated(v).number = v.number
    <2>1. \/ v \in [at : {"read"}, refresh : BOOLEAN, id : Entities, copy : Entity,
                    edited : Entity, stale : BOOLEAN]
          \/ v \in [at : {"flushed"}, refresh : BOOLEAN, id : Entities, copy : Entity,
                    edited : Entity, stale : BOOLEAN, number : Nat]
      BY DEF Work
    <2> QED  BY <2>1 DEF Work
  <1> HIDE DEF Outdated
  <1>5. edits' \in [Editors -> Work \cup {Idle}]
    <2>1. \A s \in Editors : edits[s] # Idle => edits[s] \in Work
      BY DEF IInv, TypeInv
    <2> QED  BY <1>3, <1>4, <2>1
  (* An edit that is still in flight is what it was but for its staleness. *)
  <1>6. ASSUME NEW s \in Editors, edits'[s] # Idle
        PROVE  /\ s # r /\ edits[s] # Idle /\ edits[s] \in Work
               /\ edits'[s].at = edits[s].at /\ edits'[s].refresh = edits[s].refresh
               /\ edits'[s].id = edits[s].id /\ edits'[s].copy = edits[s].copy
               /\ edits'[s].edited = edits[s].edited
               /\ edits[s].at = "flushed" => edits'[s].number = edits[s].number
               /\ edits'[s].stale \in {edits[s].stale, TRUE}
               /\ edits[s].id = w.id /\ Updates(w) => edits'[s].stale
    <2>1. s # r /\ edits[s] # Idle /\ edits[s] \in Work
      BY <1>3, <1>6 DEF IInv, TypeInv
    <2> QED  BY <1>3, <1>4, <2>1
  <1>7. ASSUME NEW s \in Editors, Updating(s)'
        PROVE  /\ Updating(s) /\ s # r /\ edits[s].id \in Entities
               /\ edits'[s].id = edits[s].id /\ edits'[s].number = edits[s].number
               /\ edits'[s].refresh = edits[s].refresh
    <2>1. edits'[s] # Idle
      BY <1>7, IdleFields DEF Updating
    <2>2. Updates(edits'[s]) <=> Updates(edits[s])
      <3>1. ASSUME NEW u, NEW v, u.refresh = v.refresh, u.copy = v.copy, u.edited = v.edited
            PROVE  Updates(u) <=> Updates(v)
        <4>1. Changed(u) = Changed(v)
          BY <3>1 DEF Changed
        <4> QED  BY <3>1, <4>1 DEF Updates
      <3>2. /\ edits'[s].refresh = edits[s].refresh /\ edits'[s].copy = edits[s].copy
            /\ edits'[s].edited = edits[s].edited
        BY <1>6, <2>1
      <3> QED  BY <3>1, <3>2, Zenon
    <2> QED  BY <1>6, <1>7, <2>1, <2>2, WorkFields DEF Updating
  <1> HIDE DEF row
  <1>8. entities' \in [DOMAIN entities' -> Entity]
    <2>1. w.id \in DOMAIN entities => row \in Entity
      <3> SUFFICES ASSUME w.id \in DOMAIN entities PROVE row \in Entity
        OBVIOUS
      <3>1. entities[w.id] \in Entity
        BY DEF IInv, TypeInv
      <3> QED  BY <1>1, <3>1 DEF row, Entity
    <2> QED  BY <1>2, <2>1 DEF IInv, TypeInv
  <1>9. ~Updates(w) => entities' = entities
    <2> SUFFICES ASSUME ~Updates(w) PROVE entities' = entities
      OBVIOUS
    <2>1. Sent(w) = {}
      BY DEF Updates, Sent
    <2>2. w.id \in DOMAIN entities => row = entities[w.id]
      BY <2>1 DEF row, IInv, TypeInv, Entity
    <2> QED  BY <1>2, <2>2 DEF IInv, TypeInv
  <1>10. ASSUME NEW s \in Editors PROVE Fresh(s)' /\ Respectful(s)'
    <2>1. CASE edits'[s] = Idle
      BY <2>1, IdleFields DEF Fresh, Respectful
    <2>2. CASE edits'[s] # Idle
      <3>1. Respectful(s)'
        BY <1>6, <2>2 DEF IInv, Respectful
      <3>2. CASE edits[s].id = w.id /\ Updates(w)
        BY <1>6, <2>2, <3>1, <3>2 DEF Fresh
      <3>3. CASE ~(edits[s].id = w.id /\ Updates(w))
        <4>1. edits[s].id \in DOMAIN entities =>
                  entities'[edits[s].id] = entities[edits[s].id]
          BY <1>2, <1>9, <3>3
        <4> QED  BY <1>2, <1>6, <2>2, <3>1, <4>1 DEF IInv, Fresh
      <3> QED  BY <3>2, <3>3
    <2> QED  BY <2>1, <2>2
  <1>11. ~w.stale /\ w.id \in DOMAIN entities => entities'[w.id] = w.edited
    <2> SUFFICES ASSUME ~w.stale, w.id \in DOMAIN entities PROVE row = w.edited
      BY <1>2
    <2>1. entities[w.id] = w.copy
      BY WorkFields DEF IInv, Fresh
    <2> QED  BY <1>1, <2>1 DEF row, Sent, Changed, Entity
  <1> QED  BY <1>2, <1>5, <1>7, <1>8, <1>10, <1>11

LEMMA CommitUpdateInv ==
    ASSUME IInv, NEW r \in Editors, CommitUpdate(r)
    PROVE  IInv'
  <1>1. PICK w \in Work : w = edits[r]
    BY IdleFields DEF CommitUpdate, Save, IInv, TypeInv
  <1> DEFINE last == [number |-> w.number, snapshot |-> w.edited, updates |-> Updates(w),
                      stale |-> w.stale]
  <1>2. /\ w.at = "flushed" /\ w.id \in Entities /\ w.number \in Nat
        /\ w.edited \in Entity /\ w.stale \in BOOLEAN /\ ~w.refresh
    BY <1>1, WorkFields DEF CommitUpdate, Save
  <1>3. last \in Version
    BY <1>2 DEF Version, Updates
  <1>4. /\ versions' = [versions EXCEPT ![w.id] = Append(versions[w.id], last)]
        /\ missed' = missed \ {w.id}
    BY <1>1 DEF CommitUpdate
  <1>5. Save(r)
    BY DEF CommitUpdate
  <1>6. Updates(w) => Updating(r)
    BY <1>1, <1>2 DEF Updating
  <1>7. versions[w.id] \in Seq(Version)
    BY <1>2 DEF IInv, TypeInv
  <1>8. /\ versions'[w.id] = Append(versions[w.id], last)
        /\ \A e \in Entities : e # w.id => versions'[e] = versions[e]
    <2> HIDE DEF last
    <2> QED  BY <1>2, <1>4 DEF IInv, TypeInv
  <1> DEFINE n == Len(versions[w.id])
  <1>9. /\ n \in Nat /\ DOMAIN versions[w.id] = 1..n
        /\ DOMAIN versions'[w.id] = 1..(n + 1) /\ Len(versions'[w.id]) = n + 1
        /\ versions'[w.id][n + 1] = last
        /\ \A i \in 1..n : versions'[w.id][i] = versions[w.id][i]
    BY <1>3, <1>7, <1>8
  <1> HIDE DEF last, n
  <1>10. TypeInv'
    <2>1. Append(versions[w.id], last) \in Seq(Version)
      BY <1>3, <1>7
    <2>2. versions' \in [Entities -> Seq(Version)]
      BY <1>4, <2>1 DEF IInv, TypeInv
    <2> QED  BY <1>1, <1>4, <1>5, <2>2, SaveFacts DEF IInv, TypeInv
  <1>11. Bounded'
    <2>1. \A e \in Entities : e # w.id => Numbers(e)' = Numbers(e)
      BY <1>8 DEF Numbers
    <2>2. Numbers(w.id)' = Numbers(w.id) \cup {w.number}
      <3>1. {versions'[w.id][i].number : i \in 1..(n + 1)}
            = {versions[w.id][i].number : i \in 1..n} \cup {w.number}
        BY <1>9 DEF last
      <3> QED  BY <1>9, <3>1 DEF Numbers
    <2>3. PICK m \in {0} \cup Numbers(w.id) : \A k \in {0} \cup Numbers(w.id) : k <= m
      BY <1>2 DEF IInv, Bounded
    <2>4. Numbers(w.id) \subseteq Nat
      <3>1. \A i \in DOMAIN versions[w.id] : versions[w.id][i] \in Version
        BY <1>7
      <3> QED  BY <3>1 DEF Numbers, Version
    <2>5. \E k \in {0} \cup Numbers(w.id)' : \A j \in {0} \cup Numbers(w.id)' : j <= k
      <3>1. CASE w.number <= m
        BY <2>2, <2>3, <3>1
      <3>2. CASE ~(w.number <= m)
        BY <1>2, <2>2, <2>3, <2>4, <3>2
      <3> QED  BY <3>1, <3>2
    <2> QED  BY <2>1, <2>5 DEF IInv, Bounded
  <1>12. Exclusive'
    BY <1>1, <1>5, SaveFacts DEF IInv, Exclusive
  <1>13. ASSUME NEW s \in Editors PROVE Above(s)'
    <2> SUFFICES ASSUME Updating(s)' PROVE
            /\ edits'[s].id \in DOMAIN entities'
            /\ ~edits'[s].refresh => \A i \in DOMAIN versions'[edits'[s].id] :
                   versions'[edits'[s].id][i].updates
                   => versions'[edits'[s].id][i].number < edits'[s].number
      BY DEF Above
    <2>1. /\ Updating(s) /\ s # r /\ edits'[s].id = edits[s].id
          /\ edits'[s].number = edits[s].number /\ edits[s].id \in Entities
          /\ edits'[s].refresh = edits[s].refresh
      BY <1>1, <1>5, SaveFacts
    <2>2. edits'[s].id \in DOMAIN entities'
      BY <1>1, <1>5, <2>1, SaveFacts DEF IInv, Above
    <2>3. CASE edits[s].id # w.id
      BY <1>8, <2>1, <2>2, <2>3 DEF IInv, Above
    <2>4. CASE edits[s].id = w.id
      <3>1. ~last.updates
        BY <1>1, <1>6, <2>1, <2>4 DEF IInv, Exclusive, last
      <3>2. ~edits[s].refresh => \A i \in 1..n : versions[w.id][i].updates
                           => versions[w.id][i].number < edits[s].number
        BY <1>9, <2>1, <2>4 DEF IInv, Above
      <3>3. DOMAIN versions'[w.id] = 1..(n + 1)
        BY <1>9
      <3>4. ASSUME ~edits[s].refresh, NEW i \in 1..(n + 1), versions'[w.id][i].updates
            PROVE  versions'[w.id][i].number < edits[s].number
        <4>1. i \in 1..n
          BY <1>9, <3>1, <3>4
        <4> QED  BY <1>9, <3>2, <3>4, <4>1
      <3> QED  BY <2>1, <2>2, <2>4, <3>3, <3>4
    <2> QED  BY <2>3, <2>4
  <1>14. NumbersInOrder'
    <2> SUFFICES ASSUME NEW e \in Entities, NEW i \in DOMAIN versions'[e],
                        NEW j \in DOMAIN versions'[e], i < j,
                        versions'[e][i].updates, versions'[e][j].updates
                 PROVE  versions'[e][i].number < versions'[e][j].number
      BY DEF NumbersInOrder
    <2>1. CASE e # w.id
      BY <1>8, <2>1 DEF IInv, NumbersInOrder
    <2>2. CASE e = w.id /\ j # n + 1
      <3>1. i \in 1..n /\ j \in 1..n
        BY <1>9, <2>2
      <3> QED  BY <1>9, <2>2, <3>1 DEF IInv, NumbersInOrder
    <2>3. CASE e = w.id /\ j = n + 1
      <3>1. i \in 1..n
        BY <1>9, <2>3
      <3>2. Updating(r)
        BY <1>6, <1>9, <2>3 DEF last
      <3>3. versions[w.id][i].updates => versions[w.id][i].number < w.number
        BY <1>1, <1>2, <1>9, <3>1, <3>2 DEF IInv, Above
      <3> QED  BY <1>9, <2>3, <3>1, <3>3 DEF last
    <2> QED  BY <2>1, <2>2, <2>3
  <1>15. LatestIsCurrent'
    <2> SUFFICES ASSUME NEW e \in DOMAIN entities' \ missed'
                 PROVE  /\ versions'[e] # << >>
                        /\ \/ versions'[e][Len(versions'[e])].stale
                           \/ versions'[e][Len(versions'[e])].snapshot = entities'[e]
      BY DEF LatestIsCurrent
    <2>1. e \in DOMAIN entities /\ e \in Entities
      BY <1>1, <1>5, SaveFacts DEF IInv, TypeInv
    <2>2. CASE e # w.id
      <3>1. entities'[e] = entities[e] /\ e \notin missed /\ versions'[e] = versions[e]
        BY <1>1, <1>4, <1>5, <1>8, <2>1, <2>2, SaveFacts
      <3> QED  BY <2>1, <3>1 DEF IInv, LatestIsCurrent
    <2>3. CASE e = w.id
      <3>1. versions'[e] # << >> /\ versions'[e][Len(versions'[e])] = last
        BY <1>9, <2>3
      <3>2. CASE w.stale
        BY <3>1, <3>2 DEF last
      <3>3. CASE ~w.stale
        <4>1. entities'[e] = w.edited
          BY <1>1, <1>5, <2>1, <2>3, <3>3, SaveFacts
        <4> QED  BY <3>1, <4>1 DEF last
      <3> QED  BY <3>2, <3>3
    <2> QED  BY <2>2, <2>3
  <1> QED  BY <1>1, <1>5, <1>10, <1>11, <1>12, <1>13, <1>14, <1>15, SaveFacts DEF IInv

LEMMA CommitRefreshInv ==
    ASSUME IInv, NEW r \in Editors, CommitRefresh(r)
    PROVE  IInv'
  <1>1. PICK w \in Work : w = edits[r]
    BY IdleFields DEF CommitRefresh, Save, IInv, TypeInv
  <1>2. /\ Save(r) /\ versions' = versions /\ missed' = missed \cup {w.id}
        /\ w.id \in DOMAIN entities
    BY <1>1 DEF CommitRefresh, Save, IInv, Above, Updating, Updates
  <1>3. TypeInv'
    BY <1>1, <1>2, SaveFacts DEF IInv, TypeInv
  <1>4. Bounded' /\ NumbersInOrder'
    BY <1>2 DEF IInv, Bounded, Numbers, NumbersInOrder
  <1>5. Exclusive'
    BY <1>1, <1>2, SaveFacts DEF IInv, Exclusive
  <1>6. ASSUME NEW s \in Editors PROVE Above(s)'
    BY <1>1, <1>2, SaveFacts DEF IInv, Above
  <1>7. LatestIsCurrent'
    <2>1. ASSUME NEW e \in DOMAIN entities' \ missed'
          PROVE  entities'[e] = entities[e] /\ e \in DOMAIN entities \ missed
      BY <1>1, <1>2, SaveFacts
    <2> QED  BY <1>2, <2>1 DEF IInv, LatestIsCurrent
  <1> QED  BY <1>1, <1>2, <1>3, <1>4, <1>5, <1>6, <1>7, SaveFacts DEF IInv

-----------------------------------------------------------------------------
LEMMA FilledKeeps ==
    ASSUME NEW copy \in Entity, NEW detail \in Entity
    PROVE  /\ Filled(copy, detail) \in Entity
           /\ \A c \in Columns : copy[c] # {} => Filled(copy, detail)[c] = copy[c]
  BY DEF Filled, Entity

LEMMA NextInv ==
    ASSUME IInv, [Next]_vars
    PROVE  IInv'
  <1>1. ASSUME NEW e \in Entities, NEW columns \in Entity, NEW recorded \in BOOLEAN,
               Create(e, columns, recorded)
        PROVE  IInv'
    BY <1>1, CreateInv
  <1>2. ASSUME NEW e \in Entities, NEW columns \in Entity, NEW r \in Editors,
               Update(r, e, columns)
        PROVE  IInv'
    BY <1>2, ReadInv DEF Update
  <1>3. ASSUME NEW e \in Entities, NEW r \in Editors, GetStale(r, e) PROVE IInv'
    <2>1. entities[e] \in Entity
      BY <1>3 DEF GetStale, Exists, IInv, TypeInv
    <2> QED  BY <1>3, <2>1, ReadInv DEF GetStale
  <1>4. ASSUME NEW e \in Entities, Delete(e) PROVE IInv'
    BY <1>4, DeleteInv
  <1>5. ASSUME NEW r \in Editors, FlushUpdate(r) PROVE IInv'
    <2>1. edits[r] \in Work
      BY <1>5, IdleFields DEF FlushUpdate, IInv, TypeInv
    <2>2. edits[r].edited \in Entity /\ edits[r].id \in Entities
      BY <2>1, WorkFields
    <2> DEFINE number == 1 + Max({0} \cup Numbers(edits[r].id))
    <2>3. /\ number \in Nat
          /\ \A i \in DOMAIN versions[edits[r].id] : versions[edits[r].id][i].number < number
      BY <2>2, MaxAbove
    <2>4. edits[r].at = "read" /\ ~edits[r].refresh /\ Flush(r, edits[r].edited, number)
      BY <1>5 DEF FlushUpdate
    <2> HIDE DEF number
    <2> QED  BY <2>2, <2>3, <2>4, FlushInv
  <1>6. ASSUME NEW r \in Editors, NEW detail \in Entity, FlushRefresh(r, detail) PROVE IInv'
    <2>1. edits[r] \in Work
      BY <1>6, IdleFields DEF FlushRefresh, IInv, TypeInv
    <2>2. edits[r].copy \in Entity
      BY <2>1, WorkFields
    <2>3. /\ Filled(edits[r].copy, detail) \in Entity
          /\ \A c \in Columns : edits[r].copy[c] # {}
                 => Filled(edits[r].copy, detail)[c] = edits[r].copy[c]
      BY <2>2, FilledKeeps
    <2>4. /\ edits[r].at = "read" /\ edits[r].refresh
          /\ Flush(r, Filled(edits[r].copy, detail), 0)
      BY <1>6 DEF FlushRefresh
    <2> QED  BY <2>3, <2>4, FlushInv
  <1>7. ASSUME NEW r \in Editors, CommitUpdate(r) \/ CommitRefresh(r) PROVE IInv'
    BY <1>7, CommitUpdateInv, CommitRefreshInv
  <1>8. ASSUME NEW r \in Editors, Fails(r) PROVE IInv'
    BY <1>8, FailsInv
  <1>9. CASE UNCHANGED vars
    BY <1>9 DEF vars, IInv, TypeInv, Bounded, Numbers, Exclusive, Above, Fresh, Respectful,
                Updating, NumbersInOrder, LatestIsCurrent
  <1> QED  BY <1>1, <1>2, <1>3, <1>4, <1>5, <1>6, <1>7, <1>8, <1>9 DEF Next

THEOREM Invariance == Spec => []IInv
  BY InitInv, NextInv, PTL DEF Spec

-----------------------------------------------------------------------------
(* However many edits of a row overlap, the versions of those that changed *)
(* it are numbered in the order they took effect, and the last version is  *)
(* the row as it is unless its edit overlapped another one or a process    *)
(* without listeners wrote since: the history that `_record_snapshot`      *)
(* writes, inside the transaction of the UPDATE.                           *)
THEOREM History == Spec => []VersionsInOrder
  <1>1. IInv => VersionsInOrder
    BY DEF IInv, VersionsInOrder
  <1> QED  BY <1>1, Invariance, PTL

(* A refresh writes no column it found filled: refresh_metadata_service    *)
(* fills blanks, and the flush sends only what the copy has changed.       *)
THEOREM RefreshKeeps == Spec => RefreshKeepsData
  <1>1. ASSUME IInv, [Next]_vars PROVE RefreshKeepsDataStep
    <2> SUFFICES ASSUME NEW r \in Editors, edits[r].at = "flushed", edits[r].refresh,
                        edits'[r].at = "idle", entities' # entities,
                        NEW c \in Columns, edits[r].copy[c] # {}
                 PROVE  entities'[edits[r].id][c] = entities[edits[r].id][c]
      BY DEF RefreshKeepsDataStep
    <2>1. edits[r] # Idle /\ edits'[r] # edits[r]
      BY IdleFields
    <2>2. CASE Save(r)
      <3>1. edits[r].id \in DOMAIN entities
        BY <1>1 DEF IInv, Above, Updating, Updates
      <3>2. c \notin Sent(edits[r])
        BY <1>1 DEF IInv, Respectful, Sent, Changed
      <3> QED  BY <2>2, <3>1, <3>2 DEF Save
    <2>3. ASSUME NEW s \in Editors, s # r, Save(s) PROVE FALSE
      <3>1. PICK w \in Work : w = edits[r]
        BY <1>1, <2>1 DEF IInv, TypeInv
      <3>2. [w EXCEPT !.stale = TRUE].at = "flushed"
        BY <3>1 DEF Work
      <3> QED  BY <2>1, <2>3, <3>1, <3>2, IdleFields DEF Save
    <2>4. ASSUME NEW s \in Editors, Fails(s) PROVE FALSE
      BY <2>4 DEF Fails
    <2>5. ASSUME NEW s \in Editors, NEW edited, NEW number, Flush(s, edited, number) PROVE FALSE
      BY <2>5 DEF Flush
    <2>6. ASSUME NEW s \in Editors, NEW e, NEW edited, NEW refresh, Read(s, e, edited, refresh)
          PROVE  FALSE
      BY <2>6 DEF Read
    <2>7. ASSUME NEW e \in Entities, Delete(e) PROVE FALSE
      BY <2>1, <2>7 DEF Delete
    <2>8. ASSUME NEW e \in Entities, NEW columns, NEW recorded, Create(e, columns, recorded)
          PROVE  FALSE
      BY <2>1, <2>8 DEF Create
    <2>9. CASE UNCHANGED vars
      BY <2>1, <2>9 DEF vars
    <2> QED  BY <1>1, <2>2, <2>3, <2>4, <2>5, <2>6, <2>7, <2>8, <2>9
             DEF Next, Update, GetStale, FlushUpdate, FlushRefresh, CommitUpdate, CommitRefresh
  <1> QED  BY <1>1, Invariance, PTL DEF Spec, RefreshKeepsData
-----------------------------------------------------------------------------
(* A merge moves and drops rows of its source only, which it has locked.   *)
MergeRows(r) ==
    LET w == merges[r]
    IN  /\ w.source # w.target
        /\ w.moved \cap w.dropped = {}
        /\ w.moved \cup w.dropped \subseteq Merges!On(w.source)
        /\ \A i \in w.dropped : refs[i].kind \in {"release", "credit", "review"}
        /\ w.moved # {} => w.target \in books

(* No two merges lock the same row, nor does one move rows to a book that  *)
(* another has deleted.                                                    *)
MergesApart(r, s) ==
    /\ (merges[r].moved \cup merges[r].dropped)
           \cap (merges[s].moved \cup merges[s].dropped) = {}
    /\ Merges!At(s, "commit") /\ merges[r].moved # {} =>
           merges[r].target # merges[s].source

(* What was on the source when the merge began goes nowhere else while the *)
(* source is there, and its releases are moved before anything is deleted; *)
(* once the source is deleted, nothing is left on it.                      *)
MergeComplete(r) ==
    LET w == merges[r]
    IN  /\ w.source \in books =>
               \A i \in w.seen \cap DOMAIN refs : refs[i].book = w.source
        /\ w.at = 1 => w.dropped = {}
        /\ w.at > 1 => w.seen \cap Merges!On(w.source) \cap Merges!OfKind("release")
                           \subseteq w.moved
        /\ Merges!At(r, "commit") =>
               Merges!On(w.source) \subseteq w.moved \cup w.dropped

(* A merge that nobody disturbs is the only one.  The users whose reviews  *)
(* it has dropped have reviewed the target, the others whose reviews are   *)
(* left to move have not; and each statement leaves none of its rows.      *)
MergeAlone(r) ==
    LET w == merges[r]
    IN  /\ \A s \in Requests : Merges!Merging(s) => s = r
        /\ \A i \in w.dropped \cap Merges!OfKind("review") :
               \E j \in Merges!On(w.target) \cap Merges!OfKind("review") :
                   refs[j].user = refs[i].user
        /\ w.at = 3 => \A i \in Merges!Remaining(r, "review") :
                           Merges!ReviewsOf(refs[i].user, w.target) = {}
        /\ w.at <= 3 => w.moved \cap Merges!OfKind("review") = {}
        /\ w.at > 3 => Merges!Remaining(r, "review") = {}
        /\ w.at > 4 => Merges!Remaining(r, "status") = {}
        /\ w.at > 5 => Merges!Remaining(r, "item") = {}

MergeInv ==
    /\ Merges!TypeOK
    /\ \A r \in Requests : Merges!Merging(r) =>
           /\ MergeRows(r)
           /\ MergeComplete(r)
           /\ r \notin disturbed => MergeAlone(r)
           /\ \A s \in Requests \ {r} : Merges!Merging(s) => MergesApart(r, s)

-----------------------------------------------------------------------------
LEMMA MergeWork ==
    ASSUME Merges!TypeOK, NEW r \in Requests
    PROVE  /\ Merges!Merging(r) => merges[r] \in Merges!Work
           /\ ~Merges!Merging(r) => merges[r] = Merges!Idle
           /\ Merges!Idle.at = 0 /\ Merges!Idle \notin Merges!Work
  BY DEF Merges!TypeOK, Merges!Merging, Merges!Work, Merges!Idle

(* The statements by their numbers.                                        *)
LEMMA MergeAt ==
    ASSUME Merges!TypeOK, NEW r \in Requests
    PROVE  /\ merges[r].at \in 0 .. 7
           /\ Merges!Merging(r) => merges[r].at \in 1 .. 7
           /\ Merges!At(r, "release") <=> merges[r].at = 1
           /\ Merges!At(r, "duplicates") <=> merges[r].at = 2
           /\ Merges!At(r, "review") <=> merges[r].at = 3
           /\ Merges!At(r, "status") <=> merges[r].at = 4
           /\ Merges!At(r, "item") <=> merges[r].at = 5
           /\ Merges!At(r, "source") <=> merges[r].at = 6
           /\ Merges!At(r, "commit") <=> merges[r].at = 7
  <1>1. Len(Merges!Statements) = 7
    BY DEF Merges!Statements
  <1>2. merges[r].at \in 0 .. 7
    BY <1>1, MergeWork DEF Merges!Work, Merges!Idle
  <1>3. Merges!Merging(r) <=> merges[r].at > 0
    BY DEF Merges!Merging
  <1>4. CASE merges[r].at = 0
    BY <1>3, <1>4 DEF Merges!At
  <1>5. CASE merges[r].at = 1
    BY <1>3, <1>5 DEF Merges!At, Merges!Statements
  <1>6. CASE merges[r].at = 2
    BY <1>3, <1>6 DEF Merges!At, Merges!Statements
  <1>7. CASE merges[r].at = 3
    BY <1>3, <1>7 DEF Merges!At, Merges!Statements
  <1>8. CASE merges[r].at = 4
    BY <1>3, <1>8 DEF Merges!At, Merges!Statements
  <1>9. CASE merges[r].at = 5
    BY <1>3, <1>9 DEF Merges!At, Merges!Statements
  <1>10. CASE merges[r].at = 6
    BY <1>3, <1>10 DEF Merges!At, Merges!Statements
  <1>11. CASE merges[r].at = 7
    BY <1>3, <1>11 DEF Merges!At, Merges!Statements
  <1> QED
    BY <1>2, <1>4, <1>5, <1>6, <1>7, <1>8, <1>9, <1>10, <1>11

LEMMA CommitIsLast ==
    ASSUME NEW n \in 1 .. 7
    PROVE  Merges!Statements[n] = "commit" <=> n = 7
  <1>1. n \in {1, 2, 3, 4, 5, 6, 7}
    OBVIOUS
  <1> QED  BY <1>1 DEF Merges!Statements

LEMMA MergeFields ==
    ASSUME Merges!TypeOK, NEW r \in Requests, Merges!Merging(r)
    PROVE  /\ merges[r].source \in Books /\ merges[r].target \in Books
           /\ merges[r].moved \subseteq RowIds /\ merges[r].dropped \subseteq RowIds
           /\ merges[r].seen \subseteq RowIds
  BY MergeWork DEF Merges!Work

LEMMA MergeInitInv == Merges!Init => MergeInv
  <1> SUFFICES ASSUME Merges!Init PROVE MergeInv
    OBVIOUS
  <1>1. \A r \in Requests : ~Merges!Merging(r)
    BY DEF Merges!Init, Merges!Idle, Merges!Merging
  <1>2. refs \in [DOMAIN refs -> [kind : Kinds, book : books,
                                  user : {{}} \cup {{u} : u \in Users}]]
        /\ DOMAIN refs = {}
    BY DEF Merges!Init
  <1>3. Merges!TypeOK
    BY <1>2 DEF Merges!Init, Merges!TypeOK
  <1> QED  BY <1>1, <1>3 DEF MergeInv

-----------------------------------------------------------------------------
(* The next statement of a merge moves the rows of m and drops those of d. *)
MergeGrows(r, m, d) ==
    /\ UNCHANGED <<books, refs, disturbed>>
    /\ merges' \in [Requests -> Merges!Work \cup {Merges!Idle}]
    /\ \A s \in Requests \ {r} : merges'[s] = merges[s]
    /\ merges'[r].at = merges[r].at + 1
    /\ merges'[r].source = merges[r].source
    /\ merges'[r].target = merges[r].target
    /\ merges'[r].seen = merges[r].seen
    /\ merges'[r].moved = merges[r].moved \cup m
    /\ merges'[r].dropped = merges[r].dropped \cup d

LEMMA MergeMoves ==
    ASSUME Merges!TypeOK, NEW r \in Requests, Merges!Merging(r), merges[r].at < 7,
           NEW m \in SUBSET RowIds,
           Merges!Step(r, [merges[r] EXCEPT !.moved = @ \cup m])
    PROVE  MergeGrows(r, m, {})
  <1> DEFINE w == [[merges[r] EXCEPT !.moved = @ \cup m] EXCEPT !.at = @ + 1]
  <1>1. merges' = [merges EXCEPT ![r] = w] /\ UNCHANGED <<books, refs, disturbed>>
    BY DEF Merges!Step
  <1>2. merges[r] \in Merges!Work /\ Len(Merges!Statements) = 7
    BY MergeWork DEF Merges!Statements
  <1>3. merges[r].at + 1 \in 1 .. Len(Merges!Statements)
    BY <1>2 DEF Merges!Work
  <1>4. /\ w.at = merges[r].at + 1 /\ w.source = merges[r].source
        /\ w.target = merges[r].target /\ w.seen = merges[r].seen
        /\ w.moved = merges[r].moved \cup m /\ w.dropped = merges[r].dropped
        /\ w \in Merges!Work
    BY <1>2, <1>3 DEF Merges!Work
  <1> HIDE DEF w
  <1> QED  BY <1>1, <1>4 DEF MergeGrows, Merges!TypeOK

LEMMA MergeDrops ==
    ASSUME Merges!TypeOK, NEW r \in Requests, Merges!Merging(r), merges[r].at < 7,
           NEW d \in SUBSET RowIds,
           Merges!Step(r, [merges[r] EXCEPT !.dropped = @ \cup d])
    PROVE  MergeGrows(r, {}, d)
  <1> DEFINE w == [[merges[r] EXCEPT !.dropped = @ \cup d] EXCEPT !.at = @ + 1]
  <1>1. merges' = [merges EXCEPT ![r] = w] /\ UNCHANGED <<books, refs, disturbed>>
    BY DEF Merges!Step
  <1>2. merges[r] \in Merges!Work /\ Len(Merges!Statements) = 7
    BY MergeWork DEF Merges!Statements
  <1>3. merges[r].at + 1 \in 1 .. Len(Merges!Statements)
    BY <1>2 DEF Merges!Work
  <1>4. /\ w.at = merges[r].at + 1 /\ w.source = merges[r].source
        /\ w.target = merges[r].target /\ w.seen = merges[r].seen
        /\ w.moved = merges[r].moved /\ w.dropped = merges[r].dropped \cup d
        /\ w \in Merges!Work
    BY <1>2, <1>3 DEF Merges!Work
  <1> HIDE DEF w
  <1> QED  BY <1>1, <1>4 DEF MergeGrows, Merges!TypeOK

(* What a statement has to see to for the invariant.                       *)
LEMMA MergeGrowsInv ==
    ASSUME MergeInv, NEW r \in Requests, Merges!Merging(r), merges[r].at < 7,
           NEW m \in SUBSET RowIds, NEW d \in SUBSET RowIds, MergeGrows(r, m, d),
           m \cap d = {},
           m \cup d \subseteq
               Merges!On(merges[r].source) \ (merges[r].moved \cup merges[r].dropped),
           (m \cup d) \cap Merges!Locked(Merges!Others(r)) = {},
           \A i \in d : refs[i].kind \in {"release", "credit", "review"},
           m # {} => merges[r].target \in books \ Merges!Deleted(Merges!Others(r)),
           merges[r].at = 6 => merges[r].source \notin Merges!Shared(Merges!Others(r)),
           MergeComplete(r)', r \notin disturbed => MergeAlone(r)'
    PROVE  MergeInv'
  <1>1. Merges!TypeOK /\ MergeRows(r)
    BY DEF MergeInv
  <1>2. Merges!TypeOK' /\ UNCHANGED <<books, refs, disturbed>>
    BY <1>1 DEF MergeGrows, Merges!TypeOK
  <1>3. MergeRows(r)'
    BY <1>1 DEF MergeGrows, MergeRows, Merges!On
  <1>4. ASSUME NEW s \in Requests, s # r, Merges!Merging(s)
        PROVE  /\ merges'[s] = merges[s] /\ MergeRows(s)' /\ MergeComplete(s)'
               /\ s \in disturbed
               /\ \A q \in Requests \ {s, r} :
                      Merges!Merging(q) => MergesApart(s, q)'
    <2>1. merges'[s] = merges[s]
      BY <1>4 DEF MergeGrows
    <2>2. MergeRows(s)'
      BY <1>2, <1>4, <2>1 DEF MergeInv, MergeRows, Merges!On
    <2>3. MergeComplete(s)'
      BY <1>2, <1>4, <2>1
         DEF MergeInv, MergeComplete, Merges!On, Merges!OfKind, Merges!At, Merges!Merging
    <2>4. s \in disturbed
      BY <1>4 DEF MergeInv, MergeAlone
    <2>5. ASSUME NEW q \in Requests \ {s, r}, Merges!Merging(q) PROVE MergesApart(s, q)'
      <3>1. merges'[q] = merges[q] /\ MergesApart(s, q)
        BY <1>4, <2>5 DEF MergeGrows, MergeInv
      <3> QED  BY <2>1, <3>1 DEF MergesApart, Merges!At, Merges!Merging
    <2> QED  BY <2>1, <2>2, <2>3, <2>4, <2>5
  <1>5. ASSUME NEW s \in Requests, s # r, Merges!Merging(s)
        PROVE  MergesApart(r, s)' /\ MergesApart(s, r)'
    <2>1. merges'[s] = merges[s] /\ MergesApart(r, s) /\ MergesApart(s, r)
      BY <1>4, <1>5 DEF MergeInv
    <2>2. s \in Merges!Others(r)
      BY <1>5 DEF Merges!Others
    <2>3. (m \cup d) \cap (merges[s].moved \cup merges[s].dropped) = {}
      BY <1>5, <2>2 DEF Merges!Locked, Merges!Open
    <2>4. Merges!At(s, "commit") /\ m # {} => merges[r].target # merges[s].source
      BY <1>5, <2>2 DEF Merges!Deleted, Merges!Open
    <2>5. merges[r].at = 6 /\ merges[s].moved # {} => merges[s].target # merges[r].source
      BY <1>5, <2>2 DEF Merges!Shared, Merges!Open
    <2>6. Merges!At(s, "commit")' => Merges!At(s, "commit")
      BY <2>1 DEF Merges!At, Merges!Merging
    <2>7. Merges!At(r, "commit")' => merges[r].at = 6
      <3>1. merges[r].at \in 1 .. 6 /\ merges'[r].at = merges[r].at + 1
        BY <1>1, MergeAt DEF MergeGrows
      <3> QED  BY <3>1, CommitIsLast DEF Merges!At
    <2>8. MergesApart(r, s)'
      BY <2>1, <2>3, <2>4, <2>6 DEF MergesApart, MergeGrows
    <2>9. MergesApart(s, r)'
      BY <2>1, <2>3, <2>5, <2>7 DEF MergesApart, MergeGrows
    <2> QED  BY <2>8, <2>9
  <1>6. \A s \in Requests : Merges!Merging(s)' => Merges!Merging(s)
    BY DEF MergeGrows, Merges!Merging
  <1> QED  BY <1>2, <1>3, <1>4, <1>5, <1>6 DEF MergeInv

LEMMA MergeRemaining ==
    ASSUME NEW r \in Requests, NEW m, NEW d, MergeGrows(r, m, d), NEW k
    PROVE  Merges!Remaining(r, k)' = Merges!Remaining(r, k) \ (m \cup d)
  BY DEF MergeGrows, Merges!Remaining, Merges!On, Merges!OfKind

LEMMA MergeLeft ==
    ASSUME NEW r \in Requests, NEW k \in Merges!AllKinds, NEW i,
           i \in Merges!Remaining(r, k), i \notin Merges!Cascade(r)
    PROVE  i \in Merges!LeftBehind(r)
  BY DEF Merges!LeftBehind

LEMMA MergeMoveInv ==
    ASSUME MergeInv, NEW r \in Requests,
           NEW k \in {"release", "review", "status", "item"}, Merges!MoveRows(r, k)
    PROVE  MergeInv'
  <1> DEFINE hits == Merges!Remaining(r, k)
  <1>1. Merges!TypeOK /\ Merges!Merging(r) /\ Merges!At(r, k)
    BY DEF MergeInv, Merges!MoveRows, Merges!At
  <1>2. \/ k = "release" /\ merges[r].at = 1
        \/ k = "review" /\ merges[r].at = 3
        \/ k = "status" /\ merges[r].at = 4
        \/ k = "item" /\ merges[r].at = 5
    BY <1>1, MergeAt
  <1>3. /\ hits \cap Merges!Locked(Merges!Others(r)) = {}
        /\ hits # {} => merges[r].target \in books \ Merges!Deleted(Merges!Others(r))
        /\ Merges!Step(r, [merges[r] EXCEPT !.moved = @ \cup hits])
    BY DEF Merges!MoveRows
  <1>4. /\ hits \in SUBSET RowIds
        /\ hits \subseteq
               Merges!On(merges[r].source) \ (merges[r].moved \cup merges[r].dropped)
        /\ hits \subseteq Merges!OfKind(k)
    BY <1>1 DEF Merges!Remaining, Merges!On, Merges!OfKind, Merges!TypeOK
  <1>5. MergeGrows(r, hits, {})
    BY <1>1, <1>2, <1>3, <1>4, MergeMoves
  <1>6. MergeComplete(r)'
    <2>1. MergeComplete(r)
      BY <1>1 DEF MergeInv
    <2>2. merges[r].at = 1 =>
              merges[r].seen \cap Merges!On(merges[r].source) \cap Merges!OfKind("release")
              \subseteq merges[r].moved \cup hits
      BY <1>2, <2>1 DEF MergeComplete, Merges!Remaining
    <2>3. /\ Merges!On(merges[r].source)' = Merges!On(merges[r].source)
          /\ Merges!OfKind("release")' = Merges!OfKind("release")
          /\ merges'[r].at \in 2 .. 6
      BY <1>2, <1>5 DEF MergeGrows, Merges!On, Merges!OfKind
    <2>4. ~Merges!At(r, "commit")'
      BY <2>3, CommitIsLast DEF Merges!At
    <2> QED
      BY <1>2, <1>5, <2>1, <2>2, <2>3, <2>4 DEF MergeGrows, MergeComplete
  <1>7. ASSUME r \notin disturbed PROVE MergeAlone(r)'
    <2>1. MergeAlone(r) /\ merges'[r].at = merges[r].at + 1
      BY <1>1, <1>5, <1>7 DEF MergeInv, MergeGrows
    <2>2. /\ Merges!Remaining(r, "review")' = Merges!Remaining(r, "review") \ hits
          /\ Merges!Remaining(r, "status")' = Merges!Remaining(r, "status") \ hits
          /\ Merges!Remaining(r, "item")' = Merges!Remaining(r, "item") \ hits
      BY <1>5, MergeRemaining
    <2>3. \A s \in Requests : Merges!Merging(s)' => s = r
      BY <1>5, <2>1 DEF MergeGrows, MergeAlone, Merges!Merging
    <2>4. /\ UNCHANGED refs /\ merges'[r].dropped = merges[r].dropped
          /\ merges'[r].target = merges[r].target /\ merges'[r].at # 3
          /\ merges'[r].moved = merges[r].moved \cup hits
      BY <1>2, <1>5, <2>1 DEF MergeGrows
    <2>5. \A i \in merges'[r].dropped \cap Merges!OfKind("review")' :
              \E j \in Merges!On(merges[r].target)' \cap Merges!OfKind("review")' :
                  refs'[j].user = refs'[i].user
      BY <2>1, <2>4 DEF MergeAlone, Merges!On, Merges!OfKind
    <2>6. merges'[r].at <= 3 => merges'[r].moved \cap Merges!OfKind("review")' = {}
      BY <1>2, <1>4, <2>1, <2>4 DEF MergeAlone, Merges!OfKind
    <2> QED
      BY <1>2, <2>1, <2>2, <2>3, <2>4, <2>5, <2>6 DEF MergeAlone
  <1> HIDE DEF hits
  <1> QED
    BY <1>1, <1>2, <1>3, <1>4, <1>5, <1>6, <1>7, MergeGrowsInv

LEMMA MergeDropInv ==
    ASSUME MergeInv, NEW r \in Requests, Merges!DropDuplicates(r)
    PROVE  MergeInv'
  <1> DEFINE d == Merges!Duplicates(r)
  <1>1. Merges!TypeOK /\ Merges!Merging(r) /\ merges[r].at = 2
    BY MergeAt DEF MergeInv, Merges!DropDuplicates, Merges!At
  <1>2. /\ d \cap Merges!Locked(Merges!Others(r)) = {}
        /\ Merges!Step(r, [merges[r] EXCEPT !.dropped = @ \cup d])
    BY DEF Merges!DropDuplicates
  <1>3. /\ d \in SUBSET RowIds /\ d \subseteq Merges!Remaining(r, "review")
        /\ d \subseteq
               Merges!On(merges[r].source) \ (merges[r].moved \cup merges[r].dropped)
        /\ \A i \in d : refs[i].kind \in {"release", "credit", "review"}
    BY <1>1
       DEF Merges!Duplicates, Merges!Remaining, Merges!On, Merges!OfKind, Merges!TypeOK
  <1>4. MergeGrows(r, {}, d)
    BY <1>1, <1>2, <1>3, MergeDrops
  <1>5. MergeComplete(r)'
    <2>1. MergeComplete(r)
      BY <1>1 DEF MergeInv
    <2>2. merges'[r].at = 3 /\ ~Merges!At(r, "commit")'
      BY <1>1, <1>4, CommitIsLast DEF MergeGrows, Merges!At
    <2> QED
      BY <1>1, <1>4, <2>1, <2>2
         DEF MergeGrows, MergeComplete, Merges!On, Merges!OfKind
  <1>6. ASSUME r \notin disturbed PROVE MergeAlone(r)'
    <2>1. MergeAlone(r) /\ merges'[r].at = 3
      BY <1>1, <1>4, <1>6 DEF MergeInv, MergeGrows
    <2>2. Merges!Remaining(r, "review")' = Merges!Remaining(r, "review") \ d
      BY <1>4, MergeRemaining
    <2>3. \A s \in Requests : Merges!Merging(s)' => s = r
      BY <1>4, <2>1 DEF MergeGrows, MergeAlone, Merges!Merging
    <2>4. /\ UNCHANGED refs /\ merges'[r].dropped = merges[r].dropped \cup d
          /\ merges'[r].target = merges[r].target /\ merges'[r].moved = merges[r].moved
      BY <1>4 DEF MergeGrows
    <2>5. \A i \in Merges!Remaining(r, "review") :
              i \in d <=> Merges!ReviewsOf(refs[i].user, merges[r].target) # {}
      BY DEF Merges!Duplicates
    <2>6. ASSUME NEW i \in merges'[r].dropped \cap Merges!OfKind("review")'
          PROVE  \E j \in Merges!On(merges[r].target)' \cap Merges!OfKind("review")' :
                     refs'[j].user = refs'[i].user
      <3>1. CASE i \in d
        BY <1>3, <2>4, <2>5, <3>1 DEF Merges!ReviewsOf, Merges!On, Merges!OfKind
      <3>2. CASE i \in merges[r].dropped
        BY <2>1, <2>4, <2>6, <3>2 DEF MergeAlone, Merges!On, Merges!OfKind
      <3> QED  BY <2>4, <2>6, <3>1, <3>2
    <2>7. \A i \in Merges!Remaining(r, "review")' :
              Merges!ReviewsOf(refs[i].user, merges[r].target)' = {}
      <3>1. \A u, b : Merges!ReviewsOf(u, b)' = Merges!ReviewsOf(u, b)
        BY <2>4 DEF Merges!ReviewsOf, Merges!On, Merges!OfKind
      <3>2. \A i \in Merges!Remaining(r, "review")' :
                Merges!ReviewsOf(refs[i].user, merges[r].target) = {}
        BY <2>2, <2>5
      <3> QED  BY <2>4, <3>1, <3>2 DEF Merges!ReviewsOf, Merges!On, Merges!OfKind
    <2>8. merges'[r].moved \cap Merges!OfKind("review")' = {}
      BY <1>1, <2>1, <2>4 DEF MergeAlone, Merges!OfKind
    <2> QED
      BY <2>1, <2>3, <2>4, <2>6, <2>7, <2>8 DEF MergeAlone
  <1> HIDE DEF d
  <1> QED
    BY <1>1, <1>2, <1>3, <1>4, <1>5, <1>6, MergeGrowsInv

LEMMA MergeDeleteInv ==
    ASSUME MergeInv, NEW r \in Requests, Merges!DeleteSource(r)
    PROVE  MergeInv'
  <1> DEFINE d == Merges!Cascade(r)
  <1>1. Merges!TypeOK /\ Merges!Merging(r) /\ merges[r].at = 6
    BY MergeAt DEF MergeInv, Merges!DeleteSource, Merges!At
  <1>2. /\ d \cap Merges!Locked(Merges!Others(r)) = {}
        /\ merges[r].source \notin Merges!Shared(Merges!Others(r))
        /\ Merges!LeftBehind(r) = {}
        /\ Merges!Step(r, [merges[r] EXCEPT !.dropped = @ \cup d])
    BY DEF Merges!DeleteSource
  <1>3. /\ d \in SUBSET RowIds
        /\ d \subseteq
               Merges!On(merges[r].source) \ (merges[r].moved \cup merges[r].dropped)
        /\ \A i \in d : refs[i].kind \in {"release", "credit"}
    BY <1>1 DEF Merges!Cascade, Merges!Remaining, Merges!On, Merges!OfKind, Merges!TypeOK
  <1>4. MergeGrows(r, {}, d)
    BY <1>1, <1>2, <1>3, MergeDrops
  <1>5. MergeComplete(r)'
    <2>1. MergeComplete(r)
      BY <1>1 DEF MergeInv
    <2>2. ASSUME NEW i \in Merges!On(merges[r].source), i \notin merges[r].moved,
                 i \notin merges[r].dropped
          PROVE  i \in d
      <3>1. refs[i].kind \in Merges!AllKinds
        BY <1>1, KindsAssumption DEF Merges!TypeOK, Merges!On
      <3>2. i \in Merges!Remaining(r, refs[i].kind)
        BY <2>2 DEF Merges!Remaining, Merges!On, Merges!OfKind
      <3> QED  BY <1>2, <3>1, <3>2, MergeLeft
    <2>3. merges'[r].at = 7
      BY <1>1, <1>4 DEF MergeGrows
    <2> QED
      BY <1>1, <1>4, <2>1, <2>2, <2>3
         DEF MergeGrows, MergeComplete, Merges!On, Merges!OfKind
  <1>6. ASSUME r \notin disturbed PROVE MergeAlone(r)'
    <2>1. MergeAlone(r) /\ merges'[r].at = 7
      BY <1>1, <1>4, <1>6 DEF MergeInv, MergeGrows
    <2>2. /\ Merges!Remaining(r, "review")' = Merges!Remaining(r, "review") \ d
          /\ Merges!Remaining(r, "status")' = Merges!Remaining(r, "status") \ d
          /\ Merges!Remaining(r, "item")' = Merges!Remaining(r, "item") \ d
      BY <1>4, MergeRemaining
    <2>3. \A s \in Requests : Merges!Merging(s)' => s = r
      BY <1>4, <2>1 DEF MergeGrows, MergeAlone, Merges!Merging
    <2>4. /\ UNCHANGED refs /\ merges'[r].dropped = merges[r].dropped \cup d
          /\ merges'[r].target = merges[r].target
      BY <1>4 DEF MergeGrows
    <2>5. \A i \in merges'[r].dropped \cap Merges!OfKind("review")' :
              \E j \in Merges!On(merges[r].target)' \cap Merges!OfKind("review")' :
                  refs'[j].user = refs'[i].user
      BY <1>3, <2>1, <2>4 DEF MergeAlone, Merges!On, Merges!OfKind
    <2> QED
      BY <1>1, <2>1, <2>2, <2>3, <2>4, <2>5 DEF MergeAlone
  <1> HIDE DEF d
  <1> QED
    BY <1>1, <1>2, <1>3, <1>4, <1>5, <1>6, MergeGrowsInv

-----------------------------------------------------------------------------
LEMMA MergeFailsInv ==
    ASSUME MergeInv, NEW r \in Requests, Merges!Fails(r)
    PROVE  MergeInv'
  <1>1. /\ UNCHANGED <<books, refs, disturbed>> /\ merges'[r] = Merges!Idle
        /\ \A s \in Requests \ {r} : merges'[s] = merges[s]
        /\ Merges!TypeOK'
    BY DEF MergeInv, Merges!TypeOK, Merges!Fails
  <1>2. \A s \in Requests : Merges!Merging(s)' =>
            Merges!Merging(s) /\ s # r /\ merges'[s] = merges[s]
    BY <1>1 DEF Merges!Merging, Merges!Idle
  <1>3. ASSUME NEW s \in Requests, Merges!Merging(s)'
        PROVE  MergeRows(s)' /\ MergeComplete(s)' /\ (s \notin disturbed => MergeAlone(s)')
    <2>1. merges'[s] = merges[s] /\ Merges!Merging(s)
      BY <1>2, <1>3
    <2>2. MergeRows(s) /\ MergeComplete(s) /\ (s \notin disturbed => MergeAlone(s))
      BY <2>1 DEF MergeInv
    <2>3. MergeRows(s)' /\ MergeComplete(s)'
      BY <1>1, <2>1, <2>2 DEF MergeRows, MergeComplete, Merges!On, Merges!OfKind,
                              Merges!At, Merges!Merging
    <2>4. s \notin disturbed => MergeAlone(s)'
      BY <1>1, <1>2, <2>1, <2>2
         DEF MergeAlone, Merges!Remaining, Merges!ReviewsOf, Merges!On, Merges!OfKind
    <2> QED  BY <2>3, <2>4
  <1>4. ASSUME NEW s \in Requests, NEW q \in Requests \ {s},
               Merges!Merging(s)', Merges!Merging(q)'
        PROVE  MergesApart(s, q)'
    <2>1. /\ merges'[s] = merges[s] /\ merges'[q] = merges[q] /\ MergesApart(s, q)
      BY <1>2, <1>4 DEF MergeInv
    <2> QED  BY <2>1 DEF MergesApart, Merges!At, Merges!Merging
  <1> QED  BY <1>1, <1>3, <1>4 DEF MergeInv

LEMMA MergeBooksInv ==
    ASSUME MergeInv, NEW r \in Requests, NEW source \in Books, NEW target \in Books,
           Merges!MergeBooks(r, source, target)
    PROVE  MergeInv'
  <1> DEFINE w == [at |-> 1, source |-> source, target |-> target,
                   moved |-> {}, dropped |-> {}, seen |-> Merges!On(source)]
  <1>1. Merges!TypeOK /\ ~Merges!Merging(r) /\ source # target
        /\ UNCHANGED <<books, refs>> /\ merges' = [merges EXCEPT ![r] = w]
    BY DEF MergeInv, Merges!MergeBooks
  <1>2. /\ w.at = 1 /\ w.source = source /\ w.target = target /\ w.moved = {}
        /\ w.dropped = {} /\ w.seen = Merges!On(source)
    OBVIOUS
  <1>3. w \in Merges!Work
    <2>1. Merges!On(source) \subseteq RowIds
      BY <1>1 DEF Merges!On, Merges!TypeOK
    <2>2. 1 \in 1 .. Len(Merges!Statements)
      BY DEF Merges!Statements
    <2> QED  BY <2>1, <2>2 DEF Merges!Work
  <1> HIDE DEF w
  <1>4. merges'[r] = w /\ \A s \in Requests \ {r} : merges'[s] = merges[s]
    BY <1>1 DEF Merges!TypeOK
  <1>5. \/ Merges!Open(Requests) = {} /\ disturbed' = disturbed \ {r}
        \/ disturbed' = disturbed \cup Merges!Open(Requests) \cup {r}
    BY DEF Merges!MergeBooks
  <1>6. Merges!TypeOK'
    <2>1. merges' \in [Requests -> Merges!Work \cup {Merges!Idle}]
      BY <1>1, <1>3 DEF Merges!TypeOK
    <2>2. disturbed' \subseteq Requests
      BY <1>1, <1>5 DEF Merges!TypeOK, Merges!Open
    <2> QED  BY <1>1, <2>1, <2>2 DEF Merges!TypeOK
  <1>7. ~Merges!At(r, "commit")'
    BY <1>2, <1>4, CommitIsLast DEF Merges!At
  <1>8. MergeRows(r)' /\ MergeComplete(r)'
    BY <1>1, <1>2, <1>4, <1>7 DEF MergeRows, MergeComplete, Merges!On
  <1>9. r \notin disturbed' => MergeAlone(r)'
    <2> SUFFICES ASSUME r \notin disturbed' PROVE MergeAlone(r)'
      OBVIOUS
    <2>1. Merges!Open(Requests) = {}
      BY <1>5
    <2>2. \A s \in Requests : Merges!Merging(s)' => s = r
      BY <1>4, <2>1 DEF Merges!Open, Merges!Merging
    <2> QED  BY <1>2, <1>4, <2>2 DEF MergeAlone
  <1>10. ASSUME NEW s \in Requests, s # r, Merges!Merging(s)'
         PROVE  /\ MergeRows(s)' /\ MergeComplete(s)' /\ s \in disturbed'
                /\ MergesApart(r, s)' /\ MergesApart(s, r)'
                /\ \A q \in Requests \ {s, r} : Merges!Merging(q)' => MergesApart(s, q)'
    <2>1. merges'[s] = merges[s] /\ Merges!Merging(s)
      BY <1>4, <1>10 DEF Merges!Merging
    <2>2. MergeRows(s)' /\ MergeComplete(s)'
      <3>1. MergeRows(s) /\ MergeComplete(s)
        BY <2>1 DEF MergeInv
      <3> QED
        BY <1>1, <2>1, <3>1 DEF MergeRows, MergeComplete, Merges!On, Merges!OfKind,
                                Merges!At, Merges!Merging
    <2>3. s \in disturbed'
      BY <1>5, <2>1 DEF Merges!Open
    <2>4. MergesApart(r, s)' /\ MergesApart(s, r)'
      BY <1>2, <1>4, <1>7 DEF MergesApart
    <2>5. ASSUME NEW q \in Requests \ {s, r}, Merges!Merging(q)' PROVE MergesApart(s, q)'
      <3>1. merges'[q] = merges[q] /\ MergesApart(s, q)
        BY <1>4, <2>1, <2>5 DEF MergeInv, Merges!Merging
      <3> QED  BY <2>1, <3>1 DEF MergesApart, Merges!At, Merges!Merging
    <2> QED  BY <2>2, <2>3, <2>4, <2>5
  <1> QED  BY <1>6, <1>8, <1>9, <1>10 DEF MergeInv

LEMMA MergeCommitFacts ==
    ASSUME MergeInv, NEW r \in Requests, Merges!CommitMerge(r)
    PROVE  LET w == merges[r]
           IN  /\ Merges!TypeOK /\ Merges!Merging(r) /\ Merges!At(r, "commit")
               /\ books' = books \ {w.source}
               /\ DOMAIN refs' = DOMAIN refs \ w.dropped
               /\ \A i \in w.moved :
                      i \in DOMAIN refs' /\ refs'[i] = [refs[i] EXCEPT !.book = w.target]
               /\ \A i \in DOMAIN refs' : i \notin w.moved => refs'[i] = refs[i]
               /\ \A i \in DOMAIN refs' \ w.moved : refs[i].book # w.source
               /\ merges'[r] = Merges!Idle
               /\ \A s \in Requests \ {r} : merges'[s] = merges[s]
               /\ disturbed' = disturbed \cup Merges!Open(Merges!Others(r))
  <1>1. Merges!TypeOK /\ Merges!Merging(r) /\ Merges!At(r, "commit")
    BY DEF MergeInv, Merges!CommitMerge, Merges!At
  <1>2. MergeRows(r) /\ MergeComplete(r)
    BY <1>1 DEF MergeInv
  <1>3. /\ merges'[r] = Merges!Idle
        /\ \A s \in Requests \ {r} : merges'[s] = merges[s]
    BY <1>1 DEF Merges!CommitMerge, Merges!TypeOK
  <1>4. DOMAIN refs' = DOMAIN refs \ merges[r].dropped
    BY DEF Merges!CommitMerge
  <1>5. \A i \in DOMAIN refs' :
            refs'[i] = IF i \in merges[r].moved
                       THEN [refs[i] EXCEPT !.book = merges[r].target] ELSE refs[i]
    BY DEF Merges!CommitMerge
  <1>6. \A i \in DOMAIN refs' \ merges[r].moved : refs[i].book # merges[r].source
    BY <1>1, <1>2, <1>4 DEF MergeComplete, Merges!On
  <1>7. \A i \in merges[r].moved : i \in DOMAIN refs'
    BY <1>2, <1>4 DEF MergeRows, Merges!On
  <1>8. books' = books \ {merges[r].source}
        /\ disturbed' = disturbed \cup Merges!Open(Merges!Others(r))
    BY DEF Merges!CommitMerge, Merges!Committed
  <1> QED  BY <1>1, <1>3, <1>4, <1>5, <1>6, <1>7, <1>8

LEMMA MergeCommitInv ==
    ASSUME MergeInv, NEW r \in Requests, Merges!CommitMerge(r)
    PROVE  MergeInv'
  <1> DEFINE w == merges[r]
  <1>1. /\ Merges!TypeOK /\ Merges!Merging(r) /\ Merges!At(r, "commit")
        /\ MergeRows(r)
    BY MergeCommitFacts DEF MergeInv
  <1>2. /\ books' = books \ {w.source}
        /\ DOMAIN refs' = DOMAIN refs \ w.dropped
        /\ \A i \in DOMAIN refs' : i \notin w.moved => refs'[i] = refs[i]
        /\ \A i \in DOMAIN refs' \ w.moved : refs[i].book # w.source
        /\ merges'[r] = Merges!Idle
        /\ \A s \in Requests \ {r} : merges'[s] = merges[s]
        /\ disturbed' = disturbed \cup Merges!Open(Merges!Others(r))
    BY MergeCommitFacts
  <1>3. \A i \in DOMAIN refs :
            refs[i] \in [kind : Kinds, book : books, user : {{}} \cup {{u} : u \in Users}]
    BY <1>1 DEF Merges!TypeOK
  <1>4. \A i \in w.moved : /\ i \in DOMAIN refs' /\ refs[i].book = w.source
                           /\ refs'[i].book = w.target /\ refs'[i].kind = refs[i].kind
                           /\ refs'[i].user = refs[i].user
                           /\ refs'[i] \in [kind : Kinds, book : books',
                                            user : {{}} \cup {{u} : u \in Users}]
    <2> TAKE i \in w.moved
    <2>1. i \in DOMAIN refs /\ refs[i].book = w.source
          /\ w.target \in books /\ w.target # w.source
      BY <1>1 DEF MergeRows, Merges!On
    <2>2. i \in DOMAIN refs' /\ refs'[i] = [refs[i] EXCEPT !.book = w.target]
      BY MergeCommitFacts
    <2>3. w.target \in books'
      BY <1>2, <2>1
    <2> QED  BY <1>3, <2>1, <2>2, <2>3
  <1>5. Merges!TypeOK'
    <2>1. \A i \in DOMAIN refs' : refs'[i] \in
              [kind : Kinds, book : books', user : {{}} \cup {{u} : u \in Users}]
      BY <1>2, <1>3, <1>4
    <2>2. refs' \in [DOMAIN refs' -> [kind : Kinds, book : books',
                                      user : {{}} \cup {{u} : u \in Users}]]
      <3>1. refs' = [i \in DOMAIN refs \ w.dropped |->
               IF i \in w.moved THEN [refs[i] EXCEPT !.book = w.target] ELSE refs[i]]
        BY DEF Merges!CommitMerge
      <3> QED  BY <2>1, <3>1
    <2>3. merges' \in [Requests -> Merges!Work \cup {Merges!Idle}]
      BY <1>1 DEF Merges!CommitMerge, Merges!TypeOK
    <2>4. disturbed' \subseteq Requests
      BY <1>1, <1>2 DEF Merges!TypeOK, Merges!Open, Merges!Others
    <2> QED  BY <1>1, <1>2, <2>2, <2>3, <2>4 DEF Merges!TypeOK
  <1>6. ~Merges!Merging(r)'
    BY <1>2 DEF Merges!Merging, Merges!Idle
  <1>7. ASSUME NEW s \in Requests, Merges!Merging(s)'
        PROVE  /\ s # r /\ merges'[s] = merges[s] /\ Merges!Merging(s)
               /\ s \in disturbed'
               /\ MergeRows(s) /\ MergeComplete(s)
               /\ MergesApart(r, s) /\ MergesApart(s, r)
    <2>1. s # r
      BY <1>6, <1>7
    <2>2. merges'[s] = merges[s] /\ Merges!Merging(s)
      BY <1>2, <1>7, <2>1 DEF Merges!Merging
    <2>3. s \in disturbed'
      BY <1>2, <2>1, <2>2 DEF Merges!Open, Merges!Others
    <2> QED  BY <1>1, <2>1, <2>2, <2>3 DEF MergeInv
  <1>8. ASSUME NEW s \in Requests, Merges!Merging(s)'
        PROVE  MergeRows(s)' /\ MergeComplete(s)'
    <2>1. /\ s # r /\ merges'[s] = merges[s] /\ MergeRows(s) /\ MergeComplete(s)
          /\ MergesApart(r, s) /\ MergesApart(s, r)
      BY <1>7, <1>8
    <2>2. \A i \in merges[s].moved \cup merges[s].dropped :
              i \in DOMAIN refs' /\ refs'[i] = refs[i]
      BY <1>2, <2>1 DEF MergesApart, MergeRows, Merges!On
    <2>3. merges[s].moved # {} => merges[s].target \in books'
      BY <1>1, <1>2, <2>1 DEF MergesApart, MergeRows
    <2>4. MergeRows(s)'
      BY <2>1, <2>2, <2>3 DEF MergeRows, Merges!On
    <2>5. \A i \in DOMAIN refs' : i \in DOMAIN refs /\ refs'[i].kind = refs[i].kind
      BY <1>2, <1>4
    <2>6. merges[s].source \in books' =>
              \A i \in merges[s].seen \cap DOMAIN refs' :
                  refs[i].book = merges[s].source /\ refs'[i].book = merges[s].source
      BY <1>2, <1>4, <2>1, <2>5 DEF MergeComplete
    <2>7. \A i \in DOMAIN refs' : refs'[i].book \in books'
      BY <1>5 DEF Merges!TypeOK
    <2>8. merges[s].at > 1 => merges[s].seen \cap Merges!On(merges[s].source)'
                                  \cap Merges!OfKind("release")' \subseteq merges[s].moved
      BY <2>1, <2>5, <2>6, <2>7 DEF MergeComplete, Merges!On, Merges!OfKind
    <2>9. Merges!At(s, "commit") =>
              Merges!On(merges[s].source)' \subseteq merges[s].moved \cup merges[s].dropped
      <3> SUFFICES ASSUME Merges!At(s, "commit"), NEW i \in Merges!On(merges[s].source)'
                   PROVE  i \in merges[s].moved \cup merges[s].dropped
        BY DEF Merges!On
      <3>1. i \in DOMAIN refs' /\ refs'[i].book = merges[s].source
        BY <2>1 DEF Merges!On
      <3>2. i \notin w.moved
        BY <1>4, <2>1, <3>1 DEF MergesApart
      <3> QED  BY <1>2, <2>1, <3>1, <3>2 DEF MergeComplete, Merges!On
    <2>10. Merges!At(s, "commit")' <=> Merges!At(s, "commit")
      BY <2>1 DEF Merges!At, Merges!Merging
    <2>11. MergeComplete(s)'
      BY <2>1, <2>6, <2>8, <2>9, <2>10 DEF MergeComplete, Merges!On, Merges!OfKind
    <2> QED  BY <2>4, <2>11
  <1>9. ASSUME NEW s \in Requests, NEW q \in Requests \ {s},
               Merges!Merging(s)', Merges!Merging(q)'
        PROVE  MergesApart(s, q)'
    <2>1. /\ merges'[s] = merges[s] /\ merges'[q] = merges[q] /\ MergesApart(s, q)
      BY <1>7, <1>9 DEF MergeInv
    <2> QED  BY <2>1 DEF MergesApart, Merges!At, Merges!Merging
  <1> QED  BY <1>5, <1>7, <1>8, <1>9 DEF MergeInv

-----------------------------------------------------------------------------
(* What any other commit has to leave alone: the rows that merges lock and *)
(* the books these refer to.                                               *)
LEMMA MergeOthersInv ==
    ASSUME MergeInv, Merges!TypeOK', UNCHANGED merges,
           disturbed' = disturbed \cup Merges!Open(Requests),
           \A i \in Merges!Locked(Requests) \cap DOMAIN refs :
               i \in DOMAIN refs' /\ refs'[i] = refs[i],
           Merges!Shared(Requests) \cap books \subseteq books',
           \A i \in DOMAIN refs' :
               \/ /\ i \in DOMAIN refs /\ refs'[i].book = refs[i].book
                  /\ refs'[i].kind = refs[i].kind
               \/ /\ refs'[i].book \notin Merges!Deleted(Requests)
                  /\ \A r \in Merges!Open(Requests) : i \notin merges[r].seen,
           \A r \in Merges!Open(Requests) :
               merges[r].source \in books' => merges[r].source \in books
    PROVE  MergeInv'
  <1>1. ASSUME NEW r \in Requests, Merges!Merging(r)
        PROVE  MergeRows(r)' /\ MergeComplete(r)' /\ r \in disturbed'
    <2>1. MergeRows(r) /\ MergeComplete(r) /\ r \in Merges!Open(Requests)
      BY <1>1 DEF MergeInv, Merges!Open
    <2>2. \A i \in merges[r].moved \cup merges[r].dropped :
              i \in DOMAIN refs' /\ refs'[i] = refs[i]
      <3>1. merges[r].moved \cup merges[r].dropped
                \subseteq Merges!Locked(Requests) \cap DOMAIN refs
        BY <2>1 DEF MergeRows, Merges!On, Merges!Locked
      <3> QED  BY <3>1
    <2>3. merges[r].moved # {} => merges[r].target \in books'
      <3>1. merges[r].moved # {} => merges[r].target \in Merges!Shared(Requests)
        BY <2>1 DEF Merges!Shared
      <3> QED  BY <2>1, <3>1 DEF MergeRows
    <2>4. MergeRows(r)'
      BY <2>1, <2>2, <2>3 DEF MergeRows, Merges!On
    <2>5. \A i \in merges[r].seen \cap DOMAIN refs' :
              /\ i \in DOMAIN refs /\ refs'[i].book = refs[i].book
              /\ refs'[i].kind = refs[i].kind
      BY <2>1
    <2>6. merges[r].source \in books' =>
              \A i \in merges[r].seen \cap DOMAIN refs' :
                  refs[i].book = merges[r].source /\ refs'[i].book = merges[r].source
      BY <2>1, <2>5 DEF MergeComplete
    <2>7. \A i \in DOMAIN refs' : refs'[i].book \in books'
      BY DEF Merges!TypeOK
    <2>8. merges[r].at > 1 => merges[r].seen \cap Merges!On(merges[r].source)'
                                  \cap Merges!OfKind("release")' \subseteq merges[r].moved
      BY <2>1, <2>5, <2>6, <2>7 DEF MergeComplete, Merges!On, Merges!OfKind
    <2>9. Merges!At(r, "commit") =>
              Merges!On(merges[r].source)' \subseteq merges[r].moved \cup merges[r].dropped
      <3>1. Merges!At(r, "commit") => merges[r].source \in Merges!Deleted(Requests)
        BY <2>1 DEF Merges!Deleted
      <3> QED  BY <2>1, <3>1 DEF MergeComplete, Merges!On
    <2>10. Merges!At(r, "commit")' <=> Merges!At(r, "commit")
      BY DEF Merges!At, Merges!Merging
    <2>11. MergeComplete(r)'
      BY <2>1, <2>6, <2>8, <2>9, <2>10 DEF MergeComplete, Merges!On, Merges!OfKind
    <2> QED  BY <2>1, <2>4, <2>11
  <1>2. \A r \in Requests : Merges!Merging(r)' => Merges!Merging(r)
    BY DEF Merges!Merging
  <1>3. \A r, s \in Requests : MergesApart(r, s) => MergesApart(r, s)'
    BY DEF MergesApart, Merges!At, Merges!Merging
  <1> QED  BY <1>1, <1>2, <1>3 DEF MergeInv

(* The rows of refs and what they may be.                                  *)
MergeRow(B) == [kind : Kinds, book : B, user : {{}} \cup {{u} : u \in Users}]

LEMMA MergeTyped ==
    ASSUME Merges!TypeOK, UNCHANGED merges,
           disturbed' = disturbed \cup Merges!Open(Requests),
           books' \subseteq Books, DOMAIN refs' \subseteq RowIds,
           refs' = [i \in DOMAIN refs' |-> refs'[i]],
           \A i \in DOMAIN refs' : refs'[i] \in MergeRow(books')
    PROVE  Merges!TypeOK'
  <1>1. refs' \in [DOMAIN refs' -> MergeRow(books')]
    OBVIOUS
  <1>2. disturbed' \subseteq Requests
    BY DEF Merges!TypeOK, Merges!Open
  <1> QED  BY <1>1, <1>2 DEF Merges!TypeOK, MergeRow

LEMMA MergeTypes ==
    ASSUME Merges!TypeOK
    PROVE  /\ books \subseteq Books /\ DOMAIN refs \subseteq RowIds
           /\ \A i \in DOMAIN refs : refs[i] \in MergeRow(books) /\ refs[i].book \in books
           /\ refs = [i \in DOMAIN refs |-> refs[i]]
  BY DEF Merges!TypeOK, MergeRow

LEMMA MergeCreateBookInv ==
    ASSUME MergeInv, NEW b \in Books, Merges!CreateBook(b)
    PROVE  MergeInv'
  <1>1. /\ books' = books \cup {b} /\ UNCHANGED <<refs, merges>>
        /\ disturbed' = disturbed \cup Merges!Open(Requests)
        /\ \A r \in Merges!Open(Requests) : b # merges[r].source
        /\ Merges!TypeOK
    BY DEF Merges!CreateBook, Merges!Committed, MergeInv
  <1>2. \A i \in DOMAIN refs : refs[i] \in MergeRow(books')
    BY <1>1, MergeTypes DEF MergeRow
  <1>3. Merges!TypeOK'
    BY <1>1, <1>2, MergeTypes, MergeTyped
  <1> QED  BY <1>1, <1>3, MergeOthersInv

LEMMA MergeDeleteBookInv ==
    ASSUME MergeInv, NEW b \in Books, Merges!DeleteBook(b)
    PROVE  MergeInv'
  <1>1. /\ books' = books \ {b} /\ UNCHANGED merges
        /\ disturbed' = disturbed \cup Merges!Open(Requests)
        /\ b \notin Merges!Shared(Requests)
        /\ Merges!On(b) \cap Merges!Locked(Requests) = {}
        /\ refs' = [i \in DOMAIN refs \ Merges!On(b) |-> refs[i]]
        /\ Merges!TypeOK
    BY DEF Merges!DeleteBook, Merges!Committed, MergeInv
  <1>2. /\ DOMAIN refs' = DOMAIN refs \ Merges!On(b)
        /\ \A i \in DOMAIN refs' : refs'[i] = refs[i] /\ refs[i].book # b
        /\ refs' = [i \in DOMAIN refs' |-> refs'[i]]
    BY <1>1 DEF Merges!On
  <1>3. \A i \in DOMAIN refs' : refs'[i] \in MergeRow(books')
    BY <1>1, <1>2, MergeTypes DEF MergeRow
  <1>4. Merges!TypeOK'
    BY <1>1, <1>2, <1>3, MergeTypes, MergeTyped
  <1> QED  BY <1>1, <1>2, <1>4, MergeOthersInv

LEMMA MergeReferInv ==
    ASSUME MergeInv, NEW i \in RowIds, NEW k, NEW b \in Books,
           NEW u \in {{}} \cup {{v} : v \in Users}, Merges!Refer(i, k, b, u)
    PROVE  MergeInv'
  <1> DEFINE new == [kind |-> k, book |-> b, user |-> u]
  <1>1. /\ k \in Kinds /\ b \in books \ Merges!Deleted(Requests)
        /\ i \notin DOMAIN refs
        /\ \A r \in Merges!Open(Requests) : i \notin merges[r].seen
        /\ refs' = [j \in DOMAIN refs \cup {i} |-> IF j = i THEN new ELSE refs[j]]
        /\ UNCHANGED <<books, merges>>
        /\ disturbed' = disturbed \cup Merges!Open(Requests)
        /\ Merges!TypeOK
    BY DEF Merges!Refer, Merges!Committed, MergeInv
  <1>2. new \in MergeRow(books) /\ new.book = b
    BY <1>1 DEF MergeRow
  <1> HIDE DEF new
  <1>3. /\ DOMAIN refs' = DOMAIN refs \cup {i} /\ refs'[i] = new
        /\ \A j \in DOMAIN refs : refs'[j] = refs[j]
        /\ refs' = [j \in DOMAIN refs' |-> refs'[j]]
    BY <1>1
  <1>4. \A j \in DOMAIN refs' : refs'[j] \in MergeRow(books')
    BY <1>1, <1>2, <1>3, MergeTypes
  <1>5. Merges!TypeOK'
    BY <1>1, <1>3, <1>4, MergeTypes, MergeTyped
  <1> QED  BY <1>1, <1>2, <1>3, <1>5, MergeOthersInv

LEMMA MergeRemoveInv ==
    ASSUME MergeInv, NEW i \in RowIds, NEW k, Merges!Remove(i, k)
    PROVE  MergeInv'
  <1>1. /\ i \notin Merges!Locked(Requests)
        /\ refs' = [j \in DOMAIN refs \ {i} |-> refs[j]]
        /\ UNCHANGED <<books, merges>>
        /\ disturbed' = disturbed \cup Merges!Open(Requests)
        /\ Merges!TypeOK
    BY DEF Merges!Remove, Merges!Committed, MergeInv
  <1>2. /\ DOMAIN refs' = DOMAIN refs \ {i}
        /\ \A j \in DOMAIN refs' : refs'[j] = refs[j]
        /\ refs' = [j \in DOMAIN refs' |-> refs'[j]]
    BY <1>1
  <1>3. \A j \in DOMAIN refs' : refs'[j] \in MergeRow(books')
    BY <1>1, <1>2, MergeTypes
  <1>4. Merges!TypeOK'
    BY <1>1, <1>2, <1>3, MergeTypes, MergeTyped
  <1> QED  BY <1>1, <1>2, <1>4, MergeOthersInv

LEMMA MergeForgetInv ==
    ASSUME MergeInv, NEW u \in Users, Merges!ForgetAuthor(u)
    PROVE  MergeInv'
  <1> DEFINE written == {i \in Merges!OfKind("review") : refs[i].user = {u}}
  <1>1. /\ written \cap Merges!Locked(Requests) = {}
        /\ refs' = [i \in DOMAIN refs |->
               IF i \in written THEN [refs[i] EXCEPT !.user = {}] ELSE refs[i]]
        /\ UNCHANGED <<books, merges>>
        /\ disturbed' = disturbed \cup Merges!Open(Requests)
        /\ Merges!TypeOK
    BY DEF Merges!ForgetAuthor, Merges!Committed, MergeInv
  <1> HIDE DEF written
  <1>2. /\ DOMAIN refs' = DOMAIN refs
        /\ refs' = [j \in DOMAIN refs' |-> refs'[j]]
        /\ \A j \in DOMAIN refs : j \notin written => refs'[j] = refs[j]
    BY <1>1
  <1>3. \A j \in DOMAIN refs' :
            /\ refs'[j] \in MergeRow(books')
            /\ refs'[j].book = refs[j].book /\ refs'[j].kind = refs[j].kind
    <2> TAKE j \in DOMAIN refs'
    <2>1. refs[j] \in MergeRow(books)
      BY <1>1, <1>2, MergeTypes
    <2>2. CASE j \in written
      <3>1. refs'[j] = [refs[j] EXCEPT !.user = {}]
        BY <1>1, <1>2, <2>2
      <3> QED  BY <1>1, <2>1, <3>1 DEF MergeRow
    <2>3. CASE j \notin written
      BY <1>1, <1>2, <2>1, <2>3
    <2> QED  BY <2>2, <2>3
  <1>4. Merges!TypeOK'
    BY <1>1, <1>2, <1>3, MergeTypes, MergeTyped
  <1> QED  BY <1>1, <1>2, <1>3, <1>4, MergeOthersInv

LEMMA MergeNextInv == MergeInv /\ [Merges!Next]_Merges!vars => MergeInv'
  <1> SUFFICES ASSUME MergeInv, [Merges!Next]_Merges!vars PROVE MergeInv'
    OBVIOUS
  <1>1. CASE UNCHANGED Merges!vars
    BY <1>1 DEF Merges!vars, MergeInv, MergeRows, MergeComplete, MergeAlone, MergesApart,
                Merges!TypeOK, Merges!Merging, Merges!At, Merges!On, Merges!OfKind,
                Merges!Remaining, Merges!ReviewsOf
  <1>2. CASE \E r \in Requests :
                 \/ \E source, target \in Books : Merges!MergeBooks(r, source, target)
                 \/ Merges!Statement(r)
    <2>1. PICK r \in Requests :
                 \/ \E source, target \in Books : Merges!MergeBooks(r, source, target)
                 \/ Merges!Statement(r)
      BY <1>2
    <2>2. CASE \E source, target \in Books : Merges!MergeBooks(r, source, target)
      BY <2>2, MergeBooksInv
    <2>3. CASE Merges!Statement(r)
      BY <2>3, MergeMoveInv, MergeDropInv, MergeDeleteInv, MergeCommitInv, MergeFailsInv
         DEF Merges!Statement
    <2> QED  BY <2>1, <2>2, <2>3
  <1>3. CASE \E b \in Books : Merges!CreateBook(b) \/ Merges!DeleteBook(b)
    BY <1>3, MergeCreateBookInv, MergeDeleteBookInv
  <1>4. ASSUME NEW i \in RowIds, NEW b \in Books,
               \/ Merges!CreateRelease(i, b)
               \/ Merges!AddContributor(i, b)
               \/ \E u \in Users : Merges!CreateReview(i, b, u)
               \/ Merges!CreateStatus(i, b)
               \/ Merges!AddItem(i, b)
               \/ Merges!SendMessage(i, b)
        PROVE  MergeInv'
    <2>1. CASE \E u \in Users : Merges!CreateReview(i, b, u)
      <3>1. PICK u \in Users : Merges!Refer(i, "review", b, {u})
        BY <2>1 DEF Merges!CreateReview
      <3>2. {u} \in {{}} \cup {{v} : v \in Users}
        OBVIOUS
      <3> QED  BY <3>1, <3>2, MergeReferInv
    <2>2. CASE \/ Merges!Refer(i, "release", b, {}) \/ Merges!Refer(i, "credit", b, {})
               \/ Merges!Refer(i, "status", b, {}) \/ Merges!Refer(i, "item", b, {})
               \/ Merges!Refer(i, "message", b, {})
      <3>1. {} \in {{}} \cup {{v} : v \in Users}
        OBVIOUS
      <3> QED  BY <2>2, <3>1, MergeReferInv
    <2> QED
      BY <1>4, <2>1, <2>2 DEF Merges!CreateRelease, Merges!AddContributor,
                              Merges!CreateStatus, Merges!AddItem, Merges!SendMessage
  <1>5. ASSUME NEW i \in RowIds,
               \/ Merges!RemoveContributor(i) \/ Merges!DeleteReview(i)
               \/ Merges!DeleteStatus(i) \/ Merges!RemoveItem(i)
        PROVE  MergeInv'
    BY <1>5, MergeRemoveInv DEF Merges!RemoveContributor, Merges!DeleteReview,
                                Merges!DeleteStatus, Merges!RemoveItem
  <1>6. CASE \E u \in Users : Merges!ForgetAuthor(u)
    BY <1>6, MergeForgetInv
  <1> QED  BY <1>1, <1>2, <1>3, <1>4, <1>5, <1>6 DEF Merges!Next

THEOREM MergeInvariance == Merges!Spec => []MergeInv
  BY MergeInitInv, MergeNextInv, PTL DEF Merges!Spec

(* A merge that no other transaction disturbs is not refused by the unique *)
(* constraint of reviews, nor by a row that it forgot: only a message can  *)
(* be in the way of deleting the source.                                   *)
THEOREM GoesThrough == Merges!Spec => []MergeGoesThrough
  <1>1. MergeInv => MergeGoesThrough
    <2> SUFFICES ASSUME MergeInv, NEW r \in Requests \ disturbed
                 PROVE  /\ Merges!At(r, "review") => Merges!Clashing(r) = {}
                        /\ Merges!At(r, "source") =>
                               Merges!LeftBehind(r) \subseteq Merges!OfKind("message")
      BY DEF MergeGoesThrough, Merges!MergeGoesThrough
    <2>1. Merges!TypeOK
      BY DEF MergeInv
    <2>2. ASSUME Merges!At(r, "review") PROVE Merges!Clashing(r) = {}
      <3>1. merges[r].at = 3 /\ MergeAlone(r)
        BY <2>1, <2>2, MergeAt DEF MergeInv, Merges!At
      <3>2. Merges!Arriving(Requests, merges[r].target) = {}
        BY <3>1 DEF MergeAlone, Merges!Arriving, Merges!Open
      <3> QED  BY <3>1, <3>2 DEF MergeAlone, Merges!Clashing, Merges!Unreviewed
    <2>3. ASSUME Merges!At(r, "source")
          PROVE  Merges!LeftBehind(r) \subseteq Merges!OfKind("message")
      <3>1. merges[r].at = 6 /\ MergeAlone(r)
        BY <2>1, <2>3, MergeAt DEF MergeInv, Merges!At
      <3>2. /\ Merges!Remaining(r, "review") = {} /\ Merges!Remaining(r, "status") = {}
            /\ Merges!Remaining(r, "item") = {}
        BY <3>1 DEF MergeAlone
      <3>3. \A k \in Merges!AllKinds : \/ Merges!Remaining(r, k) \subseteq Merges!Cascade(r)
                                       \/ Merges!Remaining(r, k) = {}
                                       \/ k = "message"
        BY <3>2 DEF Merges!AllKinds, Merges!Cascade
      <3>4. Merges!Remaining(r, "message") \subseteq Merges!OfKind("message")
        BY DEF Merges!Remaining
      <3> QED  BY <3>3, <3>4 DEF Merges!LeftBehind
    <2> QED  BY <2>2, <2>3
  <1> QED  BY <1>1, MergeInvariance, PTL

LEMMA MergeStays ==
    Merges!Next =>
        \/ UNCHANGED merges
        \/ \E r \in Requests :
               \/ \E source, target \in Books : Merges!MergeBooks(r, source, target)
               \/ Merges!Statement(r)
  <1>1. \A b \in Books : Merges!CreateBook(b) \/ Merges!DeleteBook(b) => UNCHANGED merges
    BY DEF Merges!CreateBook, Merges!DeleteBook
  <1>2. \A i, k, b, u : Merges!Refer(i, k, b, u) => UNCHANGED merges
    BY DEF Merges!Refer
  <1>3. \A i, k : Merges!Remove(i, k) => UNCHANGED merges
    BY DEF Merges!Remove
  <1>4. \A u \in Users : Merges!ForgetAuthor(u) => UNCHANGED merges
    BY DEF Merges!ForgetAuthor
  <1> QED
    BY <1>1, <1>2, <1>3, <1>4
       DEF Merges!Next, Merges!CreateRelease, Merges!AddContributor,
           Merges!CreateReview, Merges!CreateStatus, Merges!AddItem,
           Merges!SendMessage, Merges!RemoveContributor, Merges!DeleteReview,
           Merges!DeleteStatus, Merges!RemoveItem

(* As a merge is committed, whatever other calls have done since it began, *)
(* a row that was on its source is on the target, unless it is a credit, a *)
(* release that came too late, or a review that had to give way.           *)
THEOREM KeepsAll == Merges!Spec => MergeKeepsAll
  <1>1. ASSUME MergeInv, [Merges!Next]_Merges!vars
        PROVE  [Merges!MergeKeepsAllStep]_mergeVars
    <2> SUFFICES ASSUME NEW r \in Requests, Merges!At(r, "commit"), books' # books,
                        merges'[r] = Merges!Idle,
                        NEW i \in Merges!On(merges[r].source)
                 PROVE  LET w == merges[r]
                        IN  \/ i \in DOMAIN refs'
                               /\ refs'[i] = [refs[i] EXCEPT !.book = w.target]
                            \/ refs[i].kind = "credit"
                            \/ refs[i].kind = "release" /\ i \notin w.seen
                            \/ refs[i].kind = "review" /\ i \in w.dropped
                               /\ r \in disturbed
                            \/ /\ refs[i].kind = "review"
                               /\ \E j \in DOMAIN refs' :
                                      /\ refs'[j].kind = "review"
                                      /\ refs'[j].user = refs[i].user
                                      /\ refs'[j].book = w.target
      BY DEF Merges!MergeKeepsAllStep
    <2>1. Merges!TypeOK /\ Merges!Merging(r) /\ MergeRows(r) /\ MergeComplete(r)
          /\ (r \notin disturbed => MergeAlone(r)) /\ merges[r].at = 7
      <3>1. Merges!TypeOK /\ Merges!Merging(r)
        BY <1>1 DEF MergeInv, Merges!At
      <3>2. merges[r].at = 7
        BY <3>1, MergeAt
      <3> QED  BY <1>1, <3>1, <3>2 DEF MergeInv
    <2>2. Merges!CommitMerge(r)
      <3>1. ~UNCHANGED merges
        BY <2>1 DEF Merges!Merging, Merges!Idle
      <3>2. PICK s \in Requests :
                \/ \E source, target \in Books : Merges!MergeBooks(s, source, target)
                \/ Merges!Statement(s)
        BY <1>1, <3>1, MergeStays DEF Merges!vars
      <3>3. Merges!CommitMerge(s)
        BY <3>2 DEF Merges!MergeBooks, Merges!Statement, Merges!MoveRows, Merges!Step,
             Merges!DropDuplicates, Merges!DeleteSource, Merges!Fails
      <3>4. s = r
        BY <2>1, <3>1, <3>3 DEF Merges!CommitMerge, Merges!TypeOK, Merges!Merging,
                                Merges!Idle
      <3> QED  BY <3>3, <3>4
    <2>3. i \in merges[r].moved \cup merges[r].dropped
      BY <2>1 DEF MergeComplete
    <2> DEFINE w == merges[r]
    <2>6. /\ DOMAIN refs' = DOMAIN refs \ w.dropped
          /\ \A j \in w.moved :
                 j \in DOMAIN refs' /\ refs'[j] = [refs[j] EXCEPT !.book = w.target]
          /\ \A j \in DOMAIN refs' : j \notin w.moved => refs'[j] = refs[j]
      BY <1>1, <2>2, MergeCommitFacts
    <2>4. CASE i \in merges[r].moved
      BY <2>4, <2>6
    <2>5. CASE i \in merges[r].dropped
      <3>1. refs[i].kind \in {"release", "credit", "review"}
        BY <2>1, <2>5 DEF MergeRows
      <3>2. CASE refs[i].kind = "release"
        <4>1. i \notin merges[r].moved /\ i \in Merges!OfKind("release")
          BY <2>1, <2>5, <3>2 DEF MergeRows, Merges!On, Merges!OfKind
        <4> QED  BY <2>1, <3>2, <4>1 DEF MergeComplete
      <3>3. CASE refs[i].kind = "review" /\ r \notin disturbed
        <4>1. i \in Merges!OfKind("review")
          BY <3>3 DEF Merges!On, Merges!OfKind
        <4>2. PICK j \in Merges!On(merges[r].target) \cap Merges!OfKind("review") :
                  refs[j].user = refs[i].user
          BY <2>1, <2>5, <3>3, <4>1 DEF MergeAlone
        <4>3. j \in DOMAIN refs /\ refs[j].book = merges[r].target
              /\ refs[j].kind = "review" /\ merges[r].target # merges[r].source
          BY <2>1, <4>2 DEF Merges!On, Merges!OfKind, MergeRows
        <4>4. j \notin merges[r].moved /\ j \notin merges[r].dropped
          BY <2>1, <4>3 DEF MergeRows, Merges!On
        <4>5. j \in DOMAIN refs' /\ refs'[j] = refs[j]
          BY <2>6, <4>3, <4>4
        <4> QED  BY <3>3, <4>2, <4>3, <4>5
      <3> QED  BY <2>5, <3>1, <3>2, <3>3
    <2> QED  BY <2>3, <2>4, <2>5
  <1>2. MergeInv /\ [Merges!Next]_Merges!vars => [Merges!MergeKeepsAllStep]_mergeVars
    BY <1>1
  <1> QED  BY <1>2, MergeInvariance, PTL DEF Merges!Spec, MergeKeepsAll

-----------------------------------------------------------------------------
(* Rows of the catalog, committed or about to be: none has the key of      *)
(* another, and none is inserted twice.                                    *)
AllRows == rows \cup External!Added(Requests)

KeysOnce == \A x, y \in AllRows : External!SameKey(x, y) => x = y

AddedOnce ==
    \A r \in Requests : External!Importing(r) =>
        /\ work[r].added \cap rows = {}
        /\ \A s \in Requests \ {r} :
               External!Importing(s) => work[r].added \cap work[s].added = {}

(* Of the books in B, S has the codes, links and contributors.             *)
Whole(B, S) ==
    \A x \in B : x.row = "book" =>
        /\ \A c \in External!CodesOf(x.from) : External!Isbn(c, x.book) \in S
        /\ \A p \in x.from.people :
               External!Link(x.book, p) \in S /\ External!Person(p) \in S

(* An import has the contributors of its detail but those it is to add.    *)
PeopleThere(r) ==
    LET w == work[r]
        there(p) == External!Person(p) \in External!View(r)
    IN  /\ w.at = "people" => \A p \in w.detail.people \ w.missing : there(p)
        /\ w.at \in {"book", "write"} => \A p \in w.detail.people : there(p)

ImportInv ==
    /\ External!TypeOK
    /\ KeysOnce
    /\ AddedOnce
    /\ Whole(rows, rows)
    /\ \A r \in Requests : External!Importing(r) =>
           Whole(work[r].added, External!View(r)) /\ PeopleThere(r)

(* Uploads that have not overlapped: there is one at most, and it creates  *)
(* a status for books that have none only.                                 *)
UploadInv ==
    crossed \/
        /\ \A b \in Books : shelf[b] <= 1
        /\ \A r, s \in Requests : External!Uploading(r) /\ External!Uploading(s) => r = s
        /\ \A r \in Requests : External!Uploading(r) =>
               \A b \in Books : \/ work[r].created[b] = 0
                                \/ work[r].created[b] = 1 /\ shelf[b] = 0

-----------------------------------------------------------------------------
LEMMA ImportFields ==
    ASSUME External!TypeOK, NEW r \in Requests
    PROVE  /\ External!Importing(r) =>
                  /\ work[r].job \in BOOLEAN /\ work[r].detail \in Details
                  /\ work[r].missing \subseteq External!People
                  /\ work[r].added \subseteq External!Rows
           /\ work[r].at = "write" =>
                  /\ work[r].book \in Books
                  /\ work[r].found \in {"isbn", "title", "none"}
           /\ work[r].at = "rows" =>
                  /\ work[r].file \in Files /\ work[r].next \in Nat
                  /\ work[r].created \in [Books -> Nat]
           /\ External!Idle.at = "idle"
           /\ work[r] = External!Idle \/ External!Importing(r) \/ External!Uploading(r)
           /\ work[r] = External!Idle =>
                  ~External!Importing(r) /\ ~External!Uploading(r)
           /\ ~(External!Importing(r) /\ External!Uploading(r))
  <1>1. work[r] \in External!Work \cup {External!Idle}
    BY DEF External!TypeOK
  <1> QED
    BY <1>1 DEF External!Work, External!Idle, External!Importing, External!Uploading

(* The four kinds of rows.                                                 *)
LEMMA RowFields ==
    /\ \A p : External!Person(p).row = "person"
    /\ \A b, p : External!Link(b, p).row = "link" /\ External!Link(b, p).book = b
    /\ \A c, b : /\ External!Isbn(c, b).row = "isbn" /\ External!Isbn(c, b).code = c
                 /\ External!Isbn(c, b).book = b
    /\ \A b, d : /\ External!Book(b, d).row = "book" /\ External!Book(b, d).book = b
                 /\ External!Book(b, d).from = d
  BY DEF External!Person, External!Link, External!Isbn, External!Book

LEMMA InAdded ==
    ASSUME NEW x
    PROVE  x \in External!Added(Requests) <=>
               \E s \in Requests : External!Importing(s) /\ x \in work[s].added
  BY DEF External!Added

LEMMA ImportInitInv == External!Init => ImportInv
  <1> SUFFICES ASSUME External!Init PROVE ImportInv
    OBVIOUS
  <1>1. /\ \A r \in Requests : work[r] = External!Idle /\ ~External!Importing(r)
        /\ rows = {}
    BY DEF External!Init, External!Idle, External!Importing
  <1>2. AllRows = {}
    BY <1>1, InAdded DEF AllRows
  <1>3. External!TypeOK
    <2>1. 0 \in 0 .. MaxCount
      BY CountAssumption
    <2>2. /\ shelf \in [Books -> 0 .. MaxCount]
          /\ work \in [Requests -> External!Work \cup {External!Idle}]
      BY <2>1 DEF External!Init
    <2> QED  BY <2>2 DEF External!Init, External!TypeOK
  <1> QED  BY <1>1, <1>2, <1>3 DEF ImportInv, KeysOnce, AddedOnce, Whole

-----------------------------------------------------------------------------
(* A statement that inserts the rows of new, which may be none.            *)
LEMMA ImportAddsInv ==
    ASSUME ImportInv, External!TypeOK', NEW r \in Requests, NEW w, NEW new,
           rows' = rows, work' = [work EXCEPT ![r] = w],
           External!Importing(r), External!Importing(r)',
           w.added = work[r].added \cup new,
           External!Insertable(r, new),
           \A x, y \in new : External!SameKey(x, y) => x = y,
           Whole(new, rows \cup w.added),
           PeopleThere(r)'
    PROVE  ImportInv'
  <1>1. /\ work'[r] = w /\ \A s \in Requests \ {r} : work'[s] = work[s]
    BY DEF ImportInv, External!TypeOK
  <1>2. \A s \in Requests \ {r} :
            /\ External!Importing(s)' <=> External!Importing(s)
            /\ External!View(s)' = External!View(s)
    BY <1>1 DEF External!Importing, External!View
  <1>3. \A x \in new : \A y \in AllRows : ~External!SameKey(x, y)
    <2> SUFFICES ASSUME NEW x \in new, NEW y \in AllRows PROVE ~External!SameKey(x, y)
      OBVIOUS
    <2>1. y \in rows \/ \E s \in Requests : External!Importing(s) /\ y \in work[s].added
      BY InAdded DEF AllRows
    <2>2. y \in External!View(r) \cup External!Added(Requests \ {r})
      BY <2>1 DEF External!View, External!Added
    <2> QED  BY <2>2 DEF External!Insertable
  <1>4. ASSUME NEW x \in AllRows' PROVE x \in AllRows \cup new
    <2>1. x \in External!Added(Requests)' =>
              \E s \in Requests : External!Importing(s)' /\ x \in work'[s].added
      BY DEF External!Added
    <2> QED  BY <1>1, <1>2, <1>4, <2>1, InAdded DEF AllRows
  <1>5. \A x, y : External!SameKey(x, y) => External!SameKey(y, x)
    BY DEF External!SameKey
  <1>6. KeysOnce'
    <2>1. \A x, y \in AllRows \cup new : External!SameKey(x, y) => x = y
      BY <1>3, <1>5 DEF ImportInv, KeysOnce
    <2>2. \A x, y : External!SameKey(x, y)' <=> External!SameKey(x, y)
      BY DEF External!SameKey
    <2> QED  BY <1>4, <2>1, <2>2 DEF KeysOnce
  <1>7. new \cap AllRows = {}
    BY <1>3 DEF External!SameKey
  <1>8. AddedOnce'
    <2>1. \A s \in Requests : External!Importing(s) => work[s].added \subseteq AllRows
      BY InAdded DEF AllRows
    <2>2. rows \subseteq AllRows
      BY DEF AllRows
    <2> QED  BY <1>1, <1>2, <1>7, <2>1, <2>2 DEF ImportInv, AddedOnce
  <1>9. Whole(rows, rows)'
    BY DEF ImportInv, Whole
  <1>10. ASSUME NEW s \in Requests, External!Importing(s)'
         PROVE  Whole(work'[s].added, External!View(s)') /\ PeopleThere(s)'
    <2>1. CASE s = r
      <3>1. External!View(r)' = rows \cup w.added
        BY <1>1 DEF External!View
      <3>2. External!View(r) \subseteq rows \cup w.added
        BY DEF External!View
      <3>3. Whole(work[r].added, External!View(r))
        BY DEF ImportInv
      <3> QED  BY <1>1, <2>1, <3>1, <3>2, <3>3 DEF Whole
    <2>2. CASE s # r
      <3>1. Whole(work[s].added, External!View(s)) /\ PeopleThere(s)
            /\ work'[s] = work[s] /\ External!View(s)' = External!View(s)
        BY <1>1, <1>2, <1>10, <2>2 DEF ImportInv
      <3> QED  BY <3>1 DEF PeopleThere
    <2> QED  BY <2>1, <2>2
  <1>11. \A s \in Requests : External!Importing(s)' =>
             Whole(work[s].added, External!View(s))' /\ PeopleThere(s)'
    BY <1>10 DEF Whole
  <1> QED  BY <1>6, <1>8, <1>9, <1>11 DEF ImportInv

(* A request that has nothing in its transaction, if it has one.           *)
LEMMA ImportEmptyInv ==
    ASSUME ImportInv, External!TypeOK', NEW r \in Requests, NEW w,
           rows' = rows, work' = [work EXCEPT ![r] = w],
           External!Importing(r)' => w.added = {} /\ PeopleThere(r)'
    PROVE  ImportInv'
  <1>1. /\ work'[r] = w /\ \A s \in Requests \ {r} : work'[s] = work[s]
    BY DEF ImportInv, External!TypeOK
  <1>2. \A s \in Requests \ {r} :
            /\ External!Importing(s)' <=> External!Importing(s)
            /\ External!View(s)' = External!View(s)
    BY <1>1 DEF External!Importing, External!View
  <1>3. ASSUME NEW x \in AllRows' PROVE x \in AllRows
    <2>1. x \in External!Added(Requests)' =>
              \E s \in Requests : External!Importing(s)' /\ x \in work'[s].added
      BY DEF External!Added
    <2> QED  BY <1>1, <1>2, <1>3, <2>1, InAdded DEF AllRows
  <1>4. KeysOnce'
    <2>1. \A x, y : External!SameKey(x, y)' <=> External!SameKey(x, y)
      BY DEF External!SameKey
    <2> QED  BY <1>3, <2>1 DEF ImportInv, KeysOnce
  <1>5. AddedOnce'
    BY <1>1, <1>2 DEF ImportInv, AddedOnce
  <1>6. Whole(rows, rows)'
    BY DEF ImportInv, Whole
  <1>7. ASSUME NEW s \in Requests, External!Importing(s)'
        PROVE  Whole(work[s].added, External!View(s))' /\ PeopleThere(s)'
    <2>1. CASE s = r
      BY <1>1, <1>7, <2>1 DEF Whole
    <2>2. CASE s # r
      <3>1. Whole(work[s].added, External!View(s)) /\ PeopleThere(s)
            /\ work'[s] = work[s] /\ External!View(s)' = External!View(s)
        BY <1>1, <1>2, <1>7, <2>2 DEF ImportInv
      <3> QED  BY <3>1 DEF PeopleThere, Whole
    <2> QED  BY <2>1, <2>2
  <1> QED  BY <1>4, <1>5, <1>6, <1>7 DEF ImportInv

(* The commit of what a request has inserted.                              *)
LEMMA ImportCommitsInv ==
    ASSUME ImportInv, External!TypeOK', NEW r \in Requests, NEW w,
           External!Importing(r),
           rows' = rows \cup work[r].added, work' = [work EXCEPT ![r] = w],
           w.at = "idle" \/ (w.at = "between" /\ w.added = {})
    PROVE  ImportInv'
  <1>1. /\ work'[r] = w /\ \A s \in Requests \ {r} : work'[s] = work[s]
        /\ External!Importing(r)' => w.at = "between" /\ w.added = {}
    BY DEF ImportInv, External!TypeOK, External!Importing
  <1>2. \A s \in Requests \ {r} :
            /\ External!Importing(s)' <=> External!Importing(s)
            /\ External!View(s) \subseteq External!View(s)'
    BY <1>1 DEF External!Importing, External!View
  <1>3. ASSUME NEW x \in AllRows' PROVE x \in AllRows
    <2>1. x \in External!Added(Requests)' =>
              \E s \in Requests : External!Importing(s)' /\ x \in work'[s].added
      BY DEF External!Added
    <2> QED  BY <1>1, <1>2, <1>3, <2>1, InAdded DEF AllRows
  <1>4. KeysOnce'
    <2>1. \A x, y : External!SameKey(x, y)' <=> External!SameKey(x, y)
      BY DEF External!SameKey
    <2> QED  BY <1>3, <2>1 DEF ImportInv, KeysOnce
  <1>5. AddedOnce'
    BY <1>1, <1>2 DEF ImportInv, AddedOnce
  <1>6. Whole(rows, rows)'
    <2>1. Whole(rows, rows) /\ Whole(work[r].added, rows \cup work[r].added)
      BY DEF ImportInv, External!View
    <2> QED  BY <2>1 DEF Whole
  <1>7. ASSUME NEW s \in Requests, External!Importing(s)'
        PROVE  Whole(work[s].added, External!View(s))' /\ PeopleThere(s)'
    <2>1. CASE s = r
      BY <1>1, <1>7, <2>1 DEF Whole, PeopleThere
    <2>2. CASE s # r
      <3>1. Whole(work[s].added, External!View(s)) /\ PeopleThere(s)
            /\ work'[s] = work[s] /\ External!View(s) \subseteq External!View(s)'
        BY <1>1, <1>2, <1>7, <2>2 DEF ImportInv
      <3> QED  BY <3>1 DEF PeopleThere, Whole
    <2> QED  BY <2>1, <2>2
  <1> QED  BY <1>4, <1>5, <1>6, <1>7 DEF ImportInv

-----------------------------------------------------------------------------
(* A statement that changes nothing but what the request goes on with.     *)
LEMMA ImportTyped ==
    ASSUME External!TypeOK, NEW r \in Requests,
           NEW w \in External!Work \cup {External!Idle}, External!Become(r, w)
    PROVE  External!TypeOK'
  BY DEF External!TypeOK, External!Become

LEMMA ImportTurnsInv ==
    ASSUME ImportInv, External!TypeOK', NEW r \in Requests, NEW w,
           rows' = rows, work' = [work EXCEPT ![r] = w],
           External!Importing(r), External!Importing(r)',
           w.added = work[r].added, PeopleThere(r)'
    PROVE  ImportInv'
  <1> DEFINE new == {}
  <1>1. /\ \A x, y \in new : External!SameKey(x, y) => x = y
        /\ External!Insertable(r, new) /\ Whole(new, rows \cup w.added)
        /\ w.added = work[r].added \cup new
    BY DEF External!Insertable, Whole
  <1> HIDE DEF new
  <1> QED  BY <1>1, ImportAddsInv

(* Of what an import goes on with.                                         *)
LEMMA ImportStage ==
    ASSUME NEW at \in {"between", "people", "book"}, NEW job \in BOOLEAN,
           NEW d \in Details, NEW missing \in SUBSET External!People,
           NEW added \in SUBSET External!Rows
    PROVE  [at |-> at, job |-> job, detail |-> d, missing |-> missing, added |-> added]
               \in External!Work
  BY DEF External!Work

LEMMA ImportBeginInv ==
    ASSUME ImportInv, NEW r \in Requests, NEW d \in Details, NEW job \in BOOLEAN,
           External!Begin(r, d, job)
    PROVE  ImportInv'
  <1> DEFINE missing == {p \in d.people : External!Person(p) \notin rows}
             w == [at |-> "people", job |-> job, detail |-> d, added |-> {},
                   missing |-> missing]
  <1>1. External!TypeOK /\ External!Become(r, w) /\ rows' = rows
        /\ work' = [work EXCEPT ![r] = w]
    BY DEF ImportInv, External!Begin, External!Become
  <1>2. missing \subseteq External!People
    BY DEF External!People
  <1>3. w \in External!Work
    BY <1>2 DEF External!Work
  <1>4. w.at = "people" /\ w.added = {} /\ w.detail = d /\ w.missing = missing
    OBVIOUS
  <1>5. \A p \in d.people \ missing : External!Person(p) \in rows
    OBVIOUS
  <1> HIDE DEF w, missing
  <1>6. work'[r] = w
    BY <1>1 DEF External!TypeOK
  <1>7. PeopleThere(r)'
    BY <1>1, <1>4, <1>5, <1>6 DEF PeopleThere, External!View, External!Person
  <1>8. External!TypeOK'
    BY <1>1, <1>3, ImportTyped
  <1> QED  BY <1>1, <1>4, <1>7, <1>8, ImportEmptyInv

LEMMA ImportNextHitInv ==
    ASSUME ImportInv, NEW r \in Requests, NEW d \in Details, External!NextHit(r, d)
    PROVE  ImportInv'
  <1> DEFINE missing == {p \in d.people : External!Person(p) \notin External!View(r)}
             w == [work[r] EXCEPT !.at = "people", !.detail = d, !.missing = missing]
  <1>1. /\ External!TypeOK /\ External!Become(r, w) /\ rows' = rows
        /\ work' = [work EXCEPT ![r] = w] /\ work[r].at = "between"
        /\ External!Importing(r)
    BY DEF ImportInv, External!NextHit, External!Become, External!Importing
  <1>2. missing \subseteq External!People
    BY DEF External!People
  <1>3. work[r] \in External!Work
    BY <1>1, ImportFields DEF External!TypeOK
  <1>4. /\ w \in External!Work
        /\ w.at = "people" /\ w.added = work[r].added /\ w.detail = d
        /\ w.missing = missing
    BY <1>1, <1>2, <1>3 DEF External!Work
  <1>5. \A p \in d.people \ missing : External!Person(p) \in External!View(r)
    OBVIOUS
  <1> HIDE DEF w, missing
  <1>6. work'[r] = w
    BY <1>1 DEF External!TypeOK
  <1>7. PeopleThere(r)'
    BY <1>1, <1>4, <1>5, <1>6 DEF PeopleThere, External!View, External!Person
  <1>8. External!TypeOK' /\ External!Importing(r)'
    BY <1>1, <1>4, <1>6, ImportTyped DEF External!Importing
  <1> QED  BY <1>1, <1>4, <1>7, <1>8, ImportTurnsInv

LEMMA ImportPeopleInv ==
    ASSUME ImportInv, NEW r \in Requests, External!AddContributors(r)
    PROVE  ImportInv'
  <1> DEFINE new == {External!Person(p) : p \in work[r].missing}
             w == [work[r] EXCEPT !.at = "book", !.added = @ \cup new]
  <1>1. /\ External!TypeOK /\ External!Become(r, w) /\ rows' = rows
        /\ work' = [work EXCEPT ![r] = w] /\ work[r].at = "people"
        /\ External!Importing(r) /\ External!Insertable(r, new)
    BY DEF ImportInv, External!AddContributors, External!Become, External!Importing
  <1>2. new \subseteq External!Rows
    BY <1>1, ImportFields DEF External!Rows
  <1>3. work[r] \in External!Work
    BY <1>1, ImportFields DEF External!TypeOK
  <1>4. /\ w \in External!Work
        /\ w.at = "book" /\ w.added = work[r].added \cup new
        /\ w.detail = work[r].detail
    BY <1>1, <1>2, <1>3 DEF External!Work
  <1>5. \A x \in new : x.row = "person"
    BY RowFields
  <1>6. \A p \in work[r].missing : External!Person(p) \in new
    OBVIOUS
  <1> HIDE DEF w, new
  <1>7. work'[r] = w
    BY <1>1 DEF External!TypeOK
  <1>8. PeopleThere(r)'
    <2>1. PeopleThere(r)
      BY <1>1 DEF ImportInv
    <2>2. \A p \in work[r].detail.people : External!Person(p) \in rows \cup w.added
      BY <1>1, <1>4, <1>6, <2>1 DEF PeopleThere, External!View
    <2> QED  BY <1>1, <1>4, <1>7, <2>2 DEF PeopleThere, External!View, External!Person
  <1>9. External!TypeOK' /\ External!Importing(r)'
    BY <1>1, <1>4, <1>7, ImportTyped DEF External!Importing
  <1>10. /\ \A x, y \in new : External!SameKey(x, y) => x = y
         /\ Whole(new, rows \cup w.added)
    BY <1>5 DEF External!SameKey, Whole
  <1> QED  BY <1>1, <1>4, <1>8, <1>9, <1>10, ImportAddsInv

LEMMA ImportResolveInv ==
    ASSUME ImportInv, NEW r \in Requests, NEW b \in Books, External!ResolveBook(r, b)
    PROVE  ImportInv'
  <1> DEFINE how == IF External!FirstByIsbn(External!View(r), work[r].detail) # {}
                    THEN "isbn"
                    ELSE IF External!ByTitle(External!View(r), work[r].detail) # {}
                    THEN "title" ELSE "none"
             w == [at |-> "write", job |-> work[r].job, detail |-> work[r].detail,
                   missing |-> {}, added |-> work[r].added, book |-> b, found |-> how]
  <1>1. /\ External!TypeOK /\ External!Become(r, w) /\ rows' = rows
        /\ work' = [work EXCEPT ![r] = w] /\ work[r].at = "book"
        /\ External!Importing(r)
    BY DEF ImportInv, External!ResolveBook, External!Become, External!Importing
  <1>2. how \in {"isbn", "title", "none"}
    OBVIOUS
  <1> HIDE DEF how
  <1>3. w \in External!Work
    BY <1>1, <1>2, ImportFields DEF External!Work
  <1>4. w.at = "write" /\ w.added = work[r].added /\ w.detail = work[r].detail
    OBVIOUS
  <1> HIDE DEF w
  <1>5. work'[r] = w
    BY <1>1 DEF External!TypeOK
  <1>6. PeopleThere(r)'
    <2>1. PeopleThere(r)
      BY <1>1 DEF ImportInv
    <2> QED  BY <1>1, <1>4, <1>5, <2>1 DEF PeopleThere, External!View, External!Person
  <1>7. External!TypeOK' /\ External!Importing(r)'
    BY <1>1, <1>3, <1>4, <1>5, ImportTyped DEF External!Importing
  <1> QED  BY <1>1, <1>4, <1>6, <1>7, ImportTurnsInv

(* A new book comes with its codes and links, and its contributors are     *)
(* there.                                                                  *)
LEMMA ImportWriteInv ==
    ASSUME ImportInv, NEW r \in Requests, External!WriteBook(r)
    PROVE  ImportInv'
  <1> DEFINE new == External!NewRows(r)
             w == [at |-> "between", job |-> work[r].job, detail |-> work[r].detail,
                   missing |-> {}, added |-> work[r].added \cup new]
  <1>1. /\ External!TypeOK /\ External!Become(r, w) /\ rows' = rows
        /\ work' = [work EXCEPT ![r] = w] /\ work[r].at = "write"
        /\ External!Importing(r) /\ External!Insertable(r, new)
    BY DEF ImportInv, External!WriteBook, External!Become, External!Importing
  <1>2. /\ work[r].detail \in Details /\ work[r].book \in Books
        /\ work[r].found \in {"isbn", "title", "none"}
        /\ work[r].job \in BOOLEAN /\ work[r].added \subseteq External!Rows
    BY <1>1, ImportFields
  <1>3. /\ work[r].detail.people \subseteq External!People
        /\ External!CodesOf(work[r].detail) \subseteq External!Codes
    BY <1>2 DEF External!People, External!Codes
  <1>4. /\ new \subseteq External!Rows
        /\ \A x \in new :
               \/ x = External!Book(work[r].book, work[r].detail)
                  /\ work[r].found = "none"
               \/ \E p \in work[r].detail.people : x = External!Link(work[r].book, p)
               \/ \E c \in External!CodesOf(work[r].detail) :
                      x = External!Isbn(c, work[r].book)
        /\ \A p \in work[r].detail.people :
               External!Link(work[r].book, p) \in External!View(r) \cup new
        /\ work[r].found = "none" => \A c \in External!CodesOf(work[r].detail) :
               External!Isbn(c, work[r].book) \in new
    BY <1>2, <1>3 DEF External!NewRows, External!Rows
  <1> HIDE DEF new
  <1>5. w \in External!Work
    BY <1>2, <1>4, ImportStage
  <1>6. w.at = "between" /\ w.added = work[r].added \cup new
    OBVIOUS
  <1> HIDE DEF w
  <1>7. work'[r] = w
    BY <1>1 DEF External!TypeOK
  <1>8. PeopleThere(r)'
    BY <1>6, <1>7 DEF PeopleThere
  <1>9. External!TypeOK' /\ External!Importing(r)'
    BY <1>1, <1>5, <1>6, <1>7, ImportTyped DEF External!Importing
  <1>10. \A x, y \in new : External!SameKey(x, y) => x = y
    BY <1>4, RowFields DEF External!SameKey
  <1>11. Whole(new, rows \cup w.added)
    <2> SUFFICES ASSUME NEW x \in new, x.row = "book"
                 PROVE  /\ \A c \in External!CodesOf(x.from) :
                               External!Isbn(c, x.book) \in rows \cup w.added
                        /\ \A p \in x.from.people :
                               /\ External!Link(x.book, p) \in rows \cup w.added
                               /\ External!Person(p) \in rows \cup w.added
      BY DEF Whole
    <2>1. x.book = work[r].book /\ x.from = work[r].detail /\ work[r].found = "none"
      BY <1>4, RowFields
    <2>2. \A p \in work[r].detail.people : External!Person(p) \in External!View(r)
      BY <1>1 DEF ImportInv, PeopleThere
    <2>3. External!View(r) \cup new = rows \cup w.added
      BY <1>6 DEF External!View
    <2> QED  BY <1>4, <2>1, <2>2, <2>3
  <1> QED  BY <1>1, <1>6, <1>8, <1>9, <1>10, <1>11, ImportAddsInv

-----------------------------------------------------------------------------
LEMMA ImportSearchInv ==
    ASSUME ImportInv, NEW r \in Requests, External!Search(r)
    PROVE  ImportInv'
  <1> DEFINE w == [work[r] EXCEPT !.added = {}]
  <1>1. /\ External!TypeOK /\ rows' = rows \cup work[r].added
        /\ work' = [work EXCEPT ![r] = w] /\ work[r].at = "between"
        /\ External!Importing(r) /\ UNCHANGED <<shelf, owned, records, crossed>>
    BY DEF ImportInv, External!Search, External!Importing
  <1>2. work[r] \in External!Work
    BY <1>1, ImportFields DEF External!TypeOK
  <1>3. w \in External!Work /\ w.at = "between" /\ w.added = {}
    BY <1>1, <1>2 DEF External!Work
  <1> HIDE DEF w
  <1>4. External!TypeOK'
    BY <1>1, <1>3, ImportFields DEF External!TypeOK
  <1> QED  BY <1>1, <1>3, <1>4, ImportCommitsInv

LEMMA ImportFinishInv ==
    ASSUME ImportInv, NEW r \in Requests, External!Finish(r)
    PROVE  ImportInv'
  <1>1. /\ External!TypeOK /\ rows' = rows \cup work[r].added
        /\ work' = [work EXCEPT ![r] = External!Idle]
        /\ External!Importing(r) /\ UNCHANGED <<shelf, owned, records, crossed>>
    BY DEF ImportInv, External!Finish, External!Importing
  <1>2. External!TypeOK'
    BY <1>1, ImportFields DEF External!TypeOK
  <1> DEFINE w == External!Idle
  <1>3. w.at = "idle" \/ (w.at = "between" /\ w.added = {})
    BY <1>1, ImportFields
  <1>4. work' = [work EXCEPT ![r] = w]
    BY <1>1
  <1> HIDE DEF w
  <1> QED  BY <1>1, <1>2, <1>3, <1>4, ImportCommitsInv

LEMMA ImportFailsInv ==
    ASSUME ImportInv, NEW r \in Requests, External!Fails(r)
    PROVE  ImportInv'
  <1>1. /\ External!TypeOK /\ External!Become(r, External!Idle) /\ rows' = rows
        /\ work' = [work EXCEPT ![r] = External!Idle]
    BY DEF ImportInv, External!Fails, External!Become
  <1>2. External!TypeOK'
    BY <1>1, ImportTyped
  <1>3. ~External!Importing(r)'
    BY <1>1 DEF External!TypeOK, External!Importing, External!Idle
  <1> QED  BY <1>1, <1>2, <1>3, ImportEmptyInv

LEMMA ImportUploadInv ==
    ASSUME ImportInv, NEW r \in Requests, NEW f \in Files, External!Upload(r, f)
    PROVE  ImportInv'
  <1> DEFINE w == [at |-> "rows", file |-> f, next |-> 1,
                   created |-> [b \in Books |-> 0]]
  <1>1. /\ External!TypeOK /\ rows' = rows /\ work' = [work EXCEPT ![r] = w]
        /\ crossed' \in BOOLEAN /\ UNCHANGED <<shelf, owned, records>>
    BY DEF ImportInv, External!Upload, External!TypeOK
  <1>2. w \in External!Work /\ w.at = "rows"
    BY DEF External!Work
  <1> HIDE DEF w
  <1>3. External!TypeOK' /\ ~External!Importing(r)'
    BY <1>1, <1>2 DEF External!TypeOK, External!Importing
  <1> QED  BY <1>1, <1>3, ImportEmptyInv

LEMMA ImportRowInv ==
    ASSUME ImportInv, NEW r \in Requests, External!ProcessRow(r)
    PROVE  ImportInv'
  <1>1. External!TypeOK /\ work[r].at = "rows"
    BY DEF ImportInv, External!ProcessRow
  <1>2. PICK new \in SUBSET Books :
            External!Become(r,
                [at |-> "rows", file |-> work[r].file, next |-> work[r].next + 1,
                 created |-> [b \in Books |-> IF b \in new THEN work[r].created[b] + 1
                                              ELSE work[r].created[b]]])
    BY DEF External!ProcessRow
  <1> DEFINE created == [b \in Books |-> IF b \in new THEN work[r].created[b] + 1
                                         ELSE work[r].created[b]]
             w == [at |-> "rows", file |-> work[r].file, next |-> work[r].next + 1,
                   created |-> created]
  <1>3. work[r].file \in Files /\ work[r].next + 1 \in Nat /\ created \in [Books -> Nat]
    BY <1>1, ImportFields
  <1>4. External!Become(r, w)
    BY <1>2
  <1> HIDE DEF created
  <1>5. w \in External!Work /\ w.at = "rows"
    BY <1>3 DEF External!Work
  <1> HIDE DEF w
  <1>6. External!TypeOK' /\ ~External!Importing(r)' /\ rows' = rows
        /\ work' = [work EXCEPT ![r] = w]
    BY <1>1, <1>4, <1>5, ImportTyped
       DEF External!TypeOK, External!Importing, External!Become
  <1> QED  BY <1>6, ImportEmptyInv

LEMMA ImportFinishUploadInv ==
    ASSUME ImportInv, NEW r \in Requests, External!FinishUpload(r)
    PROVE  ImportInv'
  <1>1. /\ External!TypeOK /\ rows' = rows /\ UNCHANGED <<owned, crossed>>
        /\ work' = [work EXCEPT ![r] = External!Idle]
        /\ shelf' = [b \in Books |-> shelf[b] + work[r].created[b]]
        /\ \A b \in Books : shelf[b] + work[r].created[b] <= MaxCount
        /\ records' = records \cup {work[r].file} /\ work[r].at = "rows"
    BY DEF ImportInv, External!FinishUpload
  <1>2. /\ work[r].file \in Files /\ work[r].created \in [Books -> Nat]
        /\ shelf \in [Books -> 0 .. MaxCount]
    BY <1>1, ImportFields DEF External!TypeOK
  <1>3. shelf' \in [Books -> 0 .. MaxCount]
    BY <1>1, <1>2, CountAssumption
  <1>4. External!TypeOK' /\ ~External!Importing(r)'
    BY <1>1, <1>2, <1>3 DEF External!TypeOK, External!Importing, External!Idle
  <1> QED  BY <1>1, <1>4, ImportEmptyInv

(* A book that is deleted takes rows of its own along, and is not about to *)
(* be created: its key is in use.                                          *)
LEMMA ImportDeleteInv ==
    ASSUME ImportInv, NEW b \in Books, External!DeleteBook(b)
    PROVE  ImportInv'
  <1>1. /\ External!TypeOK /\ b \in External!BooksIn(rows)
        /\ rows' = {x \in rows : x.row = "person" \/ x.book # b}
        /\ UNCHANGED <<shelf, owned, records, work, crossed>>
    BY DEF ImportInv, External!DeleteBook
  <1>2. External!TypeOK' /\ rows' \subseteq rows
    BY <1>1 DEF External!TypeOK
  <1>3. \A p : External!Person(p) \in rows => External!Person(p) \in rows'
    BY <1>1, RowFields
  <1>4. \A c : \A a : a # b =>
            /\ External!Isbn(c, a) \in rows => External!Isbn(c, a) \in rows'
            /\ External!Link(a, c) \in rows => External!Link(a, c) \in rows'
    BY <1>1, RowFields
  <1>5. \A r \in Requests : External!Importing(r)' <=> External!Importing(r)
    BY <1>1 DEF External!Importing
  <1>6. External!Added(Requests)' = External!Added(Requests)
    BY <1>1 DEF External!Added, External!Importing
  <1>7. KeysOnce'
    <2>1. AllRows' \subseteq AllRows
      BY <1>2, <1>6 DEF AllRows
    <2>2. \A x, y : External!SameKey(x, y)' <=> External!SameKey(x, y)
      BY DEF External!SameKey
    <2> QED  BY <2>1, <2>2 DEF ImportInv, KeysOnce
  <1>8. AddedOnce'
    BY <1>1, <1>2, <1>5 DEF ImportInv, AddedOnce
  <1>9. Whole(rows, rows)'
    BY <1>1, <1>3, <1>4 DEF ImportInv, Whole
  <1>10. ASSUME NEW r \in Requests, External!Importing(r)
         PROVE  Whole(work[r].added, External!View(r))' /\ PeopleThere(r)'
    <2>1. Whole(work[r].added, External!View(r)) /\ PeopleThere(r)
      BY <1>10 DEF ImportInv
    <2>2. \A p : External!Person(p) \in External!View(r) =>
                     External!Person(p) \in External!View(r)'
      BY <1>1, <1>3 DEF External!View
    <2>3. PeopleThere(r)'
      <3>1. \A p : External!Person(p)' = External!Person(p)
        BY DEF External!Person
      <3> QED  BY <1>1, <2>1, <2>2, <3>1 DEF PeopleThere
    <2>4. ASSUME NEW x \in work[r].added, x.row = "book" PROVE x.book # b
      <3>1. PICK y \in rows : y.row = "book" /\ y.book = b
        BY <1>1 DEF External!BooksIn
      <3>2. x \in AllRows /\ y \in AllRows
        BY <1>10, InAdded DEF AllRows
      <3>3. x.book = b => x = y
        BY <2>4, <3>1, <3>2 DEF ImportInv, KeysOnce, External!SameKey
      <3> QED  BY <1>10, <2>4, <3>1, <3>3 DEF ImportInv, AddedOnce
    <2>5. \A c : \A a : a # b =>
              /\ External!Isbn(c, a) \in External!View(r) =>
                     External!Isbn(c, a) \in External!View(r)'
              /\ External!Link(a, c) \in External!View(r) =>
                     External!Link(a, c) \in External!View(r)'
      BY <1>1, <1>4 DEF External!View
    <2>6. Whole(work[r].added, External!View(r))'
      BY <1>1, <2>1, <2>2, <2>4, <2>5 DEF Whole
    <2> QED  BY <2>3, <2>6
  <1> QED  BY <1>2, <1>5, <1>7, <1>8, <1>9, <1>10 DEF ImportInv

(* What the user does to the shelf.                                        *)
LEMMA ImportShelfInv ==
    ASSUME ImportInv, NEW b \in Books, External!Own(b) \/ External!Drop(b)
    PROVE  ImportInv'
  <1>1. External!TypeOK /\ UNCHANGED <<rows, records, work, crossed>>
    BY DEF ImportInv, External!Own, External!Drop
  <1>2. owned' \subseteq Books /\ shelf' \in [Books -> 0 .. MaxCount]
    <2>1. CASE External!Own(b)
      BY <1>1, <2>1 DEF External!Own, External!TypeOK
    <2>2. CASE External!Drop(b)
      <3>1. CASE UNCHANGED shelf
        BY <1>1, <2>2, <3>1 DEF External!Drop, External!TypeOK
      <3>2. CASE shelf[b] > 0 /\ shelf' = [shelf EXCEPT ![b] = @ - 1] /\ UNCHANGED owned
        <4>1. shelf[b] \in 0 .. MaxCount
          BY <1>1 DEF External!TypeOK
        <4>2. shelf[b] - 1 \in 0 .. MaxCount
          BY <3>2, <4>1, CountAssumption
        <4> QED  BY <1>1, <3>2, <4>2 DEF External!TypeOK
      <3> QED  BY <2>2, <3>1, <3>2 DEF External!Drop
    <2> QED  BY <2>1, <2>2
  <1>3. External!TypeOK'
    BY <1>1, <1>2 DEF External!TypeOK
  <1> QED
    BY <1>1, <1>3 DEF ImportInv, KeysOnce, AllRows, AddedOnce, Whole, PeopleThere,
                      External!Added, External!View, External!Importing,
                      External!SameKey, External!Person, External!Link, External!Isbn

LEMMA ImportNextInv == ImportInv /\ [External!Next]_External!vars => ImportInv'
  <1> SUFFICES ASSUME ImportInv, [External!Next]_External!vars PROVE ImportInv'
    OBVIOUS
  <1>1. CASE UNCHANGED External!vars
    BY <1>1 DEF External!vars, ImportInv, KeysOnce, AllRows, AddedOnce, Whole,
                PeopleThere, External!TypeOK, External!Added, External!View,
                External!Importing, External!SameKey, External!Person, External!Link,
                External!Isbn
  <1>2. ASSUME NEW r \in Requests,
               \/ \E d \in Details :
                      \/ \E job \in BOOLEAN : External!Begin(r, d, job)
                      \/ External!NextHit(r, d)
               \/ External!AddContributors(r)
               \/ \E b \in Books : External!ResolveBook(r, b)
               \/ External!WriteBook(r)
               \/ External!Search(r)
               \/ External!Finish(r)
               \/ \E f \in Files : External!Upload(r, f)
               \/ External!ProcessRow(r)
               \/ External!FinishUpload(r)
               \/ External!Fails(r)
        PROVE  ImportInv'
    BY <1>2, ImportBeginInv, ImportNextHitInv, ImportPeopleInv, ImportResolveInv,
       ImportWriteInv, ImportSearchInv, ImportFinishInv, ImportUploadInv, ImportRowInv,
       ImportFinishUploadInv, ImportFailsInv
  <1>3. ASSUME NEW b \in Books,
               External!DeleteBook(b) \/ External!Own(b) \/ External!Drop(b)
        PROVE  ImportInv'
    BY <1>3, ImportDeleteInv, ImportShelfInv
  <1> QED  BY <1>1, <1>2, <1>3 DEF External!Next

THEOREM ImportInvariance == External!Spec => []ImportInv
  BY ImportInitInv, ImportNextInv, PTL DEF External!Spec

(* However requests and jobs overlap, fail or run again, no book is left   *)
(* half imported, and no two were made of editions that share a code.      *)
THEOREM ImportsOnce == External!Spec => []ImportedOnce
  <1>1. ImportInv => ImportedOnce
    <2> SUFFICES ASSUME ImportInv, NEW x \in rows, x.row = "book"
                 PROVE  /\ \A c \in External!CodesOf(x.from) :
                               External!Isbn(c, x.book) \in rows
                        /\ \A p \in x.from.people :
                               {External!Link(x.book, p), External!Person(p)} \subseteq rows
                        /\ \A y \in rows :
                               y.row = "book" /\ External!CodesOf(y.from)
                                                     \cap External!CodesOf(x.from) # {}
                               => y.book = x.book
      BY DEF ImportedOnce, External!ImportedOnce
    <2>1. /\ \A c \in External!CodesOf(x.from) : External!Isbn(c, x.book) \in rows
          /\ \A p \in x.from.people :
                 {External!Link(x.book, p), External!Person(p)} \subseteq rows
      BY DEF ImportInv, Whole
    <2>2. ASSUME NEW y \in rows, y.row = "book",
                 NEW c \in External!CodesOf(y.from) \cap External!CodesOf(x.from)
          PROVE  y.book = x.book
      <3>1. External!Isbn(c, x.book) \in AllRows /\ External!Isbn(c, y.book) \in AllRows
        BY <2>1, <2>2 DEF ImportInv, Whole, AllRows
      <3>2. External!SameKey(External!Isbn(c, x.book), External!Isbn(c, y.book))
        BY RowFields DEF External!SameKey
      <3>3. External!Isbn(c, x.book) = External!Isbn(c, y.book)
        BY <3>1, <3>2 DEF ImportInv, KeysOnce
      <3> QED  BY <3>3, RowFields
    <2> QED  BY <2>1, <2>2
  <1> QED  BY <1>1, ImportInvariance, PTL

-----------------------------------------------------------------------------
LEMMA UploadInitInv == External!Init => UploadInv
  BY DEF External!Init, UploadInv, External!Uploading, External!Idle

LEMMA UploadNextInv ==
    ImportInv /\ UploadInv /\ [External!Next]_External!vars => UploadInv'
  <1> SUFFICES ASSUME ImportInv, UploadInv, [External!Next]_External!vars, ~crossed'
               PROVE  UploadInv'
    BY DEF UploadInv
  <1>1. CASE UNCHANGED External!vars
    BY <1>1 DEF External!vars, UploadInv, External!Uploading
  <1>2. ASSUME NEW r \in Requests,
               \/ \E d \in Details :
                      \/ \E job \in BOOLEAN : External!Begin(r, d, job)
                      \/ External!NextHit(r, d)
               \/ External!AddContributors(r)
               \/ \E b \in Books : External!ResolveBook(r, b)
               \/ External!WriteBook(r)
               \/ External!Search(r)
               \/ External!Finish(r)
               \/ External!Fails(r)
        PROVE  UploadInv'
    <2>1. crossed' = crossed /\ shelf' = shelf
      BY <1>2 DEF External!Begin, External!NextHit, External!AddContributors,
           External!ResolveBook, External!WriteBook, External!Search, External!Finish,
           External!Fails, External!Become
    <2>2. ~External!Uploading(r)'
      <3>1. r \in DOMAIN work
        BY DEF ImportInv, External!TypeOK
      <3>2. CASE \E d \in Details :
                     \/ \E job \in BOOLEAN : External!Begin(r, d, job)
                     \/ External!NextHit(r, d)
        <4>1. CASE \E d \in Details, job \in BOOLEAN : External!Begin(r, d, job)
          BY <3>1, <4>1 DEF External!Begin, External!Uploading
        <4>2. CASE \E d \in Details : External!NextHit(r, d)
          <5>1. work[r] \in External!Work
            BY <4>2, ImportFields DEF External!NextHit, ImportInv, External!TypeOK,
                                      External!Idle
          <5> QED
            BY <3>1, <4>2, <5>1 DEF External!NextHit, External!Become,
                                    External!Uploading, External!Work
        <4> QED  BY <3>2, <4>1, <4>2
      <3>3. CASE External!AddContributors(r) \/ External!Search(r)
        <4>1. work[r] \in External!Work
          BY <3>3, ImportFields DEF External!AddContributors, External!Search, ImportInv,
                                    External!TypeOK, External!Idle
        <4> QED
          BY <3>1, <3>3, <4>1 DEF External!AddContributors, External!Search,
                                  External!Become, External!Uploading, External!Work
      <3>4. CASE \/ \E b \in Books : External!ResolveBook(r, b)
                 \/ External!WriteBook(r)
        BY <3>1, <3>4 DEF External!ResolveBook, External!WriteBook, External!Become,
                          External!Uploading
      <3>5. CASE External!Finish(r) \/ External!Fails(r)
        BY <3>1, <3>5 DEF External!Finish, External!Fails, External!Become,
                          External!Uploading, External!Idle
      <3> QED  BY <1>2, <3>2, <3>3, <3>4, <3>5
    <2>3. \A s \in Requests \ {r} : work'[s] = work[s]
      BY <1>2 DEF External!Begin, External!NextHit, External!AddContributors,
           External!ResolveBook, External!WriteBook, External!Search, External!Finish,
           External!Fails, External!Become, ImportInv, External!TypeOK
    <2> QED  BY <2>1, <2>2, <2>3 DEF UploadInv, External!Uploading
  <1>3. ASSUME NEW r \in Requests, NEW f \in Files, External!Upload(r, f)
        PROVE  UploadInv'
    <2> DEFINE w == [at |-> "rows", file |-> f, next |-> 1,
                     created |-> [b \in Books |-> 0]]
    <2>1. /\ work' = [work EXCEPT ![r] = w] /\ shelf' = shelf /\ ~crossed
          /\ \A s \in Requests : ~External!Uploading(s)
      BY <1>3 DEF External!Upload
    <2>2. w.at = "rows" /\ \A b \in Books : w.created[b] = 0
      OBVIOUS
    <2> HIDE DEF w
    <2>3. /\ work'[r] = w
          /\ \A s \in Requests \ {r} : work'[s] = work[s] /\ ~External!Uploading(s)'
      BY <2>1 DEF ImportInv, External!TypeOK, External!Uploading
    <2> QED  BY <2>1, <2>2, <2>3 DEF UploadInv
  <1>4. ASSUME NEW r \in Requests, External!ProcessRow(r) PROVE UploadInv'
    <2> DEFINE c(b) == IF External!Isbn(work[r].file[work[r].next], b) \in rows
                          /\ ~External!OnShelf(r, b)
                       THEN work[r].created[b] + 1 ELSE work[r].created[b]
               w == [at |-> "rows", file |-> work[r].file, next |-> work[r].next + 1,
                     created |-> [b \in Books |-> c(b)]]
    <2>1. /\ work' = [work EXCEPT ![r] = w] /\ shelf' = shelf /\ ~crossed
          /\ External!Uploading(r)
      BY <1>4 DEF External!ProcessRow, External!Become, External!Uploading
    <2>2. w.at = "rows" /\ \A b \in Books : w.created[b] = c(b)
      OBVIOUS
    <2>3. ASSUME NEW b \in Books PROVE c(b) = 0 \/ (c(b) = 1 /\ shelf[b] = 0)
      <3>1. /\ work[r].created[b] \in Nat /\ shelf[b] \in 0 .. MaxCount
            /\ \/ work[r].created[b] = 0
               \/ work[r].created[b] = 1 /\ shelf[b] = 0
        BY <2>1, ImportFields DEF UploadInv, ImportInv, External!TypeOK, External!Uploading
      <3>2. ~External!OnShelf(r, b) => shelf[b] = 0 /\ work[r].created[b] = 0
        BY <3>1, CountAssumption DEF External!OnShelf
      <3> QED  BY <3>1, <3>2
    <2> HIDE DEF w, c
    <2>4. /\ work'[r] = w /\ \A s \in Requests \ {r} : work'[s] = work[s]
      BY <2>1 DEF ImportInv, External!TypeOK
    <2> QED  BY <2>1, <2>2, <2>3, <2>4 DEF UploadInv, External!Uploading
  <1>5. ASSUME NEW r \in Requests, External!FinishUpload(r) PROVE UploadInv'
    <2>1. /\ work' = [work EXCEPT ![r] = External!Idle] /\ ~crossed
          /\ shelf' = [b \in Books |-> shelf[b] + work[r].created[b]]
          /\ External!Uploading(r)
      BY <1>5 DEF External!FinishUpload, External!Uploading
    <2>2. ASSUME NEW b \in Books PROVE shelf'[b] <= 1
      <3>1. /\ shelf[b] \in 0 .. MaxCount /\ shelf[b] <= 1
            /\ \/ work[r].created[b] = 0
               \/ work[r].created[b] = 1 /\ shelf[b] = 0
            /\ shelf'[b] = shelf[b] + work[r].created[b]
        BY <2>1 DEF UploadInv, ImportInv, External!TypeOK
      <3> QED  BY <3>1, CountAssumption
    <2>3. \A s \in Requests : ~External!Uploading(s)'
      BY <2>1 DEF UploadInv, ImportInv, External!TypeOK, External!Uploading, External!Idle
    <2> QED  BY <2>2, <2>3 DEF UploadInv
  <1>6. ASSUME NEW b \in Books,
               External!DeleteBook(b) \/ External!Own(b)
        PROVE  UploadInv'
    BY <1>6 DEF External!DeleteBook, External!Own, UploadInv, External!Uploading
  <1>7. ASSUME NEW b \in Books, External!Drop(b)
        PROVE  UploadInv'
    <2>1. work' = work /\ crossed' = crossed
      BY <1>7 DEF External!Drop
    <2>2. \/ shelf' = shelf
          \/ shelf[b] > 0 /\ shelf' = [shelf EXCEPT ![b] = @ - 1]
      BY <1>7 DEF External!Drop
    <2>3. shelf \in [Books -> 0 .. MaxCount] /\ MaxCount \in Nat
      BY CountAssumption DEF ImportInv, External!TypeOK
    <2>4. CASE shelf' = shelf
      BY <2>1, <2>4 DEF UploadInv, External!Uploading
    <2>5. CASE shelf[b] > 0 /\ shelf' = [shelf EXCEPT ![b] = @ - 1]
      <3>1. \A a \in Books : /\ shelf[a] \in 0 .. MaxCount
                             /\ a # b => shelf'[a] = shelf[a]
                             /\ a = b => shelf'[a] = shelf[a] - 1
        BY <2>3, <2>5
      <3>2. \A a \in Books : shelf[a] <= 1
        BY <2>1 DEF UploadInv
      <3>3. \A a \in Books : /\ shelf'[a] <= 1
                             /\ shelf[a] = 0 => shelf'[a] = 0
        BY <2>3, <2>5, <3>1, <3>2
      <3> QED  BY <2>1, <3>3 DEF UploadInv, External!Uploading
    <2> QED  BY <2>2, <2>4, <2>5
  <1> QED  BY <1>1, <1>2, <1>3, <1>4, <1>5, <1>6, <1>7 DEF External!Next

(* Unless two uploads overlap, a book is put on the shelf once, though a   *)
(* file names it twice or is uploaded again.                               *)
THEOREM OnShelfOnce == External!Spec => []RowsOnce
  <1>1. UploadInv => RowsOnce
    BY DEF UploadInv, RowsOnce, External!RowsOnce
  <1>2. External!Spec => []UploadInv
    BY UploadInitInv, UploadNextInv, ImportInvariance, PTL DEF External!Spec
  <1> QED  BY <1>1, <1>2, PTL

-----------------------------------------------------------------------------
(* What is proved of a part alone holds beside the others.                 *)
THEOREM EachPart == AllSpec => Spec /\ Merges!Spec /\ External!Spec
  <1>1. AllInit => Init /\ Merges!Init /\ External!Init
    BY DEF AllInit
  <1>2. [AllNext]_allVars => [Next]_vars
    BY DEF AllNext, HistoryStep, MergeStep, ImportStep, allVars
  <1>3. [AllNext]_allVars => [Merges!Next]_Merges!vars
    BY DEF AllNext, HistoryStep, MergeStep, ImportStep, allVars, mergeVars, Merges!vars
  <1>4. [AllNext]_allVars => [External!Next]_External!vars
    BY DEF AllNext, HistoryStep, MergeStep, ImportStep, allVars, importVars,
           External!vars
  <1> QED
    BY <1>1, <1>2, <1>3, <1>4, PTL DEF AllSpec, Spec, Merges!Spec, External!Spec
=============================================================================
