--------------------------- MODULE EntityVersions ----------------------------
(***************************************************************************)
(* The edits of books, releases and contributors and the versions that the *)
(* mapper's listeners record of them, with any number of requests, and of  *)
(* runs of the script that refreshes releases, in flight.                  *)
(*                                                                         *)
(* An edit changes a copy of the row.  Its commit flushes it: an UPDATE of *)
(* the columns that differ from what was read, which locks the row, and    *)
(* then, on the same connection, the INSERT of a version that is one more  *)
(* than the greatest there is and has the whole edited copy.  An edit that *)
(* changes nothing sends no UPDATE, and is recorded all the same.          *)
(* Only the API's process registers the listeners: a refresh, and a row    *)
(* that the worker imports, leave no version.                              *)
(***************************************************************************)
EXTENDS Naturals, Sequences, FiniteSetsExt

CONSTANTS Entities,    \* primary keys of the rows
          Columns,     \* the columns the metadata refresh may fill
          Values,      \* their values
          Editors,     \* concurrent requests, and runs of the script
          MaxVersions  \* bound: versions of an entity

VARIABLES entities,    \* the rows: a function on the keys in use
          versions,    \* the versions of each entity, in the order they commit
          missed,      \* history: rows made or refreshed since their last version
          edits        \* what each editor has read and is about to do

vars == <<entities, versions, missed, edits>>

(* A column that is NULL or empty holds {}.                                *)
Entity == [Columns -> {{}} \cup {{v} : v \in Values}]

(* updates: an UPDATE went with it.  stale: history, see Save.             *)
Version == [number : Nat, snapshot : Entity, updates : BOOLEAN, stale : BOOLEAN]

Exists(e) == e \in DOMAIN entities

Numbers(e) == {versions[e][i].number : i \in DOMAIN versions[e]}

Idle == [at |-> "idle"]

(* stale: another's edit of the row has been committed since it was read.  *)
Work == [at : {"read"}, refresh : BOOLEAN, id : Entities, copy : Entity,
         edited : Entity, stale : BOOLEAN]
        \cup [at : {"flushed"}, refresh : BOOLEAN, id : Entities, copy : Entity,
              edited : Entity, stale : BOOLEAN, number : Nat]

Changed(w) == {c \in Columns : w.edited[c] # w.copy[c]}

(* mark_synced always sets last_external_sync_at.                          *)
Updates(w) == w.refresh \/ Changed(w) # {}

(* Mutant of Locked: the UPDATE comes after the version.                   *)
NotYet(r, e) == FALSE

(* The editor's transaction has updated the row and not ended.             *)
Holds(s, e) == edits[s].at = "flushed" /\ edits[s].id = e /\ Updates(edits[s])

Locked(r, e) == \E s \in Editors \ {r} : Holds(s, e)

-----------------------------------------------------------------------------
(* create_book, create_release, create_contributor; not recorded when the  *)
(* worker's import makes the row.                                          *)
Create(e, columns, recorded) ==
    /\ ~Exists(e) /\ versions[e] = << >>
    /\ \A r \in Editors : edits[r] # Idle => edits[r].id # e
    /\ entities' = [d \in DOMAIN entities \cup {e} |->
           IF d = e THEN columns ELSE entities[d]]
    /\ IF recorded
       THEN /\ versions' = [versions EXCEPT ![e] =
                   <<[number |-> 1, snapshot |-> columns, updates |-> TRUE, stale |-> FALSE]>>]
            /\ UNCHANGED missed
       ELSE /\ missed' = missed \cup {e}
            /\ UNCHANGED versions
    /\ UNCHANGED edits

Read(r, e, edited, refresh) ==
    /\ edits[r] = Idle
    /\ Exists(e)
    /\ edits' = [edits EXCEPT ![r] =
           [at |-> "read", refresh |-> refresh, id |-> e, copy |-> entities[e],
            edited |-> edited, stale |-> FALSE]]
    /\ UNCHANGED <<entities, versions, missed>>

(* update: the columns that the PATCH names.                               *)
Update(r, e, edited) == Read(r, e, edited, FALSE)

(* get_stale reads every release that is due before the source is asked    *)
(* about the first of them; here, one of those.                            *)
GetStale(r, e) == Exists(e) /\ Read(r, e, entities[e], TRUE)

(* Mutant of Filled: what the source says is taken.                        *)
Overwritten(copy, detail) ==
    [c \in Columns |-> IF detail[c] # {} THEN detail[c] ELSE copy[c]]

(* _apply_detail: blank columns are filled.                                *)
Filled(copy, detail) ==
    [c \in Columns |-> IF copy[c] = {} THEN detail[c] ELSE copy[c]]

(* The UPDATE, if there is one, and the version's number.                  *)
Flush(r, edited, number) ==
    LET w == [edits[r] EXCEPT !.edited = edited]
    IN  /\ Updates(w) => Exists(w.id) /\ ~Locked(r, w.id)
        /\ edits' = [edits EXCEPT ![r] =
               [at |-> "flushed", refresh |-> w.refresh, id |-> w.id, copy |-> w.copy,
                edited |-> edited, stale |-> w.stale, number |-> number]]
        /\ UNCHANGED <<entities, versions, missed>>

FlushUpdate(r) ==
    /\ edits[r].at = "read"
    /\ ~edits[r].refresh
    /\ Len(versions[edits[r].id]) < MaxVersions
    /\ Flush(r, edits[r].edited, 1 + Max({0} \cup Numbers(edits[r].id)))

(* There is no listener, and no version to number.                         *)
FlushRefresh(r, detail) ==
    /\ edits[r].at = "read"
    /\ edits[r].refresh
    /\ Flush(r, Filled(edits[r].copy, detail), 0)

(* Mutant of Sent: every column of the copy is written.                    *)
WholeCopy(w) == Columns

Sent(w) == Changed(w)

(* What was flushed is there for others, whose copies it outdates.         *)
Save(r) ==
    LET w == edits[r]
    IN  /\ w.at = "flushed"
        /\ entities' = [e \in DOMAIN entities |->
               IF e = w.id
               THEN [c \in Columns |-> IF c \in Sent(w) THEN w.edited[c] ELSE entities[e][c]]
               ELSE entities[e]]
        /\ edits' = [s \in Editors |->
               IF s = r THEN Idle
               ELSE IF edits[s] # Idle /\ edits[s].id = w.id /\ Updates(w)
               THEN [edits[s] EXCEPT !.stale = TRUE] ELSE edits[s]]

CommitUpdate(r) ==
    LET w == edits[r]
    IN  /\ Save(r)
        /\ ~w.refresh
        /\ versions' = [versions EXCEPT ![w.id] = Append(@,
               [number |-> w.number, snapshot |-> w.edited, updates |-> Updates(w),
                stale |-> w.stale])]
        /\ missed' = missed \ {w.id}

CommitRefresh(r) ==
    /\ Save(r)
    /\ edits[r].refresh
    /\ missed' = missed \cup {edits[r].id}
    /\ UNCHANGED versions

(* The row is gone (StaleDataError), a column does not fit, the source     *)
(* knows nothing of the release, or the request dies.                      *)
Fails(r) ==
    /\ edits[r] # Idle
    /\ edits' = [edits EXCEPT ![r] = Idle]
    /\ UNCHANGED <<entities, versions, missed>>

(* delete_book, with the book's releases: their versions stay.             *)
Delete(e) ==
    /\ Exists(e)
    /\ ~\E s \in Editors : Holds(s, e)
    /\ entities' = [d \in DOMAIN entities \ {e} |-> entities[d]]
    /\ missed' = missed \ {e}
    /\ UNCHANGED <<versions, edits>>

-----------------------------------------------------------------------------
Init ==
    /\ entities = << >>
    /\ versions = [e \in Entities |-> << >>]
    /\ missed = {}
    /\ edits = [r \in Editors |-> Idle]

Next ==
    \/ \E e \in Entities :
           \/ \E columns \in Entity :
                  \/ \E recorded \in BOOLEAN : Create(e, columns, recorded)
                  \/ \E r \in Editors : Update(r, e, columns)
           \/ \E r \in Editors : GetStale(r, e)
           \/ Delete(e)
    \/ \E r \in Editors :
           \/ FlushUpdate(r)
           \/ \E detail \in Entity : FlushRefresh(r, detail)
           \/ CommitUpdate(r)
           \/ CommitRefresh(r)
           \/ Fails(r)

Spec == Init /\ [][Next]_vars

-----------------------------------------------------------------------------
TypeOK ==
    /\ DOMAIN entities \subseteq Entities
    /\ entities \in [DOMAIN entities -> Entity]
    /\ \A e \in Entities : \A i \in DOMAIN versions[e] : versions[e][i] \in Version
    /\ missed \subseteq DOMAIN entities
    /\ edits \in [Editors -> Work \cup {Idle}]

(* However edits overlap, the numbers of those that changed a row follow   *)
(* the order in which they took effect, none twice.  (The row lock sees to *)
(* it: an edit without a change takes none, and may get a number again.)   *)
NumbersInOrder ==
    \A e \in Entities : \A i, j \in DOMAIN versions[e] :
        i < j /\ versions[e][i].updates /\ versions[e][j].updates
        => versions[e][i].number < versions[e][j].number

(* The last version is the row as it is, unless its edit overlapped        *)
(* another one, or a process without listeners has made or refreshed the   *)
(* row since: what is missed is missed until the next edit.                *)
LatestIsCurrent ==
    \A e \in DOMAIN entities \ missed :
        /\ versions[e] # << >>
        /\ LET latest == versions[e][Len(versions[e])]
           IN  latest.stale \/ latest.snapshot = entities[e]

VersionsInOrder == NumbersInOrder /\ LatestIsCurrent

(* A refresh changes no column that it found filled, whatever users have   *)
(* made of that column since.  (One that it found blank it may overwrite,  *)
(* although somebody has filled it meanwhile.)                             *)
RefreshKeepsDataStep ==
    \A r \in Editors :
        LET w == edits[r]
        IN  /\ w.at = "flushed" /\ w.refresh
            /\ edits'[r].at = "idle" /\ entities' # entities
            => \A c \in Columns : w.copy[c] # {} => entities'[w.id][c] = entities[w.id][c]

RefreshKeepsData == [][RefreshKeepsDataStep]_<<entities, edits>>
=============================================================================
