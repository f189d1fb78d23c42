------------------------------- MODULE Restore --------------------------------
(***************************************************************************)
(* Restoring a user's data from a backup file: BackupRestoreService over   *)
(* BackupRestoreRepository, with any number of restores in flight while    *)
(* the user goes on creating and deleting rows.                            *)
(*                                                                         *)
(* A merge looks for each entry of the backup by its natural key and, if   *)
(* there is none, creates it: one commit per entry.  A replace deletes the *)
(* user's rows table by table and writes the backup, all in one            *)
(* transaction; a DELETE finds the rows that are committed as it starts,   *)
(* and waits for another transaction that has deleted one of them.         *)
(***************************************************************************)
EXTENDS Integers, Sequences

CONSTANTS Tables,          \* the user's tables, in the order of the purge
          Keys,            \* natural keys, a record of a table and a name each
          Unique,          \* keys the database keeps unique: a review, an open
                           \* reading session
          Referring,       \* keys that name a book, a release or a borrower: of
                           \* every table but the collections
          Backup,          \* the entries of the file, in its order
          ReplaceEnabled,  \* enable_backup_replace_mode
          Requests,        \* concurrent HTTP requests
          MaxRows          \* bound: rows ever inserted

VARIABLES rows,      \* the user's rows: a function on the ids in use
          issued,    \* the ids given out so far
          gone,      \* keys whose book, release or borrower does not exist
                     \* any more
          restores,  \* what each request is about to do
          settled    \* history: a merge has run from end to end with nothing
                     \* else going on, and nobody has changed a row since

vars == <<rows, issued, gone, restores, settled>>

RowIds == 1 .. MaxRows
Entries == {Backup[i] : i \in DOMAIN Backup}

Idle == [op |-> "idle"]

(* alone: nothing else has begun or changed anything since this one did.   *)
(* before: the ids given out by then, for ReplaceIsWhole only.             *)
Work == [op : {"look", "create"}, at : 1 .. Len(Backup) + 1, alone : BOOLEAN]
        \cup [op : {"sweep", "wait"}, at : 1 .. Len(Tables) + 1, found : SUBSET RowIds,
              deleted : SUBSET RowIds, before : 0 .. MaxRows]

RowsOf(k) == {i \in DOMAIN rows : rows[i] = k}

(* Mutant of Found: the natural key is not looked for.                     *)
NeverFound(k) == FALSE

(* find_collection, find_book_status, get_by_user_and_target,              *)
(* find_reading_session.                                                   *)
Found(k) == RowsOf(k) # {}

(* What the INSERT of a row is refused for.                                *)
Refused(k) == k \in gone \/ (k \in Unique /\ RowsOf(k) # {})

Merging(w) == w.op \in {"look", "create"}
Replacing(w) == w.op \in {"sweep", "wait"}

(* The rows that the transactions of these requests have deleted so far.   *)
Locked(R) == UNION {restores[s].deleted : s \in {t \in R : Replacing(restores[t])}}

-----------------------------------------------------------------------------
(* The work of these requests is undisturbed no longer.                    *)
Disturbed(R) ==
    [s \in Requests |-> IF s \in R /\ Merging(restores[s])
                        THEN [restores[s] EXCEPT !.alone = FALSE] ELSE restores[s]]

Others(r) == Requests \ {r}

Begin(r, w) ==
    /\ restores[r] = Idle
    /\ restores' = [Disturbed(Others(r)) EXCEPT ![r] = w]
    /\ UNCHANGED <<rows, issued, gone, settled>>

RestoreMerge(r) ==
    Begin(r, [op |-> "look", at |-> 1, alone |-> \A s \in Requests : restores[s] = Idle])

(* The mode is switched on and the call confirms it.                       *)
RestoreReplace(r) ==
    /\ ReplaceEnabled
    /\ Begin(r, [op |-> "sweep", at |-> 1, found |-> {}, deleted |-> {},
                 before |-> issued])

Become(r, w) ==
    /\ restores' = [restores EXCEPT ![r] = w]
    /\ UNCHANGED <<rows, issued, gone, settled>>

-----------------------------------------------------------------------------
(* _restore_merge, entry by entry.                                         *)
Look(r) ==
    LET w == restores[r]
    IN  /\ w.op = "look"
        /\ w.at <= Len(Backup)
        /\ Become(r, IF Found(Backup[w.at]) THEN [w EXCEPT !.at = @ + 1]
                     ELSE [w EXCEPT !.op = "create"])

Insert(k) ==
    /\ ~Refused(k)
    /\ issued < MaxRows
    /\ issued' = issued + 1
    /\ rows' = [i \in DOMAIN rows \cup {issued + 1} |->
           IF i = issued + 1 THEN k ELSE rows[i]]

CommitEntry(r) ==
    LET w == restores[r]
    IN  /\ w.op = "create"
        /\ Insert(Backup[w.at])
        /\ restores' = [Disturbed(Others(r)) EXCEPT ![r] = [w EXCEPT !.op = "look", !.at = @ + 1]]
        /\ settled' = FALSE
        /\ UNCHANGED gone

EndMerge(r) ==
    LET w == restores[r]
    IN  /\ w.op = "look"
        /\ w.at > Len(Backup)
        /\ restores' = [restores EXCEPT ![r] = Idle]
        /\ settled' = (settled \/ w.alone)
        /\ UNCHANGED <<rows, issued, gone>>

-----------------------------------------------------------------------------
(* purge_owned_data: the DELETE of one table starts ...                    *)
StartDelete(r) ==
    LET w == restores[r]
    IN  /\ w.op = "sweep"
        /\ w.at <= Len(Tables)
        /\ Become(r, [w EXCEPT !.op = "wait",
                      !.found = {i \in DOMAIN rows : rows[i].table = Tables[w.at]}])

(* ... and deletes what it found, but for what is gone meanwhile.          *)
FinishDelete(r) ==
    LET w == restores[r]
    IN  /\ w.op = "wait"
        /\ w.found \cap Locked(Others(r)) = {}
        /\ Become(r, [w EXCEPT !.op = "sweep", !.at = @ + 1, !.found = {},
                      !.deleted = @ \cup (w.found \cap DOMAIN rows)])

(* Mutant of Wiped: the first table is left out of the purge.              *)
ButTheFirstTable(w) ==
    {i \in w.deleted : i \in DOMAIN rows /\ rows[i].table # Tables[1]}

(* The rows that the purge takes away.                                     *)
Wiped(w) == w.deleted

(* The inserts and the commit.                                             *)
CommitReplace(r) ==
    LET w == restores[r]
        left == DOMAIN rows \ Wiped(w)
        new == issued + 1 .. issued + Len(Backup)
    IN  /\ w.op = "sweep"
        /\ w.at > Len(Tables)
        /\ issued + Len(Backup) <= MaxRows
        /\ \A k \in Entries : k \notin gone
        /\ \A k \in Entries \cap Unique : ~\E i \in left : rows[i] = k
        /\ rows' = [i \in left \cup new |->
               IF i \in new THEN Backup[i - issued] ELSE rows[i]]
        /\ issued' = issued + Len(Backup)
        /\ restores' = [Disturbed(Others(r)) EXCEPT ![r] = Idle]
        /\ settled' = FALSE
        /\ UNCHANGED gone

(* The database refuses an entry, or the request dies.  What a merge has   *)
(* committed stays; a replace is rolled back.                              *)
Fails(r) ==
    /\ restores[r] # Idle
    /\ Become(r, Idle)

-----------------------------------------------------------------------------
(* The user's other requests.                                              *)
CreateRow(k) ==
    /\ Insert(k)
    /\ restores' = Disturbed(Requests)
    /\ settled' = FALSE
    /\ UNCHANGED gone

DeleteRow(i) ==
    /\ i \in DOMAIN rows
    /\ i \notin Locked(Requests)
    /\ rows' = [j \in DOMAIN rows \ {i} |-> rows[j]]
    /\ restores' = Disturbed(Requests)
    /\ settled' = FALSE
    /\ UNCHANGED <<issued, gone>>

(* What a row refers to is deleted: not while a row refers to it.          *)
DeleteTarget(k) ==
    /\ k \in Referring \ gone
    /\ RowsOf(k) = {}
    /\ gone' = gone \cup {k}
    /\ UNCHANGED <<rows, issued, restores, settled>>

-----------------------------------------------------------------------------
Init ==
    /\ rows = << >>
    /\ issued = 0
    /\ gone = {}
    /\ restores = [r \in Requests |-> Idle]
    /\ settled = FALSE

Next ==
    \/ \E r \in Requests :
           \/ RestoreMerge(r)   \/ Look(r)        \/ CommitEntry(r)  \/ EndMerge(r)
           \/ RestoreReplace(r) \/ StartDelete(r) \/ FinishDelete(r) \/ CommitReplace(r)
           \/ Fails(r)
    \/ \E k \in Keys : CreateRow(k) \/ DeleteTarget(k)
    \/ \E i \in RowIds : DeleteRow(i)

Spec == Init /\ [][Next]_vars

-----------------------------------------------------------------------------
TypeOK ==
    /\ DOMAIN rows \subseteq 1 .. issued
    /\ rows \in [DOMAIN rows -> Keys]
    /\ issued \in 0 .. MaxRows
    /\ gone \subseteq Keys
    /\ restores \in [Requests -> Work \cup {Idle}]
    /\ settled \in BOOLEAN

(* A merge is idempotent: once one has run through undisturbed, whatever   *)
(* failed attempts came before it, every entry of the backup has a row and *)
(* no further merge, nor two of them at once, is about to create one, for  *)
(* as long as the user changes nothing.                                    *)
MergedForGood ==
    settled =>
        /\ \A k \in Entries : RowsOf(k) # {}
        /\ \A r \in Requests : restores[r].op # "create"

(* The account is never left half wiped: the only step of a replace that   *)
(* changes a row puts the whole backup there and leaves no row that was    *)
(* there when the call began, whatever other calls have done meanwhile.    *)
ReplaceIsWholeStep ==
    \A r \in Requests : Replacing(restores[r]) /\ restores'[r] # restores[r] =>
        \/ rows' = rows
        \/ /\ \A i \in DOMAIN rows' : i > restores[r].before
           /\ \A k \in Entries : \E i \in DOMAIN rows' : i > issued /\ rows'[i] = k

ReplaceIsWhole == [][ReplaceIsWholeStep]_vars
=============================================================================
