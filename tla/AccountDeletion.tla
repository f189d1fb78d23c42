-------------------------- MODULE AccountDeletion ---------------------------
(***************************************************************************)
(* Account deletion: the endpoints that schedule and cancel it, and the    *)
(* purge job that erases the accounts past their grace period, run by a    *)
(* scheduler beside the API and perhaps overlapping an earlier run.        *)
(*                                                                         *)
(* Of every other row only its references to users are modelled: its       *)
(* owner, and the other user it may name.  These are foreign keys, checked *)
(* by the database at each commit.  The purge of one user is two commits:  *)
(* purge_user_data and delete_user.                                        *)
(***************************************************************************)
EXTENDS Naturals

CONSTANTS Users,       \* user ids
          Tables,      \* the tables in use, some of AllTables
          RowIds,      \* primary keys of their rows
          Runs,        \* processes of scripts/purge_deleted_users.py
          MaxUpsets,   \* bound: killed runs and new references to users
          Absent,      \* no such row
          None         \* SQL NULL

(* A row of these names its owner only.                                    *)
Personal == {"review", "reading_session", "collection", "import_record"}

(* These go with the user row: ondelete=CASCADE.                           *)
Cascaded == {"refresh_token"}

(* These may also name another user: the borrower, the reviewer, and for a *)
(* message the owner of the collection it attaches.                        *)
Shared == {"book_status", "contribution", "chat_message"}

(* These always relate two users.                                          *)
Mutual == {"friendship", "chat_thread"}

AllTables == Personal \cup Cascaded \cup Shared \cup Mutual

(* The tables purge_user_data does not know of.                            *)
Unhandled == {"import_record", "chat_thread", "chat_message"}

ASSUME TablesAssumption == Tables \subseteq AllTables

Row ==
    [table : Tables \cap {"review"}, owner : {None}, other : {None}]
    \cup [table : Tables \cap (Personal \cup Cascaded), owner : Users, other : {None}]
    \cup [table : Tables \cap Shared, owner : Users, other : Users \cup {None}]
    \cup [table : Tables \cap Mutual, owner : Users, other : Users]

ASSUME AbsentAssumption == Absent \notin Row
ASSUME NoneAssumption == None \notin Users
ASSUME BoundAssumption == MaxUpsets \in Nat

VARIABLES accounts,    \* "active", "grace" (deletion scheduled), "due" or "gone"
          cancelling,  \* users whose cancellation is checked, not committed
          rows,        \* the rows that name users
          runs,        \* what each purge process is doing
          upsets,      \* how much of the bound is used up
          late         \* history: users who rescheduled or cancelled
                       \* when a run had already listed them

vars == <<accounts, cancelling, rows, runs, upsets, late>>

States == {"active", "grace", "due", "gone"}

(* An ended run is "idle"; one an exception ended is "failed".             *)
Run == [is : {"idle", "listing", "erasing", "failed"}, todo : SUBSET Users,
        user : Users \cup {None}]

At(is, todo, user) == [is |-> is, todo |-> todo, user |-> user]

Idle == At("idle", {}, None)

Exists(u) == accounts[u] # "gone"

Rows == {i \in RowIds : rows[i] # Absent}

Active == {p \in Runs : runs[p].is \in {"listing", "erasing"}}

Listed(u) == \E p \in Active : u \in runs[p].todo \/ u = runs[p].user

(* A run starts: what happened before it is not late, unless for another.  *)
Start(p, todo) ==
    /\ p \notin Active
    /\ runs' = [runs EXCEPT ![p] = At("listing", todo, None)]
    /\ late' = IF Active = {} THEN {} ELSE late
    /\ UNCHANGED <<accounts, cancelling, rows, upsets>>

-----------------------------------------------------------------------------
(* The user's side: schedule_deletion looks at nothing but the user's      *)
(* existence, so an account already due gets a new grace period.           *)
Schedule(u) ==
    /\ Exists(u)
    /\ accounts' = [accounts EXCEPT ![u] = "grace"]
    /\ late' = IF Listed(u) THEN late \cup {u} ELSE late
    /\ UNCHANGED <<cancelling, rows, runs, upsets>>

(* cancel_deletion checks that the grace period is running ...             *)
Cancel(u) ==
    /\ accounts[u] = "grace"
    /\ cancelling' = cancelling \cup {u}
    /\ UNCHANGED <<accounts, rows, runs, upsets, late>>

(* ... and commits, whatever has happened since; only a row that is gone   *)
(* makes the UPDATE fail.                                                  *)
CommitCancel(u) ==
    /\ u \in cancelling
    /\ cancelling' = cancelling \ {u}
    /\ accounts' = IF Exists(u) THEN [accounts EXCEPT ![u] = "active"] ELSE accounts
    /\ late' = IF Listed(u) THEN late \cup {u} ELSE late
    /\ UNCHANGED <<rows, runs, upsets>>

(* DELETION_GRACE_PERIOD_DAYS later.                                       *)
GraceEnds(u) ==
    /\ accounts[u] = "grace"
    /\ accounts' = [accounts EXCEPT ![u] = "due"]
    /\ UNCHANGED <<cancelling, rows, runs, upsets, late>>

-----------------------------------------------------------------------------
(* What the other handlers do to the references.  A scheduled deletion     *)
(* stops no one: authentication looks at is_active only.                   *)
Named(row) == {row.owner, row.other} \ {None}

Write(i, row) ==
    /\ upsets < MaxUpsets
    /\ row \in Row
    /\ \A u \in Named(row) : Exists(u)
    /\ rows' = [rows EXCEPT ![i] = row]
    /\ upsets' = upsets + 1
    /\ UNCHANGED <<accounts, cancelling, runs, late>>

Create(i, table, u, v) ==
    /\ rows[i] = Absent
    /\ table \in Mutual => u # v
    /\ Write(i, [table |-> table, owner |-> u, other |-> v])

(* lend_status names the borrower, claim_contribution the reviewer.        *)
Refer(i, v) ==
    /\ i \in Rows
    /\ rows[i].table \in {"book_status", "contribution"}
    /\ rows[i].other = None
    /\ Write(i, [rows[i] EXCEPT !.other = v])

Return(i) ==
    /\ i \in Rows
    /\ rows[i].table = "book_status"
    /\ rows[i].other # None
    /\ rows' = [rows EXCEPT ![i].other = None]
    /\ UNCHANGED <<accounts, cancelling, runs, upsets, late>>

(* Imports and chats have no endpoint that deletes them, and nobody owns   *)
(* an anonymous review.                                                    *)
Remove(i) ==
    /\ i \in Rows
    /\ rows[i].table \notin Unhandled
    /\ rows[i].owner # None
    /\ rows' = [rows EXCEPT ![i] = Absent]
    /\ UNCHANGED <<accounts, cancelling, runs, upsets, late>>

-----------------------------------------------------------------------------
(* Mutant of StartPurge: the list is every scheduled deletion.             *)
StartPurgeEarly(p) == Start(p, {u \in Users : accounts[u] \in {"grace", "due"}})

(* get_users_pending_purge.                                                *)
StartPurge(p) == Start(p, {u \in Users : accounts[u] = "due"})

(* Mutant of Anonymized: whatever the user owns loses its owner.           *)
AnonymizedAll(row, u) == row.owner = u

(* purge_user_data keeps these without their author ...                    *)
Anonymized(row, u) == row.table = "review" /\ row.owner = u

(* ... these without the other user they name ...                          *)
Detached(row, u) ==
    row.table \in {"book_status", "contribution"} /\ row.other = u

(* Mutant of Dropped: only the requester's side of a friendship.           *)
DroppedOneSide(row, u) ==
    /\ row.table \in {"reading_session", "book_status", "collection",
                      "contribution", "friendship"}
    /\ row.owner = u

(* Mutant of Dropped: what was lent to the user goes as well.              *)
DroppedWithLoans(row, u) ==
    /\ row.table \in {"reading_session", "book_status", "collection",
                      "contribution", "friendship"}
    /\ u \in Named(row)

(* ... and drops these.                                                    *)
Dropped(row, u) ==
    \/ /\ row.table \in {"reading_session", "book_status", "collection",
                         "contribution"}
       /\ row.owner = u
    \/ row.table = "friendship" /\ u \in Named(row)

Scrubbed(row, u) ==
    IF Dropped(row, u)
    THEN Absent
    ELSE [table |-> row.table,
          owner |-> IF Anonymized(row, u) THEN None ELSE row.owner,
          other |-> IF Detached(row, u) THEN None ELSE row.other]

(* A message that attaches a collection keeps the collection from going.   *)
Attached(u) ==
    \E i \in Rows : rows[i].table = "chat_message" /\ rows[i].other = u

(* The account cannot go while a row that does not cascade still names it. *)
Referenced(u) ==
    \E i \in Rows : rows[i].table \notin Cascaded /\ u \in Named(rows[i])

(* purge_user_data: eight statements, one commit.                          *)
PurgeUserData(p, u) ==
    /\ runs[p].is = "listing"
    /\ u \in runs[p].todo
    /\ ~Attached(u)
    /\ rows' = [i \in RowIds |->
           IF rows[i] = Absent THEN Absent ELSE Scrubbed(rows[i], u)]
    /\ runs' = [runs EXCEPT ![p] = At("erasing", runs[p].todo \ {u}, u)]
    /\ UNCHANGED <<accounts, cancelling, upsets, late>>

(* delete_user deletes by primary key the user it listed, whatever the     *)
(* account's state now is; for an account another run has already deleted  *)
(* the DELETE matches nothing, which is no error.                          *)
DeleteUser(p) ==
    LET u == runs[p].user
    IN  /\ runs[p].is = "erasing"
        /\ ~Referenced(u)
        /\ accounts' = [accounts EXCEPT ![u] = "gone"]
        /\ rows' = [i \in RowIds |->
               IF i \in Rows /\ rows[i].table \in Cascaded /\ rows[i].owner = u
               THEN Absent ELSE rows[i]]
        /\ runs' = [runs EXCEPT ![p] = At("listing", runs[p].todo, None)]
        /\ UNCHANGED <<cancelling, upsets, late>>

(* IntegrityError in either commit.  It is caught, but the rollback        *)
(* expires every listed user, so reading user.id for the log message is a  *)
(* second exception (MissingGreenlet), which nothing catches.              *)
PurgeFails(p) ==
    /\ \/ /\ runs[p].is = "listing"
          /\ \E u \in runs[p].todo :
                 /\ Attached(u)
                 /\ runs' = [runs EXCEPT ![p] =
                                At("failed", runs[p].todo \ {u}, None)]
       \/ /\ runs[p].is = "erasing"
          /\ Referenced(runs[p].user)
          /\ runs' = [runs EXCEPT ![p] = At("failed", runs[p].todo, None)]
    /\ UNCHANGED <<accounts, cancelling, rows, upsets, late>>

Finish(p) ==
    /\ runs[p].is = "listing"
    /\ runs[p].todo = {}
    /\ runs' = [runs EXCEPT ![p] = Idle]
    /\ UNCHANGED <<accounts, cancelling, rows, upsets, late>>

(* The process is killed, or loses its database.                           *)
Crash(p) ==
    /\ upsets < MaxUpsets
    /\ p \in Active
    /\ runs' = [runs EXCEPT ![p] = Idle]
    /\ upsets' = upsets + 1
    /\ UNCHANGED <<accounts, cancelling, rows, late>>

-----------------------------------------------------------------------------
Init ==
    /\ accounts = [u \in Users |-> "active"]
    /\ cancelling = {}
    /\ rows = [i \in RowIds |-> Absent]
    /\ runs = [p \in Runs |-> Idle]
    /\ upsets = 0
    /\ late = {}

UserSteps(u) == Schedule(u) \/ Cancel(u) \/ CommitCancel(u) \/ GraceEnds(u)

RowSteps(i) ==
    \/ \E table \in Tables, u \in Users, v \in Users \cup {None} : Create(i, table, u, v)
    \/ \E v \in Users : Refer(i, v)
    \/ Return(i)
    \/ Remove(i)

Purge(p) ==
    \/ StartPurge(p)
    \/ \E u \in Users : PurgeUserData(p, u)
    \/ DeleteUser(p)
    \/ PurgeFails(p)
    \/ Finish(p)

Next ==
    \/ \E u \in Users : UserSteps(u)
    \/ \E i \in RowIds : RowSteps(i)
    \/ \E p \in Runs : Purge(p) \/ Crash(p)

Spec == Init /\ [][Next]_vars

(* The job is scheduled again and again, and a run takes its steps.        *)
FairSpec == Spec /\ \A p \in Runs : WF_vars(Purge(p))

-----------------------------------------------------------------------------
TypeOK ==
    /\ accounts \in [Users -> States]
    /\ cancelling \subseteq Users
    /\ rows \in [RowIds -> Row \cup {Absent}]
    /\ runs \in [Runs -> Run]
    /\ upsets \in 0 .. MaxUpsets
    /\ late \subseteq Users

(* Only accounts past their grace period are erased, data and account,     *)
(* although a run works from the list it made at its start, and may be     *)
(* killed, overlap another or find the account gone.  Users who rescheduled *)
(* or cancelled after a run had listed them are the exception.             *)
OnlyDueStep ==
    \A p \in Runs, u \in Users \ late :
        (runs'[p].user = u /\ runs[p].user # u) \/ (accounts'[u] # accounts[u] /\ accounts'[u] = "gone")
        => accounts[u] \in {"due", "gone"}

OnlyDue == [][OnlyDueStep]_vars

(* A purge takes no row from anyone it does not purge: it drops only rows  *)
(* of that user and friendships with it, keeps reviews, and leaves others' *)
(* rows to their owners.                                                   *)
SparesOthersStep ==
    \A p \in Runs :
        runs'[p] # runs[p] =>
            \A i \in Rows :
                rows'[i] # rows[i] =>
                    LET u == IF runs'[p].is = "erasing" THEN runs'[p].user ELSE runs[p].user
                    IN  /\ u \in Named(rows[i])
                        /\ rows'[i] = Absent => /\ rows[i].table # "review"
                                                /\ \/ rows[i].owner = u
                                                   \/ rows[i].table = "friendship"
                        /\ rows'[i] # Absent /\ rows[i].owner # u =>
                               rows'[i].owner = rows[i].owner

SparesOthers == [][SparesOthersStep]_vars

(* If nobody ever chatted or imported, an account past its grace period is *)
(* eventually erased, unless its user reschedules or cancels: writes that  *)
(* slip in between the two commits of a purge, killed and overlapping runs *)
(* only delay it.                                                          *)
NothingUnhandled == \A i \in Rows : rows[i].table \notin Unhandled

DueIsPurged ==
    []NothingUnhandled =>
        \A u \in Users : accounts[u] = "due" ~> accounts[u] # "due"

(* One bad row should not abort the whole run: a run that was not killed   *)
(* has tried everyone on its list when it ends.                            *)
TriesEveryone ==
    \A p \in Runs : runs[p].is = "failed" => runs[p].todo = {}
=============================================================================
