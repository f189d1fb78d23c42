---------------------------- MODULE GoogleBackup -----------------------------
(***************************************************************************)
(* A user's Google connection and the backups put there:                   *)
(* GoogleIntegrationService and BackupService, with any number of the      *)
(* user's requests in flight.                                              *)
(*                                                                         *)
(* Each consent the user gives is a grant, with a refresh token and, in    *)
(* turn, access tokens; tokens are named here by their grant.  A call reads *)
(* the row, waits for Google, and commits: connecting writes the whole     *)
(* row, refreshing only the access token, disconnecting deletes the row.   *)
(***************************************************************************)
EXTENDS Integers

CONSTANTS Requests,   \* concurrent HTTP requests of the user
          MaxGrants,  \* bound: consents given
          MaxFiles    \* bound: backup files uploaded

VARIABLES row,      \* google_integration: {} or the set of the one row
          grants,   \* consents given so far
          revoked,  \* grants Google has revoked
          work,     \* what each request has read and is about to do
          mixed,    \* history: the access token came from a refresh that
                    \* overlapped another call's commit of the row
          consent,  \* history: the grant of the last connection that has
                    \* been committed
          files,    \* backup files on the user's Drive, ever uploaded
          records   \* the files that backup_record rows name

vars == <<row, grants, revoked, work, mixed, consent, files, records>>

Grants == 1 .. MaxGrants
Files == 1 .. MaxFiles

(* The primary key, named by the grant of the INSERT, the grants the two   *)
(* tokens belong to, and whether expires_at lies ahead.                    *)
Row == [id : Grants, access : Grants, refresh : Grants, fresh : BOOLEAN]

Rows == {{}} \cup {{i} : i \in Row}

Idle == [op |-> "idle"]

(* seen: the row that the call has read.  crossed: another call has        *)
(* committed a change of the row since.                                    *)
Work == [op : {"connect"}, grant : Grants, seen : Rows]
        \cup [op : {"refresh"}, seen : Rows, crossed : BOOLEAN]
        \cup [op : {"disconnect"}, seen : Rows]
        \cup [op : {"upload"}, grant : Grants]
        \cup [op : {"record"}, file : Files]

(* What a copy says of the row holds of it still: it is the same row.      *)
Same(seen) == \A i \in seen : \E j \in row : i.id = j.id

Begin(r, w) ==
    /\ work[r] = Idle
    /\ work' = [work EXCEPT ![r] = w]

(* A call that commits a change of the row goes on with w.                 *)
Proceed(r, w) ==
    work' = [s \in Requests |->
        IF s = r THEN w
        ELSE IF work[s].op = "refresh" THEN [work[s] EXCEPT !.crossed = TRUE]
        ELSE work[s]]

-----------------------------------------------------------------------------
(* handle_callback: the code is exchanged, and upsert looks for the row.   *)
Connect(r) ==
    /\ grants < MaxGrants
    /\ grants' = grants + 1
    /\ Begin(r, [op |-> "connect", grant |-> grants + 1, seen |-> row])
    /\ UNCHANGED <<row, revoked, mixed, consent, files, records>>

(* upsert: an INSERT, which user_id's unique constraint may refuse, or an  *)
(* UPDATE of every column, of a row that has to be there still.            *)
CommitConnect(r) ==
    LET w == work[r]
    IN  /\ w.op = "connect"
        /\ w.seen = {} => row = {}
        /\ Same(w.seen)
        /\ row' = {[id |-> IF w.seen = {} THEN w.grant ELSE (CHOOSE i \in w.seen : TRUE).id,
                    access |-> w.grant, refresh |-> w.grant, fresh |-> TRUE]}
        /\ consent' = w.grant
        /\ mixed' = FALSE
        /\ Proceed(r, Idle)
        /\ UNCHANGED <<grants, revoked, files, records>>

(* get_valid_access_token for a backup: the token of the row ...           *)
TakeToken(r) ==
    \E i \in row :
        /\ i.fresh
        /\ Begin(r, [op |-> "upload", grant |-> i.access])
        /\ UNCHANGED <<row, grants, revoked, mixed, consent, files, records>>

(* ... or, once that has expired, a new one, if Google still grants it.    *)
Refresh(r) ==
    \E i \in row :
        /\ ~i.fresh
        /\ i.refresh \notin revoked
        /\ Begin(r, [op |-> "refresh", seen |-> row, crossed |-> FALSE])
        /\ UNCHANGED <<row, grants, revoked, mixed, consent, files, records>>

(* Mutant of NewTokens: the UPDATE names every column of the copy.         *)
WholeCopy(now, copy) == [copy EXCEPT !.access = copy.refresh, !.fresh = TRUE]

(* update_tokens: access_token_encrypted and expires_at, on the row as it  *)
(* is now.                                                                 *)
NewTokens(now, copy) == [now EXCEPT !.access = copy.refresh, !.fresh = TRUE]

CommitRefresh(r) ==
    LET w == work[r]
    IN  /\ w.op = "refresh"
        /\ \E now \in row, copy \in w.seen :
               /\ now.id = copy.id
               /\ row' = {NewTokens(now, copy)}
               /\ Proceed(r, [op |-> "upload", grant |-> copy.refresh])
        /\ mixed' = w.crossed
        /\ UNCHANGED <<grants, revoked, consent, files, records>>

(* revoke_and_delete: a revocation that fails is logged and passed over.   *)
Disconnect(r) ==
    \E i \in row, done \in BOOLEAN :
        /\ Begin(r, [op |-> "disconnect", seen |-> row])
        /\ revoked' = IF done THEN revoked \cup {i.access} ELSE revoked
        /\ UNCHANGED <<row, grants, mixed, consent, files, records>>

(* A row that is gone by now is no error; what another call has written    *)
(* to it meanwhile goes with it.                                           *)
CommitDisconnect(r) ==
    /\ work[r].op = "disconnect"
    /\ row' = IF Same(work[r].seen) THEN {} ELSE row
    /\ mixed' = (mixed /\ row' # {})
    /\ Proceed(r, Idle)
    /\ UNCHANGED <<grants, revoked, consent, files, records>>

-----------------------------------------------------------------------------
(* Mutant of Upload: the error of an upload is passed over.                *)
UploadAnyway(r) ==
    /\ work[r].op = "upload"
    /\ files < MaxFiles
    /\ work' = [work EXCEPT ![r] = [op |-> "record", file |-> files + 1]]
    /\ UNCHANGED <<row, grants, revoked, mixed, consent, files, records>>

(* create_backup: the folder and the file.                                 *)
Upload(r) ==
    /\ work[r].op = "upload"
    /\ work[r].grant \notin revoked
    /\ files < MaxFiles
    /\ files' = files + 1
    /\ work' = [work EXCEPT ![r] = [op |-> "record", file |-> files + 1]]
    /\ UNCHANGED <<row, grants, revoked, mixed, consent, records>>

CommitRecord(r) ==
    /\ work[r].op = "record"
    /\ records' = records \cup {work[r].file}
    /\ work' = [work EXCEPT ![r] = Idle]
    /\ UNCHANGED <<row, grants, revoked, mixed, consent, files>>

(* Google refuses or does not answer, the row that was to be inserted is   *)
(* there (IntegrityError), the one to be updated is not (StaleDataError),  *)
(* or the request dies.                                                    *)
Fails(r) ==
    /\ work[r] # Idle
    /\ work' = [work EXCEPT ![r] = Idle]
    /\ UNCHANGED <<row, grants, revoked, mixed, consent, files, records>>

(* The access token's hour is over, or the user withdraws a consent.       *)
Expire ==
    /\ \E i \in row : i.fresh /\ row' = {[i EXCEPT !.fresh = FALSE]}
    /\ UNCHANGED <<grants, revoked, work, mixed, consent, files, records>>

Withdraw(g) ==
    /\ g <= grants
    /\ g \notin revoked
    /\ revoked' = revoked \cup {g}
    /\ UNCHANGED <<row, grants, work, mixed, consent, files, records>>

-----------------------------------------------------------------------------
Init ==
    /\ row = {}
    /\ grants = 0
    /\ revoked = {}
    /\ work = [r \in Requests |-> Idle]
    /\ mixed = FALSE
    /\ consent = 0
    /\ files = 0
    /\ records = {}

Next ==
    \/ \E r \in Requests :
           \/ Connect(r)    \/ CommitConnect(r)
           \/ TakeToken(r)  \/ Refresh(r) \/ CommitRefresh(r)
           \/ Disconnect(r) \/ CommitDisconnect(r)
           \/ Upload(r)     \/ CommitRecord(r)
           \/ Fails(r)
    \/ Expire
    \/ \E g \in Grants : Withdraw(g)

Spec == Init /\ [][Next]_vars

-----------------------------------------------------------------------------
(* In particular every backup record names a file that was uploaded.       *)
TypeOK ==
    /\ row \in Rows
    /\ grants \in 0 .. MaxGrants
    /\ revoked \subseteq 1 .. grants
    /\ work \in [Requests -> Work \cup {Idle}]
    /\ mixed \in BOOLEAN
    /\ consent \in 0 .. grants
    /\ files \in 0 .. MaxFiles
    /\ records \subseteq 1 .. files

(* While a user is connected the refresh token is that of the consent      *)
(* committed last, so that a refresh which waited for Google meanwhile     *)
(* does not undo a reconnection, and the access token belongs to the same  *)
(* grant unless such a refresh wrote it.                                   *)
ConsentKept ==
    \A i \in row : i.refresh = consent /\ (i.access = i.refresh \/ mixed)
=============================================================================
