------------------------------ MODULE Statuses ------------------------------
(***************************************************************************)
(* What a user says of the books on the shelf: BookStatusService over      *)
(* BookStatusRepository, with any number of the owner's requests in        *)
(* flight.                                                                 *)
(*                                                                         *)
(* A status has a kind, and while it is lent out a borrower, in one column *)
(* if that is a user and in another if it is only a name.  lend and return *)
(* check the kind on the copy they read and change up to four columns of   *)
(* it; a PATCH sets the kind by hand.  The UPDATE names the columns that   *)
(* differ from the copy, so two calls that overlap may leave a status of   *)
(* which each has written some of the columns.                             *)
(***************************************************************************)
CONSTANTS StatusIds,  \* primary keys of the owner's statuses
          OtherKinds, \* the kinds in use besides owned and lent_out
          Users,      \* the users it may be lent to
          Names,      \* the names of other borrowers
          Requests    \* concurrent HTTP requests of the owner

VARIABLES statuses,   \* the rows: a function on the keys in use
          patches,    \* what each request has read and is about to do
          crossed,    \* history: requests that change the kind of a status
                      \* while another one does
          handmade,   \* history: statuses whose kind was set by hand, or by a
                      \* crossed request, and not by a lend or return alone since
          forgotten   \* history: statuses whose borrower's account was purged

vars == <<statuses, patches, crossed, handmade, forgotten>>

Kinds == {"owned", "lent_out"} \cup OtherKinds

(* A nullable column holds a set of one value or, for NULL, of none.       *)
Nullable(S) == {{}} \cup {{x} : x \in S}

(* lent_to_user_id, lent_to_name, and whether returned_at is set.  lent_at *)
(* is set by every lend and decides nothing.                               *)
Status == [kind : Kinds, user : Nullable(Users), name : Nullable(Names),
           returned : BOOLEAN]

Columns == {"kind", "user", "name", "returned"}

(* Either a user or a name: LendBookStatusSchema.                          *)
Borrowers == [user : {{u} : u \in Users}, name : {{}}]
             \cup [user : {{}}, name : {{n} : n \in Names}]

Idle == [op |-> "idle"]

(* An UPDATE sends some columns of the row that the call has made of its   *)
(* copy.                                                                   *)
Work == [op : {"lend", "return", "modify"}, id : StatusIds, row : Status,
         sends : SUBSET Columns]
        \cup [op : {"delete"}, id : StatusIds]

Exists(s) == s \in DOMAIN statuses

(* The columns the session sends: those with a net change, and a column    *)
(* that has been given the time of the call.                               *)
Emitted(loaded, edited, stamped) ==
    {c \in Columns : edited[c] # loaded[c]} \cup stamped

Applied(row, w) == [c \in Columns |-> IF c \in w.sends THEN w.row[c] ELSE row[c]]

Updates(w) == w.op \in {"lend", "return", "modify"}

ChangesKind(w) == Updates(w) /\ "kind" \in w.sends

Rivals(w) == {r \in Requests : ChangesKind(patches[r]) /\ patches[r].id = w.id}

-----------------------------------------------------------------------------
(* _retrieve_owned, and what the request will commit.                      *)
Begin(r, w) ==
    /\ patches[r] = Idle
    /\ Exists(w.id)
    /\ patches' = [patches EXCEPT ![r] = w]
    /\ crossed' = IF ChangesKind(w) /\ Rivals(w) # {}
                  THEN crossed \cup Rivals(w) \cup {r} ELSE crossed
    /\ UNCHANGED <<statuses, handmade, forgotten>>

Edit(r, op, s, edited, stamped) ==
    Begin(r, [op |-> op, id |-> s, row |-> edited,
              sends |-> Emitted(statuses[s], edited, stamped)])

(* create_status: one INSERT of a row under a new uuid4, of any kind; one  *)
(* that is born lent out has no borrower.                                  *)
CreateStatus(s, kind) ==
    /\ ~Exists(s)
    /\ \A r \in Requests : patches[r] # Idle => patches[r].id # s
    /\ statuses' = [i \in DOMAIN statuses \cup {s} |->
           IF i # s THEN statuses[i]
           ELSE [kind |-> kind, user |-> {}, name |-> {}, returned |-> FALSE]]
    /\ handmade' = IF kind = "lent_out" THEN handmade \cup {s} ELSE handmade \ {s}
    /\ forgotten' = forgotten \ {s}
    /\ UNCHANGED <<patches, crossed>>

LendStatus(r, s, to) ==
    /\ Exists(s)
    /\ statuses[s].kind = "owned"
    /\ Edit(r, "lend", s, [kind |-> "lent_out", user |-> to.user, name |-> to.name,
                           returned |-> FALSE], {})

(* Mutant of ReturnStatus: the name of the borrower stays.                 *)
ReturnButKeepName(r, s) ==
    /\ Exists(s)
    /\ statuses[s].kind = "lent_out"
    /\ Edit(r, "return", s, [statuses[s] EXCEPT !.kind = "owned", !.user = {},
                                                !.returned = TRUE], {"returned"})

ReturnStatus(r, s) ==
    /\ Exists(s)
    /\ statuses[s].kind = "lent_out"
    /\ Edit(r, "return", s, [kind |-> "owned", user |-> {}, name |-> {},
                             returned |-> TRUE], {"returned"})

(* modify_status: the same kind again is a PATCH of the notes only.        *)
ModifyStatus(r, s, kind) ==
    /\ Exists(s)
    /\ Edit(r, "modify", s, [statuses[s] EXCEPT !.kind = kind], {})

DeleteStatus(r, s) == Begin(r, [op |-> "delete", id |-> s])

-----------------------------------------------------------------------------
End(r) ==
    /\ patches' = [patches EXCEPT ![r] = Idle]
    /\ crossed' = crossed \ {r}

(* The commit of an UPDATE whose row is still there.                       *)
CommitUpdate(r) ==
    LET w == patches[r]
        row == Applied(statuses[w.id], w)
    IN  /\ Updates(w)
        /\ Exists(w.id)
        /\ statuses' = [statuses EXCEPT ![w.id] = row]
        /\ handmade' = IF ~ChangesKind(w) THEN handmade
                       ELSE IF w.op = "modify" \/ r \in crossed
                            THEN handmade \cup {w.id} ELSE handmade \ {w.id}
        /\ forgotten' = IF ChangesKind(w) /\ (row.user # {} \/ row.name # {})
                        THEN forgotten \ {w.id} ELSE forgotten
        /\ End(r)

(* A row that is gone by now is no error.                                  *)
CommitDelete(r) ==
    LET w == patches[r]
    IN  /\ w.op = "delete"
        /\ statuses' = [i \in DOMAIN statuses \ {w.id} |-> statuses[i]]
        /\ End(r)
        /\ UNCHANGED <<handmade, forgotten>>

(* The row is gone (StaleDataError), or the database refuses the change:   *)
(* a borrower who does not exist, a kind that is null.                     *)
Fails(r) ==
    /\ Updates(patches[r])
    /\ End(r)
    /\ UNCHANGED <<statuses, handmade, forgotten>>

(* The purge of a borrower's account.                                      *)
ForgetBorrower(u) ==
    LET lent == {s \in DOMAIN statuses : statuses[s].user = {u}}
    IN  /\ lent # {}
        /\ statuses' = [s \in DOMAIN statuses |->
               IF s \in lent THEN [statuses[s] EXCEPT !.user = {}] ELSE statuses[s]]
        /\ forgotten' = forgotten \cup lent
        /\ UNCHANGED <<patches, crossed, handmade>>

-----------------------------------------------------------------------------
Init ==
    /\ statuses = << >>
    /\ patches = [r \in Requests |-> Idle]
    /\ crossed = {}
    /\ handmade = {}
    /\ forgotten = {}

Calls(r, s) ==
    \/ \E to \in Borrowers : LendStatus(r, s, to)
    \/ ReturnStatus(r, s)
    \/ \E kind \in Kinds : ModifyStatus(r, s, kind)
    \/ DeleteStatus(r, s)

Next ==
    \/ \E s \in StatusIds, kind \in Kinds : CreateStatus(s, kind)
    \/ \E r \in Requests, s \in StatusIds : Calls(r, s)
    \/ \E r \in Requests : CommitUpdate(r) \/ CommitDelete(r) \/ Fails(r)
    \/ \E u \in Users : ForgetBorrower(u)

Spec == Init /\ [][Next]_vars

-----------------------------------------------------------------------------
TypeOK ==
    /\ DOMAIN statuses \subseteq StatusIds
    /\ statuses \in [DOMAIN statuses -> Status]
    /\ patches \in [Requests -> Work \cup {Idle}]
    /\ crossed \subseteq {r \in Requests : ChangesKind(patches[r])}
    /\ handmade \subseteq StatusIds
    /\ forgotten \subseteq StatusIds

(* A status has a borrower exactly while it is lent out, one and not two,  *)
(* and no date of return then, although the three are separate columns     *)
(* nothing ties together: unless its kind was set by hand or two calls     *)
(* that change it overlapped, and no lend or return has run alone since.   *)
(* Notes edited from a stale copy, deletions and failed calls do not       *)
(* disturb it; a purge may take the borrower away.                         *)
LentToOne ==
    \A s \in DOMAIN statuses \ handmade :
        LET row == statuses[s]
        IN  IF row.kind = "lent_out"
            THEN /\ ~row.returned
                 /\ row.user = {} \/ row.name = {}
                 /\ row.user = {} /\ row.name = {} => s \in forgotten
            ELSE row.user = {} /\ row.name = {}
=============================================================================
