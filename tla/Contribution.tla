---------------------------- MODULE Contribution ----------------------------
(***************************************************************************)
(* The life of a proposed catalog change: ContributionService over         *)
(* ContributionRepository, with authors and administrators calling at the  *)
(* same time.                                                              *)
(*                                                                         *)
(* A call reads the row (get_by_id), checks its status, and commits one    *)
(* edit of it.  claim and reject commit two edits, one after the other:    *)
(* the row is read again in between (the repository's refresh), but its    *)
(* status is not checked again.  A rejected call changes nothing and is    *)
(* not a step.                                                             *)
(***************************************************************************)
EXTENDS UnitOfWork

CONSTANTS Users,      \* authors
          Admins,     \* reviewers; nothing stops an author from being one
          Payloads,   \* proposed states of a book, a release or a contributor
          Notes,      \* what a reviewer may write
          Ids,        \* primary keys of contribution rows
          Requests,   \* concurrent HTTP requests
          None        \* SQL NULL

ASSUME NoneAssumption == None \notin Admins \cup Notes

VARIABLES contributions,  \* the contribution table
          inflight,       \* what each request has read and is about to commit
          raced           \* history: ids two requests worked on at one time

vars == <<contributions, inflight, raced>>

(* ContributionStatus has one more member, approved, which nothing sets.   *)
Status == {"draft", "submitted", "under_review", "rejected", "merged"}

Row == [user : Users, payload : Payloads, status : Status,
        reviewer : Admins \cup {None}, notes : Notes \cup {None}]

ASSUME AbsentAssumption == Absent \notin Row

(* then: the status the call still has to set once this edit is committed. *)
Work == [kind : {"update", "refresh", "delete"}, id : Ids,
         loaded : Row, edited : Row, then : Status \cup {"nothing"}]

Idle == [kind |-> "idle"]

Busy(c) == {r \in Requests : inflight[r] # Idle /\ inflight[r].id = c}

-----------------------------------------------------------------------------
(* get_by_id and the check of its status, then the edit of the copy.       *)
Call(r, c, kind, edited, then) ==
    /\ inflight[r] = Idle
    /\ inflight' = [inflight EXCEPT ![r] =
           [kind |-> kind, id |-> c, loaded |-> contributions[c],
            edited |-> edited, then |-> then]]
    /\ raced' = IF Busy(c) = {} THEN raced ELSE raced \cup {c}
    /\ UNCHANGED contributions

In(c, statuses) == contributions[c] # Absent /\ contributions[c].status \in statuses

Owned(u, c) == contributions[c] # Absent /\ contributions[c].user = u

(* create_contribution: a single INSERT, under a new uuid4.                *)
Create(c, u, payload) ==
    /\ contributions[c] = Absent
    /\ Busy(c) = {}
    /\ contributions' = [contributions EXCEPT ![c] =
           [user |-> u, payload |-> payload, status |-> "draft",
            reviewer |-> None, notes |-> None]]
    /\ raced' = raced \ {c}
    /\ UNCHANGED inflight

Update(r, c, u, payload) ==
    /\ Owned(u, c)
    /\ In(c, {"draft"})
    /\ Call(r, c, "update", [contributions[c] EXCEPT !.payload = payload], "nothing")

Submit(r, c, u) ==
    /\ Owned(u, c)
    /\ In(c, {"draft"})
    /\ Call(r, c, "update", [contributions[c] EXCEPT !.status = "submitted"], "nothing")

(* Mutant of DeleteContribution: the status is not looked at.              *)
DeleteAnytime(r, c, u) ==
    /\ Owned(u, c)
    /\ Call(r, c, "delete", contributions[c], "nothing")

DeleteContribution(r, c, u) ==
    /\ Owned(u, c)
    /\ In(c, {"draft", "submitted"})
    /\ Call(r, c, "delete", contributions[c], "nothing")

(* Mutant of Claim: the status is committed first, the reviewer not at all *)
(* if the call ends there.                                                 *)
ClaimStatusFirst(r, c, a) ==
    /\ In(c, {"submitted"})
    /\ Call(r, c, "update", [contributions[c] EXCEPT !.status = "under_review"], "nothing")

(* The reviewer is committed first, and the status after it.               *)
Claim(r, c, a) ==
    /\ In(c, {"submitted"})
    /\ Call(r, c, "update", [contributions[c] EXCEPT !.reviewer = a], "under_review")

(* The notes are committed first.  Any administrator may decide, whoever   *)
(* claimed the contribution.                                               *)
Reject(r, c, notes) ==
    /\ In(c, {"under_review"})
    /\ Call(r, c, "update", [contributions[c] EXCEPT !.notes = notes], "rejected")

Approve(r, c) ==
    /\ In(c, {"under_review"})
    /\ Call(r, c, "update", [contributions[c] EXCEPT !.status = "merged"], "nothing")

-----------------------------------------------------------------------------
End(r) == inflight' = [inflight EXCEPT ![r] = Idle]

(* Mutant of Commit: the UPDATE names every column, changed or not.        *)
CommitWholeRow(r) ==
    LET w == inflight[r]
    IN  /\ w.kind = "update"
        /\ contributions[w.id] # Absent
        /\ contributions' = [contributions EXCEPT ![w.id] = w.edited]
        /\ IF w.then = "nothing"
           THEN End(r)
           ELSE inflight' = [inflight EXCEPT ![r].kind = "refresh"]
        /\ UNCHANGED raced

(* No UPDATE is sent when the copy was left as it was loaded; an UPDATE of *)
(* a row that is gone raises StaleDataError and the request ends there.    *)
Emits(w) == w.loaded # w.edited

Commit(r) ==
    LET w == inflight[r]
    IN  /\ w.kind = "update"
        /\ ~(Emits(w) /\ StaleUpdate(contributions, w))
        /\ contributions' =
               IF Emits(w)
               THEN [contributions EXCEPT ![w.id] = Written(contributions, w)]
               ELSE contributions
        /\ IF w.then = "nothing"
           THEN End(r)
           ELSE inflight' = [inflight EXCEPT ![r].kind = "refresh"]
        /\ UNCHANGED raced

CommitFails(r) ==
    LET w == inflight[r]
    IN  /\ w.kind = "update"
        /\ Emits(w) /\ StaleUpdate(contributions, w)
        /\ End(r)
        /\ UNCHANGED <<contributions, raced>>

(* Mutant of Refresh: what the refresh returns is not checked.             *)
RefreshBlindly(r) ==
    LET w == inflight[r]
    IN  /\ w.kind = "refresh"
        /\ inflight' = [inflight EXCEPT ![r] =
               [kind |-> "update", id |-> w.id, loaded |-> contributions[w.id],
                edited |-> contributions[w.id], then |-> "nothing"]]
        /\ UNCHANGED <<contributions, raced>>

(* session.refresh after the first commit, and the second edit on top of   *)
(* whatever the row has become; a row that is gone ends the request.       *)
Refresh(r) ==
    LET w   == inflight[r]
        row == contributions[w.id]
    IN  /\ w.kind = "refresh"
        /\ IF row = Absent
           THEN End(r)
           ELSE inflight' = [inflight EXCEPT ![r] =
                    [kind |-> "update", id |-> w.id, loaded |-> row,
                     edited |-> [row EXCEPT !.status = w.then],
                     then |-> "nothing"]]
        /\ UNCHANGED <<contributions, raced>>

CommitDelete(r) ==
    LET w == inflight[r]
    IN  /\ w.kind = "delete"
        /\ contributions' = [contributions EXCEPT ![w.id] = Written(contributions, w)]
        /\ End(r)
        /\ UNCHANGED raced

(* A crash, a timeout or a lost connection between two commits of a call:  *)
(* the session rolls back what is not committed, and nothing else.         *)
Interrupted(r) ==
    /\ inflight[r] # Idle
    /\ End(r)
    /\ UNCHANGED <<contributions, raced>>

-----------------------------------------------------------------------------
Init ==
    /\ contributions = [c \in Ids |-> Absent]
    /\ inflight = [r \in Requests |-> Idle]
    /\ raced = {}

AuthorCalls(r, c) ==
    \E u \in Users :
        \/ \E payload \in Payloads : Update(r, c, u, payload)
        \/ Submit(r, c, u)
        \/ DeleteContribution(r, c, u)

AdminCalls(r, c) ==
    \/ \E a \in Admins : Claim(r, c, a)
    \/ \E notes \in Notes : Reject(r, c, notes)
    \/ Approve(r, c)

Next ==
    \/ \E c \in Ids, u \in Users, payload \in Payloads : Create(c, u, payload)
    \/ \E r \in Requests, c \in Ids : AuthorCalls(r, c) \/ AdminCalls(r, c)
    \/ \E r \in Requests :
           Commit(r) \/ CommitFails(r) \/ Refresh(r) \/ CommitDelete(r) \/ Interrupted(r)

Spec == Init /\ [][Next]_vars

-----------------------------------------------------------------------------
TypeOK ==
    /\ contributions \in [Ids -> Row \cup {Absent}]
    /\ inflight \in [Requests -> Work \cup {Idle}]
    /\ raced \subseteq Ids

(* claim and reject commit in two halves so that a contribution is never   *)
(* under review, or decided, without a reviewer, nor rejected without the  *)
(* notes that say why: not while other calls interleave with the halves,   *)
(* and not when the call dies between them.                                *)
Accounted(row) ==
    /\ row.status \in {"under_review", "rejected", "merged"} => row.reviewer # None
    /\ row.status = "rejected" => row.notes # None

Accountable ==
    \A c \in Ids : contributions[c] # Absent => Accounted(contributions[c])

(* A draft is never seen again once it has been submitted, and no row      *)
(* changes hands.                                                          *)
NoWayBackStep ==
    \A c \in Ids :
        contributions[c] # Absent /\ contributions'[c] # Absent =>
            /\ contributions'[c].status = "draft" => contributions[c].status = "draft"
            /\ contributions'[c].user = contributions[c].user

NoWayBack == [][NoWayBackStep]_vars

(* A contribution on which no two calls ever overlapped is edited only as  *)
(* a draft, withdrawn only before its review, reviewed as it was           *)
(* submitted, and decided once.                                            *)
Advances == {<<"draft", "submitted">>, <<"submitted", "under_review">>,
             <<"under_review", "rejected">>, <<"under_review", "merged">>}

LifecycleStep ==
    \A c \in Ids \ raced :
        LET old == contributions[c]
            new == contributions'[c]
        IN  old # Absent /\ new # old =>
                IF new = Absent
                THEN old.status \in {"draft", "submitted"}
                ELSE /\ new.status = old.status
                        \/ <<old.status, new.status>> \in Advances
                     /\ new.payload # old.payload => old.status = "draft"

Lifecycle == [][LifecycleStep]_vars

(* What reviewers decide on is what was submitted: the payload changes     *)
(* only in a draft, raced or not.                                          *)
SubmittedIsFrozen ==
    [][\A c \in Ids :
           contributions[c] # Absent /\ contributions'[c] # Absent =>
               \/ contributions'[c].payload = contributions[c].payload
               \/ contributions[c].status = "draft"]_vars
=============================================================================
