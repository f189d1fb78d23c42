----------------------------- MODULE Friendship -----------------------------
(***************************************************************************)
(* Friend requests, friendships and blocks: FriendshipService over         *)
(* FriendshipRepository, with any number of requests in flight.            *)
(*                                                                         *)
(* Every operation of the service reads one row and then commits one       *)
(* INSERT, UPDATE or DELETE.  It is modelled as two steps: the operation   *)
(* (SendRequest, Accept, ...), which is the read with all the guards that  *)
(* reject the call, and the repository's Save or Delete, which is the      *)
(* commit.  A rejected call changes nothing, so it is not a step.          *)
(***************************************************************************)
EXTENDS UnitOfWork

CONSTANTS Users,     \* user ids
          RowIds,    \* primary keys of friendship rows
          Requests   \* concurrent HTTP requests (one session each)

VARIABLES friendships,  \* the friendship table
          inflight,     \* what each request has read and is about to commit
          calls         \* history: <<what, u, v>> when u ever called it on v

vars == <<friendships, inflight, calls>>

Status == {"pending", "accepted", "declined", "blocked"}

Row == {row \in [requester : Users, addressee : Users, status : Status] :
            row.requester # row.addressee}

Work == [kind : {"insert", "update", "delete"}, actor : Users, id : RowIds,
         loaded : Row, edited : Row]

Idle == [kind |-> "idle"]

Calls == {"ask", "block"} \X Users \X Users

ASSUME AbsentAssumption == Absent \notin Row

Ends(row) == {row.requester, row.addressee}

-----------------------------------------------------------------------------
(* Mutant of Between: the query looks in one direction only.               *)
BetweenOneWay(u, v) ==
    {f \in RowIds : /\ friendships[f] # Absent
                    /\ friendships[f].requester = u
                    /\ friendships[f].addressee = v}

(* The rows get_between's query matches; .first() takes any one of them.   *)
Between(u, v) ==
    {f \in RowIds : friendships[f] # Absent /\ Ends(friendships[f]) = {u, v}}

(* uuid4 keys: never the key of a row that exists or is still being used.  *)
FreshIds ==
    {f \in RowIds : /\ friendships[f] = Absent
                    /\ \A r \in Requests :
                           inflight[r] # Idle => inflight[r].id # f}

Begin(r, w) ==
    /\ inflight[r] = Idle
    /\ inflight' = [inflight EXCEPT ![r] = w]
    /\ UNCHANGED friendships

Called(what, u, v) == calls' = calls \cup {<<what, u, v>>}

Insert(u, f, row) ==
    [kind |-> "insert", actor |-> u, id |-> f, loaded |-> row, edited |-> row]

Update(u, f, row) ==
    [kind |-> "update", actor |-> u, id |-> f,
     loaded |-> friendships[f], edited |-> row]

Remove(u, f) ==
    [kind |-> "delete", actor |-> u, id |-> f,
     loaded |-> friendships[f], edited |-> friendships[f]]

-----------------------------------------------------------------------------
Pending(u, v) == [requester |-> u, addressee |-> v, status |-> "pending"]

(* send_request, no row between the two: a new pending row.                *)
SendFirstRequest(r, u, v) ==
    /\ u # v
    /\ Between(u, v) = {}
    /\ \E f \in FreshIds : Begin(r, Insert(u, f, Pending(u, v)))
    /\ Called("ask", u, v)

(* Mutant of SendMutualRequest: asking twice accepts one's own request.    *)
SendRequestTwice(r, u, v) ==
    /\ \E f \in Between(u, v) :
           /\ friendships[f].status = "pending"
           /\ Begin(r, Update(u, f, [friendships[f] EXCEPT !.status = "accepted"]))
    /\ Called("ask", u, v)

(* send_request on the other's pending request: accepts it.                *)
SendMutualRequest(r, u, v) ==
    /\ \E f \in Between(u, v) :
           /\ friendships[f].status = "pending"
           /\ friendships[f].requester # u
           /\ Begin(r, Update(u, f, [friendships[f] EXCEPT !.status = "accepted"]))
    /\ Called("ask", u, v)

(* Mutant of SendRequestAgain: a block is no obstacle to asking.           *)
SendRequestPastBlock(r, u, v) ==
    /\ \E f \in Between(u, v) :
           /\ friendships[f].status \in {"declined", "blocked"}
           /\ Begin(r, Update(u, f, Pending(u, v)))
    /\ Called("ask", u, v)

(* send_request after a decline, whoever declined: the row is turned round *)
(* to point from u to v and is pending again.                              *)
SendRequestAgain(r, u, v) ==
    /\ \E f \in Between(u, v) :
           /\ friendships[f].status = "declined"
           /\ Begin(r, Update(u, f, Pending(u, v)))
    /\ Called("ask", u, v)

SendRequest(r, u, v) ==
    \/ SendFirstRequest(r, u, v)
    \/ SendMutualRequest(r, u, v)
    \/ SendRequestAgain(r, u, v)

(* Mutant of PendingAsAddressee: anyone may answer a request.              *)
PendingForAnyone(u, f) ==
    /\ friendships[f] # Absent
    /\ friendships[f].status = "pending"

PendingAsAddressee(u, f) ==
    /\ friendships[f] # Absent
    /\ friendships[f].addressee = u
    /\ friendships[f].status = "pending"

Accept(r, u, f) ==
    /\ PendingAsAddressee(u, f)
    /\ Begin(r, Update(u, f, [friendships[f] EXCEPT !.status = "accepted"]))
    /\ Called("ask", u, friendships[f].requester)

Decline(r, u, f) ==
    /\ PendingAsAddressee(u, f)
    /\ Begin(r, Update(u, f, [friendships[f] EXCEPT !.status = "declined"]))
    /\ UNCHANGED calls

Unfriend(r, u, v) ==
    /\ \E f \in Between(u, v) :
           /\ friendships[f].status = "accepted"
           /\ Begin(r, Remove(u, f))
    /\ UNCHANGED calls

(* Mutant of Block: one may block oneself.                                 *)
BlockAnyone(r, u, v) ==
    LET row == [requester |-> u, addressee |-> v, status |-> "blocked"]
    IN  /\ \/ /\ Between(u, v) = {}
              /\ \E f \in FreshIds : Begin(r, Insert(u, f, row))
           \/ \E f \in Between(u, v) : Begin(r, Update(u, f, row))
        /\ Called("block", u, v)

(* block takes over whatever row there is, a block of v on u included.     *)
Block(r, u, v) ==
    LET row == [requester |-> u, addressee |-> v, status |-> "blocked"]
    IN  /\ u # v
        /\ \/ /\ Between(u, v) = {}
              /\ \E f \in FreshIds : Begin(r, Insert(u, f, row))
           \/ \E f \in Between(u, v) : Begin(r, Update(u, f, row))
        /\ Called("block", u, v)

Unblock(r, u, v) ==
    /\ \E f \in Between(u, v) :
           /\ friendships[f].status = "blocked"
           /\ friendships[f].requester = u
           /\ Begin(r, Remove(u, f))
    /\ UNCHANGED calls

-----------------------------------------------------------------------------
(* uq_friendship_requester_addressee: one row per ORDERED pair.            *)
Conflicts(f, row) ==
    \E g \in RowIds \ {f} :
        /\ friendships[g] # Absent
        /\ friendships[g].requester = row.requester
        /\ friendships[g].addressee = row.addressee

End(r) == inflight' = [inflight EXCEPT ![r] = Idle]

(* The flush goes through unless the row is gone (StaleDataError) or the   *)
(* key is taken (IntegrityError).  The check ck_friendship_no_self_friend  *)
(* never fires, which is part of TypeOK.                                   *)
Flushes(w) ==
    /\ ~StaleUpdate(friendships, w)
    /\ ~Conflicts(w.id, Written(friendships, w))

Save(r) ==
    LET w == inflight[r]
    IN  /\ w.kind \in {"insert", "update"}
        /\ Flushes(w)
        /\ friendships' = [friendships EXCEPT ![w.id] = Written(friendships, w)]
        /\ End(r)
        /\ UNCHANGED calls

(* The request ends in an error and the session rolls back.                *)
SaveFails(r) ==
    /\ inflight[r].kind \in {"insert", "update"}
    /\ ~Flushes(inflight[r])
    /\ End(r)
    /\ UNCHANGED <<friendships, calls>>

(* delete: by primary key, whatever the row has become since it was read.  *)
Delete(r) ==
    LET w == inflight[r]
    IN  /\ w.kind = "delete"
        /\ friendships' = [friendships EXCEPT ![w.id] = Written(friendships, w)]
        /\ End(r)
        /\ UNCHANGED calls

-----------------------------------------------------------------------------
Init ==
    /\ friendships = [f \in RowIds |-> Absent]
    /\ inflight = [r \in Requests |-> Idle]
    /\ calls = {}

Next ==
    \E r \in Requests :
        \/ \E u, v \in Users : \/ SendRequest(r, u, v)
                               \/ Unfriend(r, u, v)
                               \/ Block(r, u, v)
                               \/ Unblock(r, u, v)
        \/ \E u \in Users, f \in RowIds : Accept(r, u, f) \/ Decline(r, u, f)
        \/ Save(r) \/ SaveFails(r) \/ Delete(r)

Spec == Init /\ [][Next]_vars

-----------------------------------------------------------------------------
(* Types: a row never relates a user to itself, and what a request is      *)
(* about to commit is such a row too.                                      *)
TypeOK ==
    /\ friendships \in [RowIds -> Row \cup {Absent}]
    /\ inflight \in [Requests -> Work \cup {Idle}]
    /\ calls \subseteq Calls

(* send_request and block look for a row in either direction before they   *)
(* insert one: as long as requests do not overlap, two users share at most *)
(* one row, although the unique constraint allows one per direction.       *)
OneRowPerPair ==
    \A f, g \in RowIds :
        f # g /\ friendships[f] # Absent /\ friendships[g] # Absent =>
            Ends(friendships[f]) # Ends(friendships[g])

(* Two users are friends only if each of them asked the other, or accepted *)
(* the other's request: a block in between, taken over by the other side,  *)
(* lifted, declined or asked again, never makes a friend of anyone.        *)
Consent ==
    \A f \in RowIds :
        (friendships[f] # Absent /\ friendships[f].status = "accepted")
        => \A u, v \in Ends(friendships[f]) :
               u # v => <<"ask", u, v>> \in calls

(* u has called send_request, accept or block on v.                        *)
Acted(u, v) == <<"ask", u, v>> \in calls \/ <<"block", u, v>> \in calls

(* Someone stands behind each side a row commits to it.                    *)
Backed(row) ==
    /\ Acted(row.requester, row.addressee)
    /\ row.status = "accepted" => Acted(row.addressee, row.requester)

(* With any overlap of requests: whoever a row names as its requester has  *)
(* itself acted towards the other, and an accepted row has both its users  *)
(* behind it.  A commit that mixes the columns of two requests never makes *)
(* someone a party who never did anything.                                 *)
Involved ==
    \A f \in RowIds : friendships[f] # Absent => Backed(friendships[f])

(* A row changes only by a request of one of the two users it relates, and *)
(* never comes to relate two others, however stale the copy it is written  *)
(* from.                                                                   *)
MembersOnlyStep ==
    \A f \in RowIds :
        friendships[f] # Absent /\ friendships'[f] # friendships[f] =>
            /\ \E r \in Requests : /\ inflight[r] # Idle
                                  /\ inflight'[r] = Idle
                                  /\ inflight[r].id = f
                                  /\ inflight[r].actor \in Ends(friendships[f])
            /\ friendships'[f] # Absent =>
                   Ends(friendships'[f]) = Ends(friendships[f])

MembersOnly == [][MembersOnlyStep]_vars

-----------------------------------------------------------------------------
(* How a row reads as a relation: the direction of a request or of a block *)
(* matters, that of a friendship or of a refusal does not.                 *)
RelationOf(row) ==
    CASE row.status = "pending"  -> [is |-> "asked", by |-> row.requester]
      [] row.status = "accepted" -> [is |-> "friends"]
      [] row.status = "declined" -> [is |-> "declined"]
      [] row.status = "blocked"  -> [is |-> "blocked", by |-> row.requester]

Pairs == {pair \in SUBSET Users : \E u, v \in Users : u # v /\ pair = {u, v}}

RowsOf(pair) ==
    {f \in RowIds : friendships[f] # Absent /\ Ends(friendships[f]) = pair}

TheRow(S) == CHOOSE x \in S : TRUE

Relation ==
    [pair \in Pairs |-> IF RowsOf(pair) = {} THEN [is |-> "none"]
                        ELSE RelationOf(friendships[TheRow(RowsOf(pair))])]

Graph == INSTANCE FriendGraph WITH relation <- Relation

(* As long as requests do not overlap, the service implements the graph:   *)
(* reading a row changes no relation, and every commit is one edge of it.  *)
ImplementsFriendGraph == Graph!Spec
=============================================================================
