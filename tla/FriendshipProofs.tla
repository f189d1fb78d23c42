-------------------------- MODULE FriendshipProofs --------------------------
(***************************************************************************)
(* Theorems of Friendship, for any sets of users, rows and requests and    *)
(* any overlap of the requests.                                            *)
(***************************************************************************)
EXTENDS Friendship, TLAPS

-----------------------------------------------------------------------------
(* What the invariants need of the requests in flight.  A copy read a      *)
(* while ago may be stale in every column, but it still relates the same   *)
(* two users as its row does; what the request made of the copy has the    *)
(* user who called behind it; and a new row's key is its own.              *)
Underway(r) ==
    LET w == inflight[r]
    IN  /\ w.actor \in Ends(w.edited)
        /\ Ends(w.edited) = Ends(w.loaded)
        /\ Backed(w.edited)
        /\ friendships[w.id] # Absent =>
               w.kind # "insert" /\ Ends(friendships[w.id]) = Ends(w.loaded)
        /\ w.kind = "insert" =>
               \A s \in Requests \ {r} :
                   inflight[s] # Idle => inflight[s].id # w.id

IInv ==
    /\ TypeOK
    /\ Involved
    /\ \A r \in Requests : inflight[r] # Idle => Underway(r)

-----------------------------------------------------------------------------
(* An UPDATE of a row from a copy, stale or not, that relates the same two *)
(* users leaves a row that relates them too: it is turned round completely *)
(* or not at all.                                                          *)
LEMMA FlushedRow ==
    ASSUME NEW row \in Row, NEW loaded \in Row, NEW edited \in Row,
           Ends(row) = Ends(loaded), Ends(edited) = Ends(loaded)
    PROVE  LET new == Flushed(row, loaded, edited)
           IN  /\ new \in Row
               /\ Ends(new) = Ends(row)
               /\ \/ new.requester = row.requester /\ new.addressee = row.addressee
                  \/ new.requester = edited.requester /\ new.addressee = edited.addressee
               /\ new.status \in {row.status, edited.status}
<1> DEFINE new == Flushed(row, loaded, edited)
<1>1. new = [requester |-> IF edited.requester # loaded.requester
                           THEN edited.requester ELSE row.requester,
             addressee |-> IF edited.addressee # loaded.addressee
                           THEN edited.addressee ELSE row.addressee,
             status |-> IF edited.status # loaded.status
                        THEN edited.status ELSE row.status]
  BY DEF Flushed, Row
<1> HIDE DEF new
<1>2. \/ new.requester = row.requester /\ new.addressee = row.addressee
      \/ new.requester = edited.requester /\ new.addressee = edited.addressee
  BY <1>1 DEF Row, Ends
<1>3. new \in Row /\ Ends(new) = Ends(row)
  BY <1>1, <1>2 DEF Row, Ends
<1>4. new.status \in {row.status, edited.status}
  BY <1>1
<1> QED BY <1>2, <1>3, <1>4 DEF new

LEMMA IdleIsNoWork == Idle \notin Work
BY DEF Idle, Work

-----------------------------------------------------------------------------
(* The first half of every operation: the request now holds w.             *)
LEMMA BeginKeepsIInv ==
    ASSUME IInv,
           NEW r \in Requests, NEW w \in Work,
           Begin(r, w),
           calls \subseteq calls', calls' \subseteq Calls,
           w.actor \in Ends(w.edited),
           Ends(w.edited) = Ends(w.loaded),
           Backed(w.edited)',
           IF w.kind = "insert" THEN w.id \in FreshIds
                                ELSE friendships[w.id] = w.loaded
    PROVE  IInv'
<1> USE DEF IInv, TypeOK
<1>1. TypeOK'
  BY DEF Begin
<1>2. Involved'
  BY DEF Begin, Involved, Backed, Acted
<1>3. ASSUME NEW s \in Requests, inflight'[s] # Idle
      PROVE  Underway(s)'
  <2>1. CASE s = r
    <3>1. inflight'[s] = w /\ friendships' = friendships
      BY <2>1 DEF Begin
    <3>2. w.kind = "insert" =>
              \A t \in Requests \ {s} : inflight'[t] # Idle => inflight'[t].id # w.id
      BY <2>1 DEF Begin, FreshIds
    <3>3. friendships[w.id] # Absent =>
              w.kind # "insert" /\ Ends(friendships[w.id]) = Ends(w.loaded)
      BY DEF FreshIds
    <3> QED BY <3>1, <3>2, <3>3 DEF Underway
  <2>2. CASE s # r
    <3>1. inflight'[s] = inflight[s] /\ friendships' = friendships
      BY <2>2 DEF Begin
    <3>2. Underway(s)
      BY <1>3, <3>1
    <3>3. inflight[s].kind = "insert" => inflight[s].id # w.id
      <4>1. CASE w.kind = "insert"
        BY <4>1, <1>3, <3>1 DEF FreshIds
      <4>2. CASE w.kind # "insert"
        BY <4>2, <3>2, AbsentAssumption DEF Underway, Work
      <4> QED BY <4>1, <4>2
    <3>4. inflight[s].kind = "insert" =>
              \A t \in Requests \ {s} :
                  inflight'[t] # Idle => inflight'[t].id # inflight[s].id
      BY <3>2, <3>3 DEF Underway, Begin
    <3>5. Backed(inflight[s].edited)'
      BY <3>1, <3>2 DEF Underway, Backed, Acted
    <3> QED BY <3>1, <3>2, <3>4, <3>5 DEF Underway
  <2> QED BY <2>1, <2>2
<1> QED BY <1>1, <1>2, <1>3

-----------------------------------------------------------------------------
(* The second half: the commit, which leaves the other requests' keys and  *)
(* pairs as they were.                                                     *)
LEMMA SaveKeepsIInv ==
    ASSUME IInv, NEW r \in Requests, Save(r)
    PROVE  IInv'
<1> USE DEF IInv, TypeOK
<1> DEFINE w == inflight[r]
           new == Written(friendships, w)
<1>1. w \in Work /\ w # Idle /\ Underway(r)
  BY DEF Save, Idle
<1>2. /\ new \in Row
      /\ Ends(new) = Ends(w.loaded)
      /\ Backed(new)
  <2>1. CASE w.kind = "insert"
    BY <1>1, <2>1 DEF Written, Underway, Work
  <2>2. CASE w.kind = "update"
    <3>1. friendships[w.id] \in Row /\ Ends(friendships[w.id]) = Ends(w.loaded)
      BY <1>1, <2>2 DEF Save, StaleUpdate, Flushes, Underway, Work
    <3>2. new = Flushed(friendships[w.id], w.loaded, w.edited)
      BY <2>2 DEF Written
    <3>3. w.loaded \in Row /\ w.edited \in Row /\ Ends(w.edited) = Ends(w.loaded)
      BY <1>1 DEF Work, Underway
    <3>4. Backed(friendships[w.id]) /\ Backed(w.edited)
      BY <1>1, <3>1, AbsentAssumption DEF Involved, Work, Underway
    <3> DEFINE row == friendships[w.id]
    <3>5. /\ new \in Row
          /\ Ends(new) = Ends(row)
          /\ \/ new.requester = row.requester /\ new.addressee = row.addressee
             \/ new.requester = w.edited.requester /\ new.addressee = w.edited.addressee
          /\ new.status \in {row.status, w.edited.status}
      BY <3>1, <3>2, <3>3, FlushedRow
    <3>6. Backed(new)
      BY <3>1, <3>3, <3>4, <3>5 DEF Backed, Ends, Row
    <3> QED BY <3>1, <3>5, <3>6
  <2> QED BY <2>1, <2>2 DEF Save
<1>3. /\ friendships' = [friendships EXCEPT ![w.id] = new]
      /\ inflight' = [inflight EXCEPT ![r] = Idle]
      /\ calls' = calls
  BY DEF Save, End
<1> HIDE DEF new
<1>4. TypeOK'
  BY <1>1, <1>2, <1>3
<1>5. Involved'
  BY <1>1, <1>2, <1>3 DEF Involved, Backed, Acted, Work
<1>6. ASSUME NEW s \in Requests, inflight'[s] # Idle
      PROVE  Underway(s)'
  <2>1. s # r /\ inflight'[s] = inflight[s] /\ Underway(s)
    BY <1>3, <1>6
  <2>2. friendships'[inflight[s].id] # Absent =>
            /\ inflight[s].kind # "insert"
            /\ Ends(friendships'[inflight[s].id]) = Ends(inflight[s].loaded)
    <3>1. CASE inflight[s].id # w.id
      BY <1>3, <2>1, <3>1 DEF Underway
    <3>2. CASE inflight[s].id = w.id
      <4>1. inflight[s].kind # "insert" /\ w.kind # "insert"
        BY <1>1, <1>6, <2>1, <3>2 DEF Underway
      <4>2. friendships[w.id] # Absent
        BY <4>1, <1>1 DEF Save, Flushes, StaleUpdate, Work
      <4>3. Ends(w.loaded) = Ends(inflight[s].loaded)
        BY <1>1, <2>1, <3>2, <4>2 DEF Underway
      <4>4. friendships'[inflight[s].id] = new
        BY <1>1, <1>3, <3>2 DEF Work
      <4> QED BY <1>2, <4>1, <4>3, <4>4
    <3> QED BY <3>1, <3>2
  <2>3. Backed(inflight[s].edited)'
    BY <1>3, <2>1 DEF Backed, Acted, Underway
  <2>4. inflight[s].kind = "insert" =>
            \A t \in Requests \ {s} :
                inflight'[t] # Idle => inflight'[t].id # inflight[s].id
    BY <1>3, <2>1 DEF Underway
  <2> QED BY <2>1, <2>2, <2>3, <2>4 DEF Underway
<1> QED BY <1>4, <1>5, <1>6

LEMMA DeleteKeepsIInv ==
    ASSUME IInv, NEW r \in Requests, Delete(r)
    PROVE  IInv'
<1> USE DEF IInv, TypeOK
<1>1. /\ friendships' = [friendships EXCEPT ![inflight[r].id] = Absent]
      /\ inflight' = [inflight EXCEPT ![r] = Idle]
      /\ calls' = calls
  BY DEF Delete, End, Written
<1>2. TypeOK'
  BY <1>1
<1>3. Involved'
  BY <1>1 DEF Involved, Backed, Acted
<1>4. ASSUME NEW s \in Requests, inflight'[s] # Idle
      PROVE  Underway(s)'
  <2>1. s # r /\ inflight'[s] = inflight[s] /\ Underway(s)
    BY <1>1, <1>4
  <2>2. friendships'[inflight[s].id] \in {friendships[inflight[s].id], Absent}
    BY <1>1, <2>1
  <2>3. Backed(inflight[s].edited)'
    BY <1>1, <2>1 DEF Backed, Acted, Underway
  <2>4. inflight[s].kind = "insert" =>
            \A t \in Requests \ {s} :
                inflight'[t] # Idle => inflight'[t].id # inflight[s].id
    BY <1>1, <2>1 DEF Underway
  <2> QED BY <2>1, <2>2, <2>3, <2>4 DEF Underway
<1> QED BY <1>2, <1>3, <1>4

LEMMA SaveFailsKeepsIInv ==
    ASSUME IInv, NEW r \in Requests, SaveFails(r)
    PROVE  IInv'
<1> USE DEF IInv, TypeOK
<1>1. /\ inflight' = [inflight EXCEPT ![r] = Idle]
      /\ friendships' = friendships
      /\ calls' = calls
  BY DEF SaveFails, End
<1>2. TypeOK' /\ Involved'
  BY <1>1 DEF Involved, Backed, Acted
<1>3. ASSUME NEW s \in Requests, inflight'[s] # Idle
      PROVE  Underway(s)'
  <2>1. s # r /\ inflight'[s] = inflight[s] /\ Underway(s)
    BY <1>1, <1>3
  <2>2. Backed(inflight[s].edited)'
    BY <1>1, <2>1 DEF Backed, Acted, Underway
  <2>3. inflight[s].kind = "insert" =>
            \A t \in Requests \ {s} :
                inflight'[t] # Idle => inflight'[t].id # inflight[s].id
    BY <1>1, <2>1 DEF Underway
  <2> QED BY <1>1, <2>1, <2>2, <2>3 DEF Underway
<1> QED BY <1>2, <1>3

-----------------------------------------------------------------------------
(* The two ways BeginKeepsIInv is used.  An operation has recorded who     *)
(* acted in calls', and calls' alone says whether the edited copy is       *)
(* backed.                                                                 *)
BackedBy(row, cs) ==
    LET acted(u, v) == <<"ask", u, v>> \in cs \/ <<"block", u, v>> \in cs
    IN  /\ acted(row.requester, row.addressee)
        /\ row.status = "accepted" => acted(row.addressee, row.requester)

LEMMA InsertKeepsIInv ==
    ASSUME IInv,
           NEW r \in Requests, NEW u \in Users, NEW f \in FreshIds,
           NEW row \in Row, row.requester = u,
           Begin(r, Insert(u, f, row)),
           calls \subseteq calls', calls' \subseteq Calls,
           BackedBy(row, calls')
    PROVE  IInv'
<1> DEFINE w == Insert(u, f, row)
<1>1. f \in RowIds
  BY DEF FreshIds
<1>2. /\ w \in Work /\ w.kind = "insert" /\ w.id = f
      /\ w.actor = u /\ w.edited = row /\ w.loaded = row
  BY <1>1 DEF Insert, Work
<1>3. Backed(row)'
  BY DEF BackedBy, Backed, Acted
<1>4. u \in Ends(row)
  BY DEF Ends
<1> QED BY <1>2, <1>3, <1>4, BeginKeepsIInv DEF Insert

LEMMA UpdateKeepsIInv ==
    ASSUME IInv,
           NEW r \in Requests, NEW u \in Users, NEW f \in RowIds,
           NEW row \in Row, friendships[f] # Absent,
           u \in Ends(row), Ends(row) = Ends(friendships[f]),
           Begin(r, Update(u, f, row)),
           calls \subseteq calls', calls' \subseteq Calls,
           BackedBy(row, calls')
    PROVE  IInv'
<1>1. PICK old \in Row : old = friendships[f]
  BY DEF IInv, TypeOK
<1> DEFINE w == [kind |-> "update", actor |-> u, id |-> f,
                 loaded |-> old, edited |-> row]
<1>2. w \in Work /\ Begin(r, w)
  BY <1>1 DEF Update, Work
<1>3. Backed(row)'
  BY DEF BackedBy, Backed, Acted
<1> QED BY <1>1, <1>2, <1>3, BeginKeepsIInv

LEMMA RemoveKeepsIInv ==
    ASSUME IInv,
           NEW r \in Requests, NEW u \in Users, NEW f \in RowIds,
           friendships[f] # Absent, u \in Ends(friendships[f]),
           Begin(r, Remove(u, f)), calls' = calls
    PROVE  IInv'
<1>1. PICK old \in Row : old = friendships[f] /\ Backed(old)
  BY DEF IInv, TypeOK, Involved
<1> DEFINE w == [kind |-> "delete", actor |-> u, id |-> f,
                 loaded |-> old, edited |-> old]
<1>2. w \in Work /\ Begin(r, w)
  BY <1>1 DEF Remove, Work
<1>3. Backed(old)' /\ calls' \subseteq Calls
  BY <1>1 DEF Backed, Acted, IInv, TypeOK
<1> QED BY <1>1, <1>2, <1>3, BeginKeepsIInv

(* What is known of a row that get_between or get_by_id returned.          *)
LEMMA ReadRow ==
    ASSUME IInv, NEW f \in RowIds, friendships[f] # Absent
    PROVE  \E row \in Row : row = friendships[f] /\ BackedBy(row, calls)
BY DEF IInv, TypeOK, Involved, Backed, Acted, BackedBy

-----------------------------------------------------------------------------
LEMMA SendRequestKeepsIInv ==
    ASSUME IInv, NEW r \in Requests, NEW u \in Users, NEW v \in Users,
           SendRequest(r, u, v)
    PROVE  IInv'
<1>1. calls' = calls \cup {<<"ask", u, v>>} /\ calls' \subseteq Calls
  BY DEF SendRequest, SendFirstRequest, SendMutualRequest, SendRequestAgain,
         Called, Calls, IInv, TypeOK
<1> DEFINE asks == Pending(u, v)
<1>2. u # v => asks \in Row /\ Ends(asks) = {u, v} /\ BackedBy(asks, calls')
  BY <1>1 DEF Pending, Row, Status, Ends, BackedBy
<1>3. CASE SendFirstRequest(r, u, v)
  <2>1. PICK f \in FreshIds : u # v /\ Begin(r, Insert(u, f, asks))
    BY <1>3 DEF SendFirstRequest
  <2>2. asks.requester = u
    BY DEF Pending
  <2> QED BY <1>1, <1>2, <2>1, <2>2, InsertKeepsIInv
<1>4. CASE SendMutualRequest(r, u, v)
  <2>1. PICK f \in Between(u, v) :
            /\ friendships[f].status = "pending"
            /\ friendships[f].requester # u
            /\ Begin(r, Update(u, f, [friendships[f] EXCEPT !.status = "accepted"]))
    BY <1>4 DEF SendMutualRequest
  <2>2. f \in RowIds /\ friendships[f] # Absent /\ Ends(friendships[f]) = {u, v}
    BY DEF Between
  <2>3. PICK row \in Row : row = friendships[f] /\ BackedBy(row, calls)
    BY <2>2, ReadRow
  <2> DEFINE mine == [row EXCEPT !.status = "accepted"]
  <2>4. row.requester = v /\ row.addressee = u
    BY <2>1, <2>2, <2>3 DEF Ends
  <2>5. /\ mine \in Row /\ Ends(mine) = {u, v}
        /\ mine.requester = v /\ mine.addressee = u
    BY <2>4 DEF Row, Status, Ends
  <2>6. BackedBy(mine, calls')
    BY <1>1, <2>3, <2>4, <2>5 DEF BackedBy
  <2> QED BY <1>1, <2>1, <2>2, <2>3, <2>5, <2>6, UpdateKeepsIInv
<1>5. CASE SendRequestAgain(r, u, v)
  <2>1. PICK f \in Between(u, v) : Begin(r, Update(u, f, asks))
    BY <1>5 DEF SendRequestAgain
  <2>2. /\ f \in RowIds /\ friendships[f] # Absent
        /\ Ends(friendships[f]) = {u, v} /\ u # v
    BY ReadRow DEF Between, Row, Ends
  <2> QED BY <1>1, <1>2, <2>1, <2>2, UpdateKeepsIInv
<1> QED BY <1>3, <1>4, <1>5 DEF SendRequest

LEMMA AnswerKeepsIInv ==
    ASSUME IInv, NEW r \in Requests, NEW u \in Users, NEW f \in RowIds,
           Accept(r, u, f) \/ Decline(r, u, f)
    PROVE  IInv'
<1>1. PICK row \in Row : row = friendships[f] /\ BackedBy(row, calls)
  BY ReadRow DEF Accept, Decline, PendingAsAddressee
<1>2. row.addressee = u /\ row.requester \in Users
  BY <1>1 DEF Accept, Decline, PendingAsAddressee, Row
<1>3. CASE Accept(r, u, f)
  <2> DEFINE mine == [row EXCEPT !.status = "accepted"]
  <2>1. /\ mine \in Row /\ Ends(mine) = Ends(row) /\ u \in Ends(mine)
        /\ mine.requester = row.requester /\ mine.addressee = u
    BY <1>2 DEF Row, Status, Ends
  <2>2. calls' = calls \cup {<<"ask", u, row.requester>>} /\ calls' \subseteq Calls
    BY <1>1, <1>2, <1>3 DEF Accept, Called, Calls, IInv, TypeOK
  <2>3. BackedBy(mine, calls')
    BY <1>1, <1>2, <2>1, <2>2 DEF BackedBy
  <2>4. friendships[f] # Absent /\ Begin(r, Update(u, f, mine))
    BY <1>1, <1>3 DEF Accept, PendingAsAddressee
  <2> QED BY <1>1, <2>1, <2>2, <2>3, <2>4, UpdateKeepsIInv
<1>4. CASE Decline(r, u, f)
  <2> DEFINE mine == [row EXCEPT !.status = "declined"]
  <2>1. /\ mine \in Row /\ Ends(mine) = Ends(row) /\ u \in Ends(mine)
        /\ mine.requester = row.requester /\ mine.addressee = u
        /\ mine.status # "accepted"
    BY <1>2 DEF Row, Status, Ends
  <2>2. calls' = calls /\ calls \subseteq Calls
    BY <1>4 DEF Decline, IInv, TypeOK
  <2>3. BackedBy(mine, calls')
    BY <1>1, <1>2, <2>1, <2>2 DEF BackedBy
  <2>4. friendships[f] # Absent /\ Begin(r, Update(u, f, mine))
    BY <1>1, <1>4 DEF Decline, PendingAsAddressee
  <2> QED BY <1>1, <2>1, <2>2, <2>3, <2>4, UpdateKeepsIInv
<1> QED BY <1>3, <1>4

LEMMA BlockKeepsIInv ==
    ASSUME IInv, NEW r \in Requests, NEW u \in Users, NEW v \in Users,
           Block(r, u, v)
    PROVE  IInv'
<1> DEFINE row == [requester |-> u, addressee |-> v, status |-> "blocked"]
<1>1. calls' = calls \cup {<<"block", u, v>>} /\ calls' \subseteq Calls
  BY DEF Block, Called, Calls, IInv, TypeOK
<1>2. row \in Row /\ Ends(row) = {u, v} /\ BackedBy(row, calls')
  BY <1>1 DEF Block, Row, Status, Ends, BackedBy
<1>3. CASE \E f \in FreshIds : Begin(r, Insert(u, f, row))
  <2>1. row.requester = u
    OBVIOUS
  <2> QED BY <1>1, <1>2, <1>3, <2>1, InsertKeepsIInv
<1>4. CASE \E f \in Between(u, v) : Begin(r, Update(u, f, row))
  BY <1>1, <1>2, <1>4, UpdateKeepsIInv DEF Between
<1> QED BY <1>3, <1>4 DEF Block

LEMMA LeaveKeepsIInv ==
    ASSUME IInv, NEW r \in Requests, NEW u \in Users, NEW v \in Users,
           Unfriend(r, u, v) \/ Unblock(r, u, v)
    PROVE  IInv'
<1>1. PICK f \in Between(u, v) : Begin(r, Remove(u, f))
  BY DEF Unfriend, Unblock
<1>2. f \in RowIds /\ friendships[f] # Absent /\ u \in Ends(friendships[f])
  BY DEF Between
<1> QED BY <1>1, <1>2, RemoveKeepsIInv DEF Unfriend, Unblock

LEMMA NextKeepsIInv ==
    ASSUME IInv, [Next]_vars
    PROVE  IInv'
<1>1. CASE UNCHANGED vars
  <2>1. TypeOK' /\ Involved'
    BY <1>1 DEF IInv, TypeOK, Involved, Backed, Acted, vars
  <2>2. \A r \in Requests : inflight'[r] # Idle => Underway(r)'
    BY <1>1 DEF IInv, Underway, Backed, Acted, vars
  <2> QED BY <2>1, <2>2 DEF IInv
<1>2. CASE Next
  BY <1>2, SendRequestKeepsIInv, AnswerKeepsIInv, BlockKeepsIInv,
     LeaveKeepsIInv, SaveKeepsIInv, SaveFailsKeepsIInv, DeleteKeepsIInv
     DEF Next
<1> QED BY <1>1, <1>2

THEOREM Invariance == Spec => []IInv
<1>1. Init => IInv
  BY DEF Init, IInv, TypeOK, Involved
<1>2. IInv /\ [Next]_vars => IInv'
  BY NextKeepsIInv
<1> QED BY <1>1, <1>2, PTL DEF Spec

(* Every row relates two different users and holds a real status, and so   *)
(* does what any request is about to commit.                               *)
THEOREM TypeCorrect == Spec => []TypeOK
BY Invariance, PTL DEF IInv

(* However requests overlap, nobody is the requester of a row, or a party  *)
(* to a friendship, without ever having asked, accepted or blocked.        *)
THEOREM NobodyUninvolved == Spec => []Involved
BY Invariance, PTL DEF IInv

-----------------------------------------------------------------------------
(* The rows change only in a commit.                                       *)
LEMMA OnlyCommitsWrite ==
    ASSUME Next
    PROVE  \/ friendships' = friendships
           \/ \E r \in Requests : Save(r) \/ Delete(r)
<1>1. ASSUME NEW r \in Requests, NEW u \in Users, NEW v \in Users,
             \/ SendRequest(r, u, v) \/ Unfriend(r, u, v)
             \/ Block(r, u, v)       \/ Unblock(r, u, v)
      PROVE  friendships' = friendships
  BY <1>1 DEF SendRequest, SendFirstRequest, SendMutualRequest,
              SendRequestAgain, Unfriend, Block, Unblock, Begin
<1>2. ASSUME NEW r \in Requests, NEW u \in Users, NEW f \in RowIds,
             Accept(r, u, f) \/ Decline(r, u, f)
      PROVE  friendships' = friendships
  BY <1>2 DEF Accept, Decline, Begin
<1>3. ASSUME NEW r \in Requests, SaveFails(r)
      PROVE  friendships' = friendships
  BY <1>3 DEF SaveFails
<1> QED BY <1>1, <1>2, <1>3 DEF Next

LEMMA CommitByMember ==
    ASSUME IInv, NEW r \in Requests, Save(r) \/ Delete(r)
    PROVE  MembersOnlyStep
<1> DEFINE w == inflight[r]
<1> USE DEF IInv, TypeOK
<1>1. w \in Work /\ w # Idle /\ Underway(r)
  BY DEF Save, Delete, Idle
<1>2. inflight' = [inflight EXCEPT ![r] = Idle]
  BY DEF Save, Delete, End
<1>3. ASSUME NEW f \in RowIds, friendships[f] # Absent,
             friendships'[f] # friendships[f]
      PROVE  /\ \E s \in Requests : /\ inflight[s] # Idle
                                    /\ inflight'[s] = Idle
                                    /\ inflight[s].id = f
                                    /\ inflight[s].actor \in Ends(friendships[f])
             /\ friendships'[f] # Absent =>
                    Ends(friendships'[f]) = Ends(friendships[f])
  <2>1. f = w.id
    BY <1>3 DEF Save, Delete
  <2>2. /\ w.kind # "insert" /\ w.actor \in Ends(w.edited)
        /\ Ends(w.edited) = Ends(w.loaded)
        /\ Ends(friendships[f]) = Ends(w.loaded)
    BY <1>1, <1>3, <2>1 DEF Underway
  <2>3. w.actor \in Ends(friendships[f]) /\ inflight'[r] = Idle
    BY <1>2, <2>2
  <2>4. friendships'[f] # Absent => Ends(friendships'[f]) = Ends(friendships[f])
    <3>1. CASE w.kind = "update" /\ Save(r)
      <4>1. friendships'[f] = Flushed(friendships[f], w.loaded, w.edited)
        BY <2>1, <3>1 DEF Save, Written
      <4>2. friendships[f] \in Row /\ w.loaded \in Row /\ w.edited \in Row
        BY <1>1, <1>3 DEF Work
      <4> QED BY <2>2, <4>1, <4>2, FlushedRow
    <3>2. CASE Delete(r)
      BY <2>1, <3>2 DEF Delete, Written
    <3> QED BY <2>2, <3>1, <3>2 DEF Save
  <2> QED BY <1>1, <2>1, <2>3, <2>4
<1> QED BY <1>3 DEF MembersOnlyStep

(* However requests overlap, a row changes only by a request of one of the *)
(* two users it relates, and goes on relating the same two.                *)
THEOREM RowsBelongToTheirUsers == Spec => MembersOnly
<1>1. IInv /\ [Next]_vars => [MembersOnlyStep]_vars
  <2> SUFFICES ASSUME IInv, Next PROVE MembersOnlyStep
    OBVIOUS
  <2>1. \/ friendships' = friendships
        \/ \E r \in Requests : Save(r) \/ Delete(r)
    BY OnlyCommitsWrite
  <2>2. CASE friendships' = friendships
    BY <2>2 DEF MembersOnlyStep
  <2> QED BY <2>1, <2>2, CommitByMember
<1> QED BY <1>1, Invariance, PTL DEF Spec, MembersOnly

-----------------------------------------------------------------------------
(* When requests do not overlap, nothing read is stale: a commit replaces  *)
(* exactly the row that was read, or fills the gap that was seen.          *)
Serial == \A r, s \in Requests : r = s

AskedBy(row, cs) ==
    /\ row.status \in {"pending", "accepted"} =>
           <<"ask", row.requester, row.addressee>> \in cs
    /\ row.status = "accepted" => <<"ask", row.addressee, row.requester>> \in cs

Current(r) ==
    LET w == inflight[r]
    IN  /\ AskedBy(w.edited, calls)
        /\ IF w.kind = "insert"
           THEN Between(w.edited.requester, w.edited.addressee) = {}
           ELSE friendships[w.id] = w.loaded

SInv ==
    /\ IInv
    /\ OneRowPerPair
    /\ \A f \in RowIds : friendships[f] # Absent => AskedBy(friendships[f], calls)
    /\ \A r \in Requests : inflight[r] # Idle => Current(r)

LEMMA BeginKeepsSInv ==
    ASSUME Serial, SInv, IInv',
           NEW r \in Requests, NEW w \in Work,
           Begin(r, w), calls \subseteq calls',
           AskedBy(w.edited, calls'),
           IF w.kind = "insert"
           THEN Between(w.edited.requester, w.edited.addressee) = {}
           ELSE friendships[w.id] = w.loaded
    PROVE  SInv'
<1>1. friendships' = friendships /\ inflight' = [inflight EXCEPT ![r] = w]
  BY DEF Begin
<1>2. inflight'[r] = w /\ \A s \in Requests : s = r
  BY <1>1 DEF Serial, SInv, IInv, TypeOK
<1>3. OneRowPerPair'
  BY <1>1 DEF SInv, OneRowPerPair, Between
<1>4. \A f \in RowIds : friendships'[f] # Absent => AskedBy(friendships[f], calls)'
  BY <1>1 DEF SInv, AskedBy
<1>5. Current(r)'
  BY <1>1, <1>2 DEF Current, Between
<1> QED BY <1>2, <1>3, <1>4, <1>5 DEF SInv

(* Without overlap what a request saves is the row as it has made it.      *)
LEMMA SaveWrites ==
    ASSUME SInv, NEW r \in Requests, Save(r)
    PROVE  /\ inflight[r] \in Work /\ inflight[r] # Idle
           /\ Underway(r) /\ Current(r)
           /\ friendships' = [friendships EXCEPT ![inflight[r].id] = inflight[r].edited]
<1> USE DEF IInv, TypeOK
<1> DEFINE w == inflight[r]
<1>1. w \in Work /\ w # Idle /\ Underway(r) /\ Current(r)
  BY DEF Save, Idle, SInv
<1>2. Written(friendships, w) = w.edited
  <2>1. CASE w.kind = "insert"
    BY <2>1 DEF Written
  <2>2. CASE w.kind = "update"
    <3>1. friendships[w.id] = w.loaded
      BY <1>1, <2>2 DEF Current
    <3>2. w.loaded \in Row /\ w.edited \in Row
      BY <1>1 DEF Work
    <3>3. Flushed(w.loaded, w.loaded, w.edited) = w.edited
      BY <3>2 DEF Flushed, Row
    <3> QED BY <2>2, <3>1, <3>3 DEF Written
  <2> QED BY <2>1, <2>2 DEF Save
<1> QED BY <1>1, <1>2 DEF Save

LEMMA SaveKeepsSInv ==
    ASSUME Serial, SInv, IInv', NEW r \in Requests, Save(r)
    PROVE  SInv'
<1> USE DEF IInv, TypeOK
<1> DEFINE w == inflight[r]
<1>1. w \in Work /\ w # Idle /\ Underway(r) /\ Current(r)
  BY SaveWrites
<1>2. inflight' = [inflight EXCEPT ![r] = Idle] /\ calls' = calls
  BY DEF Save, End
<1>4. /\ w.id \in RowIds /\ w.edited \in Row
      /\ friendships' = [friendships EXCEPT ![w.id] = w.edited]
  BY <1>1, SaveWrites DEF Work
<1>5. OneRowPerPair'
  <2> SUFFICES ASSUME NEW f \in RowIds, NEW g \in RowIds, f # g,
                      friendships'[f] # Absent, friendships'[g] # Absent,
                      Ends(friendships'[f]) = Ends(friendships'[g])
               PROVE  FALSE
    BY DEF OneRowPerPair
  <2>0. PICK u \in Users, v \in Users : Ends(friendships'[f]) = {u, v}
    <3>1. friendships'[f] \in Row
      OBVIOUS
    <3> QED BY <3>1 DEF Row, Ends
  <2>1. ASSUME NEW a \in RowIds, NEW b \in RowIds, a = w.id, b # a,
               friendships'[a] # Absent, Ends(friendships'[a]) = {u, v},
               friendships'[b] # Absent, Ends(friendships'[b]) = {u, v}
        PROVE  FALSE
    <3>1. Ends(w.edited) = {u, v} /\ b \in Between(u, v)
      BY <1>4, <2>1 DEF Between, SInv
    <3>2. CASE w.kind = "insert"
      <4>1. {w.edited.requester, w.edited.addressee} = {u, v}
        BY <3>1 DEF Ends
      <4>2. b \in Between(w.edited.requester, w.edited.addressee)
        BY <3>1, <4>1 DEF Between
      <4> QED BY <1>1, <3>2, <4>2 DEF Current
    <3>3. CASE w.kind = "update"
      <4>1. friendships[a] # Absent /\ Ends(friendships[a]) = {u, v}
        BY <1>1, <2>1, <3>1, <3>3, AbsentAssumption DEF Current, Underway, Work
      <4>2. friendships[b] # Absent /\ Ends(friendships[b]) = {u, v}
        BY <3>1 DEF Between
      <4> QED BY <2>1, <4>1, <4>2 DEF SInv, OneRowPerPair
    <3> QED BY <3>2, <3>3 DEF Save
  <2>2. CASE f = w.id
    BY <2>0, <2>1, <2>2
  <2>3. CASE g = w.id
    BY <2>0, <2>1, <2>3
  <2>4. CASE f # w.id /\ g # w.id
    BY <1>4, <2>4 DEF SInv, OneRowPerPair
  <2> QED BY <2>2, <2>3, <2>4
<1>6. \A f \in RowIds : friendships'[f] # Absent => AskedBy(friendships[f], calls)'
  BY <1>1, <1>2, <1>4 DEF SInv, Current, AskedBy
<1>7. \A s \in Requests : inflight'[s] = Idle
  BY <1>2 DEF Serial, SInv
<1> QED BY <1>5, <1>6, <1>7 DEF SInv

(* Every operation leaves the request with a current copy whose parties    *)
(* asked for what it says.                                                 *)
Prepares(r) ==
    /\ calls \subseteq calls'
    /\ \E w \in Work :
           /\ Begin(r, w)
           /\ AskedBy(w.edited, calls')
           /\ IF w.kind = "insert"
              THEN Between(w.edited.requester, w.edited.addressee) = {}
              ELSE friendships[w.id] = w.loaded

LEMMA InsertPrepares ==
    ASSUME SInv, NEW r \in Requests, NEW u \in Users, NEW f \in FreshIds,
           NEW row \in Row, Begin(r, Insert(u, f, row)),
           Between(row.requester, row.addressee) = {},
           calls \subseteq calls', AskedBy(row, calls')
    PROVE  Prepares(r)
<1> DEFINE w == Insert(u, f, row)
<1>1. w \in Work /\ w.kind = "insert" /\ w.edited = row
  BY DEF FreshIds, Insert, Work
<1> QED BY <1>1 DEF Prepares

LEMMA UpdatePrepares ==
    ASSUME SInv, NEW r \in Requests, NEW u \in Users, NEW f \in RowIds,
           NEW row \in Row, friendships[f] # Absent,
           Begin(r, Update(u, f, row)),
           calls \subseteq calls', AskedBy(row, calls')
    PROVE  Prepares(r)
<1>1. PICK old \in Row : old = friendships[f]
  BY DEF SInv, IInv, TypeOK
<1> DEFINE w == [kind |-> "update", actor |-> u, id |-> f,
                 loaded |-> old, edited |-> row]
<1>2. w \in Work /\ Begin(r, w)
  BY <1>1 DEF Update, Work
<1> QED BY <1>1, <1>2 DEF Prepares

LEMMA SerialRow ==
    ASSUME SInv, NEW f \in RowIds, friendships[f] # Absent
    PROVE  \E row \in Row : row = friendships[f] /\ AskedBy(row, calls)
BY DEF SInv, IInv, TypeOK

LEMMA SendRequestPrepares ==
    ASSUME SInv, NEW r \in Requests, NEW u \in Users, NEW v \in Users,
           SendRequest(r, u, v)
    PROVE  Prepares(r)
<1>1. calls' = calls \cup {<<"ask", u, v>>}
  BY DEF SendRequest, SendFirstRequest, SendMutualRequest, SendRequestAgain, Called
<1> DEFINE asks == Pending(u, v)
<1>2. /\ u # v => asks \in Row
      /\ AskedBy(asks, calls')
      /\ asks.requester = u /\ asks.addressee = v
  BY <1>1 DEF Pending, Row, Status, AskedBy
<1>3. CASE SendFirstRequest(r, u, v)
  BY <1>1, <1>2, <1>3, InsertPrepares DEF SendFirstRequest
<1>4. CASE SendMutualRequest(r, u, v)
  <2>1. PICK f \in Between(u, v) :
            /\ friendships[f].status = "pending"
            /\ friendships[f].requester # u
            /\ Begin(r, Update(u, f, [friendships[f] EXCEPT !.status = "accepted"]))
    BY <1>4 DEF SendMutualRequest
  <2>2. f \in RowIds /\ friendships[f] # Absent /\ Ends(friendships[f]) = {u, v}
    BY DEF Between
  <2>3. PICK row \in Row : row = friendships[f] /\ AskedBy(row, calls)
    BY <2>2, SerialRow
  <2> DEFINE mine == [row EXCEPT !.status = "accepted"]
  <2>4. row.requester = v /\ row.addressee = u
    BY <2>1, <2>2, <2>3 DEF Ends
  <2>5. mine \in Row /\ mine.requester = v /\ mine.addressee = u
    BY <2>4 DEF Row, Status
  <2>6. AskedBy(mine, calls')
    BY <1>1, <2>1, <2>3, <2>4, <2>5 DEF AskedBy
  <2> QED BY <1>1, <2>1, <2>2, <2>3, <2>5, <2>6, UpdatePrepares
<1>5. CASE SendRequestAgain(r, u, v)
  <2>1. PICK f \in Between(u, v) : Begin(r, Update(u, f, asks))
    BY <1>5 DEF SendRequestAgain
  <2>2. f \in RowIds /\ friendships[f] # Absent /\ u # v
    BY SerialRow DEF Between, Row, Ends
  <2> QED BY <1>1, <1>2, <2>1, <2>2, UpdatePrepares
<1> QED BY <1>3, <1>4, <1>5 DEF SendRequest

LEMMA AnswerPrepares ==
    ASSUME SInv, NEW r \in Requests, NEW u \in Users, NEW f \in RowIds,
           Accept(r, u, f) \/ Decline(r, u, f)
    PROVE  Prepares(r)
<1>1. PICK row \in Row : row = friendships[f] /\ AskedBy(row, calls)
  BY SerialRow DEF Accept, Decline, PendingAsAddressee
<1>2. /\ friendships[f] # Absent
      /\ row.addressee = u /\ row.requester \in Users /\ row.status = "pending"
  BY <1>1 DEF Accept, Decline, PendingAsAddressee, Row
<1>3. CASE Accept(r, u, f)
  <2> DEFINE mine == [row EXCEPT !.status = "accepted"]
  <2>1. mine \in Row /\ mine.requester = row.requester /\ mine.addressee = u
    BY <1>2 DEF Row, Status
  <2>2. calls' = calls \cup {<<"ask", u, row.requester>>}
    BY <1>1, <1>3 DEF Accept, Called
  <2>3. AskedBy(mine, calls')
    BY <1>1, <1>2, <2>1, <2>2 DEF AskedBy
  <2>4. Begin(r, Update(u, f, mine))
    BY <1>1, <1>3 DEF Accept
  <2> QED BY <1>2, <2>1, <2>2, <2>3, <2>4, UpdatePrepares
<1>4. CASE Decline(r, u, f)
  <2> DEFINE mine == [row EXCEPT !.status = "declined"]
  <2>1. mine \in Row /\ AskedBy(mine, calls')
    BY <1>2 DEF Row, Status, AskedBy
  <2>2. calls' = calls /\ Begin(r, Update(u, f, mine))
    BY <1>1, <1>4 DEF Decline
  <2> QED BY <1>2, <2>1, <2>2, UpdatePrepares
<1> QED BY <1>3, <1>4

LEMMA BlockPrepares ==
    ASSUME SInv, NEW r \in Requests, NEW u \in Users, NEW v \in Users,
           Block(r, u, v)
    PROVE  Prepares(r)
<1> DEFINE row == [requester |-> u, addressee |-> v, status |-> "blocked"]
<1>1. /\ calls \subseteq calls'
      /\ row \in Row /\ AskedBy(row, calls')
      /\ row.requester = u /\ row.addressee = v
  BY DEF Block, Called, Row, Status, AskedBy
<1>2. CASE Between(u, v) = {} /\ \E f \in FreshIds : Begin(r, Insert(u, f, row))
  BY <1>1, <1>2, InsertPrepares
<1>3. CASE \E f \in Between(u, v) : Begin(r, Update(u, f, row))
  BY <1>1, <1>3, UpdatePrepares DEF Between
<1> QED BY <1>2, <1>3 DEF Block

LEMMA LeavePrepares ==
    ASSUME SInv, NEW r \in Requests, NEW u \in Users, NEW v \in Users,
           Unfriend(r, u, v) \/ Unblock(r, u, v)
    PROVE  Prepares(r)
<1>1. PICK f \in Between(u, v) : Begin(r, Remove(u, f)) /\ calls' = calls
  BY DEF Unfriend, Unblock
<1>2. f \in RowIds /\ friendships[f] # Absent
  BY DEF Between
<1>3. PICK old \in Row : old = friendships[f] /\ AskedBy(old, calls)
  BY <1>2, SerialRow
<1> DEFINE w == [kind |-> "delete", actor |-> u, id |-> f,
                 loaded |-> old, edited |-> old]
<1>4. w \in Work /\ Begin(r, w)
  BY <1>1, <1>2, <1>3 DEF Remove, Work
<1> QED BY <1>1, <1>3, <1>4 DEF Prepares

LEMMA NextKeepsSInv ==
    ASSUME Serial, SInv, [Next]_vars
    PROVE  SInv'
<1>1. IInv'
  BY NextKeepsIInv DEF SInv
<1>2. ASSUME NEW r \in Requests, Prepares(r)
      PROVE  SInv'
  BY <1>1, <1>2, BeginKeepsSInv DEF Prepares
<1>3. ASSUME NEW r \in Requests, SaveFails(r) \/ Delete(r)
      PROVE  SInv'
  <2>1. /\ \A f \in RowIds : friendships'[f] \in {friendships[f], Absent}
        /\ inflight' = [inflight EXCEPT ![r] = Idle]
        /\ calls' = calls
    BY <1>3 DEF SaveFails, Delete, End, Written, SInv, IInv, TypeOK
  <2>2. \A s \in Requests : inflight'[s] = Idle
    BY <2>1 DEF Serial, SInv, IInv, TypeOK
  <2>3. OneRowPerPair'
    BY <2>1 DEF SInv, OneRowPerPair, Between
  <2>4. \A f \in RowIds :
            friendships'[f] # Absent => AskedBy(friendships[f], calls)'
    BY <2>1 DEF SInv, AskedBy
  <2> QED BY <1>1, <2>2, <2>3, <2>4 DEF SInv
<1>4. CASE UNCHANGED vars
  <2>1. OneRowPerPair' /\ \A r \in Requests : inflight'[r] # Idle => Current(r)'
    BY <1>4 DEF SInv, OneRowPerPair, Between, Current, AskedBy, vars
  <2>2. \A f \in RowIds :
            friendships'[f] # Absent => AskedBy(friendships[f], calls)'
    BY <1>4 DEF SInv, AskedBy, vars
  <2> QED BY <1>1, <2>1, <2>2 DEF SInv
<1>5. CASE Next
  BY <1>1, <1>2, <1>3, <1>5, SendRequestPrepares, AnswerPrepares,
     BlockPrepares, LeavePrepares, SaveKeepsSInv DEF Next, SInv
<1> QED BY <1>4, <1>5

LEMMA SerialInvariance == Serial => (Spec => []SInv)
<1> SUFFICES ASSUME Serial PROVE Spec => []SInv
  OBVIOUS
<1>1. Init => SInv
  BY DEF Init, SInv, IInv, TypeOK, Involved, OneRowPerPair, Between
<1>2. SInv /\ [Next]_vars => SInv'
  BY NextKeepsSInv
<1> QED BY <1>1, <1>2, PTL DEF Spec

(* Requests that do not overlap never make two rows of one pair.           *)
THEOREM SerialOneRow == Serial => (Spec => []OneRowPerPair)
<1>1. SInv => OneRowPerPair
  BY DEF SInv
<1> QED BY <1>1, SerialInvariance, PTL

(* Requests that do not overlap make friends only of users who both asked. *)
THEOREM SerialConsent == Serial => (Spec => []Consent)
<1>1. SInv => Consent
  BY DEF SInv, Consent, AskedBy, Ends
<1> QED BY <1>1, SerialInvariance, PTL

-----------------------------------------------------------------------------
(* What a request without overlap is going to commit is an edge of the     *)
(* graph.                                                                  *)
Allowed(w) ==
    /\ w.kind = "insert" => w.edited.status \in {"pending", "blocked"}
    /\ w.kind = "update" =>
           \/ w.edited.status = "blocked"
           \/ w.edited.status = "pending" /\ w.loaded.status = "declined"
           \/ w.edited.status \in {"accepted", "declined"} /\ w.loaded.status = "pending"
    /\ w.kind = "delete" => w.loaded.status \in {"accepted", "blocked"}

GInv ==
    /\ SInv
    /\ \A r \in Requests : inflight[r] # Idle => Allowed(inflight[r])

(* Reading a row changes no relation, and leaves such an edge in flight.   *)
LEMMA ReadsAllowed ==
    ASSUME SInv, NEW r \in Requests, NEW u \in Users, NEW v \in Users, NEW f \in RowIds,
           \/ SendRequest(r, u, v) \/ Unfriend(r, u, v)
           \/ Block(r, u, v)       \/ Unblock(r, u, v)
           \/ Accept(r, u, f)      \/ Decline(r, u, f)
    PROVE  \E w : Begin(r, w) /\ Allowed(w)
<1>1. \A g \in RowIds : friendships[g] # Absent => friendships[g] \in Row
  BY DEF SInv, IInv, TypeOK
<1>2. \A g, row : Allowed(Insert(u, g, row)) <=> row.status \in {"pending", "blocked"}
  BY DEF Allowed, Insert
<1>3. \A g, row :
          Allowed(Update(u, g, row)) <=>
              \/ row.status = "blocked"
              \/ row.status = "pending" /\ friendships[g].status = "declined"
              \/ /\ row.status \in {"accepted", "declined"}
                 /\ friendships[g].status = "pending"
  BY DEF Allowed, Update
<1>4. \A g : Allowed(Remove(u, g)) <=> friendships[g].status \in {"accepted", "blocked"}
  BY DEF Allowed, Remove
<1>5. CASE SendRequest(r, u, v)
  <2>1. Pending(u, v).status = "pending"
    BY DEF Pending
  <2>2. CASE SendFirstRequest(r, u, v)
    BY <1>2, <2>1, <2>2 DEF SendFirstRequest
  <2>3. CASE SendMutualRequest(r, u, v)
    <3>1. PICK g \in Between(u, v) :
              /\ friendships[g].status = "pending"
              /\ Begin(r, Update(u, g, [friendships[g] EXCEPT !.status = "accepted"]))
      BY <2>3 DEF SendMutualRequest
    <3>2. [friendships[g] EXCEPT !.status = "accepted"].status = "accepted"
      BY <1>1 DEF Between, Row
    <3> QED BY <1>3, <3>1, <3>2
  <2>4. CASE SendRequestAgain(r, u, v)
    BY <1>3, <2>1, <2>4 DEF SendRequestAgain
  <2> QED BY <1>5, <2>2, <2>3, <2>4 DEF SendRequest
<1>6. CASE Block(r, u, v)
  <2> DEFINE row == [requester |-> u, addressee |-> v, status |-> "blocked"]
  <2>1. row.status = "blocked"
    OBVIOUS
  <2>2. \/ \E g \in FreshIds : Begin(r, Insert(u, g, row))
        \/ \E g \in Between(u, v) : Begin(r, Update(u, g, row))
    BY <1>6 DEF Block
  <2> HIDE DEF row
  <2> QED BY <1>2, <1>3, <2>1, <2>2
<1>7. CASE Unfriend(r, u, v) \/ Unblock(r, u, v)
  BY <1>4, <1>7 DEF Unfriend, Unblock
<1>8. CASE Accept(r, u, f) \/ Decline(r, u, f)
  <2>1. friendships[f] \in Row /\ friendships[f].status = "pending"
    BY <1>1, <1>8 DEF Accept, Decline, PendingAsAddressee
  <2>2. /\ [friendships[f] EXCEPT !.status = "accepted"].status = "accepted"
        /\ [friendships[f] EXCEPT !.status = "declined"].status = "declined"
    BY <2>1 DEF Row
  <2> QED BY <1>3, <1>8, <2>1, <2>2 DEF Accept, Decline
<1> QED BY <1>5, <1>6, <1>7, <1>8

LEMMA NextKeepsGInv ==
    ASSUME Serial, GInv, [Next]_vars
    PROVE  GInv'
<1>1. SInv' /\ inflight \in [Requests -> Work \cup {Idle}]
  BY NextKeepsSInv DEF GInv, SInv, IInv, TypeOK
<1>2. ASSUME NEW r \in Requests, \E w : Begin(r, w) /\ Allowed(w)
      PROVE  GInv'
  BY <1>1, <1>2 DEF Begin, GInv
<1>3. ASSUME NEW r \in Requests, Save(r) \/ SaveFails(r) \/ Delete(r)
      PROVE  GInv'
  BY <1>1, <1>3 DEF Save, SaveFails, Delete, End, GInv
<1>4. CASE UNCHANGED vars
  BY <1>1, <1>4 DEF GInv, vars
<1>5. ASSUME NEW r \in Requests, NEW u \in Users, NEW v \in Users,
             \/ SendRequest(r, u, v) \/ Unfriend(r, u, v)
             \/ Block(r, u, v)       \/ Unblock(r, u, v)
      PROVE  GInv'
  <2>1. PICK f \in RowIds : TRUE
    BY <1>5 DEF SendRequest, SendFirstRequest, SendMutualRequest, SendRequestAgain,
                Unfriend, Block, Unblock, Between, FreshIds
  <2> QED BY <1>2, <1>5, ReadsAllowed DEF GInv
<1>6. ASSUME NEW r \in Requests, NEW u \in Users, NEW f \in RowIds,
             Accept(r, u, f) \/ Decline(r, u, f)
      PROVE  GInv'
  BY <1>2, <1>6, ReadsAllowed DEF GInv
<1> QED BY <1>3, <1>4, <1>5, <1>6 DEF Next

-----------------------------------------------------------------------------
LEMMA TheRowIsIn ==
    ASSUME NEW S, S # {} PROVE TheRow(S) \in S
BY DEF TheRow

(* While a pair has one row, that row says how the two stand.              *)
LEMMA Standing ==
    TypeOK /\ OneRowPerPair =>
        \A f \in RowIds : friendships[f] # Absent =>
            /\ Ends(friendships[f]) \in Pairs
            /\ Relation[Ends(friendships[f])] = RelationOf(friendships[f])
<1> SUFFICES ASSUME TypeOK, OneRowPerPair,
                    NEW f \in RowIds, friendships[f] # Absent
             PROVE  /\ Ends(friendships[f]) \in Pairs
                    /\ Relation[Ends(friendships[f])] = RelationOf(friendships[f])
  OBVIOUS
<1> DEFINE pair == Ends(friendships[f])
<1>1. pair \in Pairs
  <2>1. friendships[f] \in Row
    BY DEF TypeOK
  <2> QED BY <2>1 DEF Row, Ends, Pairs
<1>2. RowsOf(pair) = {f}
  BY DEF RowsOf, OneRowPerPair
<1>3. TheRow(RowsOf(pair)) = f
  BY <1>2, TheRowIsIn
<1> QED BY <1>1, <1>2, <1>3 DEF Relation

(* Rows of other pairs do not matter.                                      *)
LEMMA OtherPairs ==
    ASSUME NEW pair \in Pairs,
           \A f \in RowIds : \/ friendships'[f] = friendships[f]
                             \/ f \notin RowsOf(pair) /\ f \notin RowsOf(pair)'
    PROVE  Relation'[pair] = Relation[pair]
<1>1. RowsOf(pair)' = RowsOf(pair)
  BY DEF RowsOf
<1>2. RowsOf(pair) # {} => friendships'[TheRow(RowsOf(pair))] = friendships[TheRow(RowsOf(pair))]
  <2>1. RowsOf(pair) # {} => TheRow(RowsOf(pair)) \in RowsOf(pair)
    BY TheRowIsIn
  <2> QED BY <2>1 DEF RowsOf
<1> QED BY <1>1, <1>2 DEF Relation

(* A commit that changes one row changes the relation of its pair only.    *)
LEMMA OnePairChanges ==
    ASSUME NEW f \in RowIds, NEW new, friendships \in [RowIds -> Row \cup {Absent}],
           friendships' = [friendships EXCEPT ![f] = new],
           NEW pair \in Pairs,
           friendships[f] # Absent => Ends(friendships[f]) = pair,
           new # Absent => Ends(new) = pair
    PROVE  Relation' = [Relation EXCEPT ![pair] = Relation'[pair]]
<1>1. \A other \in Pairs : other # pair => Relation'[other] = Relation[other]
  <2> SUFFICES ASSUME NEW other \in Pairs, other # pair
               PROVE  Relation'[other] = Relation[other]
    OBVIOUS
  <2>1. f \notin RowsOf(other) /\ f \notin RowsOf(other)'
    BY DEF RowsOf
  <2>2. \A g \in RowIds : g # f => friendships'[g] = friendships[g]
    OBVIOUS
  <2> QED BY <2>1, <2>2, OtherPairs
<1>2. Relation = [p \in Pairs |-> Relation[p]] /\ Relation' = [p \in Pairs |-> Relation'[p]]
  BY DEF Relation
<1> HIDE DEF Relation
<1> QED BY <1>1, <1>2

-----------------------------------------------------------------------------
LEMMA SaveIsAnEdge ==
    ASSUME Serial, GInv, SInv', NEW r \in Requests, Save(r)
    PROVE  Graph!Next
<1> DEFINE w == inflight[r]
           pair == Ends(w.edited)
<1>1. /\ w \in Work /\ w.id \in RowIds /\ w.edited \in Row /\ w.loaded \in Row
      /\ w.kind \in {"insert", "update"}
      /\ Underway(r) /\ Current(r) /\ Allowed(w)
      /\ friendships' = [friendships EXCEPT ![w.id] = w.edited]
  BY SaveWrites DEF GInv, Work, Save
<1>2. w.edited # Absent /\ w.loaded # Absent
  BY <1>1, AbsentAssumption
<1>3. friendships \in [RowIds -> Row \cup {Absent}]
  BY DEF GInv, SInv, IInv, TypeOK
<1>4. pair \in Pairs /\ Relation'[pair] = RelationOf(w.edited)
  <2>1. \A f \in RowIds : friendships'[f] # Absent =>
            /\ Ends(friendships'[f]) \in Pairs
            /\ Relation'[Ends(friendships'[f])] = RelationOf(friendships'[f])
    <3>1. (TypeOK /\ OneRowPerPair)'
      BY DEF SInv, IInv
    <3>2. (TypeOK /\ OneRowPerPair =>
              \A f \in RowIds : friendships[f] # Absent =>
                  /\ Ends(friendships[f]) \in Pairs
                  /\ Relation[Ends(friendships[f])] = RelationOf(friendships[f]))'
      BY Standing, PTL
    <3> QED BY <3>1, <3>2
  <2>2. friendships'[w.id] = w.edited
    BY <1>1, <1>3
  <2> QED BY <1>1, <1>2, <2>1, <2>2
<1>5. Relation' = [Relation EXCEPT ![pair] = RelationOf(w.edited)]
  <2>1. friendships[w.id] # Absent => Ends(friendships[w.id]) = pair
    BY <1>1 DEF Underway
  <2> QED BY <1>1, <1>3, <1>4, <2>1, OnePairChanges
<1>6. w.kind = "insert" => Relation[pair] = Graph!None
  <2>1. Between(w.edited.requester, w.edited.addressee) = RowsOf(pair)
    BY DEF Between, RowsOf, Ends
  <2> QED BY <1>1, <1>4, <2>1 DEF Current, Relation, Graph!None
<1>7. w.kind = "update" => Relation[pair] = RelationOf(w.loaded)
  <2>1. w.kind = "update" => friendships[w.id] = w.loaded /\ Ends(w.loaded) = pair
    BY <1>1 DEF Current, Underway
  <2> QED BY <1>1, <1>2, <2>1, Standing DEF GInv, SInv, IInv
<1>8. w.edited.requester \in pair /\ w.loaded.requester \in pair
  BY <1>1 DEF Underway, Ends
<1> HIDE DEF w, pair
<1>9. CASE w.edited.status = "blocked"
  <2>1. RelationOf(w.edited) = Graph!Blocked(w.edited.requester)
    BY <1>9 DEF RelationOf, Graph!Blocked
  <2>2. Graph!Block(pair)
    BY <1>5, <1>8, <2>1 DEF Graph!Block
  <2> QED BY <1>4, <2>2 DEF Graph!Next, Pairs, Graph!Pairs
<1>10. CASE w.edited.status = "pending"
  <2>1. RelationOf(w.edited) = Graph!Asked(w.edited.requester)
    BY <1>10 DEF RelationOf, Graph!Asked
  <2>2. Relation[pair] \in {Graph!None, Graph!Declined}
    BY <1>1, <1>6, <1>7, <1>10
       DEF Allowed, RelationOf, Graph!Declined
  <2>3. Graph!Ask(pair)
    BY <1>5, <1>8, <2>1, <2>2 DEF Graph!Ask, Graph!Change
  <2> QED BY <1>4, <2>3 DEF Graph!Next, Pairs, Graph!Pairs
<1>11. CASE w.edited.status \in {"accepted", "declined"}
  <2>1. w.kind = "update" /\ w.loaded.status = "pending"
    BY <1>1, <1>11 DEF Allowed
  <2>2. Relation[pair] \in {Graph!Asked(u) : u \in pair}
    BY <1>7, <1>8, <2>1 DEF RelationOf, Graph!Asked
  <2>3. RelationOf(w.edited) =
            IF w.edited.status = "accepted" THEN Graph!Friends ELSE Graph!Declined
    BY <1>11 DEF RelationOf, Graph!Friends, Graph!Declined
  <2>4. Graph!Accept(pair) \/ Graph!Decline(pair)
    BY <1>5, <2>2, <2>3 DEF Graph!Accept, Graph!Decline, Graph!Change
  <2> QED BY <1>4, <2>4 DEF Graph!Next, Pairs, Graph!Pairs
<1> QED BY <1>1, <1>9, <1>10, <1>11 DEF Row, Status

LEMMA DeleteIsAnEdge ==
    ASSUME Serial, GInv, NEW r \in Requests, Delete(r)
    PROVE  Graph!Next
<1> DEFINE w == inflight[r]
           pair == Ends(w.loaded)
<1>1. /\ w \in Work /\ w.id \in RowIds /\ w.loaded \in Row
      /\ Current(r) /\ Allowed(w)
      /\ friendships \in [RowIds -> Row \cup {Absent}]
      /\ w.kind = "delete"
  BY DEF Delete, GInv, SInv, IInv, TypeOK, Idle, Work
<1>2. friendships[w.id] = w.loaded /\ w.loaded # Absent
  BY <1>1, AbsentAssumption DEF Current
<1>3. friendships' = [friendships EXCEPT ![w.id] = Absent]
  BY <1>1 DEF Delete, Written
<1>4. pair \in Pairs /\ Relation[pair] = RelationOf(w.loaded)
  BY <1>1, <1>2, Standing DEF GInv, SInv, IInv
<1>5. Relation'[pair] = Graph!None
  <2>1. \A p \in Pairs : p = pair => RowsOf(p)' = {}
    BY <1>1, <1>2, <1>3 DEF RowsOf, GInv, SInv, OneRowPerPair
  <2>2. \A p \in Pairs : RowsOf(p)' = {} => Relation'[p] = Graph!None
    BY DEF Relation, Graph!None
  <2> QED BY <1>4, <2>1, <2>2
<1>6. Relation' = [Relation EXCEPT ![pair] = Graph!None]
  BY <1>1, <1>2, <1>3, <1>4, <1>5, OnePairChanges
<1>7. w.loaded.requester \in pair
  BY DEF Ends
<1> HIDE DEF w, pair
<1>8. CASE w.loaded.status = "accepted"
  <2>1. Relation[pair] = Graph!Friends
    BY <1>4, <1>8 DEF RelationOf, Graph!Friends
  <2>2. Graph!Leave(pair)
    BY <1>6, <2>1 DEF Graph!Leave, Graph!Change
  <2> QED BY <1>4, <2>2 DEF Graph!Next, Pairs, Graph!Pairs
<1>9. CASE w.loaded.status = "blocked"
  <2>1. Relation[pair] = Graph!Blocked(w.loaded.requester)
    BY <1>4, <1>9 DEF RelationOf, Graph!Blocked
  <2>2. Graph!Unblock(pair)
    BY <1>6, <1>7, <2>1 DEF Graph!Unblock, Graph!Change
  <2> QED BY <1>4, <2>2 DEF Graph!Next, Pairs, Graph!Pairs
<1> QED BY <1>1, <1>8, <1>9 DEF Allowed

LEMMA StepIsAnEdge ==
    ASSUME Serial, GInv, SInv', [Next]_vars
    PROVE  [Graph!Next]_Relation
<1>1. ASSUME friendships' = friendships
      PROVE  Relation' = Relation
  BY <1>1 DEF Relation, RowsOf
<1>2. ASSUME NEW r \in Requests, NEW u \in Users, NEW v \in Users, SendRequest(r, u, v)
      PROVE  friendships' = friendships
  BY <1>2 DEF SendRequest, SendFirstRequest, SendMutualRequest, SendRequestAgain, Begin
<1>3. ASSUME NEW r \in Requests, NEW u \in Users, NEW v \in Users,
             Unfriend(r, u, v) \/ Block(r, u, v) \/ Unblock(r, u, v)
      PROVE  friendships' = friendships
  BY <1>3 DEF Unfriend, Block, Unblock, Begin
<1>4. ASSUME NEW r \in Requests, NEW u \in Users, NEW f \in RowIds,
             Accept(r, u, f) \/ Decline(r, u, f)
      PROVE  friendships' = friendships
  BY <1>4 DEF Accept, Decline, Begin
<1>5. ASSUME NEW r \in Requests, SaveFails(r) PROVE friendships' = friendships
  BY <1>5 DEF SaveFails
<1>6. CASE UNCHANGED vars
  BY <1>1, <1>6 DEF vars
<1> QED BY <1>1, <1>2, <1>3, <1>4, <1>5, <1>6, SaveIsAnEdge, DeleteIsAnEdge DEF Next

(* Requests that do not overlap change how two users stand only along the  *)
(* edges of FriendGraph, for any number of users and rows.                 *)
THEOREM SerialRefinement == Serial => (Spec => ImplementsFriendGraph)
<1> SUFFICES ASSUME Serial PROVE Spec => ImplementsFriendGraph
  OBVIOUS
<1>1. Init => GInv /\ Graph!Init
  <2>1. Init => SInv
    BY DEF Init, SInv, IInv, TypeOK, Involved, OneRowPerPair, Between
  <2>2. Init => Relation = [pair \in Pairs |-> [is |-> "none"]]
    BY DEF Init, Relation, RowsOf
  <2> QED BY <2>1, <2>2 DEF Init, GInv, Pairs, Graph!Init, Graph!Pairs, Graph!None
<1>2. GInv /\ [Next]_vars => GInv'
  BY NextKeepsGInv
<1>3. GInv /\ GInv' /\ [Next]_vars => [Graph!Next]_Relation
  BY StepIsAnEdge DEF GInv
<1> QED BY <1>1, <1>2, <1>3, PTL DEF Spec, ImplementsFriendGraph, Graph!Spec
=============================================================================
