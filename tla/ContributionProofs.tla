------------------------- MODULE ContributionProofs -------------------------
(***************************************************************************)
(* Theorems of Contribution, for any authors, administrators and rows and  *)
(* any overlap and interruption of the calls.                              *)
(***************************************************************************)
EXTENDS Contribution, TLAPS

-----------------------------------------------------------------------------
(* What a row never loses: its owner, a reviewer, the notes; and once it   *)
(* is not a draft it never is one again.                                   *)
Grew(old, new) ==
    /\ new.user = old.user
    /\ old.reviewer # None => new.reviewer # None
    /\ old.notes # None => new.notes # None
    /\ new.status = "draft" => old.status = "draft"

(* A call in flight may hold a stale copy, but the row has only grown      *)
(* since; and the status the call still has to set is already accounted    *)
(* for, by the copy it is about to commit or by the row it committed.      *)
Underway(w) ==
    LET row == contributions[w.id]
    IN  /\ row # Absent => Grew(w.loaded, row)
        /\ Grew(w.loaded, w.edited)
        /\ Accounted(w.edited)
        /\ w.then # "draft"
        /\ w.kind = "update" /\ w.then # "nothing" =>
               Accounted([w.edited EXCEPT !.status = w.then])
        /\ w.kind = "refresh" =>
               /\ w.then # "nothing"
               /\ row # Absent => Accounted([row EXCEPT !.status = w.then])

IInv ==
    /\ TypeOK
    /\ Accountable
    /\ \A r \in Requests : inflight[r] # Idle => Underway(inflight[r])

LEMMA GrewTransitive ==
    ASSUME NEW a \in Row, NEW b \in Row, NEW c \in Row, Grew(a, b), Grew(b, c)
    PROVE  Grew(a, c)
BY DEF Grew

(* A stale commit of a copy that grew makes the row itself grow, keeps     *)
(* what the copy gained, and leaves it accounted for.                      *)
LEMMA FlushedGrew ==
    ASSUME NEW row \in Row, NEW loaded \in Row, NEW edited \in Row,
           Grew(loaded, row), Grew(loaded, edited),
           Accounted(row), Accounted(edited)
    PROVE  LET new == Flushed(row, loaded, edited)
           IN  /\ new \in Row
               /\ Grew(row, new)
               /\ Accounted(new)
               /\ edited.reviewer # None => new.reviewer # None
               /\ edited.notes # None => new.notes # None
<1> DEFINE new == Flushed(row, loaded, edited)
<1>1. new = [user |-> IF edited.user # loaded.user THEN edited.user ELSE row.user,
             payload |-> IF edited.payload # loaded.payload
                         THEN edited.payload ELSE row.payload,
             status |-> IF edited.status # loaded.status
                        THEN edited.status ELSE row.status,
             reviewer |-> IF edited.reviewer # loaded.reviewer
                          THEN edited.reviewer ELSE row.reviewer,
             notes |-> IF edited.notes # loaded.notes
                       THEN edited.notes ELSE row.notes]
  BY DEF Flushed, Row
<1> HIDE DEF new
<1>2. new \in Row
  BY <1>1 DEF Row
<1>3. /\ edited.reviewer # None => new.reviewer # None
      /\ edited.notes # None => new.notes # None
  BY <1>1 DEF Grew
<1>4. Grew(row, new)
  BY <1>1, <1>3 DEF Grew
<1>5. Accounted(new)
  BY <1>1, <1>3, <1>4 DEF Grew, Accounted
<1> QED BY <1>2, <1>3, <1>4, <1>5 DEF new

-----------------------------------------------------------------------------
(* What one call may do to what the others rely on: the rows only grow     *)
(* or go, except a row nobody holds a copy of, and every row is accounted  *)
(* for.                                                                    *)
LEMMA OthersUnderway ==
    ASSUME IInv, contributions' \in [Ids -> Row \cup {Absent}],
           NEW s \in Requests, inflight[s] # Idle, inflight'[s] = inflight[s],
           LET c == inflight[s].id
           IN  contributions'[c] # Absent =>
                   contributions[c] # Absent /\ Grew(contributions[c], contributions'[c])
    PROVE  Underway(inflight[s])'
<1> USE DEF IInv, TypeOK
<1> DEFINE w == inflight[s]
           c == w.id
<1>1. w \in Work /\ Underway(w)
  OBVIOUS
<1>2. contributions'[c] # Absent =>
          /\ contributions[c] \in Row /\ contributions'[c] \in Row
          /\ Grew(contributions[c], contributions'[c])
          /\ Grew(w.loaded, contributions'[c])
  BY <1>1, GrewTransitive DEF Underway, Work
<1>3. contributions'[c] # Absent /\ w.kind = "refresh" =>
          Accounted([contributions'[c] EXCEPT !.status = w.then])
  BY <1>1, <1>2 DEF Underway, Accounted, Grew, Row, Work
<1> QED BY <1>1, <1>2, <1>3 DEF Underway

LEMMA CallKeepsIInv ==
    ASSUME IInv, NEW r \in Requests, NEW c \in Ids,
           contributions[c] # Absent,
           NEW kind \in {"update", "delete"},
           NEW edited \in Row, NEW then \in Status \cup {"nothing"},
           Call(r, c, kind, edited, then),
           Grew(contributions[c], edited), Accounted(edited),
           then # "draft",
           then # "nothing" => Accounted([edited EXCEPT !.status = then])
    PROVE  IInv'
<1> USE DEF IInv, TypeOK
<1> DEFINE w == [kind |-> kind, id |-> c, loaded |-> contributions[c],
                 edited |-> edited, then |-> then]
<1>1. contributions[c] \in Row /\ w \in Work
  BY DEF Work
<1>2. /\ contributions' = contributions
      /\ inflight' = [inflight EXCEPT ![r] = w]
      /\ raced' \subseteq Ids
  BY DEF Call
<1>3. TypeOK' /\ Accountable'
  BY <1>1, <1>2 DEF Accountable, Accounted
<1>4. Grew(contributions[c], contributions[c])
  BY DEF Grew
<1>5. ASSUME NEW s \in Requests, inflight'[s] # Idle
      PROVE  Underway(inflight[s])'
  <2>1. CASE s = r
    BY <1>1, <1>2, <1>4, <2>1 DEF Underway
  <2>2. CASE s # r
    <3>1. inflight'[s] = inflight[s]
      BY <1>2, <2>2
    <3> QED BY <1>2, <1>5, <3>1 DEF Underway
  <2> QED BY <2>1, <2>2
<1> QED BY <1>3, <1>5

(* The calls, each on the row it has just read.                            *)
LEMMA CallsKeepIInv ==
    ASSUME IInv, NEW r \in Requests, NEW c \in Ids,
           AuthorCalls(r, c) \/ AdminCalls(r, c)
    PROVE  IInv'
<1> DEFINE row == contributions[c]
<1>1. row # Absent
  BY DEF AuthorCalls, Update, Submit, DeleteContribution, Owned, AdminCalls,
         Claim, Reject, Approve, In
<1>2. PICK old \in Row : old = row /\ Accounted(old)
  BY <1>1 DEF IInv, TypeOK, Accountable
<1>3. ASSUME NEW payload \in Payloads, NEW u \in Users, Update(r, c, u, payload)
      PROVE  IInv'
  <2> DEFINE edited == [old EXCEPT !.payload = payload]
  <2>1. edited \in Row /\ Grew(old, edited) /\ Accounted(edited)
    BY <1>2 DEF Row, Grew, Accounted
  <2>2. Call(r, c, "update", edited, "nothing")
    BY <1>2, <1>3 DEF Update
  <2> QED BY <1>1, <1>2, <2>1, <2>2, CallKeepsIInv
<1>4. ASSUME NEW u \in Users, Submit(r, c, u)
      PROVE  IInv'
  <2> DEFINE edited == [old EXCEPT !.status = "submitted"]
  <2>1. edited \in Row /\ Grew(old, edited) /\ Accounted(edited)
    BY <1>2 DEF Row, Status, Grew, Accounted
  <2>2. Call(r, c, "update", edited, "nothing")
    BY <1>2, <1>4 DEF Submit
  <2> QED BY <1>1, <1>2, <2>1, <2>2, CallKeepsIInv
<1>5. ASSUME NEW u \in Users, DeleteContribution(r, c, u)
      PROVE  IInv'
  <2>1. Grew(old, old)
    BY DEF Grew
  <2>2. Call(r, c, "delete", old, "nothing")
    BY <1>2, <1>5 DEF DeleteContribution
  <2> QED BY <1>1, <1>2, <2>1, <2>2, CallKeepsIInv
<1>6. ASSUME NEW a \in Admins, Claim(r, c, a)
      PROVE  IInv'
  <2> DEFINE edited == [old EXCEPT !.reviewer = a]
  <2>1. /\ edited \in Row /\ Grew(old, edited) /\ Accounted(edited)
        /\ Accounted([edited EXCEPT !.status = "under_review"])
    BY <1>2, NoneAssumption DEF Row, Grew, Accounted
  <2>2. Call(r, c, "update", edited, "under_review")
    BY <1>2, <1>6 DEF Claim
  <2>3. "under_review" \in Status \cup {"nothing"}
    BY DEF Status
  <2> QED BY <1>1, <1>2, <2>1, <2>2, <2>3, CallKeepsIInv
<1>7. ASSUME NEW notes \in Notes, Reject(r, c, notes)
      PROVE  IInv'
  <2> DEFINE edited == [old EXCEPT !.notes = notes]
  <2>1. old.status = "under_review"
    BY <1>2, <1>7 DEF Reject, In
  <2>2. /\ edited \in Row /\ Grew(old, edited) /\ Accounted(edited)
        /\ Accounted([edited EXCEPT !.status = "rejected"])
    BY <1>2, <2>1, NoneAssumption DEF Row, Grew, Accounted
  <2>3. Call(r, c, "update", edited, "rejected")
    BY <1>2, <1>7 DEF Reject
  <2>4. "rejected" \in Status \cup {"nothing"}
    BY DEF Status
  <2> QED BY <1>1, <1>2, <2>2, <2>3, <2>4, CallKeepsIInv
<1>8. ASSUME Approve(r, c)
      PROVE  IInv'
  <2> DEFINE edited == [old EXCEPT !.status = "merged"]
  <2>1. old.status = "under_review"
    BY <1>2, <1>8 DEF Approve, In
  <2>2. edited \in Row /\ Grew(old, edited) /\ Accounted(edited)
    BY <1>2, <2>1 DEF Row, Status, Grew, Accounted
  <2>3. Call(r, c, "update", edited, "nothing")
    BY <1>2, <1>8 DEF Approve
  <2> QED BY <1>1, <1>2, <2>2, <2>3, CallKeepsIInv
<1> QED BY <1>3, <1>4, <1>5, <1>6, <1>7, <1>8 DEF AuthorCalls, AdminCalls

-----------------------------------------------------------------------------
LEMMA CreateKeepsIInv ==
    ASSUME IInv, NEW c \in Ids, NEW u \in Users, NEW payload \in Payloads,
           Create(c, u, payload)
    PROVE  IInv'
<1> USE DEF IInv, TypeOK
<1> DEFINE new == [user |-> u, payload |-> payload, status |-> "draft",
                   reviewer |-> None, notes |-> None]
<1>1. new \in Row /\ Accounted(new)
  BY DEF Row, Status, Accounted
<1>2. /\ contributions' = [contributions EXCEPT ![c] = new]
      /\ inflight' = inflight /\ raced' \subseteq Ids
  BY DEF Create
<1>3. TypeOK'
  BY <1>1, <1>2
<1>4. Accountable'
  BY <1>1, <1>2 DEF Accountable
<1>5. ASSUME NEW s \in Requests, inflight'[s] # Idle
      PROVE  Underway(inflight[s])'
  <2>1. inflight[s].id # c
    BY <1>2, <1>5 DEF Create, Busy
  <2>2. inflight[s].id \in Ids /\ Grew(contributions[inflight[s].id],
                                       contributions[inflight[s].id])
    BY <1>2, <1>5 DEF Work, Grew
  <2> QED BY <1>2, <1>3, <1>5, <2>1, <2>2, OthersUnderway
<1> QED BY <1>3, <1>4, <1>5

(* What a commit writes in the row its copy was read from.                 *)
LEMMA CommitWrites ==
    ASSUME IInv, NEW r \in Requests, Commit(r)
    PROVE  LET w   == inflight[r]
               new == contributions'[w.id]
           IN  /\ contributions' = [contributions EXCEPT ![w.id] = new]
               /\ contributions[w.id] = Absent => new = Absent
               /\ contributions[w.id] # Absent =>
                      /\ new \in Row
                      /\ Grew(contributions[w.id], new)
                      /\ Accounted(new)
                      /\ w.edited.reviewer # None => new.reviewer # None
                      /\ w.edited.notes # None => new.notes # None
<1> USE DEF IInv, TypeOK
<1> DEFINE w == inflight[r]
           row == contributions[w.id]
<1>1. w \in Work /\ w.kind = "update" /\ Underway(w)
  BY DEF Commit, Idle
<1>2. w.id \in Ids /\ w.loaded \in Row /\ w.edited \in Row
  BY <1>1 DEF Work
<1>3. CASE Emits(w)
  <2>1. row # Absent /\ row \in Row /\ Accounted(row)
    BY <1>1, <1>2, <1>3 DEF Commit, StaleUpdate, Accountable
  <2>2. /\ contributions' = [contributions EXCEPT ![w.id] = Written(contributions, w)]
        /\ Written(contributions, w) = Flushed(row, w.loaded, w.edited)
    BY <1>1, <1>3 DEF Commit, Written
  <2> DEFINE new == Flushed(row, w.loaded, w.edited)
  <2>3. /\ new \in Row
        /\ Grew(row, new)
        /\ Accounted(new)
        /\ w.edited.reviewer # None => new.reviewer # None
        /\ w.edited.notes # None => new.notes # None
    <3>1. Grew(w.loaded, row) /\ Grew(w.loaded, w.edited) /\ Accounted(w.edited)
      BY <1>1, <2>1 DEF Underway
    <3> QED BY <1>2, <2>1, <3>1, FlushedGrew
  <2> HIDE DEF new
  <2>4. contributions' = [contributions EXCEPT ![w.id] = new]
    BY <2>2 DEF new
  <2>5. contributions'[w.id] = new
    BY <1>2, <2>4
  <2> QED BY <2>1, <2>3, <2>4, <2>5
<1>4. CASE ~Emits(w)
  <2>1. contributions' = contributions /\ w.edited = w.loaded
    BY <1>4 DEF Commit, Emits
  <2>2. row # Absent => row \in Row /\ Accounted(row) /\ Grew(row, row)
    BY <1>2 DEF Accountable, Grew
  <2>3. row # Absent =>
            /\ w.edited.reviewer # None => row.reviewer # None
            /\ w.edited.notes # None => row.notes # None
    BY <1>1, <2>1 DEF Underway, Grew
  <2> QED BY <2>1, <2>2, <2>3
<1> QED BY <1>3, <1>4

LEMMA CommitKeepsIInv ==
    ASSUME IInv, NEW r \in Requests, Commit(r)
    PROVE  IInv'
<1> USE DEF IInv, TypeOK
<1> DEFINE w == inflight[r]
           new == contributions'[w.id]
<1>1. w \in Work /\ w # Idle /\ w.kind = "update" /\ Underway(w) /\ raced' = raced
  BY DEF Commit, Idle
<1>2. w.id \in Ids
  BY <1>1 DEF Work
<1>3. inflight' = [inflight EXCEPT ![r] = IF w.then = "nothing" THEN Idle
                                          ELSE [w EXCEPT !.kind = "refresh"]]
  BY DEF Commit, End
<1>4. [w EXCEPT !.kind = "refresh"] \in Work
  BY <1>1 DEF Work
<1>5. TypeOK'
  BY <1>1, <1>2, <1>3, <1>4, CommitWrites
<1>6. Accountable'
  BY <1>2, CommitWrites DEF Accountable
<1>7. ASSUME NEW c \in Ids, contributions'[c] # Absent
      PROVE  contributions[c] # Absent /\ Grew(contributions[c], contributions'[c])
  <2>1. CASE c = w.id
    BY <1>7, <2>1, CommitWrites
  <2>2. CASE c # w.id
    BY <1>7, <2>2, CommitWrites DEF Grew
  <2> QED BY <2>1, <2>2
<1>8. ASSUME NEW s \in Requests, inflight'[s] # Idle
      PROVE  Underway(inflight[s])'
  <2>1. CASE s # r
    <3>1. inflight'[s] = inflight[s] /\ inflight[s].id \in Ids
      BY <1>3, <1>8, <2>1 DEF Work
    <3> QED BY <1>5, <1>7, <1>8, <3>1, OthersUnderway
  <2>2. CASE s = r
    <3> DEFINE after == [w EXCEPT !.kind = "refresh"]
    <3>1. w.then # "nothing" /\ inflight'[s] = after
      BY <1>3, <1>8, <2>2
    <3>2. /\ after.kind = "refresh" /\ after.id = w.id /\ after.then = w.then
          /\ after.loaded = w.loaded /\ after.edited = w.edited
      BY <1>1 DEF Work
    <3>3. new # Absent => contributions[w.id] # Absent
      BY CommitWrites
    <3>4. new # Absent =>
              /\ contributions[w.id] \in Row /\ new \in Row
              /\ Grew(w.loaded, new)
      <4> SUFFICES ASSUME new # Absent
                   PROVE  /\ contributions[w.id] \in Row /\ new \in Row
                          /\ Grew(w.loaded, new)
        OBVIOUS
      <4>1. contributions[w.id] \in Row /\ new \in Row /\ w.loaded \in Row
        BY <1>1, <1>2, <3>3, CommitWrites DEF Work
      <4>2. Grew(w.loaded, contributions[w.id]) /\ Grew(contributions[w.id], new)
        BY <1>1, <3>3, CommitWrites DEF Underway
      <4> QED BY <4>1, <4>2, GrewTransitive
    <3>5. new # Absent => Accounted([new EXCEPT !.status = w.then])
      <4>1. Accounted([w.edited EXCEPT !.status = w.then])
        BY <1>1, <3>1 DEF Underway
      <4>2. new # Absent => /\ w.edited.reviewer # None => new.reviewer # None
                            /\ w.edited.notes # None => new.notes # None
        BY <3>3, CommitWrites
      <4>3. w.edited \in Row /\ w.then \in Status
        BY <1>1, <3>1 DEF Work
      <4> QED BY <3>4, <4>1, <4>2, <4>3 DEF Accounted, Row
    <3> QED BY <1>1, <3>1, <3>2, <3>4, <3>5 DEF Underway
  <2> QED BY <2>1, <2>2
<1> QED BY <1>5, <1>6, <1>8

(* A request that ends, with or without its row, touches no other row.     *)
LEMMA EndKeepsIInv ==
    ASSUME IInv, NEW r \in Requests, NEW c \in Ids,
           inflight' = [inflight EXCEPT ![r] = Idle],
           contributions' \in {contributions, [contributions EXCEPT ![c] = Absent]},
           raced' = raced
    PROVE  IInv'
<1> USE DEF IInv, TypeOK
<1>1. TypeOK' /\ Accountable'
  BY DEF Accountable
<1>2. ASSUME NEW s \in Requests, inflight'[s] # Idle
      PROVE  Underway(inflight[s])'
  <2>1. inflight'[s] = inflight[s] /\ inflight[s].id \in Ids
    BY <1>2 DEF Work
  <2> DEFINE d == inflight[s].id
  <2>2. contributions'[d] # Absent =>
            /\ contributions[d] # Absent
            /\ Grew(contributions[d], contributions'[d])
    BY <2>1 DEF Grew
  <2> QED BY <1>1, <1>2, <2>1, <2>2, OthersUnderway
<1> QED BY <1>1, <1>2

LEMMA RefreshKeepsIInv ==
    ASSUME IInv, NEW r \in Requests, Refresh(r)
    PROVE  IInv'
<1> USE DEF IInv, TypeOK
<1> DEFINE w == inflight[r]
           row == contributions[w.id]
           after == [kind |-> "update", id |-> w.id, loaded |-> row,
                     edited |-> [row EXCEPT !.status = w.then],
                     then |-> "nothing"]
<1>1. /\ w \in Work /\ w.id \in Ids /\ w.kind = "refresh" /\ Underway(w)
      /\ contributions' = contributions /\ raced' = raced
  BY DEF Refresh, Idle, Work
<1>2. CASE row = Absent
  BY <1>1, <1>2, EndKeepsIInv DEF Refresh, End
<1>3. CASE row # Absent
  <2>1. row \in Row /\ w.then \in Status /\ w.then # "draft"
    BY <1>1, <1>3 DEF Underway, Work
  <2>2. inflight' = [inflight EXCEPT ![r] = after] /\ after \in Work
    BY <1>1, <1>3, <2>1 DEF Refresh, Work, Row
  <2>3. Grew(row, row) /\ Grew(row, after.edited) /\ Accounted(after.edited)
    BY <1>1, <1>3, <2>1 DEF Grew, Underway, Row
  <2>4. TypeOK' /\ Accountable'
    BY <1>1, <2>2 DEF Accountable, Accounted
  <2>5. ASSUME NEW s \in Requests, inflight'[s] # Idle
        PROVE  Underway(inflight[s])'
    <3>1. CASE s = r
      <4>1. inflight'[s] = after
        BY <2>2, <3>1
      <4>2. /\ after.id = w.id /\ after.loaded = row /\ after.kind = "update"
            /\ after.then = "nothing"
        OBVIOUS
      <4> QED BY <1>1, <2>3, <4>1, <4>2 DEF Underway
    <3>2. CASE s # r
      BY <1>1, <2>2, <2>5, <3>2 DEF Underway
    <3> QED BY <3>1, <3>2
  <2> QED BY <2>4, <2>5
<1> QED BY <1>2, <1>3

LEMMA NextKeepsIInv ==
    ASSUME IInv, [Next]_vars
    PROVE  IInv'
<1>1. CASE UNCHANGED vars
  BY <1>1 DEF vars, IInv, TypeOK, Accountable, Accounted, Underway, Grew
<1>2. ASSUME NEW r \in Requests, CommitFails(r) \/ Interrupted(r) \/ CommitDelete(r)
      PROVE  IInv'
  <2>1. inflight[r] # Idle /\ inflight[r].id \in Ids
    BY <1>2 DEF CommitFails, Interrupted, CommitDelete, Idle, IInv, TypeOK, Work
  <2>2. contributions' \in {contributions,
                            [contributions EXCEPT ![inflight[r].id] = Absent]}
    BY <1>2 DEF CommitFails, Interrupted, CommitDelete, Written
  <2> QED BY <1>2, <2>1, <2>2, EndKeepsIInv
       DEF CommitFails, Interrupted, CommitDelete, End
<1>3. CASE Next
  BY <1>2, <1>3, CreateKeepsIInv, CallsKeepIInv, CommitKeepsIInv, RefreshKeepsIInv
     DEF Next
<1> QED BY <1>1, <1>3

LEMMA Invariance == Spec => []IInv
<1>1. Init => IInv
  BY DEF Init, IInv, TypeOK, Accountable
<1>2. IInv /\ [Next]_vars => IInv'
  BY NextKeepsIInv
<1> QED BY <1>1, <1>2, PTL DEF Spec

(* Every row and every copy of one holds values of its columns' types.     *)
THEOREM TypeCorrect == Spec => []TypeOK
BY Invariance, PTL DEF IInv

(* A contribution is never under review or decided without a reviewer, nor *)
(* rejected without notes, whatever overlaps with the two halves of claim  *)
(* and reject and wherever they are cut off.                               *)
THEOREM AlwaysAccountable == Spec => []Accountable
BY Invariance, PTL DEF IInv

-----------------------------------------------------------------------------
LEMMA NextNeverGoesBack ==
    ASSUME IInv, Next
    PROVE  NoWayBackStep
<1>1. ASSUME NEW r \in Requests, Commit(r)
      PROVE  NoWayBackStep
  <2> DEFINE w == inflight[r]
  <2>1. w.id \in Ids
    BY <1>1 DEF Commit, Idle, IInv, TypeOK, Work
  <2>2. ASSUME NEW c \in Ids, contributions[c] # Absent, c = w.id
        PROVE  Grew(contributions[c], contributions'[c])
    BY <1>1, <2>2, CommitWrites
  <2>3. ASSUME NEW c \in Ids, c # w.id
        PROVE  contributions'[c] = contributions[c]
    BY <1>1, <2>1, <2>3, CommitWrites DEF IInv, TypeOK
  <2> QED BY <2>2, <2>3 DEF NoWayBackStep, Grew
<1>2. ASSUME NEW r \in Requests,
             CommitFails(r) \/ Refresh(r) \/ CommitDelete(r) \/ Interrupted(r)
      PROVE  NoWayBackStep
  <2>1. \A c \in Ids : contributions'[c] \in {contributions[c], Absent}
    BY <1>2 DEF CommitFails, Refresh, CommitDelete, Interrupted, Written,
                IInv, TypeOK
  <2> QED BY <2>1 DEF NoWayBackStep
<1>3. ASSUME NEW c \in Ids, NEW u \in Users, NEW payload \in Payloads,
             Create(c, u, payload)
      PROVE  NoWayBackStep
  BY <1>3 DEF Create, NoWayBackStep, IInv, TypeOK
<1>4. ASSUME NEW r \in Requests, NEW c \in Ids, AuthorCalls(r, c) \/ AdminCalls(r, c)
      PROVE  NoWayBackStep
  <2>1. contributions' = contributions
    BY <1>4 DEF AuthorCalls, AdminCalls, Update, Submit, DeleteContribution,
                Claim, Reject, Approve, Call
  <2> QED BY <2>1 DEF NoWayBackStep
<1> QED BY <1>1, <1>2, <1>3, <1>4 DEF Next

(* However calls overlap, a submitted contribution never becomes a draft   *)
(* again and no contribution changes hands.                                *)
THEOREM NeverADraftAgain == Spec => NoWayBack
<1>1. IInv /\ [Next]_vars => [NoWayBackStep]_vars
  BY NextNeverGoesBack
<1> QED BY <1>1, Invariance, PTL DEF Spec, NoWayBack

-----------------------------------------------------------------------------
(* What holds of a contribution on which no two calls ever overlapped: its *)
(* one request holds a current copy, and its edit follows the lifecycle.   *)
Allowed(w) ==
    LET row == contributions[w.id]
    IN  /\ w.kind # "refresh" => row = w.loaded
        /\ w.kind = "delete" => w.loaded.status \in {"draft", "submitted"}
        /\ w.kind = "update" /\ w.then = "nothing" =>
               /\ w.edited.status = w.loaded.status
                  \/ <<w.loaded.status, w.edited.status>> \in Advances
               /\ w.edited.payload # w.loaded.payload => w.loaded.status = "draft"
        /\ w.kind = "update" /\ w.then # "nothing" =>
               /\ w.edited.status = w.loaded.status
               /\ w.edited.payload = w.loaded.payload
               /\ <<w.loaded.status, w.then>> \in Advances
        /\ w.kind = "refresh" =>
               (row # Absent => <<row.status, w.then>> \in Advances)

LInv ==
    /\ IInv
    /\ \A r, s \in Requests :
           (/\ inflight[r] # Idle /\ inflight[s] # Idle
            /\ inflight[r].id = inflight[s].id)
           => r = s \/ inflight[r].id \in raced
    /\ \A r \in Requests :
           (inflight[r] # Idle /\ inflight[r].id \notin raced) => Allowed(inflight[r])

(* A current copy is committed as it is.                                   *)
LEMMA CurrentCommit ==
    ASSUME LInv, NEW r \in Requests, Commit(r), inflight[r].id \notin raced
    PROVE  /\ inflight[r].id \in Ids
           /\ inflight[r].loaded \in Row /\ inflight[r].edited \in Row
           /\ Allowed(inflight[r]) /\ inflight[r].kind = "update"
           /\ contributions' = [contributions EXCEPT ![inflight[r].id] =
                                    inflight[r].edited]
<1> USE DEF LInv, IInv, TypeOK
<1> DEFINE w == inflight[r]
<1>1. /\ w \in Work /\ w.kind = "update" /\ Allowed(w)
  BY DEF Commit, Idle
<1>2. /\ w.id \in Ids /\ w.loaded \in Row /\ w.edited \in Row
      /\ contributions[w.id] = w.loaded
  BY <1>1 DEF Work, Allowed
<1>3. CASE Emits(w)
  <2>1. Flushed(w.loaded, w.loaded, w.edited) = w.edited
    BY <1>2 DEF Flushed, Row
  <2> QED BY <1>1, <1>2, <1>3, <2>1 DEF Commit, Written
<1>4. CASE ~Emits(w)
  BY <1>1, <1>2, <1>4 DEF Commit, Emits
<1> QED BY <1>1, <1>2, <1>3, <1>4

LEMMA CallKeepsLInv ==
    ASSUME LInv, IInv', NEW r \in Requests, NEW c \in Ids,
           NEW kind, NEW edited, NEW then,
           Call(r, c, kind, edited, then),
           c \notin raced' =>
               Allowed([kind |-> kind, id |-> c, loaded |-> contributions[c],
                        edited |-> edited, then |-> then])
    PROVE  LInv'
<1> USE DEF LInv, IInv, TypeOK
<1> DEFINE w == [kind |-> kind, id |-> c, loaded |-> contributions[c],
                 edited |-> edited, then |-> then]
<1>1. /\ contributions' = contributions
      /\ inflight' = [inflight EXCEPT ![r] = w]
      /\ raced' = IF Busy(c) = {} THEN raced ELSE raced \cup {c}
      /\ w.id = c /\ inflight'[r] = w
  BY DEF Call
<1>2. ASSUME NEW s \in Requests, s # r, inflight'[s] # Idle, inflight'[s].id = c
      PROVE  c \in raced'
  BY <1>1, <1>2 DEF Busy
<1>3. ASSUME NEW s \in Requests, NEW t \in Requests,
             inflight'[s] # Idle, inflight'[t] # Idle,
             inflight'[s].id = inflight'[t].id
      PROVE  s = t \/ inflight'[s].id \in raced'
  <2>1. CASE s = r /\ t # r
    BY <1>1, <1>2, <1>3, <2>1
  <2>2. CASE t = r /\ s # r
    BY <1>1, <1>2, <1>3, <2>2
  <2>3. CASE s # r /\ t # r
    BY <1>1, <1>3, <2>3
  <2> QED BY <2>1, <2>2, <2>3
<1>4. ASSUME NEW s \in Requests, inflight'[s] # Idle, inflight'[s].id \notin raced'
      PROVE  Allowed(inflight[s])'
  <2>1. CASE s = r
    <3>1. Allowed(w)
      BY <1>1, <1>4, <2>1
    <3> QED BY <1>1, <2>1, <3>1 DEF Allowed
  <2>2. CASE s # r
    <3>1. inflight'[s] = inflight[s] /\ Allowed(inflight[s])
      BY <1>1, <1>4, <2>2
    <3> QED BY <1>1, <3>1 DEF Allowed
  <2> QED BY <2>1, <2>2
<1> QED BY <1>3, <1>4

LEMMA CallsKeepLInv ==
    ASSUME LInv, IInv', NEW r \in Requests, NEW c \in Ids,
           AuthorCalls(r, c) \/ AdminCalls(r, c)
    PROVE  LInv'
<1>1. contributions[c] # Absent /\ contributions[c] \in Row
  BY DEF LInv, IInv, TypeOK, AuthorCalls, Update, Submit, DeleteContribution,
         Owned, AdminCalls, Claim, Reject, Approve, In
<1>2. ASSUME NEW payload \in Payloads, NEW u \in Users, Update(r, c, u, payload)
      PROVE  LInv'
  BY <1>1, <1>2, CallKeepsLInv DEF Update, In, Allowed, Row
<1>3. ASSUME NEW u \in Users, Submit(r, c, u)
      PROVE  LInv'
  BY <1>1, <1>3, CallKeepsLInv DEF Submit, In, Allowed, Row, Advances
<1>4. ASSUME NEW u \in Users, DeleteContribution(r, c, u)
      PROVE  LInv'
  BY <1>1, <1>4, CallKeepsLInv DEF DeleteContribution, In, Allowed
<1>5. ASSUME NEW a \in Admins, Claim(r, c, a)
      PROVE  LInv'
  BY <1>1, <1>5, CallKeepsLInv DEF Claim, In, Allowed, Row, Advances
<1>6. ASSUME NEW notes \in Notes, Reject(r, c, notes)
      PROVE  LInv'
  BY <1>1, <1>6, CallKeepsLInv DEF Reject, In, Allowed, Row, Advances
<1>7. ASSUME Approve(r, c)
      PROVE  LInv'
  BY <1>1, <1>7, CallKeepsLInv DEF Approve, In, Allowed, Row, Advances
<1> QED BY <1>2, <1>3, <1>4, <1>5, <1>6, <1>7 DEF AuthorCalls, AdminCalls

(* A request that moves on, keeping its contribution or dropping it,       *)
(* leaves the others' contributions alone unless they are raced.           *)
LEMMA StepKeepsLInv ==
    ASSUME LInv, IInv', NEW r \in Requests, inflight[r] # Idle,
           \A s \in Requests \ {r} : inflight'[s] = inflight[s],
           inflight'[r] # Idle => inflight'[r].id = inflight[r].id,
           \A c \in Ids : c # inflight[r].id => contributions'[c] = contributions[c],
           raced' = raced,
           inflight'[r] # Idle /\ inflight[r].id \notin raced =>
               Allowed(inflight[r])'
    PROVE  LInv'
<1> USE DEF LInv, IInv, TypeOK
<1>1. ASSUME NEW s \in Requests, NEW t \in Requests,
             inflight'[s] # Idle, inflight'[t] # Idle,
             inflight'[s].id = inflight'[t].id
      PROVE  s = t \/ inflight'[s].id \in raced'
  <2>1. /\ inflight[s] # Idle /\ inflight'[s].id = inflight[s].id
        /\ inflight[t] # Idle /\ inflight'[t].id = inflight[t].id
    BY <1>1
  <2> QED BY <1>1, <2>1
<1>2. ASSUME NEW s \in Requests, inflight'[s] # Idle, inflight'[s].id \notin raced'
      PROVE  Allowed(inflight[s])'
  <2>1. CASE s = r
    BY <1>2, <2>1
  <2>2. CASE s # r
    <3>1. inflight'[s] = inflight[s] /\ Allowed(inflight[s])
      BY <1>2, <2>2
    <3>2. inflight[s].id \in Ids /\ inflight[s].id # inflight[r].id
      BY <1>2, <2>2, <3>1 DEF Work
    <3>3. contributions'[inflight[s].id] = contributions[inflight[s].id]
      BY <3>2
    <3> QED BY <3>1, <3>3 DEF Allowed
  <2> QED BY <2>1, <2>2
<1> QED BY <1>1, <1>2

LEMMA CommitKeepsLInv ==
    ASSUME LInv, IInv', NEW r \in Requests, Commit(r)
    PROVE  LInv'
<1> DEFINE w == inflight[r]
           after == [w EXCEPT !.kind = "refresh"]
<1>1. w # Idle /\ w \in Work /\ w.id \in Ids /\ raced' = raced
  BY DEF Commit, Idle, Work, LInv, IInv, TypeOK
<1>2. inflight' = [inflight EXCEPT ![r] = IF w.then = "nothing" THEN Idle ELSE after]
  BY DEF Commit, End
<1>3. /\ after.id = w.id /\ after.kind = "refresh" /\ after.then = w.then
      /\ after.loaded = w.loaded /\ after.edited = w.edited
  BY <1>1 DEF Work
<1>4. \A c \in Ids : c # w.id => contributions'[c] = contributions[c]
  BY <1>1, CommitWrites DEF LInv, IInv, TypeOK
<1>5. ASSUME inflight'[r] # Idle, w.id \notin raced
      PROVE  Allowed(inflight[r])'
  <2>1. inflight'[r] = after /\ w.then # "nothing"
    BY <1>2, <1>5 DEF LInv, IInv, TypeOK
  <2>2. contributions'[w.id] = w.edited /\ <<w.edited.status, w.then>> \in Advances
    BY <1>1, <1>5, <2>1, CurrentCommit DEF Allowed, LInv, IInv, TypeOK
  <2> QED BY <1>3, <2>1, <2>2 DEF Allowed
<1>6. /\ \A s \in Requests \ {r} : inflight'[s] = inflight[s]
      /\ inflight'[r] # Idle => inflight'[r].id = w.id
  BY <1>2, <1>3 DEF LInv, IInv, TypeOK
<1> QED BY <1>1, <1>4, <1>5, <1>6, StepKeepsLInv

LEMMA RefreshKeepsLInv ==
    ASSUME LInv, IInv', NEW r \in Requests, Refresh(r)
    PROVE  LInv'
<1> DEFINE w == inflight[r]
           row == contributions[w.id]
           after == [kind |-> "update", id |-> w.id, loaded |-> row,
                     edited |-> [row EXCEPT !.status = w.then],
                     then |-> "nothing"]
<1>1. /\ w # Idle /\ w \in Work /\ w.id \in Ids /\ w.kind = "refresh"
      /\ contributions' = contributions /\ raced' = raced
      /\ inflight' = [inflight EXCEPT ![r] = IF row = Absent THEN Idle ELSE after]
  BY DEF Refresh, End, Idle, Work, LInv, IInv, TypeOK
<1>2. ASSUME inflight'[r] # Idle, w.id \notin raced
      PROVE  Allowed(inflight[r])'
  <2>1. inflight'[r] = after /\ row # Absent /\ row \in Row
    BY <1>1, <1>2 DEF LInv, IInv, TypeOK
  <2>2. <<row.status, w.then>> \in Advances
    BY <1>1, <1>2, <2>1 DEF LInv, Allowed
  <2>3. after.edited.status = w.then /\ after.edited.payload = row.payload
    BY <1>1, <2>1 DEF Row
  <2> HIDE DEF row
  <2>4. /\ after.kind = "update" /\ after.id = w.id /\ after.loaded = row
        /\ after.then = "nothing"
    OBVIOUS
  <2>5. contributions'[w.id] = row
    BY <1>1 DEF row
  <2> HIDE DEF after
  <2> QED BY <2>1, <2>2, <2>3, <2>4, <2>5 DEF Allowed
<1>3. /\ \A s \in Requests \ {r} : inflight'[s] = inflight[s]
      /\ inflight'[r] # Idle => inflight'[r].id = w.id
  BY <1>1 DEF LInv, IInv, TypeOK
<1> QED BY <1>1, <1>2, <1>3, StepKeepsLInv

LEMMA NextKeepsLInv ==
    ASSUME LInv, [Next]_vars
    PROVE  LInv'
<1>1. IInv'
  BY NextKeepsIInv DEF LInv
<1>2. CASE UNCHANGED vars
  BY <1>1, <1>2 DEF vars, LInv, Allowed
<1>3. ASSUME NEW r \in Requests, CommitFails(r) \/ Interrupted(r) \/ CommitDelete(r)
      PROVE  LInv'
  <2>1. /\ inflight[r] # Idle /\ inflight' = [inflight EXCEPT ![r] = Idle]
        /\ raced' = raced
    BY <1>3 DEF CommitFails, Interrupted, CommitDelete, End, Idle
  <2>2. \A c \in Ids : c # inflight[r].id => contributions'[c] = contributions[c]
    BY <1>3 DEF CommitFails, Interrupted, CommitDelete, LInv, IInv, TypeOK
  <2>3. inflight'[r] = Idle /\ \A s \in Requests \ {r} : inflight'[s] = inflight[s]
    BY <2>1 DEF LInv, IInv, TypeOK
  <2> QED BY <1>1, <2>1, <2>2, <2>3, StepKeepsLInv
<1>4. ASSUME NEW c \in Ids, NEW u \in Users, NEW payload \in Payloads,
             Create(c, u, payload)
      PROVE  LInv'
  <2>1. /\ inflight' = inflight /\ raced' = raced \ {c}
        /\ \A s \in Requests : inflight[s] # Idle => inflight[s].id # c
        /\ \A d \in Ids : d # c => contributions'[d] = contributions[d]
    BY <1>4 DEF Create, Busy, LInv, IInv, TypeOK
  <2>2. \A s \in Requests : inflight[s] # Idle => inflight[s].id \in Ids
    BY DEF LInv, IInv, TypeOK, Work
  <2>3. ASSUME NEW s \in Requests, inflight'[s] # Idle, inflight'[s].id \notin raced'
        PROVE  Allowed(inflight[s])'
    BY <2>1, <2>2, <2>3 DEF LInv, Allowed
  <2> QED BY <1>1, <2>1, <2>2, <2>3 DEF LInv
<1>5. CASE Next
  BY <1>1, <1>3, <1>4, <1>5, CallsKeepLInv, CommitKeepsLInv, RefreshKeepsLInv
     DEF Next
<1> QED BY <1>2, <1>5

LEMMA NextFollowsLifecycle ==
    ASSUME LInv, Next
    PROVE  LifecycleStep
<1> USE DEF LInv, IInv, TypeOK
<1>1. ASSUME NEW r \in Requests, Commit(r)
      PROVE  LifecycleStep
  <2> DEFINE w == inflight[r]
  <2>1. w.id \in Ids
    BY <1>1 DEF Commit, Idle, Work
  <2>2. \A c \in Ids : c # w.id => contributions'[c] = contributions[c]
    BY <1>1, <2>1, CommitWrites
  <2>3. ASSUME w.id \notin raced
        PROVE  /\ contributions'[w.id] = w.edited /\ w.edited # Absent
               /\ contributions[w.id] = w.loaded
               /\ w.edited.status = w.loaded.status
                  \/ <<w.loaded.status, w.edited.status>> \in Advances
               /\ w.edited.payload # w.loaded.payload => w.loaded.status = "draft"
    BY <1>1, <2>1, <2>3, CurrentCommit, AbsentAssumption DEF Allowed
  <2> QED BY <2>2, <2>3 DEF LifecycleStep
<1>2. ASSUME NEW r \in Requests, CommitDelete(r)
      PROVE  LifecycleStep
  <2> DEFINE w == inflight[r]
  <2>1. w # Idle /\ w.kind = "delete"
    BY <1>2 DEF CommitDelete, Idle
  <2>2. w.id \notin raced =>
            contributions[w.id].status \in {"draft", "submitted"}
    BY <2>1 DEF Allowed
  <2>3. \A c \in Ids :
            IF c = w.id THEN contributions'[c] = Absent
                        ELSE contributions'[c] = contributions[c]
    BY <1>2, <2>1 DEF CommitDelete, Written
  <2> QED BY <2>2, <2>3 DEF LifecycleStep
<1>3. ASSUME NEW c \in Ids, NEW u \in Users, NEW payload \in Payloads,
             Create(c, u, payload)
      PROVE  LifecycleStep
  BY <1>3 DEF Create, LifecycleStep
<1>4. ASSUME \/ \E r \in Requests : CommitFails(r) \/ Refresh(r) \/ Interrupted(r)
             \/ \E r \in Requests, c \in Ids : AuthorCalls(r, c) \/ AdminCalls(r, c)
      PROVE  LifecycleStep
  <2>1. contributions' = contributions
    BY <1>4 DEF CommitFails, Refresh, Interrupted, AuthorCalls, AdminCalls, Update,
                Submit, DeleteContribution, Claim, Reject, Approve, Call
  <2> QED BY <2>1 DEF LifecycleStep
<1> QED BY <1>1, <1>2, <1>3, <1>4 DEF Next

(* A contribution on which no two calls overlapped goes through its review *)
(* in order: drafted, submitted, claimed, decided once, and what is        *)
(* decided on is what was submitted.                                       *)
THEOREM UnracedLifecycle == Spec => Lifecycle
<1>1. Init => LInv
  BY DEF Init, LInv, IInv, TypeOK, Accountable
<1>2. LInv /\ [Next]_vars => LInv'
  BY NextKeepsLInv
<1>3. LInv /\ [Next]_vars => [LifecycleStep]_vars
  BY NextFollowsLifecycle
<1> QED BY <1>1, <1>2, <1>3, PTL DEF Spec, Lifecycle
=============================================================================
