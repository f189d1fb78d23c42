---------------------------- MODULE MembersProofs -----------------------------
(***************************************************************************)
(* What holds of members' data for any number of rows and requests: of the *)
(* reading sessions, the statuses that are lent out, the restores and the  *)
(* Google connection.  Each part has an inductive invariant of its own;    *)
(* that of the chat is proved in ChatProofs.                               *)
(***************************************************************************)
EXTENDS MemberData, ChatProofs

(* A stop is about to end its session, and a call is about to reopen one   *)
(* only if it was asked to.                                                *)
SessionUnderway(r) ==
    /\ calls[r].op = "stop" => calls[r].effect = "end"
    /\ calls[r].op = "update" /\ calls[r].effect = "reopen" => calls[r].asked = "reopen"

SessionInv ==
    /\ Sessions!TypeOK
    /\ Sessions!OneOpen
    /\ Sessions!StaysStopped
    /\ \A r \in Requests : SessionUnderway(r)

-----------------------------------------------------------------------------
LEMMA SessionInitInv == Sessions!Init => SessionInv
  BY DEF Sessions!Init, SessionInv, Sessions!TypeOK, Sessions!OneOpen,
         Sessions!StaysStopped, SessionUnderway, Sessions!Idle, Sessions!Open,
         Sessions!Exists, Sessions!Session

(* A call that has only read changes nothing but its own record.           *)
LEMMA SessionBeginInv ==
    ASSUME NEW r \in Requests, NEW w \in Sessions!Work, SessionInv,
           Sessions!Begin(r, w),
           w.op = "stop" => w.effect = "end",
           w.op = "update" /\ w.effect = "reopen" => w.asked = "reopen"
    PROVE  SessionInv'
  <1>1. calls' \in [Requests -> Sessions!Work \cup {Sessions!Idle}]
    BY DEF SessionInv, Sessions!TypeOK, Sessions!Begin
  <1>2. \A s \in Requests : calls'[s] = IF s = r THEN w ELSE calls[s]
    BY DEF SessionInv, Sessions!TypeOK, Sessions!Begin
  <1>3. \A s \in Requests : SessionUnderway(s)'
    BY <1>2 DEF SessionInv, SessionUnderway
  <1> QED
    BY <1>1, <1>3
       DEF SessionInv, Sessions!TypeOK, Sessions!Begin, Sessions!OneOpen,
           Sessions!StaysStopped, Sessions!Open, Sessions!Exists

(* The reads of a call, whatever it is, put a legal piece of work on hand. *)
LEMMA SessionReadsInv ==
    ASSUME NEW r \in Requests, NEW d \in SessionIds, SessionInv,
           \/ \E release \in Releases : Sessions!StartSession(r, d, release)
           \/ Sessions!StopSession(r, d)
           \/ \E asked \in Sessions!Effects : Sessions!UpdateSession(r, d, asked)
           \/ Sessions!DeleteSession(r, d)
    PROVE  SessionInv'
  <1>1. ASSUME NEW release \in Releases, Sessions!StartSession(r, d, release)
        PROVE  SessionInv'
    BY <1>1, SessionBeginInv,
       [op |-> "start", id |-> d, release |-> release] \in Sessions!Work
       DEF Sessions!StartSession, Sessions!Work
  <1>2. CASE Sessions!StopSession(r, d)
    <2>1. [op |-> "stop", id |-> d, asked |-> "end", effect |-> "end"]
              \in Sessions!Work
      BY DEF Sessions!Work, Sessions!Effects
    <2> QED  BY <1>2, <2>1, SessionBeginInv DEF Sessions!StopSession
  <1>3. ASSUME NEW asked \in Sessions!Effects, Sessions!UpdateSession(r, d, asked)
        PROVE  SessionInv'
    <2> DEFINE w == [op |-> "update", id |-> d, asked |-> asked,
                     effect |-> Sessions!NetEffect(d, asked)]
    <2>1. w \in Sessions!Work
      BY DEF Sessions!Work, Sessions!Effects, Sessions!NetEffect
    <2>2. w.effect = "reopen" => w.asked = "reopen"
      BY DEF Sessions!NetEffect
    <2> HIDE DEF w
    <2> QED  BY <1>3, <2>1, <2>2, SessionBeginInv, w.op = "update"
                DEF Sessions!UpdateSession, w
  <1>4. CASE Sessions!DeleteSession(r, d)
    <2>1. [op |-> "delete", id |-> d] \in Sessions!Work
      BY DEF Sessions!Work
    <2> QED  BY <1>4, <2>1, SessionBeginInv DEF Sessions!DeleteSession
  <1> QED  BY <1>1, <1>2, <1>3, <1>4

-----------------------------------------------------------------------------
(* A call that ends leaves the others as they were.                        *)
LEMMA SessionEnded ==
    ASSUME NEW r \in Requests, SessionInv, Sessions!End(r)
    PROVE  /\ calls' \in [Requests -> Sessions!Work \cup {Sessions!Idle}]
           /\ \A s \in Requests : SessionUnderway(s)'
  <1>1. \A s \in Requests : calls'[s] = IF s = r THEN Sessions!Idle ELSE calls[s]
    BY DEF SessionInv, Sessions!TypeOK, Sessions!End
  <1> QED
    BY <1>1
       DEF SessionInv, Sessions!TypeOK, Sessions!End, SessionUnderway,
           Sessions!Idle

LEMMA SessionCommitStartInv ==
    ASSUME NEW r \in Requests, SessionInv, Sessions!CommitStart(r)
    PROVE  SessionInv'
  <1> DEFINE w == calls[r]
  <1>1. w.id \in SessionIds /\ w.release \in Releases /\ w.op = "start"
    BY DEF SessionInv, Sessions!TypeOK, Sessions!CommitStart, Sessions!Work,
           Sessions!Idle
  <1>2. /\ DOMAIN sessions' = DOMAIN sessions \cup {w.id}
        /\ \A d \in DOMAIN sessions' : sessions'[d] =
               IF d = w.id THEN [release |-> w.release, open |-> TRUE] ELSE sessions[d]
    BY DEF Sessions!CommitStart
  <1>3. stopped' = stopped \ {w.id} /\ Sessions!End(r)
    BY DEF Sessions!CommitStart
  <1>4. Sessions!TypeOK'
    <2>1. sessions' \in [DOMAIN sessions' -> Sessions!Session]
      BY <1>1, <1>2
         DEF Sessions!CommitStart, SessionInv, Sessions!TypeOK, Sessions!Session
    <2> QED  BY <1>1, <1>2, <1>3, <2>1, SessionEnded
                DEF SessionInv, Sessions!TypeOK
  <1>5. Sessions!OneOpen'
    <2> SUFFICES ASSUME NEW d \in SessionIds, NEW e \in SessionIds,
                        Sessions!Open(d)', Sessions!Open(e)',
                        sessions'[d].release = sessions'[e].release
                 PROVE  d = e
      BY DEF Sessions!OneOpen
    <2>1. \A f \in SessionIds \ {w.id} :
              Sessions!Open(f)' => Sessions!Open(f) /\ sessions'[f] = sessions[f]
      BY <1>2 DEF Sessions!Open, Sessions!Exists
    <2>2. \A f \in SessionIds \ {w.id} :
              Sessions!Open(f) => sessions[f].release # w.release
      BY DEF Sessions!CommitStart, Sessions!Taken, Sessions!Active
    <2>3. sessions'[w.id].release = w.release
      BY <1>2
    <2> HIDE DEF w
    <2> QED  BY <2>1, <2>2, <2>3, <1>1 DEF SessionInv, Sessions!OneOpen
  <1>6. Sessions!StaysStopped'
    BY <1>2, <1>3 DEF SessionInv, Sessions!StaysStopped, Sessions!Exists
  <1> QED  BY <1>3, <1>4, <1>5, <1>6, SessionEnded DEF SessionInv

(* Opening or closing one session of a release leaves one open, if it is   *)
(* opened only while the others are not.                                   *)
LEMMA SessionOneChanged ==
    ASSUME NEW d \in DOMAIN sessions, Sessions!OneOpen,
           DOMAIN sessions' = DOMAIN sessions,
           \A e \in DOMAIN sessions : e # d => sessions'[e] = sessions[e],
           sessions'[d].release = sessions[d].release,
           \/ Sessions!Open(d)' => Sessions!Open(d)
           \/ \A e \in SessionIds \ {d} :
                  Sessions!Open(e) => sessions[e].release # sessions[d].release
    PROVE  Sessions!OneOpen'
  BY DEF Sessions!OneOpen, Sessions!Open, Sessions!Exists

(* The row after an UPDATE: only whether it is open may differ, and it is  *)
(* opened only by an effect that the index allows.                         *)
LEMMA SessionCommitUpdateInv ==
    ASSUME NEW r \in Requests, SessionInv, Sessions!CommitUpdate(r)
    PROVE  SessionInv'
  <1> DEFINE w == calls[r]
             open == CASE w.effect = "keep"   -> sessions[w.id].open
                       [] w.effect = "end"    -> FALSE
                       [] w.effect = "reopen" -> TRUE
  <1>1. /\ w.op \in {"stop", "update"} /\ w.id \in DOMAIN sessions
        /\ w.id \in SessionIds
        /\ w.asked \in Sessions!Effects /\ w.effect \in Sessions!Effects
    BY DEF SessionInv, Sessions!TypeOK, Sessions!CommitUpdate, Sessions!Work,
           Sessions!Idle, Sessions!Exists
  <1>2. sessions' = [sessions EXCEPT ![w.id].open = open]
    BY DEF Sessions!CommitUpdate
  <1>3. /\ DOMAIN sessions' = DOMAIN sessions
        /\ \A d \in DOMAIN sessions : d # w.id => sessions'[d] = sessions[d]
        /\ sessions'[w.id] = [sessions[w.id] EXCEPT !.open = open]
    BY <1>1, <1>2 DEF SessionInv, Sessions!TypeOK
  <1>4. open \in BOOLEAN /\ sessions[w.id] \in Sessions!Session
    BY <1>1 DEF Sessions!Effects, SessionInv, Sessions!TypeOK, Sessions!Session
  <1>5. /\ sessions'[w.id].open = open
        /\ sessions'[w.id].release = sessions[w.id].release
        /\ sessions'[w.id] \in Sessions!Session
    BY <1>3, <1>4 DEF Sessions!Session
  <1>6. Sessions!End(r) /\ stopped' \subseteq stopped \cup {w.id}
    BY DEF Sessions!CommitUpdate
  <1>7. Sessions!TypeOK'
    <2>1. sessions' \in [DOMAIN sessions' -> Sessions!Session]
      BY <1>2, <1>3, <1>5 DEF SessionInv, Sessions!TypeOK
    <2> QED  BY <1>1, <1>3, <1>6, <2>1, SessionEnded
                DEF SessionInv, Sessions!TypeOK
  <1>8. Sessions!OneOpen'
    <2>1. PICK d \in DOMAIN sessions : d = w.id
      BY <1>1
    <2>2. \/ Sessions!Open(d)' => Sessions!Open(d)
          \/ \A e \in SessionIds \ {d} :
                 Sessions!Open(e) => sessions[e].release # sessions[d].release
      <3>1. CASE w.effect = "reopen"
        BY <2>1, <3>1 DEF Sessions!CommitUpdate, Sessions!Taken, Sessions!Active
      <3>2. CASE w.effect # "reopen"
        BY <1>1, <1>3, <1>5, <2>1, <3>2
           DEF Sessions!Open, Sessions!Exists, Sessions!Effects
      <3> QED  BY <3>1, <3>2
    <2> QED  BY <1>3, <1>5, <2>1, <2>2, SessionOneChanged DEF SessionInv
  <1>9. Sessions!StaysStopped'
    <2>1. w.id \in stopped' => ~open
      <3>1. CASE w.op = "stop"
        BY <3>1 DEF SessionInv, SessionUnderway
      <3>2. CASE w.op = "update" /\ w.asked # "reopen"
        <4>1. stopped' = stopped
          BY <3>2 DEF Sessions!CommitUpdate
        <4>2. w.effect # "reopen"
          BY <3>2 DEF SessionInv, SessionUnderway
        <4> QED  BY <4>1, <4>2, <1>1
                    DEF SessionInv, Sessions!StaysStopped, Sessions!Effects
      <3>3. CASE w.op = "update" /\ w.asked = "reopen"
        BY <3>3 DEF Sessions!CommitUpdate
      <3> QED  BY <1>1, <3>1, <3>2, <3>3
    <2> QED  BY <1>1, <1>3, <1>5, <1>6, <2>1
                DEF SessionInv, Sessions!StaysStopped, Sessions!Exists
  <1> QED  BY <1>6, <1>7, <1>8, <1>9, SessionEnded DEF SessionInv

LEMMA SessionCommitDeleteInv ==
    ASSUME NEW r \in Requests, SessionInv, Sessions!CommitDelete(r)
    PROVE  SessionInv'
  <1>1. /\ DOMAIN sessions' = DOMAIN sessions \ {calls[r].id}
        /\ \A d \in DOMAIN sessions' : sessions'[d] = sessions[d]
        /\ sessions' \in [DOMAIN sessions' -> Sessions!Session]
        /\ stopped' = stopped \ {calls[r].id}
        /\ Sessions!End(r)
    BY DEF Sessions!CommitDelete, SessionInv, Sessions!TypeOK
  <1>2. Sessions!TypeOK'
    BY <1>1, SessionEnded DEF SessionInv, Sessions!TypeOK
  <1>3. Sessions!OneOpen' /\ Sessions!StaysStopped'
    BY <1>1
       DEF SessionInv, Sessions!OneOpen, Sessions!StaysStopped, Sessions!Open,
           Sessions!Exists
  <1> QED  BY <1>1, <1>2, <1>3, SessionEnded DEF SessionInv

LEMMA SessionFailsInv ==
    ASSUME NEW r \in Requests, SessionInv, Sessions!Fails(r)
    PROVE  SessionInv'
  BY SessionEnded
     DEF Sessions!Fails, SessionInv, Sessions!TypeOK, Sessions!OneOpen,
         Sessions!StaysStopped, Sessions!Open, Sessions!Exists

LEMMA SessionNextInv == SessionInv /\ [Sessions!Next]_Sessions!vars => SessionInv'
  <1> SUFFICES ASSUME SessionInv, [Sessions!Next]_Sessions!vars PROVE SessionInv'
    OBVIOUS
  <1>1. CASE UNCHANGED Sessions!vars
    BY <1>1
       DEF Sessions!vars, SessionInv, Sessions!TypeOK, Sessions!OneOpen,
           Sessions!StaysStopped, SessionUnderway, Sessions!Open,
           Sessions!Exists
  <1>2. CASE Sessions!Next
    BY <1>2, SessionReadsInv, SessionCommitStartInv, SessionCommitUpdateInv,
       SessionCommitDeleteInv, SessionFailsInv
       DEF Sessions!Next
  <1> QED  BY <1>1, <1>2

THEOREM SessionInvariance == Sessions!Spec => []SessionInv
  BY SessionInitInv, SessionNextInv, PTL DEF Sessions!Spec

(* Every row of a session and every call on hand is well formed.           *)
THEOREM SessionTypes == Sessions!Spec => []Sessions!TypeOK
  <1>1. SessionInv => Sessions!TypeOK
    BY DEF SessionInv
  <1> QED  BY <1>1, SessionInvariance, PTL

(* start_session checks for an open session and inserts later; however     *)
(* starts, stops and edits overlap, a release has one open session at most.*)
THEOREM OneOpenSession == Sessions!Spec => []OneOpen
  <1>1. SessionInv => OneOpen
    BY DEF SessionInv, OneOpen
  <1> QED  BY <1>1, SessionInvariance, PTL

(* An edit from a copy that was read before a stop does not reopen the     *)
(* session that was stopped.                                               *)
THEOREM Stopped == Sessions!Spec => []StaysStopped
  <1>1. SessionInv => StaysStopped
    BY DEF SessionInv, StaysStopped
  <1> QED  BY <1>1, SessionInvariance, PTL
(* What a call has on hand, by its operation: a lend has a borrower, of    *)
(* one sort, and a return has none; both send the kind.                    *)
ShelfPlanned(w) ==
    LET there == w.row
    IN  /\ w.op = "lend" =>
            /\ "kind" \in w.sends
            /\ there.kind = "lent_out" /\ ~there.returned
            /\ there.user = {} <=> there.name # {}
        /\ w.op = "return" =>
            /\ "kind" \in w.sends
            /\ there.kind = "owned" /\ there.user = {} /\ there.name = {}
        /\ w.op = "modify" => w.sends \subseteq {"kind"}

(* The columns that an uncrossed lend or return does not send are as it    *)
(* takes them to be, but for a borrower who has been forgotten.            *)
ShelfCurrent(r) ==
    LET w == patches[r]
    IN  w.op \in {"lend", "return"} /\ r \notin crossed /\ Shelf!Exists(w.id) =>
            \A c \in Shelf!Columns \ w.sends :
                \/ statuses[w.id][c] = w.row[c]
                \/ c = "user" /\ statuses[w.id].user = {} /\ w.id \in forgotten

(* Two calls that change the kind of one status have both been crossed.    *)
ShelfApart ==
    \A r, s \in Requests :
        /\ r # s
        /\ Shelf!ChangesKind(patches[r]) /\ Shelf!ChangesKind(patches[s])
        /\ patches[r].id = patches[s].id
        => r \in crossed

ShelfInv ==
    /\ Shelf!TypeOK
    /\ Shelf!LentToOne
    /\ \A r \in Requests : ShelfPlanned(patches[r])
    /\ \A r \in Requests : ShelfCurrent(r)
    /\ ShelfApart

-----------------------------------------------------------------------------
LEMMA ShelfInitInv == Shelf!Init => ShelfInv
  BY DEF Shelf!Init, ShelfInv, Shelf!TypeOK, Shelf!LentToOne, ShelfPlanned,
         ShelfCurrent, ShelfApart, Shelf!Idle, Shelf!ChangesKind, Shelf!Updates

(* What an UPDATE names, and the row it was made for.                      *)
LEMMA ShelfWork ==
    ASSUME NEW w \in Shelf!Work \cup {Shelf!Idle}
    PROVE  /\ w # Shelf!Idle => w.id \in StatusIds
           /\ w.op # "delete" /\ w # Shelf!Idle =>
                  /\ w.op \in {"lend", "return", "modify"}
                  /\ w.row \in Shelf!Status /\ w.sends \subseteq Shelf!Columns
           /\ w = Shelf!Idle \/ w.op = "delete" => ~Shelf!Updates(w)
  BY DEF Shelf!Work, Shelf!Idle, Shelf!Updates

(* A call that has only read; it is crossed, and its rivals with it, if    *)
(* there are any.                                                          *)
LEMMA ShelfBeginInv ==
    ASSUME NEW r \in Requests, NEW w \in Shelf!Work, ShelfInv, Shelf!Begin(r, w),
           ShelfPlanned(w),
           w.op \in {"lend", "return"} =>
               \A c \in Shelf!Columns \ w.sends : statuses[w.id][c] = w.row[c]
    PROVE  ShelfInv'
  <1>1. patches' = [patches EXCEPT ![r] = w] /\ patches[r] = Shelf!Idle
    BY DEF Shelf!Begin
  <1>2. \A s \in Requests : patches'[s] = IF s = r THEN w ELSE patches[s]
    BY <1>1 DEF ShelfInv, Shelf!TypeOK
  <1>3. /\ r \notin crossed
        /\ crossed' = IF Shelf!ChangesKind(w) /\ Shelf!Rivals(w) # {}
                      THEN crossed \cup Shelf!Rivals(w) \cup {r} ELSE crossed
        /\ UNCHANGED <<statuses, handmade, forgotten>>
    BY <1>1, ShelfWork DEF Shelf!Begin, ShelfInv, Shelf!TypeOK, Shelf!ChangesKind
  <1>4. \A s \in Requests \ {r} :
            Shelf!ChangesKind(patches'[s]) = Shelf!ChangesKind(patches[s])
    BY <1>2
  <1>5. Shelf!TypeOK'
    <2>1. patches' \in [Requests -> Shelf!Work \cup {Shelf!Idle}]
      BY <1>1 DEF ShelfInv, Shelf!TypeOK
    <2>2. crossed' \subseteq {s \in Requests : Shelf!ChangesKind(patches'[s])}
      BY <1>2, <1>3, <1>4 DEF ShelfInv, Shelf!TypeOK, Shelf!Rivals
    <2> QED  BY <1>3, <2>1, <2>2 DEF ShelfInv, Shelf!TypeOK
  <1>6. Shelf!LentToOne'
    BY <1>3 DEF ShelfInv, Shelf!LentToOne
  <1>7. \A s \in Requests : ShelfPlanned(patches[s])'
    BY <1>2 DEF ShelfInv, ShelfPlanned
  <1>8. \A s \in Requests : ShelfCurrent(s)'
    BY <1>2, <1>3 DEF ShelfInv, ShelfCurrent, Shelf!Exists
  <1>9. ShelfApart'
    BY <1>2, <1>3, <1>4 DEF ShelfInv, ShelfApart, Shelf!Rivals
  <1> QED  BY <1>5, <1>6, <1>7, <1>8, <1>9 DEF ShelfInv

(* What an edit will send, and of what it leaves alone that it is as read. *)
LEMMA ShelfEdit ==
    ASSUME NEW r \in Requests, ShelfInv, NEW s \in DOMAIN statuses,
           NEW op \in {"lend", "return", "modify"}, NEW edited \in Shelf!Status,
           NEW stamped \in SUBSET Shelf!Columns,
           Shelf!Edit(r, op, s, edited, stamped),
           ShelfPlanned([op |-> op, id |-> s, row |-> edited,
                         sends |-> Shelf!Emitted(statuses[s], edited, stamped)])
    PROVE  ShelfInv'
  <1> DEFINE w == [op |-> op, id |-> s, row |-> edited,
                   sends |-> Shelf!Emitted(statuses[s], edited, stamped)]
  <1>1. w \in Shelf!Work
    BY DEF Shelf!Work, Shelf!Emitted, ShelfInv, Shelf!TypeOK
  <1>2. \A c \in Shelf!Columns \ w.sends : statuses[w.id][c] = w.row[c]
    BY DEF Shelf!Emitted
  <1>3. ShelfPlanned(w) /\ Shelf!Begin(r, w)
    BY DEF Shelf!Edit
  <1> HIDE DEF w
  <1> QED  BY <1>1, <1>2, <1>3, ShelfBeginInv

LEMMA ShelfCallsInv ==
    ASSUME NEW r \in Requests, NEW s \in StatusIds, ShelfInv, Shelf!Calls(r, s)
    PROVE  ShelfInv'
  <1>1. ASSUME NEW to \in Shelf!Borrowers, Shelf!LendStatus(r, s, to)
        PROVE  ShelfInv'
    <2> DEFINE edited == [kind |-> "lent_out", user |-> to.user, name |-> to.name,
                          returned |-> FALSE]
    <2>1. edited \in Shelf!Status /\ (edited.user = {} <=> edited.name # {})
      BY DEF Shelf!Status, Shelf!Kinds, Shelf!Borrowers, Shelf!Nullable
    <2>2. s \in DOMAIN statuses /\ "kind" \in Shelf!Emitted(statuses[s], edited, {})
      BY <1>1 DEF Shelf!LendStatus, Shelf!Exists, Shelf!Emitted, Shelf!Columns
    <2>3. ShelfPlanned([op |-> "lend", id |-> s, row |-> edited,
                        sends |-> Shelf!Emitted(statuses[s], edited, {})])
      BY <2>1, <2>2 DEF ShelfPlanned
    <2>4. Shelf!Edit(r, "lend", s, edited, {})
      BY <1>1 DEF Shelf!LendStatus
    <2> HIDE DEF edited
    <2> QED  BY <2>1, <2>2, <2>3, <2>4, ShelfEdit
  <1>2. CASE Shelf!ReturnStatus(r, s)
    <2> DEFINE edited == [kind |-> "owned", user |-> {}, name |-> {}, returned |-> TRUE]
    <2>1. edited \in Shelf!Status
      BY DEF Shelf!Status, Shelf!Kinds, Shelf!Nullable
    <2>2. /\ s \in DOMAIN statuses
          /\ "kind" \in Shelf!Emitted(statuses[s], edited, {"returned"})
      BY <1>2 DEF Shelf!ReturnStatus, Shelf!Exists, Shelf!Emitted, Shelf!Columns
    <2>3. ShelfPlanned([op |-> "return", id |-> s, row |-> edited,
                        sends |-> Shelf!Emitted(statuses[s], edited, {"returned"})])
      BY <2>1, <2>2 DEF ShelfPlanned
    <2>4. Shelf!Edit(r, "return", s, edited, {"returned"})
      BY <1>2 DEF Shelf!ReturnStatus
    <2>5. {"returned"} \in SUBSET Shelf!Columns
      BY DEF Shelf!Columns
    <2> HIDE DEF edited
    <2> QED  BY <2>1, <2>2, <2>3, <2>4, <2>5, ShelfEdit
  <1>3. ASSUME NEW kind \in Shelf!Kinds, Shelf!ModifyStatus(r, s, kind)
        PROVE  ShelfInv'
    <2> DEFINE edited == [statuses[s] EXCEPT !.kind = kind]
    <2>1. s \in DOMAIN statuses /\ statuses[s] \in Shelf!Status
      BY <1>3 DEF Shelf!ModifyStatus, Shelf!Exists, ShelfInv, Shelf!TypeOK
    <2>2. edited \in Shelf!Status /\ Shelf!Emitted(statuses[s], edited, {}) \subseteq {"kind"}
      BY <2>1 DEF Shelf!Status, Shelf!Emitted, Shelf!Columns
    <2>3. ShelfPlanned([op |-> "modify", id |-> s, row |-> edited,
                        sends |-> Shelf!Emitted(statuses[s], edited, {})])
      BY <2>2 DEF ShelfPlanned
    <2>4. Shelf!Edit(r, "modify", s, edited, {})
      BY <1>3 DEF Shelf!ModifyStatus
    <2> HIDE DEF edited
    <2> QED  BY <2>1, <2>2, <2>3, <2>4, ShelfEdit
  <1>4. CASE Shelf!DeleteStatus(r, s)
    <2>1. [op |-> "delete", id |-> s] \in Shelf!Work
      BY DEF Shelf!Work
    <2> QED  BY <1>4, <2>1, ShelfBeginInv DEF Shelf!DeleteStatus, ShelfPlanned
  <1> QED  BY <1>1, <1>2, <1>3, <1>4 DEF Shelf!Calls

-----------------------------------------------------------------------------
(* A call that ends leaves the others as they were, and so it does what    *)
(* they have on hand, as long as the row it was for is left alone, or      *)
(* those that would mind have been crossed.                                *)
LEMMA ShelfEnded ==
    ASSUME NEW r \in Requests, ShelfInv, Shelf!End(r)
    PROVE  /\ patches' \in [Requests -> Shelf!Work \cup {Shelf!Idle}]
           /\ \A s \in Requests :
                  patches'[s] = IF s = r THEN Shelf!Idle ELSE patches[s]
           /\ crossed' = crossed \ {r}
           /\ crossed' \subseteq {s \in Requests : Shelf!ChangesKind(patches[s])'}
           /\ \A s \in Requests : ShelfPlanned(patches[s])'
           /\ ShelfApart'
  <1>1. /\ patches' = [patches EXCEPT ![r] = Shelf!Idle]
        /\ crossed' = crossed \ {r}
    BY DEF Shelf!End
  <1>2. \A s \in Requests :
            patches'[s] = IF s = r THEN Shelf!Idle ELSE patches[s]
    BY <1>1 DEF ShelfInv, Shelf!TypeOK
  <1>3. ~Shelf!ChangesKind(Shelf!Idle) /\ ShelfPlanned(Shelf!Idle)
    BY DEF Shelf!ChangesKind, Shelf!Updates, Shelf!Idle, ShelfPlanned
  <1>4. \A s \in Requests : Shelf!ChangesKind(patches'[s]) =>
            s # r /\ Shelf!ChangesKind(patches[s])
    BY <1>2, <1>3
  <1>5. patches' \in [Requests -> Shelf!Work \cup {Shelf!Idle}]
    BY <1>1 DEF ShelfInv, Shelf!TypeOK
  <1>6. crossed' \subseteq {s \in Requests : Shelf!ChangesKind(patches'[s])}
    BY <1>1, <1>2 DEF ShelfInv, Shelf!TypeOK
  <1>7. \A s \in Requests : ShelfPlanned(patches'[s])
    BY <1>2, <1>3 DEF ShelfInv
  <1>8. ShelfApart'
    BY <1>1, <1>2, <1>4 DEF ShelfInv, ShelfApart
  <1> QED  BY <1>1, <1>2, <1>5, <1>6, <1>7, <1>8 DEF ShelfPlanned

(* The row after an UPDATE has the columns sent and, for the others, its   *)
(* own; after an uncrossed lend or return it is what the call made of it.  *)
LEMMA ShelfCommitUpdateInv ==
    ASSUME NEW r \in Requests, ShelfInv, Shelf!CommitUpdate(r)
    PROVE  ShelfInv'
  <1> DEFINE w == patches[r]
             new == Shelf!Applied(statuses[w.id], w)
  <1>1. /\ Shelf!Updates(w) /\ w.id \in DOMAIN statuses /\ w.id \in StatusIds
        /\ w.row \in Shelf!Status /\ w.sends \subseteq Shelf!Columns
        /\ statuses[w.id] \in Shelf!Status
    BY ShelfWork DEF Shelf!CommitUpdate, Shelf!Exists, ShelfInv, Shelf!TypeOK,
                     Shelf!Updates
  <1>2. /\ statuses' = [statuses EXCEPT ![w.id] = new]
        /\ handmade' = IF ~Shelf!ChangesKind(w) THEN handmade
                       ELSE IF w.op = "modify" \/ r \in crossed
                            THEN handmade \cup {w.id} ELSE handmade \ {w.id}
        /\ forgotten' = IF Shelf!ChangesKind(w) /\ (new.user # {} \/ new.name # {})
                        THEN forgotten \ {w.id} ELSE forgotten
        /\ Shelf!End(r)
    BY DEF Shelf!CommitUpdate
  <1>3. /\ new \in Shelf!Status
        /\ \A c \in Shelf!Columns :
               new[c] = IF c \in w.sends THEN w.row[c] ELSE statuses[w.id][c]
    BY <1>1 DEF Shelf!Applied, Shelf!Status, Shelf!Columns
  <1>4. /\ new.kind = new["kind"] /\ new.user = new["user"]
        /\ new.name = new["name"] /\ new.returned = new["returned"]
        /\ w.row.kind = w.row["kind"] /\ w.row.user = w.row["user"]
        /\ w.row.name = w.row["name"] /\ w.row.returned = w.row["returned"]
        /\ statuses[w.id].user = statuses[w.id]["user"]
        /\ {"kind", "user", "name", "returned"} = Shelf!Columns
    BY DEF Shelf!Columns
  <1>5. /\ DOMAIN statuses' = DOMAIN statuses
        /\ statuses'[w.id] = new
        /\ \A s \in DOMAIN statuses \ {w.id} : statuses'[s] = statuses[s]
    BY <1>1, <1>2
  <1>6. w.op \in {"lend", "return"} => Shelf!ChangesKind(w)
    BY <1>1 DEF ShelfInv, ShelfPlanned, Shelf!ChangesKind
  <1>7. ~Shelf!ChangesKind(w) => new = statuses[w.id]
    <2> SUFFICES ASSUME ~Shelf!ChangesKind(w) PROVE new = statuses[w.id]
      OBVIOUS
    <2>1. w.op = "modify" /\ w.sends \subseteq {"kind"} /\ "kind" \notin w.sends
      BY <1>1, <1>6 DEF Shelf!ChangesKind, Shelf!Updates, ShelfInv, ShelfPlanned
    <2>2. w.sends = {}
      BY <2>1
    <2> QED  BY <1>1, <2>2 DEF Shelf!Applied, Shelf!Status, Shelf!Columns
  <1> HIDE DEF new
  <1>8. Shelf!TypeOK'
    BY <1>1, <1>2, <1>3, <1>5, ShelfEnded DEF ShelfInv, Shelf!TypeOK
  <1>9. Shelf!LentToOne'
    <2>1. ASSUME Shelf!ChangesKind(w), w.op # "modify", r \notin crossed
          PROVE  IF new.kind = "lent_out"
                 THEN /\ ~new.returned
                      /\ new.user = {} \/ new.name = {}
                      /\ new.user = {} /\ new.name = {} => w.id \in forgotten'
                 ELSE new.user = {} /\ new.name = {}
      <3>1. w.op \in {"lend", "return"} /\ "kind" \in w.sends
        BY <1>1, <2>1 DEF Shelf!Updates, Shelf!ChangesKind
      <3>2. \A c \in Shelf!Columns :
                \/ new[c] = w.row[c]
                \/ c = "user" /\ new.user = {} /\ w.id \in forgotten
        BY <1>1, <1>3, <1>4, <2>1, <3>1 DEF ShelfInv, ShelfCurrent, Shelf!Exists
      <3>3. /\ new.kind = w.row.kind /\ new.name = w.row.name
            /\ new.returned = w.row.returned
            /\ new.user = w.row.user \/ (new.user = {} /\ w.id \in forgotten)
        BY <1>4, <3>2
      <3>4. ShelfPlanned(w)
        BY DEF ShelfInv
      <3>5. CASE w.op = "lend"
        BY <1>2, <3>3, <3>4, <3>5 DEF ShelfPlanned
      <3>6. CASE w.op = "return"
        BY <3>3, <3>4, <3>6 DEF ShelfPlanned
      <3> QED  BY <3>1, <3>5, <3>6
    <2> SUFFICES ASSUME NEW s \in DOMAIN statuses, s \notin handmade'
                 PROVE  LET now == statuses'[s]
                        IN  IF now.kind = "lent_out"
                            THEN /\ ~now.returned
                                 /\ now.user = {} \/ now.name = {}
                                 /\ now.user = {} /\ now.name = {} => s \in forgotten'
                            ELSE now.user = {} /\ now.name = {}
      BY <1>5 DEF Shelf!LentToOne
    <2>2. CASE s # w.id
      BY <1>2, <1>5, <2>2 DEF ShelfInv, Shelf!LentToOne
    <2>3. CASE s = w.id /\ ~Shelf!ChangesKind(w)
      BY <1>2, <1>5, <1>7, <2>3 DEF ShelfInv, Shelf!LentToOne
    <2>4. CASE s = w.id /\ Shelf!ChangesKind(w)
      <3>1. w.op # "modify" /\ r \notin crossed
        BY <1>2, <2>4
      <3> QED  BY <1>5, <2>1, <2>4, <3>1
    <2> QED  BY <2>2, <2>3, <2>4
  <1>10. ASSUME NEW s \in Requests PROVE ShelfCurrent(s)'
    <2> SUFFICES ASSUME s # r, patches[s].op \in {"lend", "return"},
                        s \notin crossed, Shelf!Exists(patches[s].id)
                 PROVE  \A c \in Shelf!Columns \ patches[s].sends :
                            \/ statuses'[patches[s].id][c] = patches[s].row[c]
                            \/ /\ c = "user" /\ statuses'[patches[s].id].user = {}
                               /\ patches[s].id \in forgotten'
      BY <1>2, <1>5, ShelfEnded DEF ShelfCurrent, Shelf!Exists, Shelf!Idle
    <2>1. Shelf!ChangesKind(patches[s])
      BY DEF ShelfInv, ShelfPlanned, Shelf!ChangesKind, Shelf!Updates
    <2>2. CASE patches[s].id # w.id
      BY <1>2, <1>5, <2>2 DEF ShelfInv, ShelfCurrent, Shelf!Exists
    <2>3. CASE patches[s].id = w.id
      <3>1. ~Shelf!ChangesKind(w)
        BY <2>1, <2>3 DEF ShelfInv, ShelfApart
      <3>2. statuses'[w.id] = statuses[w.id] /\ forgotten' = forgotten
        BY <1>2, <1>5, <1>7, <3>1
      <3> QED  BY <2>3, <3>2 DEF ShelfInv, ShelfCurrent
    <2> QED  BY <2>2, <2>3
  <1> QED  BY <1>2, <1>8, <1>9, <1>10, ShelfEnded DEF ShelfInv

LEMMA ShelfCommitDeleteInv ==
    ASSUME NEW r \in Requests, ShelfInv, Shelf!CommitDelete(r)
    PROVE  ShelfInv'
  <1>1. /\ DOMAIN statuses' = DOMAIN statuses \ {patches[r].id}
        /\ \A s \in DOMAIN statuses' : statuses'[s] = statuses[s]
        /\ statuses' \in [DOMAIN statuses' -> Shelf!Status]
        /\ UNCHANGED <<handmade, forgotten>>
        /\ Shelf!End(r)
    BY DEF Shelf!CommitDelete, ShelfInv, Shelf!TypeOK
  <1>2. Shelf!TypeOK'
    BY <1>1, ShelfEnded DEF ShelfInv, Shelf!TypeOK
  <1>3. Shelf!LentToOne'
    BY <1>1 DEF ShelfInv, Shelf!LentToOne
  <1>4. \A s \in Requests : ShelfCurrent(s)'
    BY <1>1, ShelfEnded DEF ShelfInv, ShelfCurrent, Shelf!Exists, Shelf!Idle
  <1> QED  BY <1>1, <1>2, <1>3, <1>4, ShelfEnded DEF ShelfInv

LEMMA ShelfFailsInv ==
    ASSUME NEW r \in Requests, ShelfInv, Shelf!Fails(r)
    PROVE  ShelfInv'
  <1>1. Shelf!End(r) /\ UNCHANGED <<statuses, handmade, forgotten>>
    BY DEF Shelf!Fails
  <1>2. Shelf!TypeOK'
    BY <1>1, ShelfEnded DEF ShelfInv, Shelf!TypeOK
  <1>3. Shelf!LentToOne'
    BY <1>1 DEF ShelfInv, Shelf!LentToOne
  <1>4. \A s \in Requests : ShelfCurrent(s)'
    BY <1>1, ShelfEnded DEF ShelfInv, ShelfCurrent, Shelf!Exists, Shelf!Idle
  <1> QED  BY <1>1, <1>2, <1>3, <1>4, ShelfEnded DEF ShelfInv

-----------------------------------------------------------------------------
(* A new row is nobody's copy.                                             *)
LEMMA ShelfCreateInv ==
    ASSUME NEW s \in StatusIds, NEW kind \in Shelf!Kinds, ShelfInv,
           Shelf!CreateStatus(s, kind)
    PROVE  ShelfInv'
  <1> DEFINE new == [kind |-> kind, user |-> {}, name |-> {}, returned |-> FALSE]
  <1>1. /\ DOMAIN statuses' = DOMAIN statuses \cup {s}
        /\ \A i \in DOMAIN statuses' : statuses'[i] = IF i # s THEN statuses[i] ELSE new
        /\ handmade' = IF kind = "lent_out" THEN handmade \cup {s} ELSE handmade \ {s}
        /\ forgotten' = forgotten \ {s}
        /\ UNCHANGED <<patches, crossed>>
        /\ s \notin DOMAIN statuses
        /\ \A r \in Requests : patches[r] # Shelf!Idle => patches[r].id # s
    BY DEF Shelf!CreateStatus, Shelf!Exists
  <1>2. new \in Shelf!Status
    BY DEF Shelf!Status, Shelf!Nullable
  <1>3. Shelf!TypeOK'
    <2>1. statuses' \in [DOMAIN statuses' -> Shelf!Status]
      BY <1>1, <1>2 DEF Shelf!CreateStatus, ShelfInv, Shelf!TypeOK
    <2> QED  BY <1>1, <2>1 DEF ShelfInv, Shelf!TypeOK
  <1>4. Shelf!LentToOne'
    BY <1>1 DEF ShelfInv, Shelf!LentToOne
  <1>5. \A r \in Requests : ShelfCurrent(r)'
    BY <1>1 DEF ShelfInv, ShelfCurrent, Shelf!Exists, Shelf!Idle
  <1>6. (\A r \in Requests : ShelfPlanned(patches[r])') /\ ShelfApart'
    BY <1>1 DEF ShelfInv, ShelfPlanned, ShelfApart
  <1> QED  BY <1>3, <1>4, <1>5, <1>6 DEF ShelfInv

(* The purge of a borrower leaves a status without one, and says so.       *)
LEMMA ShelfForgetInv ==
    ASSUME NEW u \in Users, ShelfInv, Shelf!ForgetBorrower(u)
    PROVE  ShelfInv'
  <1> DEFINE lent == {s \in DOMAIN statuses : statuses[s].user = {u}}
  <1>1. /\ DOMAIN statuses' = DOMAIN statuses
        /\ \A s \in DOMAIN statuses :
               statuses'[s] = IF s \in lent THEN [statuses[s] EXCEPT !.user = {}]
                              ELSE statuses[s]
        /\ forgotten' = forgotten \cup lent
        /\ UNCHANGED <<patches, crossed, handmade>>
    BY DEF Shelf!ForgetBorrower
  <1>2. \A s \in DOMAIN statuses :
            /\ statuses'[s] \in Shelf!Status
            /\ statuses'[s].kind = statuses[s].kind
            /\ statuses'[s].name = statuses[s].name
            /\ statuses'[s].returned = statuses[s].returned
            /\ statuses'[s].user = IF s \in lent THEN {} ELSE statuses[s].user
    BY <1>1 DEF ShelfInv, Shelf!TypeOK, Shelf!Status, Shelf!Nullable
  <1>3. Shelf!TypeOK'
    <2>1. statuses' \in [DOMAIN statuses' -> Shelf!Status]
      BY <1>1, <1>2 DEF Shelf!ForgetBorrower
    <2> QED  BY <1>1, <2>1 DEF ShelfInv, Shelf!TypeOK
  <1>4. Shelf!LentToOne'
    BY <1>1, <1>2 DEF ShelfInv, Shelf!LentToOne
  <1>5. \A s \in DOMAIN statuses, c \in Shelf!Columns \ {"user"} :
            statuses'[s][c] = statuses[s][c]
    BY <1>1, <1>2 DEF Shelf!Columns
  <1>6. \A r \in Requests : ShelfCurrent(r)'
    BY <1>1, <1>2, <1>5 DEF ShelfInv, ShelfCurrent, Shelf!Exists
  <1>7. (\A r \in Requests : ShelfPlanned(patches[r])') /\ ShelfApart'
    BY <1>1 DEF ShelfInv, ShelfPlanned, ShelfApart
  <1> QED  BY <1>3, <1>4, <1>6, <1>7 DEF ShelfInv

LEMMA ShelfNextInv == ShelfInv /\ [Shelf!Next]_Shelf!vars => ShelfInv'
  <1> SUFFICES ASSUME ShelfInv, [Shelf!Next]_Shelf!vars PROVE ShelfInv'
    OBVIOUS
  <1>1. CASE UNCHANGED Shelf!vars
    BY <1>1 DEF Shelf!vars, ShelfInv, Shelf!TypeOK, Shelf!LentToOne, ShelfPlanned,
                ShelfCurrent, ShelfApart, Shelf!Exists
  <1>2. CASE Shelf!Next
    BY <1>2, ShelfCreateInv, ShelfCallsInv, ShelfCommitUpdateInv,
       ShelfCommitDeleteInv, ShelfFailsInv, ShelfForgetInv DEF Shelf!Next
  <1> QED  BY <1>1, <1>2

THEOREM ShelfInvariance == Shelf!Spec => []ShelfInv
  BY ShelfInitInv, ShelfNextInv, PTL DEF Shelf!Spec

(* Lends, returns, edits and deletions that overlap, from copies of any    *)
(* age, leave a status with one borrower or none, but where the kind was   *)
(* set by hand or two calls changed it at a time.                          *)
THEOREM LentToOneBorrower == Shelf!Spec => []LentToOne
  <1>1. ShelfInv => LentToOne
    BY DEF ShelfInv, LentToOne
  <1> QED  BY <1>1, ShelfInvariance, PTL

-----------------------------------------------------------------------------
(* A merge that nothing has disturbed is the only restore on its way, and  *)
(* has found or made a row for every entry it is past.                     *)
RestoreAlone(r) ==
    LET w == restores[r]
    IN  Restores!Merging(w) =>
            /\ w.op = "create" => w.at <= Len(Backup)
            /\ w.alone => /\ \A s \in Requests \ {r} : restores[s] = Restores!Idle
                          /\ \A i \in 1 .. w.at - 1 : Restores!RowsOf(Backup[i]) # {}

(* Of the rows there were when a replace began, those of the tables it is  *)
(* past and not deleted by others it has deleted, and those of the table   *)
(* it waits for it has found.                                              *)
RestoreSwept(r) ==
    LET w == restores[r]
    IN  Restores!Replacing(w) =>
            /\ w.before <= issued
            /\ w.op = "wait" => w.at <= Len(Tables)
            /\ \A i \in DOMAIN rows : i <= w.before =>
                   /\ \A j \in 1 .. w.at - 1 : rows[i].table = Tables[j] => i \in w.deleted
                   /\ w.op = "wait" /\ rows[i].table = Tables[w.at] => i \in w.found

RestoreInv ==
    /\ Restores!TypeOK
    /\ Restores!MergedForGood
    /\ \A r \in Requests : RestoreAlone(r)
    /\ \A r \in Requests : RestoreSwept(r)

LEMMA RestoreInitInv == Restores!Init => RestoreInv
  <1> SUFFICES ASSUME Restores!Init PROVE RestoreInv
    OBVIOUS
  <1>1. Restores!TypeOK
    <2>1. DOMAIN rows = {} /\ rows \in [DOMAIN rows -> Keys]
      BY DEF Restores!Init
    <2>2. restores \in [Requests -> Restores!Work \cup {Restores!Idle}]
      BY DEF Restores!Init
    <2>3. issued \in 0 .. MaxRows
      BY BoundsAssumption DEF Restores!Init
    <2>4. gone \subseteq Keys /\ settled \in BOOLEAN
      BY DEF Restores!Init
    <2> QED  BY <2>1, <2>2, <2>3, <2>4 DEF Restores!TypeOK
  <1> QED
    BY <1>1 DEF Restores!Init, RestoreInv, Restores!MergedForGood, RestoreAlone,
                RestoreSwept, Restores!Idle, Restores!Merging, Restores!Replacing

LEMMA RestoreWork ==
    ASSUME NEW w \in Restores!Work \cup {Restores!Idle}
    PROVE  /\ ~(Restores!Merging(w) /\ Restores!Replacing(w))
           /\ w = Restores!Idle <=> ~Restores!Merging(w) /\ ~Restores!Replacing(w)
           /\ Restores!Merging(w) =>
                  w \in [op : {"look", "create"}, at : 1 .. Len(Backup) + 1,
                         alone : BOOLEAN]
           /\ Restores!Replacing(w) =>
                  w \in [op : {"sweep", "wait"}, at : 1 .. Len(Tables) + 1,
                         found : SUBSET Restores!RowIds,
                         deleted : SUBSET Restores!RowIds, before : 0 .. MaxRows]
  BY DEF Restores!Work, Restores!Idle, Restores!Merging, Restores!Replacing

LEMMA RestoreEntries ==
    /\ Len(Backup) \in Nat
    /\ \A i \in 1 .. Len(Backup) : Backup[i] \in Keys
    /\ DOMAIN Backup = 1 .. Len(Backup)
    /\ Restores!Entries \subseteq Keys
    /\ Len(Tables) \in Nat
    /\ DOMAIN Tables = 1 .. Len(Tables)
  BY BackupAssumption, TablesAssumption DEF Restores!Entries

(* A call that has only read, or failed, changes no row.                   *)
LEMMA RestoreBecomeInv ==
    ASSUME NEW r \in Requests, NEW w \in Restores!Work \cup {Restores!Idle},
           RestoreInv, Restores!Become(r, w),
           settled => w.op # "create",
           Restores!Merging(w) =>
               /\ Restores!Merging(restores[r]) /\ w.alone = restores[r].alone
               /\ w.op = "create" => w.at <= Len(Backup)
               /\ w.alone => \A i \in 1 .. w.at - 1 : Restores!RowsOf(Backup[i]) # {},
           Restores!Replacing(w) =>
               /\ w.before <= issued
               /\ w.op = "wait" => w.at <= Len(Tables)
               /\ \A i \in DOMAIN rows : i <= w.before =>
                      /\ \A j \in 1 .. w.at - 1 :
                             rows[i].table = Tables[j] => i \in w.deleted
                      /\ w.op = "wait" /\ rows[i].table = Tables[w.at] => i \in w.found,
           Restores!Replacing(w) => Restores!Replacing(restores[r])
    PROVE  RestoreInv'
  <1>1. /\ restores' = [restores EXCEPT ![r] = w]
        /\ UNCHANGED <<rows, issued, gone, settled>>
    BY DEF Restores!Become
  <1>2. \A s \in Requests : restores'[s] = IF s = r THEN w ELSE restores[s]
    BY <1>1 DEF RestoreInv, Restores!TypeOK
  <1>3. Restores!TypeOK'
    BY <1>1 DEF RestoreInv, Restores!TypeOK
  <1>4. Restores!MergedForGood'
    BY <1>1, <1>2 DEF RestoreInv, Restores!MergedForGood, Restores!RowsOf
  <1>5. \A s \in Requests : RestoreAlone(s)'
    <2>1. RestoreAlone(r)'
      BY <1>1, <1>2 DEF RestoreInv, RestoreAlone, Restores!RowsOf
    <2>2. ASSUME NEW s \in Requests \ {r} PROVE RestoreAlone(s)'
      <3>1. RestoreAlone(s) /\ restores'[s] = restores[s]
        BY <1>2 DEF RestoreInv
      <3>2. restores[r] = Restores!Idle => w = Restores!Idle
        BY RestoreWork DEF RestoreInv, Restores!TypeOK
      <3>3. \A q \in Requests : restores[q] = Restores!Idle => restores'[q] = Restores!Idle
        BY <1>2, <3>2
      <3> QED  BY <1>1, <3>1, <3>3 DEF RestoreAlone, Restores!RowsOf
    <2> QED  BY <2>1, <2>2
  <1>6. \A s \in Requests : RestoreSwept(s)'
    BY <1>1, <1>2 DEF RestoreInv, RestoreSwept
  <1> QED  BY <1>3, <1>4, <1>5, <1>6 DEF RestoreInv

(* What begins disturbs the merges on their way.                           *)
LEMMA RestoreDisturbed ==
    ASSUME NEW R \in SUBSET Requests, Restores!TypeOK
    PROVE  /\ Restores!Disturbed(R) \in [Requests -> Restores!Work \cup {Restores!Idle}]
           /\ \A s \in Requests :
                  /\ Restores!Merging(Restores!Disturbed(R)[s]) = Restores!Merging(restores[s])
                  /\ Restores!Replacing(Restores!Disturbed(R)[s]) = Restores!Replacing(restores[s])
                  /\ Restores!Disturbed(R)[s].op = restores[s].op
                  /\ Restores!Merging(restores[s]) =>
                         Restores!Disturbed(R)[s].at = restores[s].at
                  /\ s \in R /\ Restores!Merging(restores[s]) =>
                         ~Restores!Disturbed(R)[s].alone
                  /\ s \notin R \/ ~Restores!Merging(restores[s]) =>
                         Restores!Disturbed(R)[s] = restores[s]
  <1>1. \A s \in Requests :
            Restores!Disturbed(R)[s] =
                IF s \in R /\ Restores!Merging(restores[s])
                THEN [restores[s] EXCEPT !.alone = FALSE] ELSE restores[s]
    BY DEF Restores!Disturbed
  <1>2. ASSUME NEW s \in Requests, Restores!Merging(restores[s])
        PROVE  LET v == [restores[s] EXCEPT !.alone = FALSE]
               IN  /\ v \in Restores!Work
                   /\ v.op = restores[s].op /\ v.at = restores[s].at /\ v.alone = FALSE
    <2>1. restores[s] \in [op : {"look", "create"}, at : 1 .. Len(Backup) + 1,
                           alone : BOOLEAN]
      BY <1>2, RestoreWork DEF Restores!TypeOK
    <2> QED  BY <2>1 DEF Restores!Work
  <1>3. \A s \in Requests :
            Restores!Disturbed(R)[s] \in Restores!Work \cup {Restores!Idle}
    BY <1>1, <1>2 DEF Restores!TypeOK
  <1>4. Restores!Disturbed(R) \in [Requests -> Restores!Work \cup {Restores!Idle}]
    BY <1>3 DEF Restores!Disturbed
  <1> QED  BY <1>1, <1>2, <1>4 DEF Restores!Merging, Restores!Replacing

LEMMA RestoreBeginInv ==
    ASSUME NEW r \in Requests, RestoreInv,
           Restores!RestoreMerge(r) \/ Restores!RestoreReplace(r)
    PROVE  RestoreInv'
  <1>1. PICK w \in Restores!Work :
            /\ Restores!Begin(r, w)
            /\ w.op # "create"
            /\ Restores!Merging(w) =>
                   w.at = 1 /\ (w.alone => \A s \in Requests : restores[s] = Restores!Idle)
            /\ Restores!Replacing(w) => w.op = "sweep" /\ w.at = 1 /\ w.before = issued
    <2>1. CASE Restores!RestoreMerge(r)
      <3> DEFINE w == [op |-> "look", at |-> 1,
                       alone |-> \A s \in Requests : restores[s] = Restores!Idle]
      <3>1. w \in Restores!Work
        BY RestoreEntries DEF Restores!Work
      <3>2. Restores!Begin(r, w)
        BY <2>1 DEF Restores!RestoreMerge
      <3>3. ~Restores!Replacing(w) /\ w.op = "look" /\ w.at = 1
        BY DEF Restores!Replacing
      <3> QED  BY <3>1, <3>2, <3>3
    <2>2. CASE Restores!RestoreReplace(r)
      <3> DEFINE w == [op |-> "sweep", at |-> 1, found |-> {}, deleted |-> {},
                       before |-> issued]
      <3>1. w \in Restores!Work
        BY RestoreEntries DEF Restores!Work, RestoreInv, Restores!TypeOK
      <3>2. Restores!Begin(r, w)
        BY <2>2 DEF Restores!RestoreReplace
      <3>3. ~Restores!Merging(w) /\ w.op = "sweep" /\ w.at = 1 /\ w.before = issued
        BY DEF Restores!Merging
      <3> QED  BY <3>1, <3>2, <3>3
    <2> QED  BY <2>1, <2>2
  <1> DEFINE D == Restores!Disturbed(Requests \ {r})
  <1>2. /\ restores[r] = Restores!Idle
        /\ restores' = [D EXCEPT ![r] = w]
        /\ UNCHANGED <<rows, issued, gone, settled>>
    BY <1>1 DEF Restores!Begin, Restores!Others
  <1>3. D \in [Requests -> Restores!Work \cup {Restores!Idle}]
    BY RestoreDisturbed DEF RestoreInv
  <1> HIDE DEF D
  <1>4. \A s \in Requests : restores'[s] = IF s = r THEN w ELSE D[s]
    BY <1>2, <1>3
  <1>5. Restores!TypeOK'
    <2>1. restores' \in [Requests -> Restores!Work \cup {Restores!Idle}]
      BY <1>2, <1>3
    <2> QED  BY <1>2, <2>1 DEF RestoreInv, Restores!TypeOK
  <1>6. \A s \in Requests : D[s].op = restores[s].op
    BY RestoreDisturbed DEF RestoreInv, D
  <1>7. Restores!MergedForGood'
    BY <1>1, <1>2, <1>4, <1>6 DEF RestoreInv, Restores!MergedForGood, Restores!RowsOf
  <1>8. ASSUME NEW s \in Requests PROVE RestoreAlone(s)' /\ RestoreSwept(s)'
    <2>1. CASE s = r
      <3>1. restores'[s] = w
        BY <1>4, <2>1
      <3>2. Restores!Merging(w) /\ w.alone =>
                \A q \in Requests \ {r} : restores'[q] = Restores!Idle
        BY <1>1, <1>4, RestoreDisturbed
           DEF RestoreInv, D, Restores!Merging, Restores!Idle
      <3>3. RestoreAlone(s)'
        BY <1>1, <2>1, <3>1, <3>2 DEF RestoreAlone
      <3>4. RestoreSwept(s)'
        BY <1>1, <1>2, <3>1 DEF RestoreSwept, RestoreInv, Restores!TypeOK
      <3> QED  BY <3>3, <3>4
    <2>2. CASE s # r
      <3>1. restores'[s] = D[s] /\ s \in Requests \ {r}
        BY <1>4, <2>2
      <3>2. CASE Restores!Merging(restores[s])
        <4>1. /\ Restores!Merging(D[s]) /\ ~D[s].alone /\ ~Restores!Replacing(D[s])
              /\ D[s].at = restores[s].at /\ D[s].op = restores[s].op
          BY <3>1, <3>2, RestoreDisturbed DEF RestoreInv, D, Restores!Merging, Restores!Replacing
        <4> QED  BY <3>1, <3>2, <4>1 DEF RestoreInv, RestoreAlone, RestoreSwept
      <3>3. CASE ~Restores!Merging(restores[s])
        <4>1. D[s] = restores[s]
          BY <3>3, RestoreDisturbed DEF RestoreInv, D
        <4> QED  BY <1>2, <3>1, <3>3, <4>1 DEF RestoreInv, RestoreAlone, RestoreSwept
      <3> QED  BY <3>2, <3>3
    <2> QED  BY <2>1, <2>2
  <1> QED  BY <1>5, <1>7, <1>8 DEF RestoreInv

LEMMA RestoreReadsInv ==
    ASSUME NEW r \in Requests, RestoreInv,
           \/ Restores!Look(r) \/ Restores!StartDelete(r)
           \/ Restores!FinishDelete(r) \/ Restores!Fails(r)
    PROVE  RestoreInv'
  <1> DEFINE w == restores[r]
  <1>1. /\ w \in Restores!Work \cup {Restores!Idle} /\ RestoreAlone(r) /\ RestoreSwept(r)
        /\ issued \in 0 .. MaxRows /\ DOMAIN rows \subseteq 1 .. issued
    BY DEF RestoreInv, Restores!TypeOK
  <1>2. CASE Restores!Look(r)
    <2>1. /\ w \in [op : {"look", "create"}, at : 1 .. Len(Backup) + 1, alone : BOOLEAN]
          /\ w.op = "look" /\ w.at <= Len(Backup) /\ Restores!Merging(w)
      BY <1>1, <1>2, RestoreWork DEF Restores!Look, Restores!Merging
    <2>2. CASE Restores!Found(Backup[w.at])
      <3> DEFINE v == [w EXCEPT !.at = @ + 1]
      <3>1. /\ v \in Restores!Work /\ v.op = "look" /\ v.at = w.at + 1
            /\ v.alone = w.alone
        BY <2>1, RestoreEntries DEF Restores!Work
      <3>2. w.alone => \A i \in 1 .. v.at - 1 : Restores!RowsOf(Backup[i]) # {}
        <4> SUFFICES ASSUME w.alone, NEW i \in 1 .. v.at - 1
                     PROVE  Restores!RowsOf(Backup[i]) # {}
          OBVIOUS
        <4>1. i = w.at \/ i \in 1 .. w.at - 1
          BY <2>1, <3>1
        <4>2. CASE i = w.at
          BY <2>2, <4>2 DEF Restores!Found
        <4>3. CASE i \in 1 .. w.at - 1
          BY <1>1, <2>1, <4>3 DEF RestoreAlone
        <4> QED  BY <4>1, <4>2, <4>3
      <3>3. Restores!Become(r, v)
        BY <1>2, <2>2 DEF Restores!Look
      <3>4. ~Restores!Replacing(v)
        BY <3>1 DEF Restores!Replacing
      <3> HIDE DEF v
      <3> QED  BY <2>1, <3>1, <3>2, <3>3, <3>4, RestoreBecomeInv
    <2>3. CASE ~Restores!Found(Backup[w.at])
      <3> DEFINE v == [w EXCEPT !.op = "create"]
      <3>1. /\ v \in Restores!Work /\ v.op = "create" /\ v.at = w.at
            /\ v.alone = w.alone
        BY <2>1 DEF Restores!Work
      <3>2. ~settled
        BY <2>1, <2>3, RestoreEntries
           DEF RestoreInv, Restores!MergedForGood, Restores!Found, Restores!Entries
      <3>3. Restores!Become(r, v)
        BY <1>2, <2>3 DEF Restores!Look
      <3>4. ~Restores!Replacing(v)
        BY <3>1 DEF Restores!Replacing
      <3> HIDE DEF v
      <3> QED  BY <1>1, <2>1, <3>1, <3>2, <3>3, <3>4, RestoreBecomeInv DEF RestoreAlone
    <2> QED  BY <2>2, <2>3
  <1>3. CASE Restores!StartDelete(r)
    <2> DEFINE found == {i \in DOMAIN rows : rows[i].table = Tables[w.at]}
               v == [w EXCEPT !.op = "wait", !.found = found]
    <2>1. /\ w \in [op : {"sweep", "wait"}, at : 1 .. Len(Tables) + 1,
                    found : SUBSET Restores!RowIds,
                    deleted : SUBSET Restores!RowIds, before : 0 .. MaxRows]
          /\ w.at <= Len(Tables) /\ Restores!Replacing(w)
      BY <1>1, <1>3, RestoreWork DEF Restores!StartDelete, Restores!Replacing
    <2>2. found \subseteq Restores!RowIds
      BY <1>1, BoundsAssumption DEF Restores!RowIds
    <2>3. /\ v \in Restores!Work /\ v.op = "wait" /\ v.at = w.at /\ v.before = w.before
          /\ v.deleted = w.deleted /\ v.found = found
      BY <2>1, <2>2 DEF Restores!Work
    <2>4. Restores!Become(r, v)
      BY <1>3 DEF Restores!StartDelete
    <2>5. ~Restores!Merging(v)
      BY <2>3 DEF Restores!Merging
    <2>6. \A i \in DOMAIN rows : i <= v.before =>
              /\ \A j \in 1 .. v.at - 1 : rows[i].table = Tables[j] => i \in v.deleted
              /\ v.op = "wait" /\ rows[i].table = Tables[v.at] => i \in v.found
      BY <1>1, <2>1, <2>3 DEF RestoreSwept
    <2>7. v.before <= issued
      BY <1>1, <2>1, <2>3 DEF RestoreSwept
    <2> HIDE DEF v
    <2> QED  BY <2>1, <2>3, <2>4, <2>5, <2>6, <2>7, RestoreBecomeInv
  <1>4. CASE Restores!FinishDelete(r)
    <2> DEFINE v == [w EXCEPT !.op = "sweep", !.at = @ + 1, !.found = {},
                              !.deleted = @ \cup (w.found \cap DOMAIN rows)]
    <2>1. /\ w \in [op : {"sweep", "wait"}, at : 1 .. Len(Tables) + 1,
                    found : SUBSET Restores!RowIds,
                    deleted : SUBSET Restores!RowIds, before : 0 .. MaxRows]
          /\ w.op = "wait" /\ Restores!Replacing(w)
      BY <1>1, <1>4, RestoreWork DEF Restores!FinishDelete, Restores!Replacing
    <2>2. w.at <= Len(Tables) /\ w.before <= issued
      BY <1>1, <2>1 DEF RestoreSwept
    <2>3. /\ v \in Restores!Work /\ v.op = "sweep" /\ v.at = w.at + 1
          /\ v.before = w.before
          /\ v.deleted = w.deleted \cup (w.found \cap DOMAIN rows)
      <3>1. w.at + 1 \in 1 .. Len(Tables) + 1
        BY <2>1, <2>2, RestoreEntries
      <3>2. w.deleted \cup (w.found \cap DOMAIN rows) \subseteq Restores!RowIds
        BY <2>1
      <3>3. PICK next, deleted :
                /\ next = w.at + 1
                /\ deleted = w.deleted \cup (w.found \cap DOMAIN rows)
        OBVIOUS
      <3>4. v = [w EXCEPT !.op = "sweep", !.at = next, !.found = {},
                          !.deleted = deleted]
        BY <3>3
      <3>5. [w EXCEPT !.op = "sweep", !.at = next, !.found = {}, !.deleted = deleted]
                \in [op : {"sweep"}, at : {next}, found : {{}}, deleted : {deleted},
                     before : {w.before}]
        BY <2>1
      <3> QED  BY <2>1, <3>1, <3>2, <3>3, <3>4, <3>5 DEF Restores!Work
    <2>4. Restores!Become(r, v)
      BY <1>4 DEF Restores!FinishDelete
    <2>5. ~Restores!Merging(v)
      BY <2>3 DEF Restores!Merging
    <2>6. \A i \in DOMAIN rows : i <= v.before =>
              \A j \in 1 .. v.at - 1 : rows[i].table = Tables[j] => i \in v.deleted
      <3> SUFFICES ASSUME NEW i \in DOMAIN rows, i <= w.before,
                          NEW j \in 1 .. w.at, rows[i].table = Tables[j]
                   PROVE  i \in w.deleted \cup w.found
        BY <2>1, <2>3
      <3>1. CASE j = w.at
        BY <1>1, <2>1, <3>1 DEF RestoreSwept
      <3>2. CASE j # w.at
        <4>1. j \in 1 .. w.at - 1
          BY <2>1, <3>2
        <4> QED  BY <1>1, <2>1, <4>1 DEF RestoreSwept
      <3> QED  BY <3>1, <3>2
    <2> HIDE DEF v
    <2> QED  BY <2>1, <2>2, <2>3, <2>4, <2>5, <2>6, RestoreBecomeInv
  <1>5. CASE Restores!Fails(r)
    <2>1. /\ ~Restores!Merging(Restores!Idle) /\ ~Restores!Replacing(Restores!Idle)
          /\ Restores!Idle.op # "create"
      BY DEF Restores!Merging, Restores!Replacing, Restores!Idle
    <2>2. Restores!Become(r, Restores!Idle)
      BY <1>5 DEF Restores!Fails
    <2> QED  BY <2>1, <2>2, RestoreBecomeInv
  <1> QED  BY <1>2, <1>3, <1>4, <1>5

LEMMA RestoreEndMergeInv ==
    ASSUME NEW r \in Requests, RestoreInv, Restores!EndMerge(r)
    PROVE  RestoreInv'
  <1> DEFINE w == restores[r]
  <1>1. /\ restores' = [restores EXCEPT ![r] = Restores!Idle]
        /\ settled' = (settled \/ w.alone)
        /\ UNCHANGED <<rows, issued, gone>>
        /\ w.op = "look" /\ w.at > Len(Backup)
    BY DEF Restores!EndMerge
  <1>2. /\ w \in [op : {"look", "create"}, at : 1 .. Len(Backup) + 1, alone : BOOLEAN]
        /\ Restores!Merging(w) /\ RestoreAlone(r)
    BY <1>1, RestoreWork DEF RestoreInv, Restores!TypeOK, Restores!Merging
  <1>3. \A s \in Requests : restores'[s] = IF s = r THEN Restores!Idle ELSE restores[s]
    BY <1>1 DEF RestoreInv, Restores!TypeOK
  <1>4. Restores!TypeOK'
    BY <1>1, <1>2 DEF RestoreInv, Restores!TypeOK
  <1>5. Restores!MergedForGood'
    <2>1. CASE settled
      BY <1>1, <1>3, <2>1
         DEF RestoreInv, Restores!MergedForGood, Restores!RowsOf, Restores!Idle
    <2>2. CASE w.alone
      <3>1. \A k \in Restores!Entries : Restores!RowsOf(k) # {}
        BY <1>1, <1>2, <2>2, RestoreEntries DEF RestoreAlone, Restores!Entries
      <3>2. \A s \in Requests : restores'[s] = Restores!Idle
        BY <1>2, <1>3, <2>2 DEF RestoreAlone
      <3> QED  BY <1>1, <3>1, <3>2
               DEF Restores!MergedForGood, Restores!RowsOf, Restores!Idle
    <2> QED  BY <1>1, <2>1, <2>2 DEF Restores!MergedForGood
  <1>6. \A s \in Requests : RestoreAlone(s)' /\ RestoreSwept(s)'
    BY <1>1, <1>3
       DEF RestoreInv, RestoreAlone, RestoreSwept, Restores!RowsOf, Restores!Idle,
           Restores!Merging, Restores!Replacing
  <1> QED  BY <1>4, <1>5, <1>6 DEF RestoreInv

-----------------------------------------------------------------------------
(* A commit that changes rows: the merges beside it are disturbed, and the *)
(* rows there were before keep their keys.                                 *)
LEMMA RestoreChangedInv ==
    ASSUME NEW R \in SUBSET Requests, NEW f, RestoreInv,
           f = Restores!Disturbed(R),
           \A s \in R : restores'[s] = f[s],
           \A s \in Requests \ R : ~Restores!Replacing(restores'[s]) /\ RestoreAlone(s)',
           restores' \in [Requests -> Restores!Work \cup {Restores!Idle}],
           ~settled', settled' \in BOOLEAN, gone' = gone,
           issued' \in issued .. MaxRows,
           DOMAIN rows' \subseteq 1 .. issued',
           rows' \in [DOMAIN rows' -> Keys],
           \A i \in DOMAIN rows' : i > issued \/ (i \in DOMAIN rows /\ rows'[i] = rows[i])
    PROVE  RestoreInv'
  <1>1. Restores!TypeOK' /\ Restores!MergedForGood'
    BY DEF RestoreInv, Restores!TypeOK, Restores!MergedForGood
  <1>2. ASSUME NEW s \in Requests PROVE RestoreAlone(s)'
    <2>1. CASE s \in R /\ Restores!Merging(restores'[s])
      <3>1. restores'[s] = f[s]
        BY <2>1
      <3>2. Restores!Merging(restores[s]) /\ ~f[s].alone /\ f[s].at = restores[s].at
            /\ f[s].op = restores[s].op
        BY <2>1, <3>1, RestoreDisturbed DEF RestoreInv
      <3> QED  BY <3>1, <3>2 DEF RestoreAlone, RestoreInv
    <2>2. CASE s \in R /\ ~Restores!Merging(restores'[s])
      BY <2>2 DEF RestoreAlone
    <2>3. CASE s \notin R
      BY <2>3 DEF RestoreAlone
    <2> QED  BY <2>1, <2>2, <2>3
  <1>3. ASSUME NEW s \in Requests PROVE RestoreSwept(s)'
    <2> SUFFICES ASSUME Restores!Replacing(restores'[s]) PROVE RestoreSwept(s)'
      BY DEF RestoreSwept
    <2>1. restores'[s] = f[s]
      OBVIOUS
    <2>2. f[s] = restores[s] /\ Restores!Replacing(restores[s])
      BY <2>1, RestoreDisturbed DEF RestoreInv, Restores!Replacing, Restores!Merging
    <2>3. /\ restores'[s] = restores[s] /\ RestoreSwept(s)
          /\ restores[s].before \in Int /\ issued \in Int
      BY <2>1, <2>2, RestoreWork DEF RestoreInv, Restores!TypeOK
    <2> QED  BY <2>2, <2>3 DEF RestoreSwept
  <1> QED  BY <1>1, <1>2, <1>3 DEF RestoreInv

LEMMA RestoreInsert ==
    ASSUME NEW k \in Keys, RestoreInv, Restores!Insert(k)
    PROVE  /\ issued' = issued + 1 /\ issued' \in issued .. MaxRows
           /\ DOMAIN rows' = DOMAIN rows \cup {issued + 1}
           /\ DOMAIN rows' \subseteq 1 .. issued'
           /\ rows' \in [DOMAIN rows' -> Keys]
           /\ rows'[issued + 1] = k
           /\ \A i \in DOMAIN rows : rows'[i] = rows[i]
  <1>1. /\ issued' = issued + 1 /\ issued < MaxRows
        /\ rows' = [i \in DOMAIN rows \cup {issued + 1} |->
                      IF i = issued + 1 THEN k ELSE rows[i]]
        /\ issued \in 0 .. MaxRows /\ MaxRows \in Nat
        /\ DOMAIN rows \subseteq 1 .. issued /\ rows \in [DOMAIN rows -> Keys]
    BY BoundsAssumption DEF Restores!Insert, RestoreInv, Restores!TypeOK
  <1>2. issued + 1 \notin DOMAIN rows
    BY <1>1
  <1>3. /\ DOMAIN rows' = DOMAIN rows \cup {issued + 1}
        /\ rows'[issued + 1] = k
        /\ \A i \in DOMAIN rows : rows'[i] = rows[i]
        /\ rows' \in [DOMAIN rows' -> Keys]
    BY <1>1, <1>2
  <1>4. /\ DOMAIN rows' \subseteq 1 .. issued'
        /\ issued' \in issued .. MaxRows
    BY <1>1, <1>3
  <1> QED  BY <1>1, <1>3, <1>4

LEMMA RestoreCommitEntryInv ==
    ASSUME NEW r \in Requests, RestoreInv, Restores!CommitEntry(r)
    PROVE  RestoreInv'
  <1> DEFINE w == restores[r]
             v == [w EXCEPT !.op = "look", !.at = @ + 1]
             D == Restores!Disturbed(Requests \ {r})
  <1>1. /\ w.op = "create" /\ Restores!Insert(Backup[w.at])
        /\ restores' = [D EXCEPT ![r] = v]
        /\ settled' = FALSE /\ gone' = gone
    BY DEF Restores!CommitEntry, Restores!Others
  <1>2. /\ w \in [op : {"look", "create"}, at : 1 .. Len(Backup) + 1, alone : BOOLEAN]
        /\ RestoreAlone(r) /\ Restores!Merging(w)
    BY <1>1, RestoreWork DEF RestoreInv, Restores!TypeOK, Restores!Merging
  <1>3. /\ w.at <= Len(Backup) /\ Backup[w.at] \in Keys
        /\ v \in Restores!Work /\ v.op = "look" /\ v.at = w.at + 1 /\ v.alone = w.alone
    <2>1. w.at <= Len(Backup) /\ w.at \in 1 .. Len(Backup)
      BY <1>1, <1>2, RestoreEntries DEF RestoreAlone
    <2>2. Backup[w.at] \in Keys
      BY <2>1, RestoreEntries
    <2>3. w.at + 1 \in 1 .. Len(Backup) + 1
      BY <2>1, RestoreEntries
    <2>4. /\ v \in Restores!Work /\ v.op = "look" /\ v.at = w.at + 1
          /\ v.alone = w.alone
      BY <1>2, <2>3 DEF Restores!Work
    <2> QED  BY <2>1, <2>2, <2>4
  <1>4. D \in [Requests -> Restores!Work \cup {Restores!Idle}]
    BY RestoreDisturbed DEF RestoreInv
  <1>5. \A s \in Requests :
            s # r /\ restores[s] = Restores!Idle => D[s] = Restores!Idle
    BY RestoreDisturbed DEF RestoreInv, Restores!Merging, Restores!Idle
  <1> HIDE DEF D, v
  <1>6. /\ restores' \in [Requests -> Restores!Work \cup {Restores!Idle}]
        /\ \A s \in Requests : restores'[s] = IF s = r THEN v ELSE D[s]
    BY <1>1, <1>3, <1>4
  <1>7. RestoreAlone(r)'
    <2> SUFFICES ASSUME v.alone
                 PROVE  /\ \A s \in Requests \ {r} : restores'[s] = Restores!Idle
                        /\ \A i \in 1 .. v.at - 1 : Restores!RowsOf(Backup[i])' # {}
      BY <1>3, <1>6 DEF RestoreAlone
    <2>1. \A s \in Requests \ {r} : restores'[s] = Restores!Idle
      BY <1>2, <1>3, <1>5, <1>6 DEF RestoreAlone
    <2>2. ASSUME NEW i \in 1 .. w.at - 1
          PROVE  \E j \in DOMAIN rows' : rows'[j] = Backup[i]
      <3>1. PICK j \in DOMAIN rows : rows[j] = Backup[i]
        BY <1>2, <1>3 DEF RestoreAlone, Restores!RowsOf
      <3> QED  BY <1>1, <1>3, <3>1, RestoreInsert
    <2>3. \E j \in DOMAIN rows' : rows'[j] = Backup[w.at]
      BY <1>1, <1>3, RestoreInsert
    <2>4. \A i \in 1 .. v.at - 1 : i = w.at \/ i \in 1 .. w.at - 1
      BY <1>2, <1>3
    <2> QED  BY <2>1, <2>2, <2>3, <2>4 DEF Restores!RowsOf
  <1>8. ~Restores!Replacing(v) /\ ~settled' /\ settled' \in BOOLEAN
    BY <1>1, <1>3 DEF Restores!Replacing
  <1>9. /\ \A s \in Requests \ {r} : restores'[s] = D[s]
        /\ \A s \in Requests \ (Requests \ {r}) :
               ~Restores!Replacing(restores'[s]) /\ RestoreAlone(s)'
    BY <1>6, <1>7, <1>8
  <1>10. /\ issued' \in issued .. MaxRows
         /\ DOMAIN rows' \subseteq 1 .. issued'
         /\ rows' \in [DOMAIN rows' -> Keys]
         /\ \A i \in DOMAIN rows' : i > issued \/ (i \in DOMAIN rows /\ rows'[i] = rows[i])
    BY <1>1, <1>3, RestoreInsert DEF RestoreInv, Restores!TypeOK
  <1>11. gone' = gone
    BY <1>1
  <1> QED
    BY <1>6, <1>8, <1>9, <1>10, <1>11, RestoreChangedInv,
       Requests \ {r} \in SUBSET Requests DEF D

(* The rows after a replacement are the backup and what the purge left.    *)
LEMMA RestoreReplaced ==
    ASSUME NEW r \in Requests, RestoreInv, Restores!CommitReplace(r)
    PROVE  LET left == DOMAIN rows \ restores[r].deleted
               new == issued + 1 .. issued + Len(Backup)
           IN  /\ issued' = issued + Len(Backup) /\ issued' \in issued .. MaxRows
               /\ DOMAIN rows' = left \cup new
               /\ \A i \in left : rows'[i] = rows[i]
               /\ \A i \in new : rows'[i] = Backup[i - issued]
               /\ rows' \in [DOMAIN rows' -> Keys]
               /\ DOMAIN rows' \subseteq 1 .. issued'
  <1> DEFINE left == DOMAIN rows \ restores[r].deleted
             new == issued + 1 .. issued + Len(Backup)
  <1>1. /\ issued' = issued + Len(Backup) /\ issued + Len(Backup) <= MaxRows
        /\ rows' = [i \in left \cup new |->
                      IF i \in new THEN Backup[i - issued] ELSE rows[i]]
    BY DEF Restores!CommitReplace, Restores!Wiped
  <1>2. /\ issued \in 0 .. MaxRows /\ MaxRows \in Nat
        /\ DOMAIN rows \subseteq 1 .. issued /\ rows \in [DOMAIN rows -> Keys]
    BY BoundsAssumption DEF RestoreInv, Restores!TypeOK
  <1>3. /\ DOMAIN rows' = left \cup new
        /\ \A i \in new : rows'[i] = Backup[i - issued]
    BY <1>1
  <1>4. \A i \in left : i \notin new /\ rows'[i] = rows[i]
    BY <1>1, <1>2, RestoreEntries
  <1>5. \A i \in new : i - issued \in 1 .. Len(Backup) /\ rows'[i] \in Keys
    BY <1>2, <1>3, RestoreEntries
  <1>6. rows' \in [DOMAIN rows' -> Keys]
    BY <1>1, <1>2, <1>4, <1>5
  <1>7. DOMAIN rows' \subseteq 1 .. issued' /\ issued' \in issued .. MaxRows
    BY <1>1, <1>2, <1>3, RestoreEntries
  <1> QED  BY <1>1, <1>3, <1>4, <1>6, <1>7

LEMMA RestoreCommitReplaceInv ==
    ASSUME NEW r \in Requests, RestoreInv, Restores!CommitReplace(r)
    PROVE  RestoreInv'
  <1> DEFINE D == Restores!Disturbed(Requests \ {r})
  <1>1. /\ restores' = [D EXCEPT ![r] = Restores!Idle]
        /\ settled' = FALSE /\ gone' = gone /\ settled' \in BOOLEAN
    BY DEF Restores!CommitReplace, Restores!Others
  <1>2. D \in [Requests -> Restores!Work \cup {Restores!Idle}]
    BY RestoreDisturbed DEF RestoreInv
  <1> HIDE DEF D
  <1>3. /\ restores' \in [Requests -> Restores!Work \cup {Restores!Idle}]
        /\ \A s \in Requests : restores'[s] = IF s = r THEN Restores!Idle ELSE D[s]
    BY <1>1, <1>2
  <1>4. /\ \A s \in Requests \ {r} : restores'[s] = D[s]
        /\ \A s \in Requests \ (Requests \ {r}) :
               ~Restores!Replacing(restores'[s]) /\ RestoreAlone(s)'
    BY <1>3 DEF Restores!Replacing, Restores!Merging, Restores!Idle, RestoreAlone
  <1>5. issued \in Nat /\ Len(Backup) \in Nat
    BY RestoreEntries DEF RestoreInv, Restores!TypeOK
  <1>6. \A i \in DOMAIN rows' : i > issued \/ (i \in DOMAIN rows /\ rows'[i] = rows[i])
    <2> SUFFICES ASSUME NEW i \in DOMAIN rows'
                 PROVE  i > issued \/ (i \in DOMAIN rows /\ rows'[i] = rows[i])
      OBVIOUS
    <2>1. CASE i \in DOMAIN rows \ restores[r].deleted
      BY <2>1, RestoreReplaced
    <2>2. CASE i \in issued + 1 .. issued + Len(Backup)
      BY <1>5, <2>2
    <2> QED  BY <2>1, <2>2, RestoreReplaced
  <1>7. /\ issued' \in issued .. MaxRows
        /\ DOMAIN rows' \subseteq 1 .. issued'
        /\ rows' \in [DOMAIN rows' -> Keys]
    BY RestoreReplaced
  <1> QED
    BY <1>1, <1>3, <1>4, <1>6, <1>7, RestoreChangedInv,
       Requests \ {r} \in SUBSET Requests DEF D

LEMMA RestoreOthersInv ==
    ASSUME RestoreInv,
           \/ \E k \in Keys : Restores!CreateRow(k)
           \/ \E i \in Restores!RowIds : Restores!DeleteRow(i)
    PROVE  RestoreInv'
  <1>1. /\ restores' = Restores!Disturbed(Requests)
        /\ settled' = FALSE /\ gone' = gone /\ settled' \in BOOLEAN
    BY DEF Restores!CreateRow, Restores!DeleteRow
  <1>2. restores' \in [Requests -> Restores!Work \cup {Restores!Idle}]
    BY <1>1, RestoreDisturbed, Requests \in SUBSET Requests DEF RestoreInv
  <1>3. /\ issued' \in issued .. MaxRows
        /\ DOMAIN rows' \subseteq 1 .. issued'
        /\ rows' \in [DOMAIN rows' -> Keys]
        /\ \A i \in DOMAIN rows' : i > issued \/ (i \in DOMAIN rows /\ rows'[i] = rows[i])
    <2>1. CASE \E k \in Keys : Restores!CreateRow(k)
      BY <2>1, RestoreInsert DEF Restores!CreateRow, RestoreInv, Restores!TypeOK
    <2>2. CASE \E i \in Restores!RowIds : Restores!DeleteRow(i)
      <3>1. PICK i : Restores!DeleteRow(i)
        BY <2>2
      <3>2. /\ rows' = [j \in DOMAIN rows \ {i} |-> rows[j]]
            /\ issued' = issued /\ issued \in 0 .. MaxRows
            /\ DOMAIN rows \subseteq 1 .. issued /\ rows \in [DOMAIN rows -> Keys]
        BY <3>1 DEF Restores!DeleteRow, RestoreInv, Restores!TypeOK
      <3> QED  BY <3>2, BoundsAssumption
    <2> QED  BY <2>1, <2>2
  <1>4. ~settled' /\ settled' \in BOOLEAN /\ gone' = gone
    BY <1>1
  <1>5. \A s \in Requests : restores'[s] = Restores!Disturbed(Requests)[s]
    BY <1>1
  <1> QED
    BY <1>2, <1>3, <1>4, <1>5, RestoreChangedInv, Requests \in SUBSET Requests,
       Requests \ Requests = {}

LEMMA RestoreDeleteTargetInv ==
    ASSUME NEW k \in Keys, RestoreInv, Restores!DeleteTarget(k)
    PROVE  RestoreInv'
  BY DEF Restores!DeleteTarget, RestoreInv, Restores!TypeOK, Restores!MergedForGood,
         Restores!RowsOf, RestoreAlone, RestoreSwept

LEMMA RestoreNextInv == RestoreInv /\ [Restores!Next]_Restores!vars => RestoreInv'
  <1> SUFFICES ASSUME RestoreInv, [Restores!Next]_Restores!vars PROVE RestoreInv'
    OBVIOUS
  <1>1. CASE UNCHANGED Restores!vars
    BY <1>1 DEF Restores!vars, RestoreInv, Restores!TypeOK, Restores!MergedForGood,
                Restores!RowsOf, RestoreAlone, RestoreSwept
  <1>2. CASE Restores!Next
    BY <1>2, RestoreBeginInv, RestoreReadsInv, RestoreEndMergeInv,
       RestoreCommitEntryInv, RestoreCommitReplaceInv, RestoreOthersInv,
       RestoreDeleteTargetInv
       DEF Restores!Next
  <1> QED  BY <1>1, <1>2

THEOREM RestoreInvariance == Restores!Spec => []RestoreInv
  BY RestoreInitInv, RestoreNextInv, PTL DEF Restores!Spec

(* Once a merge has run through undisturbed, whatever attempts failed      *)
(* before it, every entry has a row and no merge is about to create one,   *)
(* for any backup and any number of restores, until a row is changed.      *)
THEOREM MergesOnce == Restores!Spec => []MergedForGood
  <1>1. RestoreInv => MergedForGood
    BY DEF RestoreInv, MergedForGood
  <1> QED  BY <1>1, RestoreInvariance, PTL

(* No call but its own moves a replace on, and only its commit changes a   *)
(* row: all the tables are behind it then.                                 *)
LEMMA RestoreWhole ==
    ASSUME RestoreInv, Restores!Next
    PROVE  Restores!ReplaceIsWholeStep
  <1> SUFFICES ASSUME NEW r \in Requests, Restores!Replacing(restores[r]),
                      restores'[r] # restores[r], rows' # rows
               PROVE  /\ \A i \in DOMAIN rows' : i > restores[r].before
                      /\ \A k \in Restores!Entries :
                             \E i \in DOMAIN rows' : i > issued /\ rows'[i] = k
    BY DEF Restores!ReplaceIsWholeStep
  <1> DEFINE w == restores[r]
  <1>1. ~Restores!Merging(w)
    BY DEF Restores!Merging, Restores!Replacing
  <1>2. ASSUME NEW R \in SUBSET Requests PROVE Restores!Disturbed(R)[r] = w
    BY <1>1, RestoreDisturbed DEF RestoreInv
  <1>3. ASSUME NEW s \in Requests, Restores!CommitEntry(s) PROVE FALSE
    <2>1. s # r /\ restores'[r] = Restores!Disturbed(Requests \ {s})[r]
      BY <1>1, <1>3, RestoreDisturbed
         DEF Restores!CommitEntry, Restores!Merging, Restores!Others, RestoreInv,
             Restores!Disturbed
    <2> QED  BY <1>2, <2>1
  <1>4. ASSUME NEW s \in Requests, Restores!CommitReplace(s), s # r PROVE FALSE
    <2>1. restores'[r] = Restores!Disturbed(Requests \ {s})[r]
      BY <1>4 DEF Restores!CommitReplace, Restores!Others, Restores!Disturbed
    <2> QED  BY <1>2, <2>1
  <1>5. /\ \A k \in Keys : ~Restores!CreateRow(k)
        /\ \A i \in Restores!RowIds : ~Restores!DeleteRow(i)
    BY <1>2, Requests \in SUBSET Requests DEF Restores!CreateRow, Restores!DeleteRow
  <1>6. Restores!CommitReplace(r)
    BY <1>3, <1>4, <1>5
       DEF Restores!Next, Restores!RestoreMerge, Restores!RestoreReplace,
           Restores!Begin, Restores!Become, Restores!Look, Restores!EndMerge,
           Restores!StartDelete, Restores!FinishDelete, Restores!Fails,
           Restores!DeleteTarget
  <1>7. /\ RestoreSwept(r) /\ w.at > Len(Tables)
        /\ w \in [op : {"sweep", "wait"}, at : 1 .. Len(Tables) + 1,
                  found : SUBSET Restores!RowIds,
                  deleted : SUBSET Restores!RowIds, before : 0 .. MaxRows]
        /\ issued \in Nat /\ DOMAIN rows \subseteq 1 .. issued
        /\ \A i \in DOMAIN rows : rows[i] \in Keys
    BY <1>6, RestoreWork DEF RestoreInv, Restores!TypeOK, Restores!CommitReplace
  <1>8. \A i \in DOMAIN rows \ w.deleted : i > w.before
    <2> SUFFICES ASSUME NEW i \in DOMAIN rows, i <= w.before PROVE i \in w.deleted
      BY <1>7
    <2>1. PICK j \in 1 .. Len(Tables) : Tables[j] = rows[i].table
      BY <1>7, TablesAssumption, RestoreEntries
    <2>2. j \in 1 .. w.at - 1
      BY <1>7, <2>1, RestoreEntries
    <2> QED  BY <1>7, <2>1, <2>2 DEF RestoreSwept
  <1>9. \A i \in issued + 1 .. issued + Len(Backup) : i > w.before
    BY <1>7, RestoreEntries DEF RestoreSwept
  <1>10. ASSUME NEW k \in Restores!Entries
         PROVE  \E i \in DOMAIN rows' : i > issued /\ rows'[i] = k
    <2>1. PICK j \in 1 .. Len(Backup) : Backup[j] = k
      BY RestoreEntries DEF Restores!Entries
    <2>2. issued + j \in issued + 1 .. issued + Len(Backup)
      BY <1>7, <2>1, RestoreEntries
    <2>3. (issued + j) - issued = j
      BY <1>7, <2>1, RestoreEntries
    <2>4. rows'[issued + j] = Backup[j] /\ issued + j \in DOMAIN rows'
      BY <1>6, <2>2, <2>3, RestoreReplaced
    <2> QED  BY <1>7, <2>1, <2>2, <2>4
  <1> QED  BY <1>6, <1>8, <1>9, <1>10, RestoreReplaced

(* A replacing restore, with any tables, rows and other restores beside    *)
(* it, leaves nothing of what was there when it began and puts the whole   *)
(* backup there, or changes nothing.                                       *)
THEOREM ReplacesAll == Restores!Spec => ReplaceIsWhole
  <1>1. RestoreInv /\ [Restores!Next]_Restores!vars
        => [Restores!ReplaceIsWholeStep]_restoreVars
    BY RestoreWhole DEF Restores!vars, restoreVars
  <1> QED  BY <1>1, RestoreInvariance, PTL DEF Restores!Spec, ReplaceIsWhole

-----------------------------------------------------------------------------
(* A refresh beside which nobody has changed the row holds its refresh     *)
(* token.                                                                  *)
GoogleCurrent(r) ==
    work[r].op = "refresh" /\ ~work[r].crossed =>
        \A now \in row, copy \in work[r].seen : now.refresh = copy.refresh

(* What the row, and what is on its way to it, is of consents there were;  *)
(* a file that is on its way to a record has been uploaded.                *)
GoogleGranted ==
    /\ \A i \in row : i.access <= grants
    /\ \A r \in Requests :
           /\ work[r].op = "connect" => work[r].grant <= grants
           /\ work[r].op = "refresh" => \A i \in work[r].seen : i.refresh <= grants
           /\ work[r].op = "record" => work[r].file <= files

GoogleInv ==
    /\ Google!TypeOK
    /\ Google!ConsentKept
    /\ GoogleGranted
    /\ \A r \in Requests : GoogleCurrent(r)

LEMMA GoogleInitInv == Google!Init => GoogleInv
  <1> SUFFICES ASSUME Google!Init PROVE GoogleInv
    OBVIOUS
  <1>1. Google!TypeOK
    <2>1. /\ row \in Google!Rows /\ revoked \subseteq 1 .. grants /\ records \subseteq 1 .. files
          /\ work \in [Requests -> Google!Work \cup {Google!Idle}]
      BY DEF Google!Init, Google!Rows
    <2>2. grants \in 0 .. MaxGrants /\ files \in 0 .. MaxFiles /\ consent \in 0 .. grants
      BY BoundsAssumption DEF Google!Init
    <2>3. mixed \in BOOLEAN
      BY DEF Google!Init
    <2> QED  BY <2>1, <2>2, <2>3 DEF Google!TypeOK
  <1> QED
    BY <1>1 DEF Google!Init, GoogleInv, Google!ConsentKept, GoogleGranted,
                GoogleCurrent, Google!Idle

(* What each kind of call has on hand.                                     *)
LEMMA GoogleWork ==
    ASSUME NEW w \in Google!Work \cup {Google!Idle}
    PROVE  /\ w.op = "connect" => w.grant \in Google!Grants /\ w.seen \in Google!Rows
           /\ w.op = "refresh" =>
                  w \in [op : {"refresh"}, seen : Google!Rows, crossed : BOOLEAN]
           /\ w.op = "disconnect" => w.seen \in Google!Rows
           /\ w.op = "upload" => w.grant \in Google!Grants
           /\ w.op = "record" => w.file \in Google!Files
  BY DEF Google!Work, Google!Idle

LEMMA GoogleRow ==
    ASSUME NEW seen \in Google!Rows, NEW i \in seen
    PROVE  /\ i \in Google!Row /\ seen = {i}
           /\ i.id \in Google!Grants /\ i.access \in Google!Grants
           /\ i.refresh \in Google!Grants
  BY DEF Google!Rows, Google!Row

LEMMA GoogleNumbers ==
    ASSUME Google!TypeOK
    PROVE  /\ grants \in 0 .. MaxGrants /\ files \in 0 .. MaxFiles
           /\ Google!Grants = 1 .. MaxGrants /\ Google!Files = 1 .. MaxFiles
           /\ MaxGrants \in Nat /\ MaxFiles \in Nat
           /\ consent \in 0 .. grants
  BY BoundsAssumption DEF Google!TypeOK, Google!Grants, Google!Files

(* A call that leaves the row alone: what it goes on with is right, and    *)
(* the rest of the state may only grow.                                    *)
LEMMA GoogleQuietInv ==
    ASSUME NEW r \in Requests, NEW w \in Google!Work \cup {Google!Idle}, GoogleInv,
           work' = [work EXCEPT ![r] = w],
           UNCHANGED <<row, mixed, consent>>,
           grants' \in grants .. MaxGrants, files' \in files .. MaxFiles,
           revoked' \subseteq 1 .. grants', records' \subseteq 1 .. files',
           w.op = "connect" => w.grant <= grants',
           w.op = "refresh" => w.seen = row,
           w.op = "record" => w.file <= files'
    PROVE  GoogleInv'
  <1>1. \A s \in Requests : work'[s] = IF s = r THEN w ELSE work[s]
    BY DEF GoogleInv, Google!TypeOK
  <1>2. /\ Google!TypeOK /\ grants' \in 0 .. MaxGrants /\ files' \in 0 .. MaxFiles
        /\ grants <= grants' /\ files <= files' /\ consent' \in 0 .. grants'
    BY GoogleNumbers DEF GoogleInv
  <1>3. Google!TypeOK'
    BY <1>2 DEF Google!TypeOK
  <1>4. GoogleGranted'
    <2>1. \A i \in row : /\ i.access \in Int /\ i.refresh \in Int
                         /\ i.refresh <= grants' /\ i.access <= grants'
      <3> TAKE i \in row
      <3>1. i.access \in Google!Grants /\ i.refresh \in Google!Grants
        BY GoogleRow DEF GoogleInv, Google!TypeOK
      <3>2. i.refresh = consent /\ i.access <= grants
        BY DEF GoogleInv, Google!ConsentKept, GoogleGranted
      <3> QED  BY <1>2, <3>1, <3>2, GoogleNumbers
    <2>2. ASSUME NEW s \in Requests
          PROVE  /\ work'[s].op = "connect" => work'[s].grant <= grants'
                 /\ work'[s].op = "refresh" =>
                        \A i \in work'[s].seen : i.refresh <= grants'
                 /\ work'[s].op = "record" => work'[s].file <= files'
      <3>1. CASE s = r
        BY <1>1, <2>1, <3>1
      <3>2. CASE s # r
        <4>1. work'[s] = work[s] /\ work[s] \in Google!Work \cup {Google!Idle}
          BY <1>1, <1>2, <3>2 DEF Google!TypeOK
        <4>2. work[s].op = "connect" => work[s].grant \in Int /\ work[s].grant <= grants
          BY <1>2, <4>1, GoogleWork, GoogleNumbers DEF GoogleInv, GoogleGranted
        <4>3. work[s].op = "record" => work[s].file \in Int /\ work[s].file <= files
          BY <1>2, <4>1, GoogleWork, GoogleNumbers DEF GoogleInv, GoogleGranted
        <4>4. work[s].op = "refresh" =>
                  \A i \in work[s].seen : i.refresh \in Int /\ i.refresh <= grants
          BY <1>2, <4>1, GoogleWork, GoogleRow, GoogleNumbers
             DEF GoogleInv, GoogleGranted
        <4> QED  BY <1>2, <4>1, <4>2, <4>3, <4>4, GoogleNumbers
      <3> QED  BY <3>1, <3>2
    <2> QED  BY <2>1, <2>2 DEF GoogleGranted
  <1>5. Google!ConsentKept'
    BY DEF GoogleInv, Google!ConsentKept
  <1>6. ASSUME NEW s \in Requests PROVE GoogleCurrent(s)'
    <2>1. CASE s = r
      <3>1. row \in Google!Rows
        BY <1>2 DEF Google!TypeOK
      <3> QED  BY <1>1, <2>1, <3>1, GoogleRow DEF GoogleCurrent
    <2>2. CASE s # r
      BY <1>1, <2>2 DEF GoogleInv, GoogleCurrent
    <2> QED  BY <2>1, <2>2
  <1> QED  BY <1>3, <1>4, <1>5, <1>6 DEF GoogleInv

(* A commit of the row: every refresh on its way knows that it has been    *)
(* overtaken.                                                              *)
LEMMA GoogleProceedInv ==
    ASSUME NEW r \in Requests, NEW w \in Google!Work \cup {Google!Idle}, GoogleInv,
           Google!Proceed(r, w), w.op \in {"idle", "upload"},
           UNCHANGED <<grants, files, revoked, records>>,
           row' \in Google!Rows, mixed' \in BOOLEAN, consent' \in 0 .. grants,
           Google!ConsentKept',
           \A i \in row' : i.access <= grants
    PROVE  GoogleInv'
  <1>1. \A s \in Requests :
            work'[s] = IF s = r THEN w
                       ELSE IF work[s].op = "refresh"
                            THEN [work[s] EXCEPT !.crossed = TRUE] ELSE work[s]
    BY DEF Google!Proceed
  <1>2. ASSUME NEW s \in Requests, s # r, work[s].op = "refresh"
        PROVE  /\ work'[s] \in Google!Work /\ work'[s].crossed
               /\ work'[s].op = "refresh" /\ work'[s].seen = work[s].seen
    <2>1. work[s] \in [op : {"refresh"}, seen : Google!Rows, crossed : BOOLEAN]
      BY <1>2, GoogleWork DEF GoogleInv, Google!TypeOK
    <2> QED  BY <1>1, <1>2, <2>1 DEF Google!Work
  <1>3. Google!TypeOK'
    <2>1. \A s \in Requests : work'[s] \in Google!Work \cup {Google!Idle}
      BY <1>1, <1>2 DEF GoogleInv, Google!TypeOK
    <2>2. work' \in [Requests -> Google!Work \cup {Google!Idle}]
      BY <2>1 DEF Google!Proceed
    <2> QED  BY <2>2 DEF GoogleInv, Google!TypeOK
  <1>4. GoogleGranted'
    BY <1>1, <1>2 DEF GoogleInv, GoogleGranted
  <1>5. \A s \in Requests : GoogleCurrent(s)'
    BY <1>1, <1>2 DEF GoogleInv, GoogleCurrent
  <1> QED  BY <1>3, <1>4, <1>5 DEF GoogleInv

LEMMA GoogleReadsInv ==
    ASSUME NEW r \in Requests, GoogleInv,
           \/ Google!Connect(r) \/ Google!TakeToken(r) \/ Google!Refresh(r)
           \/ Google!Disconnect(r) \/ Google!Upload(r) \/ Google!CommitRecord(r)
           \/ Google!Fails(r)
    PROVE  GoogleInv'
  <1>1. /\ row \in Google!Rows /\ work \in [Requests -> Google!Work \cup {Google!Idle}]
        /\ revoked \subseteq 1 .. grants /\ records \subseteq 1 .. files
        /\ grants \in grants .. MaxGrants /\ files \in files .. MaxFiles
    BY GoogleNumbers DEF GoogleInv, Google!TypeOK
  <1>2. CASE Google!Connect(r)
    <2> DEFINE w == [op |-> "connect", grant |-> grants + 1, seen |-> row]
    <2>1. grants' = grants + 1 /\ grants' \in Google!Grants /\ grants' \in grants .. MaxGrants
      BY <1>2, GoogleNumbers DEF Google!Connect, GoogleInv
    <2>2. w \in Google!Work /\ w.op = "connect" /\ w.grant <= grants'
      BY <1>1, <2>1, GoogleNumbers DEF Google!Work, GoogleInv
    <2>3. /\ work' = [work EXCEPT ![r] = w]
          /\ UNCHANGED <<row, revoked, mixed, consent, files, records>>
      BY <1>2 DEF Google!Connect, Google!Begin
    <2>4. revoked' \subseteq 1 .. grants'
      BY <1>1, <2>1, <2>3, GoogleNumbers DEF GoogleInv
    <2> HIDE DEF w
    <2> QED  BY <1>1, <2>1, <2>2, <2>3, <2>4, GoogleQuietInv
  <1>3. CASE Google!TakeToken(r)
    <2>1. PICK i \in row : Google!Begin(r, [op |-> "upload", grant |-> i.access])
      BY <1>3 DEF Google!TakeToken
    <2> DEFINE w == [op |-> "upload", grant |-> i.access]
    <2>2. w \in Google!Work /\ w.op = "upload"
      BY <1>1, GoogleRow DEF Google!Work
    <2>3. /\ work' = [work EXCEPT ![r] = w]
          /\ UNCHANGED <<row, grants, revoked, mixed, consent, files, records>>
      BY <1>3, <2>1 DEF Google!TakeToken, Google!Begin
    <2> HIDE DEF w
    <2> QED  BY <1>1, <2>2, <2>3, GoogleQuietInv
  <1>4. CASE Google!Refresh(r)
    <2> DEFINE w == [op |-> "refresh", seen |-> row, crossed |-> FALSE]
    <2>1. w \in Google!Work /\ w.op = "refresh" /\ w.seen = row
      BY <1>1 DEF Google!Work
    <2>2. /\ work' = [work EXCEPT ![r] = w]
          /\ UNCHANGED <<row, grants, revoked, mixed, consent, files, records>>
      BY <1>4 DEF Google!Refresh, Google!Begin
    <2> HIDE DEF w
    <2> QED  BY <1>1, <2>1, <2>2, GoogleQuietInv
  <1>5. CASE Google!Disconnect(r)
    <2> DEFINE w == [op |-> "disconnect", seen |-> row]
    <2>1. w \in Google!Work /\ w.op = "disconnect"
      BY <1>1 DEF Google!Work
    <2>2. /\ work' = [work EXCEPT ![r] = w]
          /\ UNCHANGED <<row, grants, mixed, consent, files, records>>
          /\ \E i \in row : revoked' \subseteq revoked \cup {i.access}
      BY <1>5 DEF Google!Disconnect, Google!Begin
    <2>3. \A i \in row : i.access \in 1 .. grants
      BY <1>1, GoogleRow, GoogleNumbers DEF GoogleInv, GoogleGranted
    <2>4. revoked' \subseteq 1 .. grants'
      BY <1>1, <2>2, <2>3
    <2> HIDE DEF w
    <2> QED  BY <1>1, <2>1, <2>2, <2>4, GoogleQuietInv
  <1>6. CASE Google!Upload(r)
    <2> DEFINE w == [op |-> "record", file |-> files + 1]
    <2>1. files' = files + 1 /\ files' \in Google!Files /\ files' \in files .. MaxFiles
      BY <1>6, GoogleNumbers DEF Google!Upload, GoogleInv
    <2>2. w \in Google!Work /\ w.op = "record" /\ w.file <= files'
      BY <2>1, GoogleNumbers DEF Google!Work, GoogleInv
    <2>3. /\ work' = [work EXCEPT ![r] = w]
          /\ UNCHANGED <<row, grants, revoked, mixed, consent, records>>
      BY <1>6 DEF Google!Upload
    <2>4. records' \subseteq 1 .. files'
      BY <1>1, <2>1, <2>3, GoogleNumbers DEF GoogleInv
    <2> HIDE DEF w
    <2> QED  BY <1>1, <2>1, <2>2, <2>3, <2>4, GoogleQuietInv
  <1>7. CASE Google!CommitRecord(r)
    <2>1. /\ work' = [work EXCEPT ![r] = Google!Idle]
          /\ UNCHANGED <<row, grants, revoked, mixed, consent, files>>
          /\ records' = records \cup {work[r].file} /\ work[r].op = "record"
      BY <1>7 DEF Google!CommitRecord
    <2>2. work[r].file \in 1 .. files
      BY <1>1, <2>1, GoogleWork, GoogleNumbers DEF GoogleInv, GoogleGranted
    <2>3. records' \subseteq 1 .. files'
      BY <1>1, <2>1, <2>2
    <2> QED  BY <1>1, <2>1, <2>3, GoogleQuietInv, Google!Idle.op = "idle" DEF Google!Idle
  <1>8. CASE Google!Fails(r)
    BY <1>1, <1>8, GoogleQuietInv, Google!Idle.op = "idle" DEF Google!Fails, Google!Idle
  <1> QED  BY <1>2, <1>3, <1>4, <1>5, <1>6, <1>7, <1>8

LEMMA GoogleCommitConnectInv ==
    ASSUME NEW r \in Requests, GoogleInv, Google!CommitConnect(r)
    PROVE  GoogleInv'
  <1> DEFINE w == work[r]
             id == IF w.seen = {} THEN w.grant ELSE (CHOOSE i \in w.seen : TRUE).id
             new == [id |-> id, access |-> w.grant, refresh |-> w.grant, fresh |-> TRUE]
  <1>1. /\ w.op = "connect" /\ row' = {new} /\ consent' = w.grant /\ mixed' = FALSE
        /\ Google!Proceed(r, Google!Idle)
        /\ UNCHANGED <<grants, revoked, files, records>>
    BY DEF Google!CommitConnect
  <1>2. w.grant \in Google!Grants /\ w.seen \in Google!Rows /\ w.grant <= grants
    BY <1>1, GoogleWork DEF GoogleInv, Google!TypeOK, GoogleGranted
  <1>3. id \in Google!Grants
    BY <1>2, GoogleRow
  <1> HIDE DEF id
  <1>4. new \in Google!Row /\ new.access = w.grant /\ new.refresh = w.grant
    BY <1>2, <1>3 DEF Google!Row
  <1> HIDE DEF new
  <1>5. row' \in Google!Rows /\ mixed' \in BOOLEAN /\ consent' \in 0 .. grants
    <2>1. row' \in Google!Rows /\ mixed' \in BOOLEAN
      BY <1>1, <1>4 DEF Google!Rows
    <2>2. w.grant \in 0 .. grants
      BY <1>2, GoogleNumbers DEF GoogleInv
    <2> QED  BY <1>1, <2>1, <2>2
  <1>6. Google!ConsentKept' /\ \A i \in row' : i.access <= grants
    BY <1>1, <1>2, <1>4 DEF Google!ConsentKept
  <1> QED
    BY <1>1, <1>5, <1>6, GoogleProceedInv, Google!Idle.op = "idle" DEF Google!Idle

(* A refresh leaves the refresh token, and writes an access token of it    *)
(* unless it has been overtaken.                                           *)
LEMMA GoogleCommitRefreshInv ==
    ASSUME NEW r \in Requests, GoogleInv, Google!CommitRefresh(r)
    PROVE  GoogleInv'
  <1> DEFINE w == work[r]
  <1>1. PICK now \in row, copy \in w.seen :
            /\ row' = {Google!NewTokens(now, copy)}
            /\ Google!Proceed(r, [op |-> "upload", grant |-> copy.refresh])
    BY DEF Google!CommitRefresh
  <1>2. /\ w.op = "refresh" /\ mixed' = w.crossed
        /\ UNCHANGED <<grants, revoked, consent, files, records>>
    BY DEF Google!CommitRefresh
  <1>3. /\ now \in Google!Row /\ copy.refresh \in Google!Grants
        /\ w.crossed \in BOOLEAN /\ copy.refresh <= grants
    BY <1>1, <1>2, GoogleWork, GoogleRow DEF GoogleInv, Google!TypeOK, GoogleGranted
  <1> DEFINE new == Google!NewTokens(now, copy)
             v == [op |-> "upload", grant |-> copy.refresh]
  <1>4. /\ new \in Google!Row /\ new.access = copy.refresh
        /\ new.refresh = now.refresh
    BY <1>3 DEF Google!NewTokens, Google!Row
  <1> HIDE DEF new
  <1>5. row' \in Google!Rows /\ mixed' \in BOOLEAN /\ consent' \in 0 .. grants
    BY <1>1, <1>2, <1>3, <1>4, GoogleNumbers DEF Google!Rows, GoogleInv, new
  <1>6. Google!ConsentKept' /\ \A i \in row' : i.access <= grants
    <2>1. now.refresh = consent /\ (w.crossed \/ copy.refresh = now.refresh)
      BY <1>1, <1>2 DEF GoogleInv, Google!ConsentKept, GoogleCurrent
    <2> QED  BY <1>1, <1>2, <1>3, <1>4, <2>1 DEF Google!ConsentKept, new
  <1>7. v \in Google!Work /\ v.op = "upload"
    BY <1>3 DEF Google!Work
  <1> QED  BY <1>1, <1>2, <1>5, <1>6, <1>7, GoogleProceedInv

LEMMA GoogleCommitDisconnectInv ==
    ASSUME NEW r \in Requests, GoogleInv, Google!CommitDisconnect(r)
    PROVE  GoogleInv'
  <1>1. /\ row' \in {{}, row} /\ mixed' = (mixed /\ row' # {})
        /\ Google!Proceed(r, Google!Idle)
        /\ UNCHANGED <<grants, revoked, consent, files, records>>
    BY DEF Google!CommitDisconnect
  <1>2. row' \in Google!Rows /\ mixed' \in BOOLEAN /\ consent' \in 0 .. grants
    BY <1>1 DEF GoogleInv, Google!TypeOK, Google!Rows
  <1>3. Google!ConsentKept' /\ \A i \in row' : i.access <= grants
    BY <1>1 DEF GoogleInv, Google!ConsentKept, GoogleGranted
  <1> QED
    BY <1>1, <1>2, <1>3, GoogleProceedInv, Google!Idle.op = "idle" DEF Google!Idle

LEMMA GoogleExpireInv ==
    ASSUME GoogleInv, Google!Expire
    PROVE  GoogleInv'
  <1>1. PICK i \in row : row' = {[i EXCEPT !.fresh = FALSE]}
    BY DEF Google!Expire
  <1>2. i \in Google!Row
    BY GoogleRow DEF GoogleInv, Google!TypeOK
  <1> DEFINE new == [i EXCEPT !.fresh = FALSE]
  <1>3. new \in Google!Row /\ new.access = i.access /\ new.refresh = i.refresh
    BY <1>2 DEF Google!Row
  <1>4. UNCHANGED <<grants, revoked, work, mixed, consent, files, records>>
    BY DEF Google!Expire
  <1> HIDE DEF new
  <1>5. Google!TypeOK'
    BY <1>1, <1>3, <1>4 DEF GoogleInv, Google!TypeOK, Google!Rows, new
  <1> QED
    BY <1>1, <1>3, <1>4, <1>5
       DEF GoogleInv, Google!ConsentKept, GoogleGranted, GoogleCurrent, new

LEMMA GoogleWithdrawInv ==
    ASSUME NEW g \in Google!Grants, GoogleInv, Google!Withdraw(g)
    PROVE  GoogleInv'
  <1>1. /\ UNCHANGED <<row, grants, work, mixed, consent, files, records>>
        /\ revoked' = revoked \cup {g} /\ g <= grants
    BY DEF Google!Withdraw
  <1>2. g \in 1 .. grants
    BY <1>1, GoogleNumbers DEF GoogleInv
  <1>3. Google!TypeOK'
    BY <1>1, <1>2 DEF GoogleInv, Google!TypeOK
  <1> QED
    BY <1>1, <1>3 DEF GoogleInv, Google!ConsentKept, GoogleGranted, GoogleCurrent

LEMMA GoogleNextInv == GoogleInv /\ [Google!Next]_Google!vars => GoogleInv'
  <1> SUFFICES ASSUME GoogleInv, [Google!Next]_Google!vars PROVE GoogleInv'
    OBVIOUS
  <1>1. CASE UNCHANGED Google!vars
    BY <1>1 DEF Google!vars, GoogleInv, Google!TypeOK, Google!ConsentKept,
                GoogleGranted, GoogleCurrent
  <1>2. CASE Google!Next
    BY <1>2, GoogleReadsInv, GoogleCommitConnectInv, GoogleCommitRefreshInv,
       GoogleCommitDisconnectInv, GoogleExpireInv, GoogleWithdrawInv
       DEF Google!Next
  <1> QED  BY <1>1, <1>2

THEOREM GoogleInvariance == Google!Spec => []GoogleInv
  BY GoogleInitInv, GoogleNextInv, PTL DEF Google!Spec

(* Connections, refreshes and disconnections that wait for Google and then *)
(* commit what they have, in any order, leave the refresh token of the     *)
(* consent committed last, and an access token of the same one unless a    *)
(* refresh was overtaken.                                                  *)
THEOREM LastConsent == Google!Spec => []ConsentKept
  <1>1. GoogleInv => ConsentKept
    BY DEF GoogleInv, ConsentKept
  <1> QED  BY <1>1, GoogleInvariance, PTL


-----------------------------------------------------------------------------
(* What is proved of a part alone holds beside the others.                 *)
THEOREM EachPart ==
    AllSpec => Spec /\ Shelf!Spec /\ Sessions!Spec /\ Restores!Spec /\ Google!Spec
  <1>1. AllInit => /\ Init /\ Shelf!Init /\ Sessions!Init /\ Restores!Init
                   /\ Google!Init
    BY DEF AllInit
  <1>2. [AllNext]_allVars => [Next]_vars
    BY DEF AllNext, ChatStep, ShelfStep, SessionStep, RestoreStep, GoogleStep, allVars
  <1>3. [AllNext]_allVars => [Shelf!Next]_Shelf!vars
    BY DEF AllNext, ChatStep, ShelfStep, SessionStep, RestoreStep, GoogleStep,
           allVars, shelfVars, Shelf!vars
  <1>4. [AllNext]_allVars => [Sessions!Next]_Sessions!vars
    BY DEF AllNext, ChatStep, ShelfStep, SessionStep, RestoreStep, GoogleStep,
           allVars, sessionVars, Sessions!vars
  <1>5. [AllNext]_allVars => [Restores!Next]_Restores!vars
    BY DEF AllNext, ChatStep, ShelfStep, SessionStep, RestoreStep, GoogleStep,
           allVars, restoreVars, Restores!vars
  <1>6. [AllNext]_allVars => [Google!Next]_Google!vars
    BY DEF AllNext, ChatStep, ShelfStep, SessionStep, RestoreStep, GoogleStep,
           allVars, googleVars, Google!vars
  <1> QED
    BY <1>1, <1>2, <1>3, <1>4, <1>5, <1>6, PTL
       DEF AllSpec, Spec, Shelf!Spec, Sessions!Spec, Restores!Spec, Google!Spec

(* Every variable of every part keeps its type: for backup records, that   *)
(* the file has been uploaded.                                             *)
THEOREM AllTypes == AllSpec => []TypesOK
  <1>1. IInv => TypeOK
    BY DEF IInv
  <1>2. ShelfInv => Shelf!TypeOK
    BY DEF ShelfInv
  <1>3. SessionInv => Sessions!TypeOK
    BY DEF SessionInv
  <1>4. RestoreInv => Restores!TypeOK
    BY DEF RestoreInv
  <1>5. GoogleInv => Google!TypeOK
    BY DEF GoogleInv
  <1> QED
    BY <1>1, <1>2, <1>3, <1>4, <1>5, EachPart, Invariance, ShelfInvariance,
       SessionInvariance, RestoreInvariance, GoogleInvariance, PTL DEF TypesOK
=============================================================================
