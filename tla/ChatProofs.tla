----------------------------- MODULE ChatProofs ------------------------------
(***************************************************************************)
(* What holds of chat for any number of users, threads, messages and       *)
(* overlapping calls: one thread for two friends, nothing written without  *)
(* a friendship that has been checked, threads that stand where their      *)
(* newest message puts them, and readers' calls that leave nothing unread. *)
(***************************************************************************)
EXTENDS Chat, TLAPS

(* The row of a thread names its users in their order, no two rows name    *)
(* the same ones, and messages are in threads there are.                   *)
WellKept ==
    /\ \A t \in Rows : threads[t].a < threads[t].b
    /\ \A t, s \in Rows :
           threads[t].a = threads[s].a /\ threads[t].b = threads[s].b => t = s
    /\ \A m \in Sent : messages[m].thread \in Rows /\ m <= clock

(* A call that starts a thread has its key to itself, and has checked.     *)
Creating(r) ==
    requests[r].op = "create" =>
        /\ threads[requests[r].thread] = Absent
        /\ requests[r].a < requests[r].b
        /\ {requests[r].a, requests[r].b} \in friends \/ r \in ended
        /\ \A s \in Requests : s # r /\ requests[s] # Idle
                               => requests[s].thread # requests[r].thread

(* So has one that shares in the thread it has made,                       *)
Sharing(r) ==
    requests[r].op = "share" =>
        /\ requests[r].thread \in Rows
        /\ Members(requests[r].thread) = {requests[r].a, requests[r].b}
        /\ Members(requests[r].thread) \in friends \/ r \in ended

(* and one that sends, whose message is its own.                           *)
SendingOwn(r) ==
    /\ Sending(requests[r]) =>
           /\ requests[r].thread \in Rows
           /\ requests[r].id <= clock
           /\ \A s \in Requests : s # r /\ Sending(requests[s])
                                  => requests[s].id # requests[r].id
    /\ requests[r].op = "send" =>
           /\ messages[requests[r].id] = Absent
           /\ Members(requests[r].thread) \in friends \/ r \in ended
    /\ requests[r].op = "touch" => requests[r].id \in InThread(requests[r].thread)

(* What a reader's call was shown is read already or about to be.          *)
Marking(r) ==
    requests[r].op = "mark" =>
        /\ \A m \in requests[r].present :
               /\ m \in Sent
               /\ messages[m].sender # requests[r].user
                  => m \in requests[r].unread \/ messages[m].read
        /\ \A m \in requests[r].unread : m \in Sent /\ messages[m].sender # requests[r].user

(* A thread that is not behind has one sender at most, whose message is    *)
(* its newest, and lacks no other message's time.                          *)
Placed(t) ==
    t \in Rows \ behind =>
        /\ \A r, s \in SendingTo(t) : r = s
        /\ \A r \in SendingTo(t), m \in InThread(t) : m <= requests[r].id
        /\ (\A r \in SendingTo(t) : requests[r].op = "send") =>
               \/ InThread(t) = {} /\ threads[t].last = None
               \/ threads[t].last \in InThread(t)
        /\ \A m \in InThread(t) :
               \/ threads[t].last # None /\ m <= threads[t].last
               \/ \E r \in SendingTo(t) : requests[r].id = m

IInv ==
    /\ TypeOK
    /\ WellKept
    /\ \A r \in Requests : Creating(r) /\ Sharing(r) /\ SendingOwn(r) /\ Marking(r)
    /\ \A t \in ThreadIds : Placed(t)

-----------------------------------------------------------------------------
LEMMA IdleFields == Idle.op = "idle"
  BY DEF Idle

(* The fields of a call on hand.                                           *)
LEMMA WorkFields ==
    ASSUME NEW w \in Work
    PROVE  /\ w # Idle /\ w.op \in {"create", "share", "send", "touch", "mark"}
           /\ w.thread \in ThreadIds
           /\ w.op \in {"create", "share"} => w.a \in Users /\ w.b \in Users
           /\ Sending(w) => w.user \in Users /\ w.id \in MessageIds
           /\ w.op = "mark" => /\ w.user \in Users
                               /\ w.unread \in SUBSET MessageIds
                               /\ w.present \in SUBSET MessageIds
  BY DEF Work, Idle, Sending

LEMMA OpFields ==
    ASSUME TypeOK, NEW r \in Requests, requests[r].op # "idle"
    PROVE  requests[r] \in Work
  BY IdleFields DEF TypeOK

(* The two users of a thread, in the order of their ids.                   *)
LEMMA InOrder ==
    ASSUME NEW u \in Users, NEW v \in Users, u # v
    PROVE  /\ Least(u, v) \in Users /\ Greatest(u, v) \in Users
           /\ Least(u, v) < Greatest(u, v) /\ {Least(u, v), Greatest(u, v)} = {u, v}
  BY UsersAssumption DEF Least, Greatest

LEMMA InitInv == Init => IInv
  BY IdleFields, BoundAssumption DEF Init, IInv, TypeOK, WellKept, Rows, Sent, Creating,
     Sharing, SendingOwn, Marking, Placed, Sending, Pairs

(* What is in Rows, and what InThread and SendingTo collect.               *)
LEMMA RowFields ==
    ASSUME TypeOK, NEW t \in Rows
    PROVE  /\ t \in ThreadIds /\ threads[t] \in Thread
           /\ threads[t].a \in Users /\ threads[t].b \in Users
           /\ threads[t].last \in MessageIds \cup {None}
  BY DEF TypeOK, Rows, Thread

LEMMA MessageFields ==
    ASSUME TypeOK, NEW m \in Sent
    PROVE  /\ m \in MessageIds /\ messages[m] \in Message
           /\ messages[m].thread \in ThreadIds /\ messages[m].sender \in Users
           /\ messages[m].read \in BOOLEAN
  BY DEF TypeOK, Sent, Message

(* A call that shares keeps its thread and its check, if no step undoes    *)
(* either, and no step but that of its own makes one.                      *)
LEMMA SharingKept ==
    ASSUME IInv, NEW s \in Requests,
           requests'[s] = requests[s] \/ requests'[s].op # "share",
           \A t \in Rows : t \in Rows' /\ Members(t)' = Members(t),
           friends' = friends, s \in ended => s \in ended'
    PROVE  Sharing(s)'
  <1>1. CASE requests'[s].op # "share"
    BY <1>1 DEF Sharing
  <1>2. CASE requests'[s] = requests[s] /\ requests[s].op = "share"
    <2>1. PICK t \in Rows : t = requests[s].thread
      BY <1>2 DEF IInv, Sharing
    <2>2. /\ Members(t) = {requests[s].a, requests[s].b}
          /\ Members(t) \in friends \/ s \in ended
      BY <1>2, <2>1 DEF IInv, Sharing
    <2>3. requests'[s].thread = t /\ t \in Rows' /\ Members(t)' = Members(t)
      BY <1>2, <2>1
    <2>4. Members(requests[s].thread)' = Members(t)
      BY <1>2, <2>1, <2>3 DEF Members
    <2> QED  BY <1>2, <2>2, <2>3, <2>4 DEF Sharing
  <1> QED  BY <1>1, <1>2

-----------------------------------------------------------------------------
(* StartThread: the call alone has the key.                                *)
LEMMA StartThreadInv ==
    ASSUME IInv, NEW r \in Requests, NEW u \in Users, NEW v \in Users, NEW t \in ThreadIds,
           StartThread(r, u, v, t)
    PROVE  IInv'
  <1> DEFINE w == NewThread(t, u, v)
  <1>1. /\ w.op = "create" /\ w.thread = t /\ w.a = Least(u, v) /\ w.b = Greatest(u, v)
        /\ w \in Work
    BY InOrder DEF NewThread, Work, StartThread, VerifyFriendship
  <1>2. /\ u # v /\ {w.a, w.b} \in friends /\ w.a < w.b /\ t \notin Rows
        /\ requests[r] = Idle
    <2>1. u # v /\ {u, v} \in friends /\ t \notin Rows /\ requests[r] = Idle
      BY DEF StartThread, VerifyFriendship, Begin
    <2>2. Least(u, v) < Greatest(u, v) /\ {Least(u, v), Greatest(u, v)} = {u, v}
      BY <2>1, InOrder
    <2>3. {w.a, w.b} = {Least(u, v), Greatest(u, v)} /\ w.a < w.b
      BY <1>1, <2>2
    <2> HIDE DEF w
    <2> QED  BY <2>1, <2>2, <2>3
  <1>3. /\ \A s \in Requests : requests'[s] = IF s = r THEN w ELSE requests[s]
        /\ requests' \in [Requests -> Work \cup {Idle}]
        /\ UNCHANGED <<friends, threads, messages, ended, clock, behind>>
    BY <1>1 DEF StartThread, Begin, IInv, TypeOK
  <1> HIDE DEF w
  <1>4. TypeOK'
    BY <1>2, <1>3 DEF IInv, TypeOK
  <1>5. Rows' = Rows /\ Sent' = Sent /\ \A s \in ThreadIds : InThread(s)' = InThread(s)
    BY <1>3 DEF Rows, Sent, InThread
  <1>6. \A s \in ThreadIds : SendingTo(s)' = SendingTo(s)
    BY <1>1, <1>2, <1>3, IdleFields DEF SendingTo, Sending
  <1>7. WellKept'
    BY <1>3, <1>5 DEF IInv, WellKept
  <1>8. ASSUME NEW s \in Requests PROVE Creating(s)'
    <2>1. CASE s = r
      BY <1>1, <1>2, <1>3, <2>1 DEF Creating, StartThread, Rows
    <2>2. CASE s # r
      <3> SUFFICES ASSUME requests[s].op = "create" PROVE Creating(s)'
        BY <1>3, <2>2 DEF Creating
      <3>1. requests[s].thread # t
        BY IdleFields DEF StartThread
      <3> QED  BY <1>1, <1>3, <2>2, <3>1 DEF IInv, Creating
    <2> QED  BY <2>1, <2>2
  <1>9. ASSUME NEW s \in Requests PROVE SendingOwn(s)' /\ Marking(s)'
    BY <1>1, <1>3, <1>5 DEF IInv, SendingOwn, Marking, Sending, Members, InThread
  <1>10. ASSUME NEW s \in ThreadIds PROVE Placed(s)'
    <2>1. \A q \in SendingTo(s) : requests'[q] = requests[q]
      BY <1>2, <1>3, IdleFields DEF SendingTo, Sending
    <2> QED  BY <1>3, <1>5, <1>6, <2>1 DEF IInv, Placed
  <1>11. ASSUME NEW s \in Requests PROVE Sharing(s)'
    BY <1>1, <1>3, <1>5, SharingKept DEF Members
  <1> QED  BY <1>4, <1>7, <1>8, <1>9, <1>10, <1>11 DEF IInv

(* A call goes on to send: a new time, which no message and no other call  *)
(* has.                                                                    *)
LEMMA SendsInv ==
    ASSUME IInv, NEW r \in Requests, NEW u \in Users, NEW t \in Rows,
           ~Sending(requests[r]), clock < MaxMessages, clock' = clock + 1,
           requests' = [requests EXCEPT ![r] =
               [op |-> "send", thread |-> t, user |-> u, id |-> clock + 1]],
           behind' = IF SendingTo(t) # {} THEN behind \cup {t} ELSE behind,
           UNCHANGED <<friends, threads, messages, ended>>,
           Members(t) \in friends \/ r \in ended
    PROVE  IInv'
  <1> DEFINE w == [op |-> "send", thread |-> t, user |-> u, id |-> clock + 1]
  <1>1. clock \in Nat /\ clock + 1 \in MessageIds /\ t \in ThreadIds
    BY BoundAssumption DEF IInv, TypeOK, MessageIds, Rows
  <1>2. w \in Work /\ w.op = "send" /\ w.thread = t /\ w.id = clock + 1
    BY <1>1 DEF Work
  <1>3. /\ \A s \in Requests : requests'[s] = IF s = r THEN w ELSE requests[s]
        /\ requests' \in [Requests -> Work \cup {Idle}]
    BY <1>2 DEF IInv, TypeOK
  <1> HIDE DEF w
  <1>5. TypeOK'
    BY <1>1, <1>2, <1>3, WorkFields DEF IInv, TypeOK, MessageIds
  <1>6. Rows' = Rows /\ Sent' = Sent /\ \A s \in ThreadIds : InThread(s)' = InThread(s)
    BY <1>3 DEF Rows, Sent, InThread
  <1>7. /\ SendingTo(t)' = SendingTo(t) \cup {r} /\ r \notin SendingTo(t)
        /\ \A s \in ThreadIds : s # t => SendingTo(s)' = SendingTo(s)
        /\ \A s \in ThreadIds : \A q \in SendingTo(s) : requests'[q] = requests[q]
    BY <1>2, <1>3, IdleFields DEF SendingTo, Sending
  <1>8. Sent \subseteq 1 .. clock
    BY <1>1 DEF IInv, WellKept, Sent, MessageIds
  <1>9. WellKept'
    <2>1. /\ \A s \in Rows' : threads'[s].a < threads'[s].b
          /\ \A s, q \in Rows' :
                 threads'[s].a = threads'[q].a /\ threads'[s].b = threads'[q].b => s = q
      BY <1>6 DEF IInv, WellKept
    <2>2. \A m \in Sent' : messages'[m].thread \in Rows' /\ m <= clock'
      BY <1>1, <1>6, <1>8 DEF IInv, WellKept
    <2> QED  BY <2>1, <2>2 DEF WellKept
  <1>10. ASSUME NEW s \in Requests PROVE Creating(s)' /\ Marking(s)'
    <2>1. requests[s].op = "create" => requests[s].thread # t
      BY <1>3 DEF IInv, Creating, Rows
    <2> QED  BY <1>2, <1>3, <1>6, <2>1 DEF IInv, Creating, Marking
  <1>11. ASSUME NEW s \in Requests PROVE SendingOwn(s)'
    <2>1. messages[clock + 1] = Absent
      BY <1>1, <1>8 DEF Sent
    <2>2. ASSUME NEW q \in Requests, Sending(requests[q])
          PROVE  requests[q].id \in Nat /\ requests[q].id <= clock
      <3>1. requests[q] \in Work
        BY <2>2, OpFields DEF IInv, Sending
      <3> QED  BY <2>2, <3>1, WorkFields DEF IInv, SendingOwn, MessageIds
    <2>3. CASE s = r
      <3>1. requests'[r] = w /\ w.thread = t /\ w.id = clock + 1 /\ w.op = "send"
        BY <1>2, <1>3
      <3>2. t \in Rows' /\ Members(t)' = Members(t)
        BY <1>3, <1>6 DEF Members
      <3>3. \A q \in Requests : q # r /\ Sending(requests'[q]) => requests'[q].id # clock + 1
        BY <1>1, <1>3, <2>2 DEF Sending
      <3>4. (Members(t)' \in friends' \/ r \in ended') /\ messages'[w.id] = Absent
        BY <1>2, <1>3, <2>1, <3>2
      <3>5. w.id <= clock'
        BY <1>1, <1>2, <1>3
      <3> QED  BY <2>3, <3>1, <3>2, <3>3, <3>4, <3>5 DEF SendingOwn, Members
    <2>4. CASE s # r
      BY <1>1, <1>2, <1>3, <1>6, <2>2, <2>4 DEF IInv, SendingOwn, Members, InThread
    <2> QED  BY <2>3, <2>4
  <1>12. ASSUME NEW s \in ThreadIds PROVE Placed(s)'
    <2>1. CASE s # t
      BY <1>3, <1>6, <1>7, <2>1 DEF IInv, Placed
    <2>2. CASE s = t /\ SendingTo(t) # {}
      BY <1>3, <2>2 DEF Placed
    <2>3. CASE s = t /\ SendingTo(t) = {}
      <3>1. SendingTo(t)' = {r} /\ behind' = behind
        BY <1>3, <1>7, <2>3
      <3>2. \A m \in InThread(t) : m <= requests'[r].id
        BY <1>1, <1>2, <1>3, <1>8 DEF InThread
      <3> QED  BY <1>2, <1>3, <1>6, <2>3, <3>1, <3>2 DEF IInv, Placed
    <2> QED  BY <2>1, <2>2, <2>3
  <1>13. ASSUME NEW s \in Requests PROVE Sharing(s)'
    BY <1>2, <1>3, <1>6, SharingKept DEF Members
  <1> QED  BY <1>5, <1>9, <1>10, <1>11, <1>12, <1>13 DEF IInv

LEMMA SendMessageInv ==
    ASSUME IInv, NEW r \in Requests, NEW u \in Users, NEW t \in ThreadIds,
           SendMessage(r, u, t)
    PROVE  IInv'
  <1>1. Members(t) \in friends
    <2>1. PICK v \in Members(t) : u # v /\ {u, v} \in friends
      BY DEF SendMessage, MaySend, VerifyFriendship
    <2>2. {u, v} = Members(t)
      BY <2>1 DEF SendMessage, MaySend, Members
    <2> QED  BY <2>1, <2>2
  <1>2. ~Sending(requests[r])
    BY IdleFields DEF SendMessage, Begin, Sending
  <1> QED  BY <1>1, <1>2, SendsInv DEF SendMessage, Begin

(* Share: the thread is the call's own, the check that of its first step.  *)
LEMMA ShareInv ==
    ASSUME IInv, NEW r \in Requests, NEW u \in Users, Share(r, u)
    PROVE  IInv'
  <1>1. /\ requests[r].thread \in Rows /\ ~Sending(requests[r])
        /\ Members(requests[r].thread) \in friends \/ r \in ended
    BY DEF Share, IInv, Sharing, Sending
  <1> DEFINE t == requests[r].thread
  <1>2. /\ clock < MaxMessages /\ clock' = clock + 1
        /\ requests' = [requests EXCEPT ![r] =
               [op |-> "send", thread |-> t, user |-> u, id |-> clock + 1]]
        /\ behind' = IF SendingTo(t) # {} THEN behind \cup {t} ELSE behind
        /\ UNCHANGED <<friends, threads, messages, ended>>
    BY DEF Share
  <1> HIDE DEF t
  <1> QED  BY <1>1, <1>2, SendsInv DEF t

(* ReadThread: what is shown to the reader.                                *)
LEMMA ReadThreadInv ==
    ASSUME IInv, NEW r \in Requests, NEW u \in Users, NEW t \in ThreadIds,
           ReadThread(r, u, t)
    PROVE  IInv'
  <1> DEFINE w == [op |-> "mark", thread |-> t, user |-> u, unread |-> Unread(t, u),
                   present |-> InThread(t)]
  <1>1. w \in Work /\ w.op = "mark" /\ w.thread = t /\ w.user = u
        /\ w.unread = Unread(t, u) /\ w.present = InThread(t)
    BY DEF Work, Unread, InThread, Sent
  <1>2. /\ t \in Rows /\ requests[r] = Idle
        /\ UNCHANGED <<friends, threads, messages, ended, clock, behind>>
        /\ \A s \in Requests : requests'[s] = IF s = r THEN w ELSE requests[s]
        /\ requests' \in [Requests -> Work \cup {Idle}]
    BY <1>1 DEF ReadThread, Begin, IInv, TypeOK
  <1> HIDE DEF w
  <1>3. TypeOK'
    BY <1>2 DEF IInv, TypeOK
  <1>4. Rows' = Rows /\ Sent' = Sent /\ \A s \in ThreadIds : InThread(s)' = InThread(s)
    BY <1>2 DEF Rows, Sent, InThread
  <1>5. /\ \A s \in ThreadIds : SendingTo(s)' = SendingTo(s)
        /\ \A s \in ThreadIds : \A q \in SendingTo(s) : requests'[q] = requests[q]
    BY <1>1, <1>2, IdleFields DEF SendingTo, Sending
  <1>6. WellKept'
    BY <1>2, <1>4 DEF IInv, WellKept
  <1>7. ASSUME NEW s \in Requests PROVE Creating(s)' /\ SendingOwn(s)'
    <2>1. requests[s].op = "create" => requests[s].thread # t
      BY <1>2 DEF IInv, Creating, Rows
    <2>2. Creating(s)'
      BY <1>1, <1>2, <2>1 DEF IInv, Creating
    <2>3. SendingOwn(s)'
      BY <1>1, <1>2, <1>4 DEF IInv, SendingOwn, Sending, Members, InThread
    <2> QED  BY <2>2, <2>3
  <1>8. ASSUME NEW s \in Requests PROVE Marking(s)'
    <2>1. CASE s = r
      BY <1>1, <1>2, <1>4, <2>1 DEF Marking, Unread, InThread
    <2>2. CASE s # r
      BY <1>2, <1>4, <2>2 DEF IInv, Marking
    <2> QED  BY <2>1, <2>2
  <1>9. ASSUME NEW s \in ThreadIds PROVE Placed(s)'
    BY <1>2, <1>4, <1>5 DEF IInv, Placed
  <1>10. ASSUME NEW s \in Requests PROVE Sharing(s)'
    BY <1>1, <1>2, <1>4, SharingKept DEF Members
  <1> QED  BY <1>3, <1>6, <1>7, <1>8, <1>9, <1>10 DEF IInv

-----------------------------------------------------------------------------
(* A step after which the request r has nothing left to do, and which the  *)
(* other requests do not notice: what they know of the rows stays true.    *)
LEMMA EndFields ==
    ASSUME TypeOK, NEW r \in Requests, End(r)
    PROVE  /\ requests' \in [Requests -> Work \cup {Idle}]
           /\ \A s \in Requests : requests'[s] = IF s = r THEN Idle ELSE requests[s]
           /\ ended' \subseteq {s \in Requests : requests'[s] # Idle}
           /\ \A s \in Requests : s # r => (s \in ended' <=> s \in ended)
           /\ \A t \in ThreadIds : SendingTo(t)' = SendingTo(t) \ {r}
  <1>1. /\ requests' \in [Requests -> Work \cup {Idle}]
        /\ \A s \in Requests : requests'[s] = IF s = r THEN Idle ELSE requests[s]
    BY DEF End, TypeOK
  <1>2. /\ ended' \subseteq {s \in Requests : requests'[s] # Idle}
        /\ \A s \in Requests : s # r => (s \in ended' <=> s \in ended)
    BY <1>1 DEF End, TypeOK
  <1>3. \A t \in ThreadIds : SendingTo(t)' = SendingTo(t) \ {r}
    BY <1>1, IdleFields DEF SendingTo, Sending
  <1> QED  BY <1>1, <1>2, <1>3

(* CommitThread: the constraint on the ordered pair.  What the call goes   *)
(* on with is z.                                                           *)
LEMMA CommitThreadInv ==
    ASSUME IInv, NEW r \in Requests, CommitThread(r), NEW z,
           z = Idle \/ z = [requests[r] EXCEPT !.op = "share"],
           requests' = [requests EXCEPT ![r] = z],
           ended' = IF z = Idle THEN ended \ {r} ELSE ended
    PROVE  IInv'
  <1>1. PICK w \in Work : w = requests[r]
    BY OpFields DEF CommitThread, IInv
  <1> DEFINE t == w.thread
             row == [a |-> w.a, b |-> w.b, last |-> None]
  <1>2. /\ w.op = "create" /\ t \in ThreadIds /\ w.a \in Users /\ w.b \in Users
        /\ w.a < w.b /\ t \notin Rows
        /\ \A s \in Requests : s # r /\ requests[s] # Idle => requests[s].thread # t
    BY <1>1, WorkFields DEF CommitThread, IInv, Creating, Rows
  <1>3. row \in Thread /\ row # Absent /\ row.a = w.a /\ row.b = w.b /\ row.last = None
    BY <1>2, AbsentAssumption DEF Thread
  <1>4. /\ threads' = [threads EXCEPT ![t] = row]
        /\ \A s \in Rows : threads[s].a # w.a \/ threads[s].b # w.b
        /\ UNCHANGED <<friends, messages, clock, behind>>
    BY <1>1 DEF CommitThread, UniqueThread
  <1>41. /\ z \in Work \cup {Idle} /\ z.op # "create" /\ z.op # "mark" /\ ~Sending(z)
         /\ z # Idle => z.op = "share" /\ z.thread = t /\ z.a = w.a /\ z.b = w.b
    <2>1. CASE z = Idle
      BY <2>1, IdleFields DEF Sending
    <2>2. CASE z = [w EXCEPT !.op = "share"]
      <3>1. w \in [op : {"create", "share"}, thread : ThreadIds, a : Users, b : Users]
        BY <1>2 DEF Work
      <3> QED  BY <2>2, <3>1 DEF Work, Sending
    <2> QED  BY <1>1, <2>1, <2>2
  <1>5. \A s \in ThreadIds : threads'[s] = IF s = t THEN row ELSE threads[s]
    BY <1>4 DEF IInv, TypeOK
  <1> HIDE DEF row
  <1>6. /\ requests' \in [Requests -> Work \cup {Idle}]
        /\ \A s \in Requests : requests'[s] = IF s = r THEN z ELSE requests[s]
        /\ ended' \subseteq {s \in Requests : requests'[s] # Idle}
        /\ \A s \in Requests : s # r => (s \in ended' <=> s \in ended)
        /\ \A s \in ThreadIds : SendingTo(s)' = SendingTo(s) \ {r}
    <2>1. \A s \in Requests : requests'[s] = IF s = r THEN z ELSE requests[s]
      BY DEF IInv, TypeOK
    <2>2. requests' \in [Requests -> Work \cup {Idle}]
      BY <1>41 DEF IInv, TypeOK
    <2>3. /\ ended' \subseteq {s \in Requests : requests'[s] # Idle}
          /\ \A s \in Requests : s # r => (s \in ended' <=> s \in ended)
      BY <2>1 DEF IInv, TypeOK
    <2>4. \A s \in ThreadIds : SendingTo(s)' = SendingTo(s) \ {r}
      BY <1>41, <2>1 DEF SendingTo, Sending
    <2> QED  BY <2>1, <2>2, <2>3, <2>4
  <1>7. TypeOK'
    BY <1>2, <1>3, <1>4, <1>6 DEF IInv, TypeOK
  <1>8. /\ Rows' = Rows \cup {t} /\ Sent' = Sent
        /\ \A s \in ThreadIds : InThread(s)' = InThread(s)
    BY <1>2, <1>3, <1>4, <1>5 DEF Rows, Sent, InThread
  <1>9. WellKept'
    <2>1. \A s \in Rows' : threads'[s].a < threads'[s].b
      BY <1>2, <1>3, <1>5, <1>8 DEF IInv, WellKept, Rows
    <2>2. \A s, q \in Rows' :
              threads'[s].a = threads'[q].a /\ threads'[s].b = threads'[q].b => s = q
      BY <1>2, <1>3, <1>4, <1>5, <1>8 DEF IInv, WellKept, Rows
    <2>3. \A m \in Sent' : messages'[m].thread \in Rows' /\ m <= clock'
      BY <1>4, <1>8 DEF IInv, WellKept
    <2> QED  BY <2>1, <2>2, <2>3 DEF WellKept
  <1>10. InThread(t) = {} /\ SendingTo(t)' = {}
    <2>1. InThread(t) = {}
      BY <1>2 DEF IInv, WellKept, InThread
    <2>2. SendingTo(t) \subseteq {r}
      BY <1>2, IdleFields DEF SendingTo, Sending
    <2> QED  BY <1>2, <1>6, <2>1, <2>2
  <1>11. ASSUME NEW s \in Requests PROVE Creating(s)' /\ Marking(s)'
    <2>1. CASE s = r
      BY <1>6, <1>41, <2>1 DEF Creating, Marking
    <2>2. CASE s # r
      <3>1. requests[s].op = "create" => requests[s].thread # t /\ requests[s] \in Work
        BY <1>2, <2>2, IdleFields, OpFields DEF IInv
      <3>2. Creating(s)'
        <4>1. CASE requests[s].op = "create"
          <5>1. PICK v \in Work : v = requests[s]
            BY <3>1, <4>1
          <5>2. v.thread \in ThreadIds /\ v.thread # t
            BY <3>1, <4>1, <5>1, WorkFields
          <5>3. \A q \in Requests : q # s /\ requests'[q] # Idle => requests'[q].thread # v.thread
            BY <1>6, <1>41, <3>1, <4>1, <5>1 DEF IInv, Creating
          <5>4. /\ threads'[v.thread] = Absent /\ v.a < v.b
                /\ {v.a, v.b} \in friends' \/ s \in ended'
            BY <1>4, <1>5, <1>6, <2>2, <4>1, <5>1, <5>2 DEF IInv, Creating
          <5> QED  BY <1>6, <2>2, <5>1, <5>3, <5>4 DEF Creating
        <4>2. CASE requests[s].op # "create"
          BY <1>6, <2>2, <4>2 DEF Creating
        <4> QED  BY <4>1, <4>2
      <3>3. Marking(s)'
        BY <1>4, <1>6, <1>8, <2>2 DEF IInv, Marking
      <3> QED  BY <3>2, <3>3
    <2> QED  BY <2>1, <2>2
  <1>12. ASSUME NEW s \in Requests PROVE SendingOwn(s)'
    <2>1. CASE s = r
      BY <1>41, <1>6, <2>1 DEF SendingOwn, Sending
    <2>2. CASE s # r /\ Sending(requests[s])
      <3>1. \A q \in Rows : Members(q)' = Members(q)
        BY <1>2, <1>5 DEF Members, Rows
      <3>2. PICK v \in Work : v = requests[s]
        BY <2>2, OpFields DEF IInv, Sending
      <3>3. v.thread \in Rows /\ Members(v.thread)' = Members(v.thread) /\ v.id <= clock'
        BY <1>4, <2>2, <3>1, <3>2 DEF IInv, SendingOwn
      <3>4. \A q \in Requests : q # s /\ Sending(requests'[q]) => requests'[q].id # v.id
        BY <1>41, <1>6, <2>2, <3>2 DEF IInv, SendingOwn, Sending
      <3>5. v.op = "send" => /\ messages'[v.id] = Absent
                             /\ Members(v.thread)' \in friends' \/ s \in ended'
        BY <1>4, <1>6, <2>2, <3>2, <3>3 DEF IInv, SendingOwn
      <3>6. v.op = "touch" => v.id \in InThread(v.thread)'
        BY <1>8, <3>2, <3>3, WorkFields DEF IInv, SendingOwn
      <3>7. requests'[s] = v
        BY <1>6, <2>2, <3>2
      <3>8. v.thread \in Rows'
        BY <1>8, <3>3
      <3>9. /\ v.op = "send" => Members(requests[s].thread)' \in friends' \/ s \in ended'
            /\ v.op = "touch" => v.id \in InThread(requests[s].thread)'
        BY <3>5, <3>6, <3>7 DEF Members, InThread
      <3> QED  BY <3>3, <3>4, <3>5, <3>7, <3>8, <3>9 DEF SendingOwn
    <2>3. CASE s # r /\ ~Sending(requests[s])
      BY <1>6, <2>3 DEF SendingOwn, Sending
    <2> QED  BY <2>1, <2>2, <2>3
  <1>14. ASSUME NEW s \in Requests PROVE Sharing(s)'
    <2>1. CASE s = r
      <3>1. Members(t)' = {w.a, w.b} /\ t \in Rows'
        BY <1>2, <1>3, <1>5, <1>8 DEF Members
      <3>2. {w.a, w.b} \in friends \/ r \in ended
        BY <1>1, <1>2 DEF IInv, Creating
      <3>3. z # Idle => {w.a, w.b} \in friends' \/ r \in ended'
        BY <1>4, <3>2
      <3>4. requests'[s] = z
        BY <1>6, <2>1
      <3>5. CASE z = Idle
        BY <3>4, <3>5, IdleFields DEF Sharing
      <3>6. CASE z # Idle
        <4>1. z.op = "share" /\ z.thread = t /\ z.a = w.a /\ z.b = w.b
          BY <1>41, <3>6
        <4> HIDE DEF t
        <4> QED  BY <2>1, <3>1, <3>3, <3>4, <3>6, <4>1 DEF Sharing, Members
      <3> QED  BY <3>5, <3>6
    <2>2. CASE s # r
      <3>1. \A q \in Rows : q \in Rows' /\ Members(q)' = Members(q)
        BY <1>2, <1>5, <1>8 DEF Members, Rows
      <3> QED  BY <1>4, <1>6, <2>2, <3>1, SharingKept
    <2> QED  BY <2>1, <2>2
  <1>13. ASSUME NEW s \in ThreadIds PROVE Placed(s)'
    <2>1. CASE s = t
      BY <1>3, <1>5, <1>8, <1>10, <2>1 DEF Placed
    <2>2. CASE s # t
      <3>1. SendingTo(s)' = SendingTo(s) /\ \A q \in SendingTo(s) : requests'[q] = requests[q]
        BY <1>1, <1>2, <1>6 DEF SendingTo, Sending
      <3> QED  BY <1>4, <1>5, <1>8, <2>2, <3>1 DEF IInv, Placed
    <2> QED  BY <2>1, <2>2
  <1> QED  BY <1>7, <1>9, <1>11, <1>12, <1>13, <1>14 DEF IInv

LEMMA EndThreadInv ==
    ASSUME IInv, NEW r \in Requests, EndThread(r)
    PROVE  IInv'
  BY CommitThreadInv DEF EndThread, End

LEMMA KeepThreadInv ==
    ASSUME IInv, NEW r \in Requests, KeepThread(r)
    PROVE  IInv'
  <1> DEFINE z == [requests[r] EXCEPT !.op = "share"]
  <1>1. PICK w \in Work : w = requests[r]
    BY OpFields DEF KeepThread, CommitThread, IInv
  <1>2. w \in [op : {"create", "share"}, thread : ThreadIds, a : Users, b : Users]
    BY <1>1 DEF KeepThread, CommitThread, Work
  <1>3. z.op = "share"
    BY <1>1, <1>2
  <1>4. z # Idle
    BY <1>3, IdleFields
  <1>5. requests' = [requests EXCEPT ![r] = z] /\ ended' = ended /\ CommitThread(r)
    BY DEF KeepThread
  <1> HIDE DEF z
  <1>6. z = [requests[r] EXCEPT !.op = "share"]
    BY DEF z
  <1> QED  BY <1>4, <1>5, <1>6, CommitThreadInv

(* CommitMessage: the message is there, its thread's time not yet.         *)
LEMMA CommitMessageInv ==
    ASSUME IInv, NEW r \in Requests, CommitMessage(r)
    PROVE  IInv'
  <1>1. PICK w \in Work : w = requests[r]
    BY OpFields DEF CommitMessage, IInv
  <1> DEFINE t == w.thread
             m == w.id
             row == [thread |-> t, sender |-> w.user, read |-> FALSE]
             next == [op |-> "touch", thread |-> t, user |-> w.user, id |-> m]
  <1>2. /\ w.op = "send" /\ t \in ThreadIds /\ w.user \in Users /\ m \in MessageIds
        /\ Sending(w)
    <2>1. w.op = "send" /\ Sending(w)
      BY <1>1 DEF CommitMessage, Sending
    <2> QED  BY <2>1, WorkFields
  <1>3. t \in Rows /\ m <= clock /\ messages[m] = Absent
    BY <1>1, <1>2 DEF IInv, SendingOwn
  <1>4. /\ row \in Message /\ row # Absent
        /\ row.thread = t /\ row.sender = w.user /\ row.read = FALSE
    <2>1. row \in Message /\ row.thread = t /\ row.sender = w.user /\ row.read = FALSE
      BY <1>2 DEF Message
    <2> HIDE DEF row
    <2> QED  BY <2>1, AbsentAssumption
  <1>5. /\ next \in Work /\ next # Idle /\ next.op = "touch" /\ next.thread = t
        /\ next.id = m
    BY <1>2 DEF Work, Idle
  <1>6. [w EXCEPT !.op = "touch"] = next
    <2>1. w \in [op : {"send", "touch"}, thread : ThreadIds, user : Users, id : MessageIds]
      BY <1>2 DEF Work
    <2> QED  BY <2>1
  <1> HIDE DEF row, next
  <1>7. /\ \A k \in MessageIds : messages'[k] = IF k = m THEN row ELSE messages[k]
        /\ messages' \in [MessageIds -> Message \cup {Absent}]
    BY <1>1, <1>4 DEF CommitMessage, IInv, TypeOK, row
  <1>8. /\ \A s \in Requests : requests'[s] = IF s = r THEN next ELSE requests[s]
        /\ requests' \in [Requests -> Work \cup {Idle}]
    BY <1>1, <1>5, <1>6 DEF CommitMessage, IInv, TypeOK
  <1>9. UNCHANGED <<friends, threads, clock, ended, behind>>
    BY DEF CommitMessage
  <1>10. TypeOK'
    BY <1>5, <1>7, <1>8, <1>9 DEF IInv, TypeOK
  <1>11. /\ Rows' = Rows /\ Sent' = Sent \cup {m}
         /\ InThread(t)' = InThread(t) \cup {m} /\ m \notin InThread(t)
         /\ \A s \in ThreadIds : s # t => InThread(s)' = InThread(s)
    BY <1>2, <1>3, <1>4, <1>7, <1>9 DEF Rows, Sent, InThread
  <1>12. \A s \in ThreadIds : SendingTo(s)' = SendingTo(s)
    BY <1>1, <1>2, <1>5, <1>8 DEF SendingTo, Sending
  <1>13. WellKept'
    BY <1>3, <1>4, <1>7, <1>9, <1>11 DEF IInv, WellKept, Sent
  <1>14. ASSUME NEW s \in Requests PROVE Creating(s)' /\ Marking(s)'
    <2>1. CASE s = r
      BY <1>5, <1>8, <2>1 DEF Creating, Marking
    <2>2. CASE s # r
      <3>1. Creating(s)'
        BY <1>1, <1>2, <1>5, <1>8, <1>9, <2>2, IdleFields DEF IInv, Creating
      <3>2. m \notin Sent
        BY <1>3 DEF Sent
      <3>3. Marking(s)'
        BY <1>7, <1>8, <1>11, <2>2, <3>2 DEF IInv, Marking, Sent
      <3> QED  BY <3>1, <3>3
    <2> QED  BY <2>1, <2>2
  <1>15. ASSUME NEW s \in Requests PROVE SendingOwn(s)'
    <2>1. \A q \in ThreadIds : Members(q)' = Members(q)
      BY <1>9 DEF Members
    <2>2. \A q \in Requests : Sending(requests'[q]) =>
              /\ Sending(requests[q]) /\ requests'[q].id = requests[q].id
              /\ requests'[q].thread = requests[q].thread
      BY <1>1, <1>2, <1>5, <1>8
    <2>3. CASE s = r
      <3>1. \A q \in Requests : q # r /\ Sending(requests'[q]) => requests'[q].id # m
        BY <1>1, <1>2, <2>2 DEF IInv, SendingOwn
      <3> QED
        BY <1>3, <1>5, <1>8, <1>9, <1>11, <2>3, <3>1 DEF SendingOwn, InThread
    <2>4. CASE s # r /\ Sending(requests[s])
      <3>1. PICK v \in Work : v = requests[s]
        BY <2>4, OpFields DEF IInv, Sending
      <3>2. /\ v.thread \in ThreadIds /\ v.thread \in Rows /\ v.id <= clock
            /\ v.id # m /\ v.id \in MessageIds
        BY <1>1, <1>2, <2>4, <3>1, WorkFields DEF IInv, SendingOwn
      <3>3. \A q \in Requests : q # s /\ Sending(requests'[q]) => requests'[q].id # v.id
        BY <2>2, <2>4, <3>1 DEF IInv, SendingOwn
      <3>4. v.op = "send" => /\ messages'[v.id] = Absent
                             /\ Members(v.thread)' \in friends' \/ s \in ended'
        BY <1>7, <1>9, <2>1, <2>4, <3>1, <3>2 DEF IInv, SendingOwn
      <3>5. v.op = "touch" => v.id \in InThread(v.thread)'
        BY <1>11, <3>1, <3>2 DEF IInv, SendingOwn
      <3> QED  BY <1>8, <1>9, <1>11, <2>4, <3>1, <3>2, <3>3, <3>4, <3>5
               DEF SendingOwn, Members, InThread
    <2>5. CASE s # r /\ ~Sending(requests[s])
      BY <1>8, <2>5 DEF SendingOwn, Sending
    <2> QED  BY <2>3, <2>4, <2>5
  <1>16. ASSUME NEW s \in ThreadIds PROVE Placed(s)'
    <2>1. r \in SendingTo(t) /\ requests'[r].op = "touch" /\ requests'[r].id = m
      BY <1>1, <1>2, <1>5, <1>8 DEF SendingTo
    <2>2. CASE s # t
      <3>1. \A q \in SendingTo(s) : requests'[q] = requests[q]
        BY <1>1, <1>8, <2>2 DEF SendingTo
      <3> QED  BY <1>9, <1>11, <1>12, <2>2, <3>1 DEF IInv, Placed
    <2>3. CASE s = t /\ t \notin behind
      <3>1. SendingTo(t)' = {r}
        BY <1>3, <1>12, <2>1, <2>3 DEF IInv, Placed
      <3>2. \A k \in InThread(t) : k <= m
        BY <1>1, <1>3, <2>1, <2>3 DEF IInv, Placed
      <3>3. \A k \in InThread(t)' : k <= m
        BY <1>2, <1>11, <3>2 DEF MessageIds
      <3>4. \A k \in InThread(t) : k = m \/ (threads[t].last # None /\ k <= threads[t].last)
        BY <1>1, <1>3, <1>12, <2>3, <3>1 DEF IInv, Placed
      <3> QED  BY <1>9, <1>11, <2>1, <2>3, <3>1, <3>3, <3>4 DEF Placed
    <2>4. CASE s = t /\ t \in behind
      BY <1>9, <2>4 DEF Placed
    <2> QED  BY <2>2, <2>3, <2>4
  <1>17. ASSUME NEW s \in Requests PROVE Sharing(s)'
    BY <1>5, <1>8, <1>9, <1>11, SharingKept DEF Members
  <1> QED  BY <1>10, <1>13, <1>14, <1>15, <1>16, <1>17 DEF IInv

(* What the end of a request leaves of the others' knowledge, when no row  *)
(* is lost and no two friends part.                                        *)
LEMMA OthersKept ==
    ASSUME IInv, NEW r \in Requests, NEW s \in Requests, s # r, End(r),
           Rows' = Rows, Sent' = Sent, UNCHANGED <<friends, clock>>,
           \A t \in ThreadIds : InThread(t)' = InThread(t) /\ Members(t)' = Members(t),
           \A t \in ThreadIds : threads[t] = Absent => threads'[t] = Absent,
           \A m \in MessageIds : messages[m] = Absent => messages'[m] = Absent,
           \A m \in Sent : /\ messages'[m].sender = messages[m].sender
                           /\ messages[m].read => messages'[m].read
    PROVE  Creating(s)' /\ Sharing(s)' /\ SendingOwn(s)' /\ Marking(s)'
  <1>1. /\ \A q \in Requests : requests'[q] = IF q = r THEN Idle ELSE requests[q]
        /\ s \in ended' <=> s \in ended
    BY EndFields DEF IInv
  <1>2. CASE requests[s] = Idle
    BY <1>1, <1>2, IdleFields DEF Creating, Sharing, SendingOwn, Marking, Sending
  <1>3. CASE requests[s] # Idle
    <2>1. PICK v \in Work : v = requests[s]
      BY <1>3 DEF IInv, TypeOK
    <2>2. v.thread \in ThreadIds /\ (Sending(v) => v.id \in MessageIds)
      BY WorkFields
    <2>3. Creating(s)'
      BY <1>1, <2>1, <2>2 DEF IInv, Creating
    <2>4. \A q \in Requests : q # s /\ Sending(v) /\ Sending(requests'[q])
                               => requests'[q].id # v.id
      BY <1>1, <2>1, IdleFields DEF IInv, SendingOwn, Sending
    <2>5. v.op = "send" => /\ messages'[v.id] = Absent
                           /\ Members(v.thread)' \in friends' \/ s \in ended'
      BY <1>1, <2>1, <2>2 DEF IInv, SendingOwn, Sending
    <2>6. v.op = "touch" => v.id \in InThread(v.thread)'
      BY <2>1, <2>2 DEF IInv, SendingOwn
    <2>7. Sending(v) => v.thread \in Rows' /\ v.id <= clock'
      BY <2>1 DEF IInv, SendingOwn
    <2>8. SendingOwn(s)'
      BY <1>1, <2>1, <2>4, <2>5, <2>6, <2>7 DEF SendingOwn, Members, InThread
    <2>9. Marking(s)'
      BY <1>1 DEF IInv, Marking
    <2>10. Sharing(s)'
      BY <1>1, SharingKept DEF Rows
    <2> QED  BY <2>3, <2>8, <2>9, <2>10
  <1> QED  BY <1>2, <1>3

(* What ends is Idle.                                                      *)
LEMMA EndedKept ==
    ASSUME TypeOK, NEW r \in Requests, End(r)
    PROVE  Creating(r)' /\ Sharing(r)' /\ SendingOwn(r)' /\ Marking(r)'
  BY EndFields, IdleFields DEF Creating, Sharing, SendingOwn, Marking, Sending

(* CommitTouch: the thread is where its newest message puts it.            *)
LEMMA CommitTouchInv ==
    ASSUME IInv, NEW r \in Requests, CommitTouch(r)
    PROVE  IInv'
  <1>1. PICK w \in Work : w = requests[r]
    BY OpFields DEF CommitTouch, IInv
  <1> DEFINE t == w.thread
             row == [threads[t] EXCEPT !.last = w.id]
  <1>2. w.op = "touch" /\ Sending(w)
    BY <1>1 DEF CommitTouch, Sending
  <1>3. /\ t \in ThreadIds /\ w.id \in MessageIds /\ t \in Rows /\ w.id \in InThread(t)
    BY <1>1, <1>2, WorkFields DEF IInv, SendingOwn
  <1>4. /\ row \in Thread /\ row # Absent /\ row.last = w.id
        /\ row.a = threads[t].a /\ row.b = threads[t].b
    <2>1. threads[t] \in Thread
      BY <1>3, RowFields DEF IInv
    <2> QED  BY <1>3, <2>1, AbsentAssumption DEF Thread
  <1>5. /\ threads' = [threads EXCEPT ![t] = row]
        /\ behind' = IF SendingTo(t) = {r} /\ \A m \in InThread(t) : m <= w.id
                     THEN behind \ {t} ELSE behind
        /\ UNCHANGED <<friends, messages, clock>> /\ End(r)
    BY <1>1 DEF CommitTouch, Touched
  <1> HIDE DEF row
  <1>6. \A s \in ThreadIds : threads'[s] = IF s = t THEN row ELSE threads[s]
    BY <1>5 DEF IInv, TypeOK
  <1>7. TypeOK'
    BY <1>3, <1>4, <1>5, EndFields DEF IInv, TypeOK
  <1>8. /\ Rows' = Rows /\ Sent' = Sent
        /\ \A s \in ThreadIds : InThread(s)' = InThread(s)
        /\ \A s \in ThreadIds : Members(s)' = Members(s)
        /\ \A s \in ThreadIds : threads[s] = Absent => threads'[s] = Absent
    BY <1>3, <1>4, <1>5, <1>6 DEF Rows, Sent, InThread, Members
  <1>9. WellKept'
    BY <1>3, <1>4, <1>5, <1>6, <1>8 DEF IInv, WellKept, Rows
  <1>10. ASSUME NEW s \in Requests
         PROVE  Creating(s)' /\ Sharing(s)' /\ SendingOwn(s)' /\ Marking(s)'
    BY <1>5, <1>8, OthersKept, EndedKept DEF IInv
  <1>11. ASSUME NEW s \in ThreadIds PROVE Placed(s)'
    <2>1. /\ SendingTo(s)' = SendingTo(s) \ {r}
          /\ \A q \in SendingTo(s) : q # r => requests'[q] = requests[q]
      BY <1>5, EndFields DEF IInv, SendingTo
    <2>2. r \in SendingTo(t)
      BY <1>1, <1>2 DEF SendingTo
    <2>3. CASE s # t
      <3>1. r \notin SendingTo(s)
        BY <1>1, <2>3 DEF SendingTo
      <3> QED  BY <1>5, <1>6, <1>8, <2>1, <2>3, <3>1 DEF IInv, Placed
    <2>4. CASE s = t
      <3> SUFFICES ASSUME t \notin behind' PROVE Placed(t)'
        BY <2>4 DEF Placed
      <3>1. SendingTo(t) = {r} /\ \A m \in InThread(t) : m <= w.id
        BY <1>1, <1>3, <1>5, <2>2 DEF IInv, Placed
      <3>2. SendingTo(t)' = {}
        BY <2>1, <2>4, <3>1
      <3>3. w.id # None
        BY <1>3, NoneAssumption DEF MessageIds
      <3> QED  BY <1>3, <1>4, <1>6, <1>8, <3>1, <3>2, <3>3 DEF Placed
    <2> QED  BY <2>3, <2>4
  <1> QED  BY <1>7, <1>9, <1>10, <1>11 DEF IInv

(* CommitMarks: nothing but marks.                                         *)
LEMMA Marks ==
    ASSUME IInv, NEW r \in Requests, CommitMarks(r)
    PROVE  /\ \A m \in requests[r].unread : m \in Sent
           /\ \A m \in MessageIds : messages[m] = Absent => messages'[m] = Absent
           /\ \A m \in Sent : /\ messages'[m] \in Message
                              /\ messages'[m].thread = messages[m].thread
                              /\ messages'[m].sender = messages[m].sender
                              /\ messages'[m].read
                                 <=> messages[m].read \/ m \in requests[r].unread
           /\ \A m \in MessageIds \ requests[r].unread : messages'[m] = messages[m]
  <1> DEFINE Read(row) == [row EXCEPT !.read = TRUE]
  <1>1. \A m \in requests[r].unread : m \in Sent
    BY DEF CommitMarks, IInv, Marking
  <1>2. \A m \in MessageIds :
            messages'[m] = IF m \in requests[r].unread THEN Read(messages[m]) ELSE messages[m]
    BY DEF CommitMarks
  <1>3. ASSUME NEW row \in Message
        PROVE  /\ Read(row) \in Message /\ Read(row).read = TRUE
               /\ Read(row).thread = row.thread /\ Read(row).sender = row.sender
    BY DEF Message
  <1> HIDE DEF Read
  <1>4. \A m \in Sent : messages[m] \in Message /\ m \in MessageIds
    BY MessageFields DEF IInv
  <1>5. \A m \in MessageIds : messages[m] = Absent => m \notin requests[r].unread
    BY <1>1 DEF Sent
  <1>6. \A m \in Sent :
            /\ messages'[m] \in Message
            /\ messages'[m].thread = messages[m].thread
            /\ messages'[m].sender = messages[m].sender
            /\ messages'[m].read <=> messages[m].read \/ m \in requests[r].unread
    BY <1>2, <1>3, <1>4
  <1> QED  BY <1>1, <1>2, <1>5, <1>6

LEMMA CommitMarksInv ==
    ASSUME IInv, NEW r \in Requests, CommitMarks(r)
    PROVE  IInv'
  <1>1. /\ requests[r].op = "mark" /\ UNCHANGED <<friends, threads, clock, behind>> /\ End(r)
    BY DEF CommitMarks
  <1>2. Sent' = Sent
    <2>1. ASSUME NEW m \in MessageIds PROVE messages'[m] # Absent <=> messages[m] # Absent
      <3>1. CASE messages[m] = Absent
        BY <3>1, Marks
      <3>2. CASE messages[m] # Absent
        BY <3>2, Marks, AbsentAssumption DEF Sent
      <3> QED  BY <3>1, <3>2
    <2> QED  BY <2>1 DEF Sent
  <1>3. /\ Rows' = Rows /\ \A s \in ThreadIds : InThread(s)' = InThread(s)
        /\ \A s \in ThreadIds : Members(s)' = Members(s)
    <2>1. /\ Rows' = Rows /\ \A s \in ThreadIds : Members(s)' = Members(s)
      BY <1>1 DEF Rows, Members
    <2>2. \A m \in Sent : messages'[m].thread = messages[m].thread
      BY Marks
    <2>3. \A s \in ThreadIds : InThread(s)' = InThread(s)
      BY <1>2, <2>2 DEF InThread
    <2> QED  BY <2>1, <2>3
  <1>4. messages' \in [MessageIds -> Message \cup {Absent}]
    <2>1. ASSUME NEW m \in MessageIds PROVE messages'[m] \in Message \cup {Absent}
      <3>1. CASE messages[m] = Absent
        BY <3>1, Marks
      <3>2. CASE messages[m] # Absent
        BY <3>2, Marks DEF Sent
      <3> QED  BY <3>1, <3>2
    <2>2. DOMAIN messages' = MessageIds /\ messages' = [m \in MessageIds |-> messages'[m]]
      <3> DEFINE row(m) == IF m \in requests[r].unread
                           THEN [messages[m] EXCEPT !.read = TRUE] ELSE messages[m]
      <3>1. messages' = [m \in MessageIds |-> row(m)]
        BY DEF CommitMarks
      <3> HIDE DEF row
      <3> QED  BY <3>1
    <2> QED  BY <2>1, <2>2
  <1>5. TypeOK'
    BY <1>1, <1>4, EndFields DEF IInv, TypeOK
  <1>6. WellKept'
    <2>1. \A m \in Sent : messages'[m].thread = messages[m].thread
      BY Marks
    <2> QED  BY <1>1, <1>2, <1>3, <2>1 DEF IInv, WellKept
  <1>7. ASSUME NEW s \in Requests PROVE Creating(s)' /\ Sharing(s)' /\ SendingOwn(s)' /\ Marking(s)'
    BY <1>1, <1>2, <1>3, Marks, OthersKept, EndedKept DEF IInv
  <1>8. ASSUME NEW s \in ThreadIds PROVE Placed(s)'
    <2>1. /\ SendingTo(s)' = SendingTo(s)
          /\ \A q \in SendingTo(s) : requests'[q] = requests[q]
      BY <1>1, EndFields DEF IInv, SendingTo, Sending
    <2> QED  BY <1>1, <1>3, <2>1 DEF IInv, Placed
  <1> QED  BY <1>5, <1>6, <1>7, <1>8 DEF IInv

(* Interrupted: a thread whose message has no time yet is behind.          *)
LEMMA InterruptedInv ==
    ASSUME IInv, NEW r \in Requests, Interrupted(r)
    PROVE  IInv'
  <1>1. PICK w \in Work : w = requests[r]
    BY DEF Interrupted, IInv, TypeOK
  <1>2. /\ behind' = IF w.op = "touch" THEN behind \cup {w.thread} ELSE behind
        /\ UNCHANGED <<friends, threads, messages, clock>> /\ End(r)
    BY <1>1 DEF Interrupted
  <1>3. /\ Rows' = Rows /\ Sent' = Sent
        /\ \A s \in ThreadIds : InThread(s)' = InThread(s) /\ Members(s)' = Members(s)
    BY <1>2 DEF Rows, Sent, InThread, Members
  <1>4. TypeOK'
    BY <1>2, EndFields, WorkFields DEF IInv, TypeOK
  <1>5. WellKept'
    BY <1>2, <1>3 DEF IInv, WellKept
  <1>6. ASSUME NEW s \in Requests PROVE Creating(s)' /\ Sharing(s)' /\ SendingOwn(s)' /\ Marking(s)'
    BY <1>2, <1>3, OthersKept, EndedKept DEF IInv
  <1>7. ASSUME NEW s \in ThreadIds PROVE Placed(s)'
    <2> SUFFICES ASSUME s \in Rows, s \notin behind' PROVE Placed(s)'
      BY <1>3 DEF Placed
    <2>1. s \notin behind /\ Placed(s)
      BY <1>2 DEF IInv
    <2>2. /\ SendingTo(s)' = SendingTo(s) \ {r}
          /\ \A q \in SendingTo(s) : q # r => requests'[q] = requests[q]
      BY <1>2, EndFields DEF IInv, SendingTo
    <2>3. CASE r \notin SendingTo(s)
      BY <1>2, <1>3, <2>1, <2>2, <2>3 DEF Placed
    <2>4. CASE r \in SendingTo(s)
      <3>1. w.op = "send" /\ w.thread = s
        BY <1>1, <1>2, <2>4 DEF SendingTo, Sending
      <3>2. SendingTo(s) = {r} /\ SendingTo(s)' = {}
        BY <2>1, <2>2, <2>4 DEF Placed
      <3>3. w.id \notin InThread(s)
        BY <1>1, <3>1 DEF IInv, SendingOwn, InThread, Sent
      <3>4. (InThread(s) = {} /\ threads[s].last = None) \/ threads[s].last \in InThread(s)
        BY <1>1, <2>1, <3>1, <3>2 DEF Placed
      <3>5. \A m \in InThread(s) : threads[s].last # None /\ m <= threads[s].last
        BY <1>1, <2>1, <3>2, <3>3 DEF Placed
      <3> QED  BY <1>2, <1>3, <3>2, <3>4, <3>5 DEF Placed
    <2> QED  BY <2>3, <2>4
  <1> QED  BY <1>4, <1>5, <1>6, <1>7 DEF IInv

(* Friendships begin and end; who has checked one that ends is in ended.   *)
LEMMA FriendsInv ==
    ASSUME IInv, NEW p \in Pairs, Befriend(p) \/ Part(p)
    PROVE  IInv'
  <1>1. /\ UNCHANGED <<threads, messages, clock, requests, behind>>
        /\ ended \subseteq ended'
    BY DEF Befriend, Part
  <1>2. /\ Rows' = Rows /\ Sent' = Sent
        /\ \A s \in ThreadIds : InThread(s)' = InThread(s) /\ SendingTo(s)' = SendingTo(s)
    BY <1>1 DEF Rows, Sent, InThread, SendingTo
  <1>3. ASSUME NEW r \in Requests, requests[r].op \in {"create", "share", "send"},
               Party(requests[r]) \in friends \/ r \in ended
        PROVE  Party(requests[r]) \in friends' \/ r \in ended'
    BY <1>3 DEF Befriend, Part
  <1>4. TypeOK'
    <2>1. \A r \in Requests : Party(requests[r]) = p => requests[r] # Idle
      BY IdleFields DEF Party, Sending, Pairs
    <2> QED  BY <1>1, <2>1 DEF IInv, TypeOK, Befriend, Part
  <1>5. WellKept'
    BY <1>1, <1>2 DEF IInv, WellKept
  <1>6. ASSUME NEW r \in Requests PROVE Creating(r)' /\ Sharing(r)' /\ SendingOwn(r)' /\ Marking(r)'
    <2>1. requests[r].op \in {"create", "share"}
          => Party(requests[r]) = {requests[r].a, requests[r].b}
      BY DEF Party, Sending
    <2>2. requests[r].op = "send" => Party(requests[r]) = Members(requests[r].thread)
      BY DEF Party, Sending
    <2>3. Creating(r)'
      BY <1>1, <1>3, <2>1 DEF IInv, Creating
    <2>4. requests[r].op \in {"share", "send"}
          => Members(requests[r].thread) \in friends' \/ r \in ended'
      BY <1>3, <2>1, <2>2 DEF IInv, Sharing, SendingOwn
    <2>5. Members(requests[r].thread)' = Members(requests[r].thread)
      BY <1>1 DEF Members
    <2>6. InThread(requests[r].thread)' = InThread(requests[r].thread)
      BY <1>1 DEF InThread, Sent
    <2>7. SendingOwn(r)'
      BY <1>1, <1>2, <2>4, <2>5, <2>6 DEF IInv, SendingOwn
    <2>8. Marking(r)'
      BY <1>1, <1>2 DEF IInv, Marking
    <2>9. Sharing(r)'
      BY <1>1, <1>2, <2>4, <2>5 DEF IInv, Sharing
    <2> QED  BY <2>3, <2>7, <2>8, <2>9
  <1>7. ASSUME NEW s \in ThreadIds PROVE Placed(s)'
    BY <1>1, <1>2 DEF IInv, Placed
  <1> QED  BY <1>4, <1>5, <1>6, <1>7 DEF IInv

LEMMA NextInv ==
    ASSUME IInv, [Next]_vars
    PROVE  IInv'
  <1>1. ASSUME NEW r \in Requests, NEW u \in Users, NEW t \in ThreadIds, Calls(r, u, t)
        PROVE  IInv'
    BY <1>1, StartThreadInv, SendMessageInv, ReadThreadInv DEF Calls
  <1>2. ASSUME NEW r \in Requests, Commits(r)
        PROVE  IInv'
    BY <1>2, EndThreadInv, KeepThreadInv, CommitMessageInv, CommitTouchInv, CommitMarksInv
       DEF Commits
  <1>3. ASSUME NEW r \in Requests, Interrupted(r) PROVE IInv'
    BY <1>3, InterruptedInv
  <1>6. ASSUME NEW r \in Requests, NEW u \in Users, Share(r, u) PROVE IInv'
    BY <1>6, ShareInv
  <1>4. ASSUME NEW p \in Pairs, Befriend(p) \/ Part(p) PROVE IInv'
    BY <1>4, FriendsInv
  <1>5. CASE UNCHANGED vars
    <2>1. /\ Rows' = Rows /\ Sent' = Sent
          /\ \A t : /\ InThread(t)' = InThread(t) /\ SendingTo(t)' = SendingTo(t)
                   /\ Members(t)' = Members(t)
      BY <1>5 DEF vars, Rows, Sent, InThread, SendingTo, Members
    <2>2. TypeOK' /\ WellKept'
      BY <1>5, <2>1 DEF vars, IInv, TypeOK, WellKept
    <2>3. ASSUME NEW r \in Requests
          PROVE  Creating(r)' /\ Sharing(r)' /\ SendingOwn(r)' /\ Marking(r)'
      BY <1>5, <2>1 DEF vars, IInv, Creating, Sharing, SendingOwn, Marking, Members, InThread,
                         Sent
    <2>4. ASSUME NEW t \in ThreadIds PROVE Placed(t)'
      BY <1>5, <2>1 DEF vars, IInv, Placed
    <2> QED  BY <2>2, <2>3, <2>4 DEF IInv
  <1> QED  BY <1>1, <1>2, <1>3, <1>4, <1>5, <1>6 DEF Next

THEOREM Invariance == Spec => []IInv
  BY InitInv, NextInv, PTL DEF Spec

-----------------------------------------------------------------------------
(* Two users have one thread at most, whoever of them starts it and        *)
(* however their first calls overlap: get_or_create_thread with            *)
(* uq_chat_thread_users.                                                   *)
THEOREM OneThreadEach == Spec => []OneThread
  <1>1. ASSUME IInv, NEW t \in Rows, NEW s \in Rows, Members(t) = Members(s) PROVE t = s
    <2>1. /\ threads[t].a < threads[t].b /\ threads[s].a < threads[s].b
          /\ threads[t].a = threads[s].a /\ threads[t].b = threads[s].b => t = s
      BY <1>1 DEF IInv, WellKept
    <2>2. /\ threads[t].a \in Int /\ threads[t].b \in Int
          /\ threads[s].a \in Int /\ threads[s].b \in Int
      BY <1>1, RowFields, UsersAssumption DEF IInv
    <2>3. {threads[t].a, threads[t].b} = {threads[s].a, threads[s].b}
      BY <1>1 DEF Members
    <2>4. \/ threads[t].a = threads[s].a /\ threads[t].b = threads[s].b
          \/ threads[t].a = threads[s].b /\ threads[t].b = threads[s].a
      BY <2>3
    <2> QED  BY <2>1, <2>2, <2>4
  <1>2. IInv => OneThread
    BY <1>1 DEF OneThread
  <1> QED  BY <1>2, Invariance, PTL

(* Without a friendship, nothing is written but by a call that had checked *)
(* it before it ended: _verify_friendship in every call that writes.       *)
THEOREM FriendsOnly == Spec => OnlyFriendsWrite
  <1>1. ASSUME IInv, [Next]_vars, NEW t \in ThreadIds, threads[t] = Absent, threads'[t] # Absent
        PROVE  \/ {threads'[t].a, threads'[t].b} \in friends
               \/ \E r \in ended : requests[r].op = "create" /\ requests[r].thread = t
    <2>1. PICK r \in Requests : CommitThread(r) \/ CommitTouch(r)
      BY <1>1 DEF Next, Calls, StartThread, SendMessage, ReadThread, Begin, Commits, Share,
                  EndThread, KeepThread, CommitMessage, CommitMarks, Interrupted, Befriend,
                  Part, vars
    <2>2. PICK w \in Work : w = requests[r]
      BY <1>1, <2>1, OpFields DEF CommitThread, CommitTouch, IInv
    <2>3. CASE CommitTouch(r)
      <3>1. w.thread \in Rows
        BY <1>1, <2>2, <2>3 DEF CommitTouch, Sending, IInv, SendingOwn
      <3>2. w.thread # t
        BY <1>1, <3>1 DEF Rows
      <3> QED  BY <1>1, <2>2, <2>3, <3>2 DEF CommitTouch, IInv, TypeOK
    <2>4. CASE CommitThread(r)
      <3>1. w.op = "create"
        BY <2>2, <2>4 DEF CommitThread
      <3>2. threads' = [threads EXCEPT ![w.thread] = [a |-> w.a, b |-> w.b, last |-> None]]
        BY <2>2, <2>4 DEF CommitThread
      <3>3. t = w.thread
        BY <1>1, <3>2 DEF IInv, TypeOK
      <3>4. threads'[t].a = w.a /\ threads'[t].b = w.b
        BY <1>1, <3>2, <3>3 DEF IInv, TypeOK
      <3>5. {w.a, w.b} \in friends \/ r \in ended
        BY <1>1, <2>2, <3>1 DEF IInv, Creating
      <3> QED  BY <2>2, <3>1, <3>3, <3>4, <3>5
    <2> QED  BY <2>1, <2>3, <2>4
  <1>2. ASSUME IInv, [Next]_vars, NEW m \in MessageIds,
               messages[m] = Absent, messages'[m] # Absent
        PROVE  \/ Members(messages'[m].thread) \in friends
               \/ \E r \in ended : requests[r].op = "send" /\ requests[r].id = m
    <2>1. PICK r \in Requests : CommitMessage(r) \/ CommitMarks(r)
      BY <1>2 DEF Next, Calls, StartThread, SendMessage, ReadThread, Begin, Commits, Share,
                  EndThread, KeepThread, CommitThread, CommitTouch, Interrupted, Befriend,
                  Part, vars
    <2>2. CASE CommitMarks(r)
      BY <1>2, <2>2, Marks
    <2>3. CASE CommitMessage(r)
      <3>1. PICK w \in Work : w = requests[r]
        BY <1>2, <2>3, OpFields DEF CommitMessage, IInv
      <3>2. w.op = "send" /\ messages' = [messages EXCEPT ![w.id] =
                [thread |-> w.thread, sender |-> w.user, read |-> FALSE]]
        BY <2>3, <3>1 DEF CommitMessage
      <3>3. m = w.id
        BY <1>2, <3>2 DEF IInv, TypeOK
      <3>4. messages'[m].thread = w.thread
        BY <1>2, <3>2, <3>3 DEF IInv, TypeOK
      <3>5. Members(w.thread) \in friends \/ r \in ended
        BY <1>2, <3>1, <3>2 DEF IInv, SendingOwn
      <3> QED  BY <3>1, <3>2, <3>3, <3>4, <3>5
    <2> QED  BY <2>1, <2>2, <2>3
  <1>3. IInv /\ [Next]_vars => OnlyFriendsWriteStep
    BY <1>1, <1>2 DEF OnlyFriendsWriteStep
  <1> QED  BY <1>3, Invariance, PTL DEF Spec, OnlyFriendsWrite

(* A thread has the time of its newest message, unless calls that send to  *)
(* it overlap or one was cut off between its two commits, and no           *)
(* undisturbed one has followed: send_message, update_thread_last_message. *)
THEOREM NewestLast == Spec => []LastIsNewest
  <1>1. ASSUME IInv, NEW t \in Rows \ behind PROVE Placed(t)
    BY <1>1 DEF IInv, Rows
  <1>2. IInv => LastIsNewest
    BY <1>1 DEF LastIsNewest, Placed
  <1> QED  BY <1>2, Invariance, PTL

(* A reader's call leaves nothing that it was shown unread, and marks      *)
(* nothing of the reader's own: mark_messages_as_read.                     *)
THEOREM Reading == Spec => ReadsAll
  <1>1. ASSUME IInv, [Next]_vars, NEW r \in Requests, requests[r].op = "mark",
               requests'[r] # requests[r], messages' # messages
        PROVE  CommitMarks(r)
    <2>1. \E s \in Requests : CommitMessage(s) \/ CommitMarks(s)
      BY <1>1 DEF Next, Calls, StartThread, SendMessage, ReadThread, Begin, Commits, Share,
                  EndThread, KeepThread, CommitThread, CommitTouch, Interrupted, Befriend,
                  Part, vars
    <2>2. ASSUME NEW s \in Requests, CommitMessage(s) PROVE FALSE
      BY <1>1, <2>2 DEF CommitMessage, IInv, TypeOK
    <2>3. ASSUME NEW s \in Requests, s # r, CommitMarks(s) PROVE FALSE
      BY <1>1, <2>3, EndFields DEF CommitMarks, IInv
    <2> QED  BY <2>1, <2>2, <2>3
  <1>2. ASSUME IInv, NEW r \in Requests, CommitMarks(r), NEW m \in MessageIds
        PROVE  /\ m \in requests[r].present /\ messages[m].sender # requests[r].user
                  => messages'[m].read
               /\ messages'[m] # messages[m] => messages[m].sender # requests[r].user
    <2>1. requests[r].op = "mark" /\ Marking(r)
      BY <1>2 DEF CommitMarks, IInv
    <2>2. m \in requests[r].present /\ messages[m].sender # requests[r].user
          => messages'[m].read
      BY <1>2, <2>1, Marks DEF Marking
    <2>3. messages'[m] # messages[m] => messages[m].sender # requests[r].user
      BY <1>2, <2>1, Marks DEF Marking
    <2> QED  BY <2>2, <2>3
  <1>3. ASSUME IInv, [Next]_vars PROVE ReadsAllStep
    BY <1>1, <1>2, <1>3 DEF ReadsAllStep
  <1> QED  BY <1>3, Invariance, PTL DEF Spec, ReadsAll
=============================================================================
