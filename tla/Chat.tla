-------------------------------- MODULE Chat --------------------------------
(***************************************************************************)
(* Chat between friends: ChatService over ChatRepository, with any number  *)
(* of requests in flight.                                                  *)
(*                                                                         *)
(* Two friends share one thread, whose row names them in the order of      *)
(* their ids.  Sending a message is two commits, the message and then the  *)
(* thread's last_message_at, after the friendship has been checked in an   *)
(* earlier transaction; sharing a book or a collection may come to three,  *)
(* with the thread.  Reading a thread marks what the other one wrote.      *)
(*                                                                         *)
(* Friendships change at any time (module Friendship); of them only        *)
(* whether get_between finds an accepted one matters here.  Messages are   *)
(* named by the order in which their calls took the time.                  *)
(***************************************************************************)
EXTENDS Integers

CONSTANTS Users,        \* user ids, which are ordered
          ThreadIds,    \* primary keys of threads
          Requests,     \* concurrent HTTP requests
          MaxMessages,  \* bound: calls that send a message
          None,         \* SQL NULL
          Absent        \* no such row

VARIABLES friends,   \* the pairs of users who are friends
          threads,   \* the row of each thread, or Absent
          messages,  \* the row of each message, or Absent
          clock,     \* the time the last call that sends has taken
          requests,  \* what each request has read and is about to do
          ended,     \* history: requests whose users' friendship has ended
                     \* since they checked it
          behind     \* history: threads whose last_message_at an overlapped or
                     \* an interrupted call has left, and no later call put right

vars == <<friends, threads, messages, clock, requests, ended, behind>>

ASSUME UsersAssumption == Users \subseteq Int
ASSUME BoundAssumption == MaxMessages \in Nat

MessageIds == 1 .. MaxMessages
Pairs == {p \in SUBSET Users : \E u, v \in Users : u # v /\ p = {u, v}}

Thread == [a : Users, b : Users, last : MessageIds \cup {None}]
Message == [thread : ThreadIds, sender : Users, read : BOOLEAN]

ASSUME AbsentAssumption == Absent \notin Thread /\ Absent \notin Message
ASSUME NoneAssumption == None \notin Int

Idle == [op |-> "idle"]

Work == [op : {"create", "share"}, thread : ThreadIds, a : Users, b : Users]
        \cup [op : {"send", "touch"}, thread : ThreadIds, user : Users, id : MessageIds]
        \cup [op : {"mark"}, thread : ThreadIds, user : Users,
              unread : SUBSET MessageIds, present : SUBSET MessageIds]

Rows == {t \in ThreadIds : threads[t] # Absent}
Sent == {m \in MessageIds : messages[m] # Absent}
InThread(t) == {m \in Sent : messages[m].thread = t}
Members(t) == {threads[t].a, threads[t].b}

(* get_thread_for_users.                                                   *)
Least(u, v) == IF u < v THEN u ELSE v
Greatest(u, v) == IF u < v THEN v ELSE u

ThreadsOf(u, v) ==
    {t \in Rows : threads[t].a = Least(u, v) /\ threads[t].b = Greatest(u, v)}

Sending(w) == w.op \in {"send", "touch"}

(* The calls that are sending to a thread.                                 *)
SendingTo(t) == {r \in Requests : Sending(requests[r]) /\ requests[r].thread = t}

-----------------------------------------------------------------------------
Begin(r, w) ==
    /\ requests[r] = Idle
    /\ requests' = [requests EXCEPT ![r] = w]
    /\ UNCHANGED <<friends, threads, messages, ended>>

(* _verify_friendship.                                                     *)
VerifyFriendship(u, v) == u # v /\ {u, v} \in friends

(* Mutant of NewThread: the users stand as the call names them.            *)
ThreadAsNamed(t, u, v) == [op |-> "create", thread |-> t, a |-> u, b |-> v]

NewThread(t, u, v) ==
    [op |-> "create", thread |-> t, a |-> Least(u, v), b |-> Greatest(u, v)]

(* get_or_create_thread, when there is none yet.                           *)
StartThread(r, u, v, t) ==
    /\ VerifyFriendship(u, v)
    /\ ThreadsOf(u, v) = {}
    /\ t \notin Rows
    /\ \A s \in Requests : requests[s] # Idle => requests[s].thread # t
    /\ Begin(r, NewThread(t, u, v))
    /\ UNCHANGED <<clock, behind>>

(* Mutant of MaySend: whoever has a thread may go on using it.             *)
MaySendOnThread(u, t) == u \in Members(t)

(* send_message_to_thread finds the recipient in the thread, and           *)
(* send_message the thread by its users again.                             *)
MaySend(u, t) ==
    /\ u \in Members(t)
    /\ \E v \in Members(t) : VerifyFriendship(u, v) /\ t \in ThreadsOf(u, v)

SendMessage(r, u, t) ==
    /\ clock < MaxMessages
    /\ t \in Rows
    /\ MaySend(u, t)
    /\ clock' = clock + 1
    /\ Begin(r, [op |-> "send", thread |-> t, user |-> u, id |-> clock + 1])
    /\ behind' = IF SendingTo(t) # {} THEN behind \cup {t} ELSE behind

(* Mutant of Unread: the newest message is all a page shows.               *)
UnreadOfPage(t, u) ==
    {m \in InThread(t) : /\ messages[m].sender # u
                         /\ ~messages[m].read
                         /\ \A n \in InThread(t) : n <= m}

(* What mark_messages_as_read finds.                                       *)
Unread(t, u) == {m \in InThread(t) : messages[m].sender # u /\ ~messages[m].read}

(* get_messages, which returns a page and marks the whole thread, and      *)
(* mark_thread_read.  Nothing unread is no commit.  What is present then   *)
(* is kept for ReadsAll only.                                              *)
ReadThread(r, u, t) ==
    /\ t \in Rows
    /\ u \in Members(t)
    /\ Unread(t, u) # {}
    /\ Begin(r, [op |-> "mark", thread |-> t, user |-> u, unread |-> Unread(t, u),
                 present |-> InThread(t)])
    /\ UNCHANGED <<clock, behind>>

-----------------------------------------------------------------------------
End(r) ==
    /\ requests' = [requests EXCEPT ![r] = Idle]
    /\ ended' = ended \ {r}

(* uq_chat_thread_users.                                                   *)
UniqueThread(a, b) == \A t \in Rows : threads[t].a # a \/ threads[t].b # b

CommitThread(r) ==
    LET w == requests[r]
    IN  /\ w.op = "create"
        /\ UniqueThread(w.a, w.b)
        /\ threads' = [threads EXCEPT ![w.thread] = [a |-> w.a, b |-> w.b, last |-> None]]
        /\ UNCHANGED <<friends, messages, clock, behind>>

(* POST /chat/threads is done, a share goes on.                            *)
EndThread(r) == CommitThread(r) /\ End(r)

KeepThread(r) ==
    /\ CommitThread(r)
    /\ requests' = [requests EXCEPT ![r].op = "share"]
    /\ UNCHANGED ended

(* share_book, share_collection: send_message with a thread of its own     *)
(* making, whose friendship is not checked again.                          *)
Share(r, u) ==
    LET w == requests[r]
    IN  /\ w.op = "share"
        /\ u \in {w.a, w.b}
        /\ clock < MaxMessages
        /\ clock' = clock + 1
        /\ requests' = [requests EXCEPT ![r] =
               [op |-> "send", thread |-> w.thread, user |-> u, id |-> clock + 1]]
        /\ behind' = IF SendingTo(w.thread) # {} THEN behind \cup {w.thread} ELSE behind
        /\ UNCHANGED <<friends, threads, messages, ended>>

CommitMessage(r) ==
    LET w == requests[r]
    IN  /\ w.op = "send"
        /\ messages' = [messages EXCEPT ![w.id] =
               [thread |-> w.thread, sender |-> w.user, read |-> FALSE]]
        /\ requests' = [requests EXCEPT ![r] = [w EXCEPT !.op = "touch"]]
        /\ UNCHANGED <<friends, threads, clock, ended, behind>>

(* Mutant of Touched: last_message_at is only ever set once.               *)
TouchedOnce(thread, m) == IF thread.last = None THEN [thread EXCEPT !.last = m] ELSE thread

(* update_thread_last_message.                                             *)
Touched(thread, m) == [thread EXCEPT !.last = m]

(* The second commit of send_message; then the broadcast, which changes no *)
(* row.                                                                    *)
CommitTouch(r) ==
    LET w == requests[r]
    IN  /\ w.op = "touch"
        /\ threads' = [threads EXCEPT ![w.thread] = Touched(@, w.id)]
        /\ behind' = IF /\ SendingTo(w.thread) = {r}
                        /\ \A m \in InThread(w.thread) : m <= w.id
                     THEN behind \ {w.thread} ELSE behind
        /\ End(r)
        /\ UNCHANGED <<friends, messages, clock>>

CommitMarks(r) ==
    LET w == requests[r]
    IN  /\ w.op = "mark"
        /\ messages' = [m \in MessageIds |->
               IF m \in w.unread THEN [messages[m] EXCEPT !.read = TRUE] ELSE messages[m]]
        /\ End(r)
        /\ UNCHANGED <<friends, threads, clock, behind>>

(* An IntegrityError (the thread exists by now, the attachment does not),  *)
(* or the request is cancelled or killed: what it has committed stays.     *)
Interrupted(r) ==
    LET w == requests[r]
    IN  /\ w # Idle
        /\ behind' = IF w.op = "touch" THEN behind \cup {w.thread} ELSE behind
        /\ End(r)
        /\ UNCHANGED <<friends, threads, messages, clock>>

(* The two users of a request that has checked that they are friends.      *)
Party(w) ==
    CASE w.op \in {"create", "share"} -> {w.a, w.b}
      [] Sending(w)                   -> Members(w.thread)
      [] OTHER                        -> {}

Befriend(p) ==
    /\ p \notin friends
    /\ friends' = friends \cup {p}
    /\ UNCHANGED <<threads, messages, clock, requests, ended, behind>>

(* Unfriended, or blocked.                                                 *)
Part(p) ==
    /\ p \in friends
    /\ friends' = friends \ {p}
    /\ ended' = ended \cup {r \in Requests : Party(requests[r]) = p}
    /\ UNCHANGED <<threads, messages, clock, requests, behind>>

-----------------------------------------------------------------------------
Init ==
    /\ friends = {}
    /\ threads = [t \in ThreadIds |-> Absent]
    /\ messages = [m \in MessageIds |-> Absent]
    /\ clock = 0
    /\ requests = [r \in Requests |-> Idle]
    /\ ended = {}
    /\ behind = {}

Calls(r, u, t) ==
    \/ \E v \in Users : StartThread(r, u, v, t)
    \/ SendMessage(r, u, t)
    \/ ReadThread(r, u, t)

Commits(r) ==
    \/ EndThread(r)     \/ KeepThread(r)
    \/ CommitMessage(r) \/ CommitTouch(r)
    \/ CommitMarks(r)

Next ==
    \/ \E r \in Requests, u \in Users, t \in ThreadIds : Calls(r, u, t)
    \/ \E r \in Requests : Commits(r) \/ Interrupted(r)
    \/ \E r \in Requests, u \in Users : Share(r, u)
    \/ \E p \in Pairs : Befriend(p) \/ Part(p)

Spec == Init /\ [][Next]_vars

-----------------------------------------------------------------------------
TypeOK ==
    /\ friends \subseteq Pairs
    /\ threads \in [ThreadIds -> Thread \cup {Absent}]
    /\ messages \in [MessageIds -> Message \cup {Absent}]
    /\ clock \in 0 .. MaxMessages
    /\ requests \in [Requests -> Work \cup {Idle}]
    /\ ended \subseteq {r \in Requests : requests[r] # Idle}
    /\ behind \subseteq ThreadIds

(* Two users have one thread, whoever of them starts it and however their  *)
(* first calls overlap: the constraint on the ordered pair sees both ways. *)
OneThread ==
    \A t, s \in Rows : Members(t) = Members(s) => t = s

(* Between users who are no friends a thread or a message still appears    *)
(* only from a call that had checked their friendship before it ended; in  *)
(* particular no call that begins after a block gets anything through.     *)
OnlyFriendsWriteStep ==
    /\ \A t \in ThreadIds : threads[t] = Absent /\ threads'[t] # Absent =>
           \/ {threads'[t].a, threads'[t].b} \in friends
           \/ \E r \in ended : requests[r].op = "create" /\ requests[r].thread = t
    /\ \A m \in MessageIds : messages[m] = Absent /\ messages'[m] # Absent =>
           \/ Members(messages'[m].thread) \in friends
           \/ \E r \in ended : requests[r].op = "send" /\ requests[r].id = m

OnlyFriendsWrite == [][OnlyFriendsWriteStep]_vars

(* A thread stands in the list of threads where its newest message puts    *)
(* it: unless calls that send to it overlap, or one was interrupted        *)
(* between its two commits, and no undisturbed one has followed.           *)
LastIsNewest ==
    \A t \in Rows \ behind :
        /\ SendingTo(t) = {} =>
               \/ InThread(t) = {} /\ threads[t].last = None
               \/ threads[t].last \in InThread(t)
        /\ \A m \in InThread(t) :
               \/ threads[t].last # None /\ m <= threads[t].last
               \/ \E r \in SendingTo(t) : requests[r].id = m

(* A reader's call leaves nothing unread to that reader but what was sent  *)
(* while it ran, and marks nothing the reader wrote, although other calls  *)
(* mark and send meanwhile.                                                *)
ReadsAllStep ==
    \A r \in Requests :
        LET w == requests[r]
        IN  w.op = "mark" /\ requests'[r] # w /\ messages' # messages =>
                \A m \in MessageIds :
                    /\ m \in w.present /\ messages[m].sender # w.user => messages'[m].read
                    /\ messages'[m] # messages[m] => messages[m].sender # w.user

ReadsAll == [][ReadsAllStep]_vars
=============================================================================
