-------------------------- MODULE ReadingSessions ---------------------------
(***************************************************************************)
(* The reading sessions of a user: ReadingSessionService over              *)
(* ReadingSessionRepository, with any number of the user's requests in     *)
(* flight.                                                                 *)
(*                                                                         *)
(* A session is open until ended_at is set.  start looks for an open one   *)
(* of the release before it inserts; stop ends the open one it found; a    *)
(* PATCH may set ended_at, or clear it and so reopen a session.  What      *)
(* keeps two sessions of a release from being open is a partial unique     *)
(* index, checked as each change is written.                               *)
(***************************************************************************)
CONSTANTS SessionIds,  \* primary keys of the user's sessions
          Releases,    \* the releases the user reads
          Requests     \* concurrent HTTP requests of the user

VARIABLES sessions,    \* the rows: a function on the keys in use
          calls,       \* what each request has read and is about to do
          stopped      \* history: sessions a committed stop has ended, and no
                       \* PATCH that asks for ended_at to be cleared since

vars == <<sessions, calls, stopped>>

Session == [release : Releases, open : BOOLEAN]

Exists(d) == d \in DOMAIN sessions

Open(d) == Exists(d) /\ sessions[d].open

(* get_active_for_user_and_release.                                        *)
Active(release) == {d \in SessionIds : Open(d) /\ sessions[d].release = release}

(* Mutant of Taken: there is no unique index.                              *)
NeverTaken(release, d) == FALSE

(* uq_reading_session_active_user_release: opening d for the release would *)
(* be a second one.                                                        *)
Taken(release, d) == Active(release) \ {d} # {}

Idle == [op |-> "idle"]

(* What a PATCH asks of ended_at, and what its commit does to it: nothing, *)
(* set it, or clear it.                                                    *)
Effects == {"keep", "end", "reopen"}

Work == [op : {"start"}, id : SessionIds, release : Releases]
        \cup [op : {"stop", "update"}, id : SessionIds, asked : Effects, effect : Effects]
        \cup [op : {"delete"}, id : SessionIds]

-----------------------------------------------------------------------------
Begin(r, w) ==
    /\ calls[r] = Idle
    /\ calls' = [calls EXCEPT ![r] = w]
    /\ UNCHANGED <<sessions, stopped>>

(* start_session; the new row's uuid4 is known to no other request.        *)
StartSession(r, d, release) ==
    /\ ~Exists(d)
    /\ \A s \in Requests : calls[s] # Idle => calls[s].id # d
    /\ Active(release) = {}
    /\ Begin(r, [op |-> "start", id |-> d, release |-> release])

(* stop_session: ended_at becomes the time of the call.                    *)
StopSession(r, d) ==
    /\ Open(d)
    /\ Begin(r, [op |-> "stop", id |-> d, asked |-> "end", effect |-> "end"])

(* Mutant of NetEffect: the copy's ended_at is written with every edit.    *)
WrittenAnyway(d, asked) ==
    IF asked = "keep" THEN (IF Open(d) THEN "reopen" ELSE "end") ELSE asked

(* Clearing an ended_at that the copy does not have sends nothing.         *)
NetEffect(d, asked) ==
    IF asked = "reopen" /\ Open(d) THEN "keep" ELSE asked

(* update_session: any column, ended_at perhaps among them.                *)
UpdateSession(r, d, asked) ==
    /\ Exists(d)
    /\ Begin(r, [op |-> "update", id |-> d, asked |-> asked,
                 effect |-> NetEffect(d, asked)])

DeleteSession(r, d) ==
    /\ Exists(d)
    /\ Begin(r, [op |-> "delete", id |-> d])

-----------------------------------------------------------------------------
End(r) == calls' = [calls EXCEPT ![r] = Idle]

CommitStart(r) ==
    LET w == calls[r]
    IN  /\ w.op = "start"
        /\ ~Taken(w.release, w.id)
        /\ sessions' = [d \in DOMAIN sessions \cup {w.id} |->
               IF d = w.id THEN [release |-> w.release, open |-> TRUE] ELSE sessions[d]]
        /\ stopped' = stopped \ {w.id}
        /\ End(r)

(* The commit of a stop or a PATCH whose row is still there.               *)
CommitUpdate(r) ==
    LET w == calls[r]
    IN  /\ w.op \in {"stop", "update"}
        /\ Exists(w.id)
        /\ w.effect = "reopen" => ~Taken(sessions[w.id].release, w.id)
        /\ sessions' = [sessions EXCEPT ![w.id].open =
               CASE w.effect = "keep"   -> @
                 [] w.effect = "end"    -> FALSE
                 [] w.effect = "reopen" -> TRUE]
        /\ stopped' = IF w.op = "stop" THEN stopped \cup {w.id}
                      ELSE IF w.asked = "reopen" THEN stopped \ {w.id} ELSE stopped
        /\ End(r)

(* A row that is gone by now is no error.                                  *)
CommitDelete(r) ==
    /\ calls[r].op = "delete"
    /\ sessions' = [d \in DOMAIN sessions \ {calls[r].id} |-> sessions[d]]
    /\ stopped' = stopped \ {calls[r].id}
    /\ End(r)

(* The index refuses the change with an IntegrityError that no handler     *)
(* catches, the row is gone (StaleDataError), or another column does not   *)
(* fit: a release that does not exist, a start that is null.               *)
Fails(r) ==
    /\ calls[r].op \in {"start", "stop", "update"}
    /\ End(r)
    /\ UNCHANGED <<sessions, stopped>>

-----------------------------------------------------------------------------
Init ==
    /\ sessions = << >>
    /\ calls = [r \in Requests |-> Idle]
    /\ stopped = {}

Next ==
    \E r \in Requests :
        \/ \E d \in SessionIds :
               \/ \E release \in Releases : StartSession(r, d, release)
               \/ StopSession(r, d)
               \/ \E asked \in Effects : UpdateSession(r, d, asked)
               \/ DeleteSession(r, d)
        \/ CommitStart(r) \/ CommitUpdate(r) \/ CommitDelete(r) \/ Fails(r)

Spec == Init /\ [][Next]_vars

-----------------------------------------------------------------------------
TypeOK ==
    /\ DOMAIN sessions \subseteq SessionIds
    /\ sessions \in [DOMAIN sessions -> Session]
    /\ calls \in [Requests -> Work \cup {Idle}]
    /\ stopped \subseteq SessionIds

(* However starts, stops and edits overlap, a release has one open session *)
(* at most: the check in start_session alone does not see to it.           *)
OneOpen ==
    \A d, e \in SessionIds :
        Open(d) /\ Open(e) /\ sessions[d].release = sessions[e].release => d = e

(* A session that a stop has ended stays ended until a PATCH that clears   *)
(* ended_at: an edit of its notes or pages that read it while it was open  *)
(* and commits after the stop does not reopen it.                          *)
StaysStopped == \A d \in stopped : Exists(d) /\ ~sessions[d].open
=============================================================================
