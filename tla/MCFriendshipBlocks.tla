------------------------ MODULE MCFriendshipBlocks -------------------------
(***************************************************************************)
(* Friendship with one more history variable: who has called unblock on    *)
(* whom, to tell a block that was lifted from one that was lost.           *)
(***************************************************************************)
EXTENDS Friendship

VARIABLE lifted   \* <<u, v>> once u has called unblock on v

LiftedBy(w) ==
    IF w.kind = "delete" /\ w.loaded.status = "blocked"
    THEN {<<w.actor, v>> : v \in Ends(w.loaded) \ {w.actor}}
    ELSE {}

BlocksInit == Init /\ lifted = {}

BlocksNext ==
    /\ Next
    /\ lifted' = lifted \cup UNION {LiftedBy(inflight'[r]) : r \in Requests}

BlocksSpec == BlocksInit /\ [][BlocksNext]_<<vars, lifted>>

(* Only the user who blocks can unblock: while u has blocked v and has     *)
(* never unblocked v, a blocked row stands between them.                   *)
BlockStands ==
    \A u, v \in Users :
        /\ <<"block", u, v>> \in calls
        /\ <<u, v>> \notin lifted
        /\ \A r \in Requests : inflight[r] = Idle
        => \E f \in Between(u, v) : friendships[f].status = "blocked"
=============================================================================
