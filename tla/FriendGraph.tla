---------------------------- MODULE FriendGraph -----------------------------
(***************************************************************************)
(* What the friendship feature promises, with no rows, requests or         *)
(* columns: between any two users there is exactly one relation, and it    *)
(* changes only along the edges below.  A friendship comes only out of a   *)
(* request, a blocked user cannot reach the other by asking, and a block   *)
(* ends only by being lifted or by becoming the other side's block.        *)
(***************************************************************************)
CONSTANT Users

VARIABLE relation   \* pair of users -> how they stand

Pairs == {pair \in SUBSET Users : \E u, v \in Users : u # v /\ pair = {u, v}}

None       == [is |-> "none"]
Friends    == [is |-> "friends"]
Declined   == [is |-> "declined"]
Asked(u)   == [is |-> "asked", by |-> u]
Blocked(u) == [is |-> "blocked", by |-> u]

Change(pair, from, to) ==
    /\ relation[pair] \in from
    /\ relation' = [relation EXCEPT ![pair] = to]

Ask(pair)     == \E u \in pair : Change(pair, {None, Declined}, Asked(u))
Accept(pair)  == Change(pair, {Asked(u) : u \in pair}, Friends)
Decline(pair) == Change(pair, {Asked(u) : u \in pair}, Declined)
Leave(pair)   == Change(pair, {Friends}, None)
Unblock(pair) == Change(pair, {Blocked(u) : u \in pair}, None)
Block(pair)   ==
    \E u \in pair :
        relation' = [relation EXCEPT ![pair] = Blocked(u)]

Init == relation = [pair \in Pairs |-> None]

Next ==
    \E pair \in Pairs :
        \/ Ask(pair)   \/ Accept(pair) \/ Decline(pair)
        \/ Leave(pair) \/ Block(pair)  \/ Unblock(pair)

Spec == Init /\ [][Next]_relation
=============================================================================
