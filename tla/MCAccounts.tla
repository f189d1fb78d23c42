----------------------------- MODULE MCAccounts -----------------------------
(***************************************************************************)
(* TLC instances of Accounts.                                              *)
(***************************************************************************)
EXTENDS Accounts, TLC

ActiveOnly == {"active"}

Symmetry ==
    Permutations(Passwords) \cup Permutations(RefreshIds) \cup Permutations(Requests)

(* Bound: refresh tokens or reset tokens.  No action relates the two.      *)
OneKind ==
    \/ \A t \in RefreshIds : login[t] = Absent
    \/ \A t \in ResetIds : resets[t] = Absent
=============================================================================
