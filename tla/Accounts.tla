------------------------------ MODULE Accounts ------------------------------
(***************************************************************************)
(* Accounts and the tokens that stand for them: AuthService, UserService   *)
(* and EmailVerificationService over their repositories.                   *)
(*                                                                         *)
(* A login issues a refresh token; a refresh revokes the token it is given *)
(* and issues the next one, in two commits.  A password reset sets the     *)
(* password and marks its token as used, in two commits.  Everything else  *)
(* edits one column of the account: the handler reads the row, and commits *)
(* the column if it differs from what was read.  Access tokens are         *)
(* stateless: only the account's row decides whether a caller may act.     *)
(***************************************************************************)
CONSTANTS UserIds,     \* accounts, each with an e-mail and a username of its own
          Passwords,
          Flags,       \* the other columns: "active", admin, verified, profile
          RefreshIds,  \* jti of refresh tokens
          ResetIds,    \* jti of password reset tokens
          Requests,    \* concurrent HTTP requests
          Absent       \* no such row

VARIABLES account,   \* the rows of "user"
          refresh,   \* the rows of "refreshtoken"
          reset,     \* the rows of "passwordresettoken"
          expired,   \* tokens past their expires_at
          inflight,  \* what each request has read and is about to do
          login,     \* history: the first token since the login, by token
          shared,    \* history: logins of which two calls spent a token at a time
          resets,    \* history: how often a reset token set the password
          upset,     \* history: reset tokens that two calls used at a time, or
                     \* one call that ended between its commits
          asked,     \* history: the account as the edits committed so far asked
          raced,     \* history: requests whose edit overlapped another of the
                     \* same column
          crossed    \* history: columns last edited by such a request

tokens == <<refresh, reset, expired>>
history == <<login, shared, resets, upset, asked, raced, crossed>>
vars == <<account, tokens, inflight, history>>

Columns == {"password"} \cup Flags

Values(c) == IF c = "password" THEN Passwords ELSE BOOLEAN

Account ==
    {a \in [Columns -> Passwords \cup BOOLEAN] : \A c \in Columns : a[c] \in Values(c)}

RefreshToken == [user : UserIds, revoked : BOOLEAN]

ResetToken == [user : UserIds, used : BOOLEAN]

ASSUME AbsentAssumption ==
    /\ Absent \notin RefreshIds \cup ResetIds \cup Account
    /\ Absent \notin RefreshToken \cup ResetToken \cup {"never", "once", "more"}
ASSUME TokensAssumption == RefreshIds \cap ResetIds = {}
ASSUME ActiveAssumption == "active" \in Flags /\ "password" \notin Flags

Idle == [kind |-> "idle"]

Work ==
    [kind : {"register"}, user : UserIds, row : Account]
    \cup [kind : {"issue"}, user : UserIds, login : RefreshIds \cup {Absent}]
    \cup [kind : {"refresh"}, user : UserIds, token : RefreshIds]
    \cup [kind : {"logout"}, token : RefreshIds]
    \cup [kind : {"mint"}, user : UserIds]
    \cup {w \in [kind : {"edit"}, user : UserIds, loaded : Account, column : Columns,
                  value : Passwords \cup BOOLEAN, reset : ResetIds \cup {Absent}] :
             w.value \in Values(w.column)}
    \cup [kind : {"spend"}, token : ResetIds]

-----------------------------------------------------------------------------
(* What the requests in flight are about.                                  *)
Exists(u) == account[u] # Absent

Active(u) == Exists(u) /\ account[u]["active"]

Spending(t) ==
    {r \in Requests : inflight[r].kind \in {"refresh", "logout"} /\ inflight[r].token = t}

Resetting(t) ==
    {r \in Requests : \/ inflight[r].kind = "edit" /\ inflight[r].reset = t
                      \/ inflight[r].kind = "spend" /\ inflight[r].token = t}

Editing(u, c) ==
    {r \in Requests : /\ inflight[r].kind = "edit"
                      /\ inflight[r].user = u /\ inflight[r].column = c}

Goes(r, w) == inflight' = [inflight EXCEPT ![r] = w]

Begin(r, w) == inflight[r] = Idle /\ Goes(r, w)

End(r) == Goes(r, Idle) /\ raced' = raced \ {r}

-----------------------------------------------------------------------------
(* Reads of AuthService.                                                   *)
Register(r, u, password) ==
    /\ ~Exists(u)
    /\ Begin(r, [kind |-> "register", user |-> u,
                 row |-> [c \in Columns |->
                             IF c = "password" THEN password ELSE c = "active"]])
    /\ UNCHANGED <<account, tokens, history>>

Login(r, u, password) ==
    /\ Exists(u)
    /\ account[u]["password"] = password
    /\ Begin(r, [kind |-> "issue", user |-> u, login |-> Absent])
    /\ UNCHANGED <<account, tokens, history>>

(* The token whose login a request spends at the same time as another.     *)
Share(t) ==
    shared' = IF Spending(t) = {} THEN shared ELSE shared \cup {login[t]}

(* Mutant of Refresh: revoked tokens are good.                             *)
RefreshAny(r, t) ==
    /\ refresh[t] # Absent
    /\ t \notin expired
    /\ Begin(r, [kind |-> "refresh", user |-> refresh[t].user, token |-> t])
    /\ Share(t)
    /\ UNCHANGED <<account, tokens, login, resets, upset, asked, raced, crossed>>

Refresh(r, t) ==
    /\ refresh[t] # Absent
    /\ ~refresh[t].revoked
    /\ t \notin expired
    /\ Begin(r, [kind |-> "refresh", user |-> refresh[t].user, token |-> t])
    /\ Share(t)
    /\ UNCHANGED <<account, tokens, login, resets, upset, asked, raced, crossed>>

Logout(r, t) ==
    /\ refresh[t] # Absent
    /\ t \notin expired
    /\ Begin(r, [kind |-> "logout", token |-> t])
    /\ Share(t)
    /\ UNCHANGED <<account, tokens, login, resets, upset, asked, raced, crossed>>

(* Reads of UserService.                                                   *)
IssuePasswordReset(r, u) ==
    /\ Exists(u)
    /\ Begin(r, [kind |-> "mint", user |-> u])
    /\ UNCHANGED <<account, tokens, history>>

BeginEdit(r, u, c, value, t) ==
    /\ Begin(r, [kind |-> "edit", user |-> u, loaded |-> account[u],
                 column |-> c, value |-> value, reset |-> t])
    /\ raced' = IF Editing(u, c) = {} THEN raced ELSE raced \cup Editing(u, c) \cup {r}
    /\ UNCHANGED <<account, tokens, login, shared, resets, asked, crossed>>

ChangePassword(r, u, current, new) ==
    /\ Active(u)
    /\ account[u]["password"] = current
    /\ BeginEdit(r, u, "password", new, Absent)
    /\ UNCHANGED upset

(* deactivate, activate, promote, demote, confirm_verification and         *)
(* update_profile: by the user, an admin, or who holds a signed link.      *)
SetFlag(r, u, flag, value) ==
    /\ Exists(u)
    /\ BeginEdit(r, u, flag, value, Absent)
    /\ UNCHANGED upset

(* Mutant of ResetPassword: used tokens are good.                          *)
ResetPasswordAny(r, t, password) ==
    /\ reset[t] # Absent
    /\ t \notin expired
    /\ BeginEdit(r, reset[t].user, "password", password, t)
    /\ upset' = IF Resetting(t) = {} THEN upset ELSE upset \cup {t}

ResetPassword(r, t, password) ==
    /\ reset[t] # Absent
    /\ ~reset[t].used
    /\ t \notin expired
    /\ BeginEdit(r, reset[t].user, "password", password, t)
    /\ upset' = IF Resetting(t) = {} THEN upset ELSE upset \cup {t}

-----------------------------------------------------------------------------
(* The new account has a key of its own: in this model it may take the     *)
(* place of an erased one when no request knows that any more.             *)
Forgotten(u) ==
    \A r \in Requests :
        inflight[r].kind \in {"issue", "refresh", "mint", "edit"} => inflight[r].user # u

(* The commits.  A registration goes on to issue tokens; so does a refresh *)
(* that has revoked its token, and one that finds no row to revoke.        *)
CommitUser(r) ==
    LET w == inflight[r]
    IN  /\ w.kind = "register"
        /\ ~Exists(w.user) /\ Forgotten(w.user)
        /\ account' = [account EXCEPT ![w.user] = w.row]
        /\ asked' = [asked EXCEPT ![w.user] = w.row]
        /\ Goes(r, [kind |-> "issue", user |-> w.user, login |-> Absent])
        /\ UNCHANGED <<tokens, login, shared, resets, upset, raced, crossed>>

CommitToken(r, t) ==
    LET w == inflight[r]
    IN  /\ w.kind = "issue"
        /\ Exists(w.user)
        /\ login[t] = Absent
        /\ refresh' = [refresh EXCEPT ![t] = [user |-> w.user, revoked |-> FALSE]]
        /\ login' = [login EXCEPT ![t] = IF w.login = Absent THEN t ELSE w.login]
        /\ End(r)
        /\ UNCHANGED <<account, reset, expired, shared, resets, upset, asked, crossed>>

Revoked(t) ==
    refresh' = IF refresh[t] = Absent
               THEN refresh ELSE [refresh EXCEPT ![t].revoked = TRUE]

(* Mutant of CommitRevoke: the token is not revoked.                       *)
CommitNothing(r) ==
    LET w == inflight[r]
    IN  /\ w.kind = "refresh"
        /\ Goes(r, [kind |-> "issue", user |-> w.user, login |-> login[w.token]])
        /\ UNCHANGED <<account, tokens, history>>

CommitRevoke(r) ==
    LET w == inflight[r]
    IN  /\ w.kind = "refresh"
        /\ Revoked(w.token)
        /\ Goes(r, [kind |-> "issue", user |-> w.user, login |-> login[w.token]])
        /\ UNCHANGED <<account, reset, expired, history>>

CommitLogout(r) ==
    LET w == inflight[r]
    IN  /\ w.kind = "logout"
        /\ Revoked(w.token)
        /\ End(r)
        /\ UNCHANGED <<account, reset, expired, login, shared, resets, upset, asked, crossed>>

CommitResetToken(r, t) ==
    LET w == inflight[r]
    IN  /\ w.kind = "mint"
        /\ Exists(w.user)
        /\ reset[t] = Absent /\ resets[t] = Absent
        /\ reset' = [reset EXCEPT ![t] = [user |-> w.user, used |-> FALSE]]
        /\ resets' = [resets EXCEPT ![t] = "never"]
        /\ End(r)
        /\ UNCHANGED <<account, refresh, expired, login, shared, upset, asked, crossed>>

(* Mutant of Edited: the whole row is written, not the column.             *)
EditedWhole(row, w) == [w.loaded EXCEPT ![w.column] = w.value]

(* A password has a new salt and so a new hash every time.                 *)
Edited(row, w) ==
    IF w.column = "password" \/ w.value # w.loaded[w.column]
    THEN [row EXCEPT ![w.column] = w.value] ELSE row

Again(n) == IF n = "never" THEN "once" ELSE "more"

(* A password reset goes on to mark its token.                             *)
CommitEdit(r) ==
    LET w == inflight[r]
    IN  /\ w.kind = "edit"
        /\ Exists(w.user)
        /\ account' = [account EXCEPT ![w.user] = Edited(@, w)]
        /\ asked' = [asked EXCEPT ![w.user][w.column] = w.value]
        /\ crossed' = IF r \in raced THEN crossed \cup {<<w.user, w.column>>}
                                     ELSE crossed \ {<<w.user, w.column>>}
        /\ IF w.reset = Absent
           THEN End(r) /\ UNCHANGED resets
           ELSE /\ Goes(r, [kind |-> "spend", token |-> w.reset])
                /\ raced' = raced \ {r}
                /\ resets' = [resets EXCEPT ![w.reset] = Again(@)]
        /\ UNCHANGED <<tokens, login, shared, upset>>

(* mark_used; no error if the row is gone.                                 *)
CommitUsed(r) ==
    LET w == inflight[r]
    IN  /\ w.kind = "spend"
        /\ reset' = IF reset[w.token] = Absent
                    THEN reset ELSE [reset EXCEPT ![w.token].used = TRUE]
        /\ End(r)
        /\ UNCHANGED <<account, refresh, expired, login, shared, resets, upset, asked, crossed>>

(* A call ends early: its row is gone or taken, or the request is          *)
(* cancelled, or the process dies; what it has committed stays.            *)
Interrupted(r) ==
    /\ inflight[r] # Idle
    /\ End(r)
    /\ upset' = IF inflight[r].kind = "spend" THEN upset \cup {inflight[r].token} ELSE upset
    /\ UNCHANGED <<account, tokens, login, shared, resets, asked, crossed>>

-----------------------------------------------------------------------------
(* Time passes.  (That a spent token expires makes no difference.)         *)
Expire(t) ==
    /\ \/ t \in RefreshIds /\ refresh[t] # Absent /\ ~refresh[t].revoked
       \/ t \in ResetIds /\ reset[t] # Absent /\ ~reset[t].used
    /\ t \notin expired
    /\ expired' = expired \cup {t}
    /\ UNCHANGED <<account, refresh, reset, inflight, history>>

(* Mutant of Erase: the tokens stay behind.                                *)
EraseAlone(u) ==
    /\ Exists(u)
    /\ account' = [account EXCEPT ![u] = Absent]
    /\ UNCHANGED <<tokens, inflight, history>>

(* The tokens of an account.                                               *)
Owned(u) ==
    {t \in RefreshIds : refresh[t] # Absent /\ refresh[t].user = u}
    \cup {t \in ResetIds : reset[t] # Absent /\ reset[t].user = u}

(* The purge deletes the account, and ondelete=CASCADE its tokens.         *)
Erase(u) ==
    /\ Exists(u)
    /\ account' = [account EXCEPT ![u] = Absent]
    /\ refresh' = [t \in RefreshIds |-> IF t \in Owned(u) THEN Absent ELSE refresh[t]]
    /\ reset' = [t \in ResetIds |-> IF t \in Owned(u) THEN Absent ELSE reset[t]]
    /\ expired' = expired \ Owned(u)
    /\ asked' = [asked EXCEPT ![u] = Absent]
    /\ crossed' = crossed \ ({u} \X Columns)
    /\ UNCHANGED <<inflight, login, shared, resets, upset, raced>>

-----------------------------------------------------------------------------
Init ==
    /\ account = [u \in UserIds |-> Absent]
    /\ refresh = [t \in RefreshIds |-> Absent]
    /\ reset = [t \in ResetIds |-> Absent]
    /\ expired = {}
    /\ inflight = [r \in Requests |-> Idle]
    /\ login = [t \in RefreshIds |-> Absent]
    /\ shared = {}
    /\ resets = [t \in ResetIds |-> Absent]
    /\ upset = {}
    /\ asked = [u \in UserIds |-> Absent]
    /\ raced = {}
    /\ crossed = {}

Calls(r) ==
    \/ \E u \in UserIds, p \in Passwords : Register(r, u, p) \/ Login(r, u, p)
    \/ \E t \in RefreshIds : Refresh(r, t) \/ Logout(r, t)
    \/ \E u \in UserIds :
           \/ IssuePasswordReset(r, u)
           \/ \E p, q \in Passwords : ChangePassword(r, u, p, q)
           \/ \E flag \in Flags, value \in BOOLEAN : SetFlag(r, u, flag, value)
    \/ \E t \in ResetIds, p \in Passwords : ResetPassword(r, t, p)

Commits(r) ==
    \/ CommitUser(r)   \/ CommitRevoke(r) \/ CommitLogout(r)
    \/ CommitEdit(r)   \/ CommitUsed(r)   \/ Interrupted(r)
    \/ \E t \in RefreshIds : CommitToken(r, t)
    \/ \E t \in ResetIds : CommitResetToken(r, t)

Next ==
    \/ \E r \in Requests : Calls(r) \/ Commits(r)
    \/ \E t \in RefreshIds \cup ResetIds : Expire(t)
    \/ \E u \in UserIds : Erase(u)

Spec == Init /\ [][Next]_vars

-----------------------------------------------------------------------------
(* Types; and every token belongs to an account that exists, however many   *)
(* calls were about to commit something for it when it was erased.         *)
TypeOK ==
    /\ account \in [UserIds -> Account \cup {Absent}]
    /\ refresh \in [RefreshIds -> RefreshToken \cup {Absent}]
    /\ reset \in [ResetIds -> ResetToken \cup {Absent}]
    /\ expired \subseteq RefreshIds \cup ResetIds
    /\ inflight \in [Requests -> Work \cup {Idle}]
    /\ login \in [RefreshIds -> RefreshIds \cup {Absent}]
    /\ shared \subseteq RefreshIds
    /\ resets \in [ResetIds -> {"never", "once", "more", Absent}]
    /\ upset \subseteq ResetIds
    /\ asked \in [UserIds -> Account \cup {Absent}]
    /\ raced \subseteq Requests
    /\ crossed \subseteq UserIds \X Columns
    /\ \A u \in UserIds : Exists(u) => asked[u] # Absent
    /\ \A t \in RefreshIds :
           refresh[t] # Absent => Exists(refresh[t].user) /\ login[t] # Absent
    /\ \A t \in ResetIds :
           reset[t] # Absent => Exists(reset[t].user) /\ resets[t] # Absent

(* The tokens of a login that are good, and the requests about to issue    *)
(* one.                                                                    *)
Live(f) ==
    {t \in RefreshIds : refresh[t] # Absent /\ ~refresh[t].revoked /\ login[t] = f}

Issuing(f) == {r \in Requests : inflight[r].kind = "issue" /\ inflight[r].login = f}

(* However often its tokens are refreshed, interrupted or not, a login has *)
(* at most one good token at a time, one about to be issued included,      *)
(* unless two calls once spent the same token of it at a time.             *)
OneLivePerLogin ==
    \A f \in RefreshIds \ shared :
        /\ \A s, t \in Live(f) : s = t
        /\ \A r, s \in Issuing(f) : r = s
        /\ Live(f) = {} \/ Issuing(f) = {}

(* A login is over when it has no good token, and no call is on its way    *)
(* that found one.                                                         *)
Over(f) ==
    /\ login[f] = f
    /\ Live(f) = {} /\ Issuing(f) = {}
    /\ \A r \in Requests : inflight[r].kind = "refresh" => login[inflight[r].token] # f

(* After a logout, or a refresh interrupted between its commits, nothing   *)
(* brings a login back, overlapping calls or not.                          *)
OverIsOverStep == \A f \in RefreshIds : Over(f) => Over(f)'

OverIsOver == [][OverIsOverStep]_vars

(* A token marked as used has set the password; and a token sets it once,  *)
(* unless two calls used it at a time or one ended between its commits.    *)
ResetOnce ==
    \A t \in ResetIds : reset[t] # Absent =>
        /\ reset[t].used => resets[t] \in {"once", "more"}
        /\ t \notin upset => resets[t] # "more"

(* Every column is what its last committed edit asked for, whatever edits  *)
(* of the other columns were in flight from older copies of the row,       *)
(* unless that edit overlapped another of the same column.                 *)
LastWord ==
    \A u \in UserIds : Exists(u) =>
        \A c \in Columns : <<u, c>> \notin crossed => account[u][c] = asked[u][c]
=============================================================================
