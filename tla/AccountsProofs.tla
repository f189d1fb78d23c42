--------------------------- MODULE AccountsProofs ---------------------------
(***************************************************************************)
(* Theorems of Accounts, for any accounts, tokens and requests and any     *)
(* overlap or interruption of the requests.                                *)
(*                                                                         *)
(* The inductive invariant has four parts that need only the types of each *)
(* other: Types, Logins, Resets and Edits.  Each is shown to be preserved  *)
(* by every step by itself.                                                *)
(***************************************************************************)
EXTENDS Accounts, TLAPS

LEMMA WorkFields ==
    ASSUME NEW w \in Work
    PROVE  /\ w.kind \in {"register", "issue", "refresh", "logout", "mint", "edit", "spend"}
           /\ w.kind = "register" => w.user \in UserIds /\ w.row \in Account
           /\ w.kind = "issue" => w.user \in UserIds /\ w.login \in RefreshIds \cup {Absent}
           /\ w.kind = "refresh" => w.user \in UserIds /\ w.token \in RefreshIds
           /\ w.kind = "logout" => w.token \in RefreshIds
           /\ w.kind = "mint" => w.user \in UserIds
           /\ w.kind = "edit" =>
                  /\ w.user \in UserIds /\ w.loaded \in Account
                  /\ w.column \in Columns /\ w.value \in Values(w.column)
                  /\ w.reset \in ResetIds \cup {Absent}
           /\ w.kind = "spend" => w.token \in ResetIds
BY DEF Work

LEMMA IdleKind == Idle.kind = "idle" /\ Idle \notin Work
<1>1. Idle.kind = "idle"
  BY DEF Idle
<1> QED BY <1>1, WorkFields

(* What a request is about when it is known to be up to something.         *)
LEMMA KindFields ==
    ASSUME TypeOK, NEW r \in Requests, inflight[r].kind # "idle"
    PROVE  inflight[r] \in Work
BY IdleKind DEF TypeOK

(* An edited account is an account.                                        *)
LEMMA EditedIsAccount ==
    ASSUME NEW row \in Account, NEW w \in Work, w.kind = "edit"
    PROVE  /\ Edited(row, w) \in Account
           /\ [row EXCEPT ![w.column] = w.value] \in Account
           /\ \A c \in Columns \ {w.column} : Edited(row, w)[c] = row[c]
           /\ Edited(row, w)[w.column] \in {w.value, row[w.column]}
           /\ row[w.column] = w.loaded[w.column] => Edited(row, w)[w.column] = w.value
<1> DEFINE new == [row EXCEPT ![w.column] = w.value]
<1>1. w.column \in Columns /\ w.value \in Values(w.column)
  BY WorkFields
<1>2. w.value \in Passwords \cup BOOLEAN
  BY <1>1 DEF Values
<1>3. new \in [Columns -> Passwords \cup BOOLEAN]
  BY <1>1, <1>2 DEF Account
<1>4. new[w.column] = w.value /\ \A c \in Columns \ {w.column} : new[c] = row[c]
  BY <1>1 DEF Account
<1>5. \A c \in Columns : row[c] \in Values(c)
  BY DEF Account
<1>6. new \in Account
  BY <1>1, <1>3, <1>4, <1>5 DEF Account
<1> HIDE DEF new
<1>7. Edited(row, w) = IF w.column = "password" \/ w.value # w.loaded[w.column]
                       THEN new ELSE row
  BY DEF Edited, new
<1>8. /\ Edited(row, w) \in Account
      /\ \A c \in Columns \ {w.column} : Edited(row, w)[c] = row[c]
      /\ Edited(row, w)[w.column] \in {w.value, row[w.column]}
      /\ row[w.column] = w.loaded[w.column] => Edited(row, w)[w.column] = w.value
  BY <1>1, <1>4, <1>6, <1>7
<1> QED BY <1>6, <1>8 DEF new

-----------------------------------------------------------------------------
(* What each request does to the others: nothing.                          *)
LEMMA GoesOn ==
    ASSUME TypeOK, NEW r \in Requests, NEW w \in Work \cup {Idle}, Goes(r, w)
    PROVE  /\ inflight'[r] = w
           /\ \A s \in Requests \ {r} : inflight'[s] = inflight[s]
           /\ inflight' \in [Requests -> Work \cup {Idle}]
BY DEF TypeOK, Goes

LEMMA EditTypes ==
    ASSUME TypeOK, NEW r \in Requests, NEW u \in UserIds, NEW c \in Columns,
           NEW value \in Values(c), NEW t \in ResetIds \cup {Absent},
           Exists(u), BeginEdit(r, u, c, value, t), upset' \subseteq ResetIds
    PROVE  TypeOK'
<1> USE DEF TypeOK, Exists
<1> DEFINE w == [kind |-> "edit", user |-> u, loaded |-> account[u],
                 column |-> c, value |-> value, reset |-> t]
<1>1. w \in Work
  BY DEF Work, Values
<1>2. Goes(r, w) /\ raced' \subseteq Requests
  BY DEF BeginEdit, Begin, Editing
<1>3. inflight' \in [Requests -> Work \cup {Idle}]
  BY <1>1, <1>2, GoesOn
<1> HIDE DEF w
<1> QED BY <1>2, <1>3 DEF BeginEdit, tokens

(* Every call begins with a piece of work that makes sense.                *)
LEMMA CallTypes ==
    ASSUME TypeOK, NEW r \in Requests, Calls(r)
    PROVE  TypeOK'
<1> USE DEF TypeOK, Exists, tokens, history
<1>1. ASSUME NEW u \in UserIds, NEW p \in Passwords, Register(r, u, p)
      PROVE  TypeOK'
  <2> DEFINE row == [c \in Columns |-> IF c = "password" THEN p ELSE c = "active"]
             w == [kind |-> "register", user |-> u, row |-> row]
  <2>1. \A c \in Columns : row[c] \in Values(c)
    BY DEF Values
  <2>2. row \in Account
    BY <2>1 DEF Account, Values
  <2>3. w \in Work
    BY <2>2 DEF Work
  <2>4. inflight' \in [Requests -> Work \cup {Idle}]
    BY <1>1, <2>3, GoesOn DEF Register, Begin
  <2> HIDE DEF w
  <2> QED BY <1>1, <2>4 DEF Register
<1>2. ASSUME NEW u \in UserIds, NEW p \in Passwords, Login(r, u, p)
      PROVE  TypeOK'
  <2>1. [kind |-> "issue", user |-> u, login |-> Absent] \in Work
    BY DEF Work
  <2>2. inflight' \in [Requests -> Work \cup {Idle}]
    BY <1>2, <2>1, GoesOn DEF Login, Begin
  <2> QED BY <1>2, <2>2 DEF Login
<1>3. ASSUME NEW t \in RefreshIds, Refresh(r, t)
      PROVE  TypeOK'
  <2>1. refresh[t].user \in UserIds /\ login[t] \in RefreshIds \cup {Absent}
    BY <1>3 DEF Refresh, RefreshToken
  <2>2. [kind |-> "refresh", user |-> refresh[t].user, token |-> t] \in Work
    BY <2>1 DEF Work
  <2>3. inflight' \in [Requests -> Work \cup {Idle}]
    BY <1>3, <2>2, GoesOn DEF Refresh, Begin
  <2> QED BY <1>3, <2>3 DEF Refresh, Share
<1>4. ASSUME NEW t \in RefreshIds, Logout(r, t)
      PROVE  TypeOK'
  <2>1. [kind |-> "logout", token |-> t] \in Work
    BY DEF Work
  <2>2. inflight' \in [Requests -> Work \cup {Idle}]
    BY <1>4, <2>1, GoesOn DEF Logout, Begin
  <2> QED BY <1>4, <2>2 DEF Logout, Share
<1>5. ASSUME NEW u \in UserIds, IssuePasswordReset(r, u)
      PROVE  TypeOK'
  <2>1. [kind |-> "mint", user |-> u] \in Work
    BY DEF Work
  <2>2. inflight' \in [Requests -> Work \cup {Idle}]
    BY <1>5, <2>1, GoesOn DEF IssuePasswordReset, Begin
  <2> QED BY <1>5, <2>2 DEF IssuePasswordReset
<1>6. ASSUME NEW u \in UserIds, NEW p \in Passwords, NEW q \in Passwords,
             ChangePassword(r, u, p, q)
      PROVE  TypeOK'
  <2>1. "password" \in Columns /\ q \in Values("password")
    BY DEF Columns, Values
  <2> QED BY <1>6, <2>1, EditTypes DEF ChangePassword, Active
<1>7. ASSUME NEW u \in UserIds, NEW flag \in Flags, NEW value \in BOOLEAN,
             SetFlag(r, u, flag, value)
      PROVE  TypeOK'
  <2>1. flag \in Columns /\ value \in Values(flag)
    BY ActiveAssumption DEF Columns, Values
  <2> QED BY <1>7, <2>1, EditTypes DEF SetFlag
<1>8. ASSUME NEW t \in ResetIds, NEW p \in Passwords, ResetPassword(r, t, p)
      PROVE  TypeOK'
  <2>1. "password" \in Columns /\ p \in Values("password")
    BY DEF Columns, Values
  <2>2. reset[t].user \in UserIds /\ Exists(reset[t].user)
    BY <1>8 DEF ResetPassword, ResetToken
  <2>3. upset' \subseteq ResetIds
    BY <1>8 DEF ResetPassword
  <2> QED BY <1>8, <2>1, <2>2, <2>3, EditTypes DEF ResetPassword
<1> QED BY <1>1, <1>2, <1>3, <1>4, <1>5, <1>6, <1>7, <1>8 DEF Calls

LEMMA RevokeTypes ==
    ASSUME TypeOK, NEW t \in RefreshIds, Revoked(t)
    PROVE  /\ refresh' \in [RefreshIds -> RefreshToken \cup {Absent}]
           /\ \A s \in RefreshIds : refresh'[s] # Absent =>
                  /\ refresh[s] # Absent /\ refresh'[s].user = refresh[s].user
                  /\ ~refresh'[s].revoked => ~refresh[s].revoked /\ s # t
           /\ \A s \in RefreshIds \ {t} : refresh'[s] = refresh[s]
<1>1. CASE refresh[t] = Absent
  BY <1>1 DEF TypeOK, Revoked
<1>2. CASE refresh[t] # Absent
  <2>1. refresh[t] \in RefreshToken
    BY <1>2 DEF TypeOK
  <2>2. refresh' = [refresh EXCEPT ![t] = [refresh[t] EXCEPT !.revoked = TRUE]]
    BY <1>2 DEF Revoked
  <2>3. /\ [refresh[t] EXCEPT !.revoked = TRUE] \in RefreshToken
        /\ [refresh[t] EXCEPT !.revoked = TRUE].user = refresh[t].user
        /\ [refresh[t] EXCEPT !.revoked = TRUE].revoked
    BY <2>1 DEF RefreshToken
  <2> HIDE DEF RefreshToken
  <2> QED BY <1>2, <2>2, <2>3 DEF TypeOK
<1> QED BY <1>1, <1>2

(* A used token is still a token of the same account.                      *)
LEMMA UsedToken ==
    ASSUME NEW row \in ResetToken
    PROVE  /\ [row EXCEPT !.used = TRUE] \in ResetToken
           /\ [row EXCEPT !.used = TRUE].user = row.user
BY DEF ResetToken

LEMMA CommitTypes ==
    ASSUME TypeOK, NEW r \in Requests, Commits(r)
    PROVE  TypeOK'
<1> USE DEF TypeOK, Exists, tokens, history
<1> DEFINE w == inflight[r]
<1>0. Idle \in Work \cup {Idle}
  OBVIOUS
<1>1. CASE CommitUser(r)
  <2>1. w.user \in UserIds /\ w.row \in Account
    BY <1>1, KindFields, WorkFields DEF CommitUser
  <2>2. [kind |-> "issue", user |-> w.user, login |-> Absent] \in Work
    BY <2>1 DEF Work
  <2>3. inflight' \in [Requests -> Work \cup {Idle}]
    BY <1>1, <2>2, GoesOn DEF CommitUser
  <2>4. w.row # Absent
    BY <2>1, AbsentAssumption
  <2> QED BY <1>1, <2>1, <2>3, <2>4 DEF CommitUser
<1>2. CASE CommitRevoke(r)
  <2>1. w.user \in UserIds /\ w.token \in RefreshIds
    BY <1>2, KindFields, WorkFields DEF CommitRevoke
  <2>2. [kind |-> "issue", user |-> w.user, login |-> login[w.token]] \in Work
    BY <2>1 DEF Work
  <2>3. inflight' \in [Requests -> Work \cup {Idle}]
    BY <1>2, <2>2, GoesOn DEF CommitRevoke
  <2> QED BY <1>2, <2>1, <2>3, RevokeTypes DEF CommitRevoke
<1>3. CASE CommitLogout(r)
  <2>1. w.token \in RefreshIds
    BY <1>3, KindFields, WorkFields DEF CommitLogout
  <2>2. inflight' \in [Requests -> Work \cup {Idle}]
    BY <1>3, GoesOn DEF CommitLogout, End
  <2> QED BY <1>3, <2>1, <2>2, RevokeTypes DEF CommitLogout, End
<1>4. CASE CommitEdit(r)
  <2>1. w \in Work /\ w.kind = "edit" /\ account[w.user] \in Account
    BY <1>4, KindFields, WorkFields DEF CommitEdit
  <2>2. /\ w.user \in UserIds /\ w.column \in Columns /\ w.value \in Values(w.column)
        /\ w.reset \in ResetIds \cup {Absent}
    BY <2>1, WorkFields
  <2>3. Edited(account[w.user], w) \in Account /\ Edited(account[w.user], w) # Absent
    <3> DEFINE row == account[w.user]
    <3>1. row \in Account
      BY <2>1
    <3> HIDE DEF row, w
    <3>2. Edited(row, w) \in Account
      BY <2>1, <3>1, EditedIsAccount
    <3>3. Edited(row, w) # Absent
      BY <3>2, AbsentAssumption
    <3> QED BY <3>2, <3>3 DEF row
  <2>4. account' = [account EXCEPT ![w.user] = Edited(account[w.user], w)]
    BY <1>4 DEF CommitEdit
  <2>5. /\ account' \in [UserIds -> Account \cup {Absent}]
        /\ \A u \in UserIds : account[u] # Absent <=> account'[u] # Absent
    BY <2>1, <2>2, <2>3, <2>4, AbsentAssumption
  <2>6. /\ asked' \in [UserIds -> Account \cup {Absent}]
        /\ \A u \in UserIds : asked[u] # Absent => asked'[u] # Absent
    <3>1. asked' = [asked EXCEPT ![w.user] = [asked[w.user] EXCEPT ![w.column] = w.value]]
      BY <1>4 DEF CommitEdit
    <3>2. asked[w.user] \in Account
      BY <1>4, <2>2 DEF CommitEdit
    <3>3. [asked[w.user] EXCEPT ![w.column] = w.value] \in Account
      BY <2>1, <3>2, EditedIsAccount
    <3> QED BY <2>2, <3>1, <3>3, AbsentAssumption
  <2>7. crossed' \subseteq UserIds \X Columns
    BY <1>4, <2>2 DEF CommitEdit
  <2>8. /\ inflight' \in [Requests -> Work \cup {Idle}] /\ raced' \subseteq Requests
        /\ resets' \in [ResetIds -> {"never", "once", "more", Absent}]
        /\ \A t \in ResetIds : resets[t] # Absent => resets'[t] # Absent
    <3>1. CASE w.reset = Absent
      BY <1>0, <1>4, <3>1, GoesOn DEF CommitEdit, End
    <3>2. CASE w.reset # Absent
      <4>1. [kind |-> "spend", token |-> w.reset] \in Work
        BY <2>2, <3>2 DEF Work
      <4>2. resets' = [resets EXCEPT ![w.reset] = Again(resets[w.reset])]
        BY <1>4, <3>2 DEF CommitEdit
      <4>3. Again(resets[w.reset]) \in {"once", "more"}
        BY DEF Again
      <4>4. inflight' \in [Requests -> Work \cup {Idle}]
        BY <1>4, <3>2, <4>1, GoesOn DEF CommitEdit
      <4> QED BY <1>4, <2>2, <3>2, <4>2, <4>3, <4>4, AbsentAssumption DEF CommitEdit
    <3> QED BY <3>1, <3>2
  <2> HIDE DEF w
  <2> QED BY <1>4, <2>5, <2>6, <2>7, <2>8 DEF CommitEdit
<1>5. CASE CommitUsed(r)
  <2>1. w.token \in ResetIds
    BY <1>5, KindFields, WorkFields DEF CommitUsed
  <2>2. inflight' \in [Requests -> Work \cup {Idle}]
    BY <1>5, GoesOn DEF CommitUsed, End
  <2>3. /\ reset' \in [ResetIds -> ResetToken \cup {Absent}]
        /\ \A t \in ResetIds : reset'[t] # Absent =>
               reset[t] # Absent /\ reset'[t].user = reset[t].user
    <3>1. PICK t : t = w.token /\ t \in ResetIds
      BY <2>1
    <3>2. CASE reset[t] = Absent
      BY <1>5, <3>1, <3>2 DEF CommitUsed
    <3>3. CASE reset[t] # Absent
      <4>1. PICK row : row = [reset[t] EXCEPT !.used = TRUE]
        OBVIOUS
      <4>2. row \in ResetToken /\ row.user = reset[t].user
        <5>1. reset[t] \in ResetToken
          BY <3>1, <3>3
        <5> HIDE DEF TypeOK
        <5> QED BY <4>1, <5>1, UsedToken
      <4>3. reset' = [reset EXCEPT ![t] = row]
        BY <1>5, <3>1, <3>3, <4>1 DEF CommitUsed
      <4> HIDE DEF w
      <4> QED BY <3>1, <3>3, <4>2, <4>3
    <3> QED BY <3>2, <3>3
  <2> QED BY <1>5, <2>2, <2>3 DEF CommitUsed, End
<1>6. CASE Interrupted(r)
  <2>1. upset' \subseteq ResetIds
    BY <1>6, KindFields, WorkFields DEF Interrupted
  <2>2. inflight' \in [Requests -> Work \cup {Idle}]
    BY <1>6, GoesOn DEF Interrupted, End
  <2> QED BY <1>6, <2>1, <2>2 DEF Interrupted, End
<1>7. ASSUME NEW t \in RefreshIds, CommitToken(r, t)
      PROVE  TypeOK'
  <2>1. w.user \in UserIds /\ w.login \in RefreshIds \cup {Absent}
    BY <1>7, KindFields, WorkFields DEF CommitToken
  <2>2. inflight' \in [Requests -> Work \cup {Idle}]
    BY <1>7, GoesOn DEF CommitToken, End
  <2>3. [user |-> w.user, revoked |-> FALSE] \in RefreshToken
    BY <2>1 DEF RefreshToken
  <2> QED BY <1>7, <2>1, <2>2, <2>3, AbsentAssumption DEF CommitToken, End
<1>8. ASSUME NEW t \in ResetIds, CommitResetToken(r, t)
      PROVE  TypeOK'
  <2>1. w.user \in UserIds
    BY <1>8, KindFields, WorkFields DEF CommitResetToken
  <2>2. inflight' \in [Requests -> Work \cup {Idle}]
    BY <1>8, GoesOn DEF CommitResetToken, End
  <2>3. [user |-> w.user, used |-> FALSE] \in ResetToken
    BY <2>1 DEF ResetToken
  <2> QED BY <1>8, <2>1, <2>2, <2>3, AbsentAssumption DEF CommitResetToken, End
<1> QED BY <1>1, <1>2, <1>3, <1>4, <1>5, <1>6, <1>7, <1>8 DEF Commits

LEMMA NextTypes == TypeOK /\ [Next]_vars => TypeOK'
<1> SUFFICES ASSUME TypeOK, [Next]_vars
             PROVE  TypeOK'
  OBVIOUS
<1>1. ASSUME NEW t \in RefreshIds \cup ResetIds, Expire(t)
      PROVE  TypeOK'
  BY <1>1 DEF Expire, TypeOK, history, Exists
<1>2. ASSUME NEW u \in UserIds, Erase(u)
      PROVE  TypeOK'
  <2>1. /\ refresh' \in [RefreshIds -> RefreshToken \cup {Absent}]
        /\ \A t \in RefreshIds : refresh'[t] # Absent =>
               refresh'[t] = refresh[t] /\ refresh[t].user # u
    BY <1>2 DEF Erase, Owned, TypeOK
  <2>2. /\ reset' \in [ResetIds -> ResetToken \cup {Absent}]
        /\ \A t \in ResetIds : reset'[t] # Absent =>
               reset'[t] = reset[t] /\ reset[t].user # u
    BY <1>2 DEF Erase, Owned, TypeOK
  <2>3. \A t \in RefreshIds : refresh[t] # Absent => refresh[t].user \in UserIds
    BY DEF TypeOK, RefreshToken
  <2>4. \A t \in ResetIds : reset[t] # Absent => reset[t].user \in UserIds
    BY DEF TypeOK, ResetToken
  <2> QED BY <1>2, <2>1, <2>2, <2>3, <2>4 DEF Erase, TypeOK, Exists
<1>3. CASE UNCHANGED vars
  BY <1>3 DEF vars, tokens, history, TypeOK, Exists
<1> QED BY <1>1, <1>2, <1>3, CallTypes, CommitTypes DEF Next

-----------------------------------------------------------------------------
(* The calls that refresh a token of a login.                              *)
Refreshing(f) ==
    {r \in Requests : inflight[r].kind = "refresh" /\ login[inflight[r].token] = f}

(* One line of succession: a good token, or a call that is about to spend  *)
(* it, or one about to issue the next.                                     *)
OneLine(f) ==
    /\ \A s, t \in Live(f) : s = t
    /\ \A r, s \in Issuing(f) : r = s
    /\ Live(f) = {} \/ Issuing(f) = {}
    /\ \A r \in Refreshing(f) :
           /\ Issuing(f) = {} /\ Live(f) \subseteq {inflight[r].token}
           /\ \A s \in Refreshing(f) : r = s
           /\ \A s \in Spending(inflight[r].token) : r = s

Logins ==
    /\ \A t \in RefreshIds : login[t] # Absent => login[login[t]] = login[t]
    /\ \A r \in Requests :
           /\ inflight[r].kind \in {"refresh", "logout"} => login[inflight[r].token] # Absent
           /\ inflight[r].kind = "issue" /\ inflight[r].login # Absent =>
                  login[inflight[r].login] = inflight[r].login
    /\ \A f \in RefreshIds \ shared : OneLine(f)

(* Good tokens only go, and no call turns to a login's tokens.             *)
Quiet ==
    /\ login' = login /\ shared \subseteq shared'
    /\ \A t \in RefreshIds : refresh'[t] # Absent /\ ~refresh'[t].revoked =>
           refresh[t] # Absent /\ ~refresh[t].revoked
    /\ \A r \in Requests :
           \/ inflight'[r] = inflight[r]
           \/ inflight'[r].kind \notin {"refresh", "logout", "issue"}
           \/ inflight'[r].kind = "issue" /\ inflight'[r].login = Absent

LEMMA QuietLogins ==
    ASSUME TypeOK, Logins, Quiet
    PROVE  Logins' /\ OverIsOverStep
<1> USE DEF Logins, Quiet
<1>1. \A f \in RefreshIds :
          /\ Live(f)' \subseteq Live(f) /\ Issuing(f)' \subseteq Issuing(f)
          /\ Refreshing(f)' \subseteq Refreshing(f)
          /\ \A r \in Refreshing(f)' : inflight'[r].token = inflight[r].token
  BY AbsentAssumption DEF Live, Issuing, Refreshing
<1>2. \A t : Spending(t)' \subseteq Spending(t)
  BY DEF Spending
<1>3. ASSUME NEW f \in RefreshIds \ shared'
      PROVE  OneLine(f)'
  <2>1. OneLine(f)
    OBVIOUS
  <2>2. \A r \in Refreshing(f)' :
            /\ r \in Refreshing(f)
            /\ Live(f)' \subseteq {inflight'[r].token}
            /\ \A s \in Spending(inflight[r].token)' : r = s
            /\ inflight'[r].token = inflight[r].token
    BY <1>1, <1>2, <2>1 DEF OneLine
  <2>3. \A r \in Refreshing(f)' :
            /\ Issuing(f)' = {} /\ Live(f)' \subseteq {inflight'[r].token}
            /\ \A s \in Refreshing(f)' : r = s
            /\ \A s \in Spending(inflight[r].token)' : r = s
            /\ inflight'[r].token = inflight[r].token
    BY <1>1, <2>1, <2>2 DEF OneLine
  <2> QED BY <1>1, <2>1, <2>3 DEF OneLine
<1>4. Logins'
  BY <1>3
<1>5. OverIsOverStep
  BY <1>1 DEF OverIsOverStep, Over, Refreshing
<1> QED BY <1>4, <1>5

LEMMA RefreshLogins ==
    ASSUME TypeOK, Logins, NEW r \in Requests, NEW t \in RefreshIds, Refresh(r, t)
    PROVE  Logins' /\ OverIsOverStep
<1> USE DEF Logins
<1> DEFINE w == [kind |-> "refresh", user |-> refresh[t].user, token |-> t]
<1>1. /\ refresh[t] # Absent /\ ~refresh[t].revoked /\ login[t] # Absent
      /\ inflight[r] = Idle /\ login' = login /\ refresh' = refresh /\ Share(t)
  BY DEF Refresh, Begin, TypeOK, tokens
<1>2. w \in Work
  BY <1>1 DEF Work, TypeOK, RefreshToken
<1>3. inflight'[r] = w /\ \A s \in Requests \ {r} : inflight'[s] = inflight[s]
  BY <1>2, GoesOn DEF Refresh, Begin
<1>4. /\ w.kind = "refresh" /\ w.token = t
  OBVIOUS
<1> HIDE DEF w
<1>5. \A f \in RefreshIds : Live(f)' = Live(f) /\ Issuing(f)' = Issuing(f)
  BY <1>1, <1>3, <1>4, IdleKind DEF Live, Issuing
<1>6. \A f \in RefreshIds :
          Refreshing(f)' = IF f = login[t] THEN Refreshing(f) \cup {r} ELSE Refreshing(f)
  BY <1>1, <1>3, <1>4, IdleKind DEF Refreshing
<1>7. \A x : Spending(x)' = IF x = t THEN Spending(x) \cup {r} ELSE Spending(x)
  BY <1>1, <1>3, <1>4, IdleKind DEF Spending
<1>8. shared \subseteq shared' /\ (Spending(t) # {} => login[t] \in shared')
  BY <1>1 DEF Share
<1>9. ASSUME NEW f \in RefreshIds \ shared'
      PROVE  OneLine(f)'
  <2>1. OneLine(f)
    BY <1>8
  <2>2. CASE f # login[t]
    <3>1. Refreshing(f)' = Refreshing(f)
      BY <1>6, <2>2
    <3>2. \A s \in Refreshing(f) : inflight'[s] = inflight[s] /\ inflight[s].token # t
      BY <1>1, <1>3, <2>2, IdleKind DEF Refreshing
    <3> QED BY <1>5, <1>7, <2>1, <3>1, <3>2 DEF OneLine
  <2>3. CASE f = login[t]
    <3>1. Spending(t) = {} /\ t \in Live(f)
      BY <1>1, <1>8, <2>3 DEF Live
    <3>2. Refreshing(f) = {}
      <4> SUFFICES ASSUME NEW s \in Refreshing(f)
                   PROVE  FALSE
        OBVIOUS
      <4>1. inflight[s].token = t
        BY <2>1, <3>1 DEF OneLine
      <4> QED BY <3>1, <4>1 DEF Refreshing, Spending
    <3>3. Refreshing(f)' = {r} /\ Spending(t)' = {r} /\ inflight'[r].token = t
      BY <1>3, <1>4, <1>6, <1>7, <2>3, <3>1, <3>2
    <3>4. Issuing(f) = {} /\ Live(f) \subseteq {t}
      BY <2>1, <3>1 DEF OneLine
    <3> QED BY <1>5, <2>1, <3>3, <3>4 DEF OneLine
  <2> QED BY <2>2, <2>3
<1>10. Logins'
  <2>1. \A s \in Requests :
            /\ inflight'[s].kind \in {"refresh", "logout"} => login[inflight'[s].token] # Absent
            /\ inflight'[s].kind = "issue" /\ inflight'[s].login # Absent =>
                   login[inflight'[s].login] = inflight'[s].login
    BY <1>1, <1>3, <1>4
  <2> QED BY <1>1, <1>9, <2>1
<1>11. OverIsOverStep
  <2>1. login[t] \in RefreshIds /\ t \in Live(login[t])
    BY <1>1 DEF TypeOK, Live
  <2>2. \A f \in RefreshIds : Over(f) => f # login[t]
    BY <2>1 DEF Over
  <2> QED BY <1>1, <1>3, <1>4, <1>5, <2>2 DEF OverIsOverStep, Over
<1> QED BY <1>10, <1>11

LEMMA LogoutLogins ==
    ASSUME TypeOK, Logins, NEW r \in Requests, NEW t \in RefreshIds, Logout(r, t)
    PROVE  Logins' /\ OverIsOverStep
<1> USE DEF Logins
<1> DEFINE w == [kind |-> "logout", token |-> t]
<1>1. /\ refresh[t] # Absent /\ login[t] # Absent
      /\ inflight[r] = Idle /\ login' = login /\ refresh' = refresh /\ Share(t)
  BY DEF Logout, Begin, TypeOK, tokens
<1>2. w \in Work
  BY DEF Work
<1>3. inflight'[r] = w /\ \A s \in Requests \ {r} : inflight'[s] = inflight[s]
  BY <1>2, GoesOn DEF Logout, Begin
<1>4. w.kind = "logout" /\ w.token = t
  OBVIOUS
<1> HIDE DEF w
<1>5. \A f \in RefreshIds :
          /\ Live(f)' = Live(f) /\ Issuing(f)' = Issuing(f)
          /\ Refreshing(f)' = Refreshing(f)
  BY <1>1, <1>3, <1>4, IdleKind DEF Live, Issuing, Refreshing
<1>6. \A x : Spending(x)' = IF x = t THEN Spending(x) \cup {r} ELSE Spending(x)
  BY <1>1, <1>3, <1>4, IdleKind DEF Spending
<1>7. shared \subseteq shared' /\ (Spending(t) # {} => login[t] \in shared')
  BY <1>1 DEF Share
<1>8. ASSUME NEW f \in RefreshIds \ shared'
      PROVE  OneLine(f)'
  <2>1. OneLine(f)
    BY <1>7
  <2>2. \A s \in Refreshing(f) : inflight'[s] = inflight[s] /\ inflight[s].token # t
    <3>1. \A s \in Refreshing(f) : inflight[s].token = t => s \in Spending(t) /\ f = login[t]
      BY DEF Refreshing, Spending
    <3> QED BY <1>1, <1>3, <1>7, <3>1, IdleKind DEF Refreshing
  <2> QED BY <1>5, <1>6, <2>1, <2>2 DEF OneLine
<1>9. Logins'
  <2>1. \A s \in Requests :
            /\ inflight'[s].kind \in {"refresh", "logout"} => login[inflight'[s].token] # Absent
            /\ inflight'[s].kind = "issue" /\ inflight'[s].login # Absent =>
                   login[inflight'[s].login] = inflight'[s].login
    BY <1>1, <1>3, <1>4
  <2> QED BY <1>1, <1>8, <2>1
<1>10. OverIsOverStep
  BY <1>1, <1>3, <1>4, <1>5 DEF OverIsOverStep, Over
<1> QED BY <1>9, <1>10

(* The revocation hands the login over from the token to the call.         *)
LEMMA RevokeLogins ==
    ASSUME TypeOK, Logins, NEW r \in Requests, CommitRevoke(r)
    PROVE  Logins' /\ OverIsOverStep
<1> USE DEF Logins
<1> DEFINE t == inflight[r].token
           w == [kind |-> "issue", user |-> inflight[r].user, login |-> login[t]]
<1>1. /\ inflight[r].kind = "refresh" /\ t \in RefreshIds /\ inflight[r].user \in UserIds
      /\ Revoked(t) /\ login' = login /\ shared' = shared
  BY KindFields, WorkFields DEF CommitRevoke, history
<1>2. login[t] \in RefreshIds /\ login[login[t]] = login[t]
  BY <1>1 DEF TypeOK
<1>3. w \in Work
  BY <1>1, <1>2 DEF Work
<1>4. inflight'[r] = w /\ \A s \in Requests \ {r} : inflight'[s] = inflight[s]
  BY <1>3, GoesOn DEF CommitRevoke
<1>5. w.kind = "issue" /\ w.login = login[t]
  OBVIOUS
<1>6. r \in Refreshing(login[t]) /\ r \in Spending(t)
  BY <1>1 DEF Refreshing, Spending
<1> HIDE DEF w, t
<1>7. \A f \in RefreshIds : Live(f)' \subseteq Live(f) \ {t}
  BY <1>1, RevokeTypes DEF Live
<1>8. \A f \in RefreshIds :
          /\ Issuing(f)' = IF f = login[t] THEN Issuing(f) \cup {r} ELSE Issuing(f)
          /\ Refreshing(f)' = Refreshing(f) \ {r}
  BY <1>1, <1>4, <1>5 DEF Issuing, Refreshing
<1>9. \A x : Spending(x)' = Spending(x) \ {r}
  BY <1>1, <1>4, <1>5 DEF Spending
<1>10. ASSUME NEW f \in RefreshIds \ shared'
       PROVE  OneLine(f)'
  <2>1. OneLine(f)
    BY <1>1
  <2>2. CASE f # login[t]
    <3>1. Issuing(f)' = Issuing(f) /\ Live(f)' \subseteq Live(f)
      BY <1>7, <1>8, <2>2
    <3>2. \A s \in Refreshing(f)' : s \in Refreshing(f) /\ inflight'[s] = inflight[s]
      BY <1>4, <1>8 DEF Refreshing
    <3> QED BY <1>9, <2>1, <3>1, <3>2 DEF OneLine
  <2>3. CASE f = login[t]
    <3>1. Issuing(f) = {} /\ Live(f) \subseteq {t} /\ Refreshing(f) = {r}
      BY <1>6, <2>1, <2>3 DEF OneLine, t
    <3>2. Issuing(f)' = {r} /\ Live(f)' = {} /\ Refreshing(f)' = {}
      BY <1>7, <1>8, <2>3, <3>1
    <3> QED BY <3>2 DEF OneLine
  <2> QED BY <2>2, <2>3
<1>11. Logins'
  <2>1. \A s \in Requests :
            /\ inflight'[s].kind \in {"refresh", "logout"} => login[inflight'[s].token] # Absent
            /\ inflight'[s].kind = "issue" /\ inflight'[s].login # Absent =>
                   login[inflight'[s].login] = inflight'[s].login
    BY <1>2, <1>4, <1>5
  <2> QED BY <1>1, <1>10, <2>1
<1>12. OverIsOverStep
  <2>1. \A f \in RefreshIds : Over(f) => f # login[t]
    BY <1>1, <1>6 DEF Over, t
  <2> QED BY <1>1, <1>4, <1>5, <1>7, <1>8, <2>1 DEF OverIsOverStep, Over
<1> QED BY <1>11, <1>12

LEMMA TokenLogins ==
    ASSUME TypeOK, Logins, NEW r \in Requests, NEW t \in RefreshIds, CommitToken(r, t)
    PROVE  Logins' /\ OverIsOverStep
<1> USE DEF Logins
<1> DEFINE g == inflight[r].login
           h == IF g = Absent THEN t ELSE g
<1>1. /\ inflight[r].kind = "issue" /\ inflight[r].user \in UserIds
      /\ g \in RefreshIds \cup {Absent} /\ login[t] = Absent /\ refresh[t] = Absent
      /\ shared' = shared /\ login' = [login EXCEPT ![t] = h]
      /\ refresh' = [refresh EXCEPT ![t] = [user |-> inflight[r].user, revoked |-> FALSE]]
      /\ g # Absent => login[g] = g
  BY KindFields, WorkFields DEF CommitToken, TypeOK
<1>2. inflight'[r] = Idle /\ \A s \in Requests \ {r} : inflight'[s] = inflight[s]
  BY GoesOn DEF CommitToken, End
<1>3. h \in RefreshIds /\ h # Absent /\ login'[h] = h
  BY <1>1, AbsentAssumption DEF TypeOK
<1>4. /\ \A s \in RefreshIds \ {t} : login'[s] = login[s] /\ refresh'[s] = refresh[s]
      /\ login'[t] = h /\ refresh'[t] # Absent /\ ~refresh'[t].revoked
  <2> DEFINE x == [user |-> inflight[r].user, revoked |-> FALSE]
  <2>1. x \in RefreshToken /\ x # Absent
    <3>1. x \in RefreshToken
      BY <1>1 DEF RefreshToken
    <3> HIDE DEF x
    <3> QED BY <3>1, AbsentAssumption
  <2>2. ~x.revoked
    OBVIOUS
  <2> HIDE DEF x
  <2>3. \A s \in RefreshIds \ {t} : login'[s] = login[s]
    BY <1>1 DEF TypeOK
  <2>4. login'[t] = h
    BY <1>1 DEF TypeOK
  <2>5. refresh'[t] = x /\ \A s \in RefreshIds \ {t} : refresh'[s] = refresh[s]
    BY <1>1 DEF TypeOK, x
  <2> QED BY <2>1, <2>2, <2>3, <2>4, <2>5
<1>5. \A s \in RefreshIds : login[s] # t
  BY <1>1, AbsentAssumption
<1>6. r \in Requests /\ g # Absent => r \in Issuing(g)
  BY <1>1 DEF Issuing
<1> HIDE DEF g, h
<1>7. \A f \in RefreshIds :
          /\ Live(f)' = IF f = h THEN Live(f) \cup {t} ELSE Live(f)
          /\ Issuing(f)' = Issuing(f) \ {r}
          /\ Refreshing(f)' = Refreshing(f)
  <2>1. \A s \in Requests : inflight[s].kind \in {"refresh", "logout"} =>
            inflight[s].token \in RefreshIds \ {t}
    BY <1>1, KindFields, WorkFields
  <2>2. \A f \in RefreshIds : Live(f)' = IF f = h THEN Live(f) \cup {t} ELSE Live(f)
    BY <1>1, <1>4 DEF Live
  <2>3. \A f \in RefreshIds : Issuing(f)' = Issuing(f) \ {r}
    BY <1>2, IdleKind DEF Issuing
  <2>4. \A f \in RefreshIds : Refreshing(f)' = Refreshing(f)
    BY <1>1, <1>2, <1>4, <2>1, IdleKind DEF Refreshing
  <2> QED BY <2>2, <2>3, <2>4
<1>8. \A x : Spending(x)' = Spending(x)
  BY <1>1, <1>2, IdleKind DEF Spending
<1>9. /\ g = Absent => Live(t) = {} /\ Issuing(t) = {} /\ Refreshing(t) = {}
      /\ g = Absent => h = t
      /\ g # Absent => h = g
  <2>1. Live(t) = {} /\ Refreshing(t) = {}
    BY <1>5, KindFields, WorkFields DEF Live, Refreshing
  <2>2. Issuing(t) = {}
    BY <1>1, AbsentAssumption DEF Issuing
  <2> QED BY <2>1, <2>2 DEF h
<1>10. ASSUME NEW f \in RefreshIds \ shared'
       PROVE  OneLine(f)'
  <2>1. OneLine(f)
    BY <1>1
  <2>2. \A s \in Refreshing(f) : inflight'[s] = inflight[s]
    BY <1>1, <1>2 DEF Refreshing
  <2>3. CASE f # h
    BY <1>7, <1>8, <2>1, <2>2, <2>3 DEF OneLine
  <2>4. CASE f = h
    <3>1. Live(f) = {} /\ Issuing(f) \subseteq {r} /\ Refreshing(f) = {}
      BY <1>6, <1>9, <2>1, <2>4 DEF OneLine
    <3>2. Live(f)' = {t} /\ Issuing(f)' = {} /\ Refreshing(f)' = {}
      BY <1>7, <2>4, <3>1
    <3> QED BY <3>2 DEF OneLine
  <2> QED BY <2>3, <2>4
<1>11. Logins'
  <2>1. \A s \in RefreshIds : login'[s] # Absent => login'[login'[s]] = login'[s]
    <3> SUFFICES ASSUME NEW s \in RefreshIds, s # t, login[s] # Absent
                 PROVE  login'[login[s]] = login[s]
      BY <1>3, <1>4
    <3> QED BY <1>4, <1>5 DEF TypeOK
  <2>2. ASSUME NEW s \in Requests
        PROVE  /\ inflight'[s].kind \in {"refresh", "logout"} =>
                      login'[inflight'[s].token] # Absent
               /\ inflight'[s].kind = "issue" /\ inflight'[s].login # Absent =>
                      login'[inflight'[s].login] = inflight'[s].login
    <3>1. CASE s = r
      BY <1>2, <3>1, IdleKind
    <3>2. CASE s # r
      <4>1. inflight'[s] = inflight[s]
        BY <1>2, <3>2
      <4>2. inflight[s].kind \in {"refresh", "logout"} =>
                inflight[s].token \in RefreshIds \ {t}
        BY <1>1, KindFields, WorkFields
      <4>3. inflight[s].kind = "issue" /\ inflight[s].login # Absent =>
                inflight[s].login \in RefreshIds \ {t}
        BY <1>1, KindFields, WorkFields, AbsentAssumption
      <4> QED BY <1>4, <4>1, <4>2, <4>3
    <3> QED BY <3>1, <3>2
  <2> QED BY <1>10, <2>1, <2>2
<1>12. OverIsOverStep
  <2>1. \A f \in RefreshIds : Over(f) => f # h /\ f # t
    BY <1>1, <1>6, <1>9, AbsentAssumption DEF Over
  <2> QED BY <1>2, <1>4, <1>7, <2>1, IdleKind DEF OverIsOverStep, Over, Refreshing
<1> QED BY <1>11, <1>12

(* The requests do nothing but what one of them turns to.                  *)
LEMMA TurnsQuiet ==
    ASSUME TypeOK, NEW r \in Requests, NEW w, Goes(r, w),
           \/ w.kind \notin {"refresh", "logout", "issue"}
           \/ w.kind = "issue" /\ w.login = Absent,
           UNCHANGED <<login, shared>>,
           \A t \in RefreshIds : refresh'[t] # Absent /\ ~refresh'[t].revoked =>
               refresh[t] # Absent /\ ~refresh[t].revoked
    PROVE  Quiet
BY DEF Goes, TypeOK, Quiet

LEMMA NextLogins == TypeOK /\ Logins /\ [Next]_vars => Logins' /\ OverIsOverStep
<1> SUFFICES ASSUME TypeOK, Logins, [Next]_vars
             PROVE  Logins' /\ OverIsOverStep
  OBVIOUS
<1>1. ASSUME NEW r \in Requests, NEW u \in UserIds, NEW p \in Passwords,
             Register(r, u, p) \/ Login(r, u, p)
      PROVE  Quiet
  BY <1>1, TurnsQuiet DEF Register, Login, Begin, tokens, history
<1>2. ASSUME NEW r \in Requests, NEW u \in UserIds, IssuePasswordReset(r, u)
      PROVE  Quiet
  BY <1>2, TurnsQuiet DEF IssuePasswordReset, Begin, tokens, history
<1>3. ASSUME NEW r \in Requests, NEW u, NEW c, NEW v, NEW t, BeginEdit(r, u, c, v, t)
      PROVE  Quiet
  BY <1>3, TurnsQuiet DEF BeginEdit, Begin, tokens
<1>4. ASSUME NEW r \in Requests, CommitUser(r)
      PROVE  Quiet
  BY <1>4, TurnsQuiet DEF CommitUser, tokens
<1>5. ASSUME NEW r \in Requests, CommitLogout(r)
      PROVE  Quiet
  <2>1. inflight[r].token \in RefreshIds
    BY <1>5, KindFields, WorkFields DEF CommitLogout
  <2>2. \A t \in RefreshIds : refresh'[t] # Absent /\ ~refresh'[t].revoked =>
            refresh[t] # Absent /\ ~refresh[t].revoked
    BY <1>5, <2>1, RevokeTypes DEF CommitLogout
  <2> QED BY <1>5, <2>2, TurnsQuiet, IdleKind DEF CommitLogout, End
<1>6. ASSUME NEW r \in Requests, NEW t \in ResetIds, CommitResetToken(r, t)
      PROVE  Quiet
  BY <1>6, TurnsQuiet, IdleKind DEF CommitResetToken, End
<1>7. ASSUME NEW r \in Requests, CommitEdit(r)
      PROVE  Quiet
  BY <1>7, TurnsQuiet, IdleKind DEF CommitEdit, End, tokens
<1>8. ASSUME NEW r \in Requests, CommitUsed(r)
      PROVE  Quiet
  BY <1>8, TurnsQuiet, IdleKind DEF CommitUsed, End
<1>9. ASSUME NEW r \in Requests, Interrupted(r)
      PROVE  Quiet
  BY <1>9, TurnsQuiet, IdleKind DEF Interrupted, End, tokens
<1>10. ASSUME NEW t, Expire(t)
       PROVE  Quiet
  BY <1>10 DEF Expire, Quiet, history
<1>11. ASSUME NEW u, Erase(u)
       PROVE  Quiet
  BY <1>11, AbsentAssumption DEF Erase, Quiet
<1>12. CASE UNCHANGED vars
  <2>1. Quiet
    BY <1>12 DEF vars, tokens, history, Quiet
  <2> QED BY <2>1, QuietLogins
<1>13. ASSUME NEW r \in Requests, Calls(r)
       PROVE  Logins' /\ OverIsOverStep
  BY <1>1, <1>2, <1>3, <1>13, QuietLogins, RefreshLogins, LogoutLogins
     DEF Calls, ChangePassword, SetFlag, ResetPassword
<1>14. ASSUME NEW r \in Requests, Commits(r)
       PROVE  Logins' /\ OverIsOverStep
  BY <1>4, <1>5, <1>6, <1>7, <1>8, <1>9, <1>14, QuietLogins, RevokeLogins, TokenLogins
     DEF Commits
<1> QED BY <1>10, <1>11, <1>12, <1>13, <1>14, QuietLogins DEF Next

-----------------------------------------------------------------------------
(* A reset token that no two calls used at a time, and no call left        *)
(* between its commits: whoever is using it has not set the password yet,  *)
(* or is about to mark it; and once it has set the password it is marked.  *)
Resets ==
    \A t \in ResetIds :
        /\ Resetting(t) # {} => resets[t] # Absent
        /\ \A r \in Resetting(t) :
               inflight[r].kind = "spend" => resets[t] \in {"once", "more"}
        /\ reset[t] # Absent /\ reset[t].used => resets[t] \in {"once", "more"}
        /\ t \notin upset =>
               /\ resets[t] # "more"
               /\ \A r, s \in Resetting(t) : r = s
               /\ \A r \in Resetting(t) : inflight[r].kind = "edit" => resets[t] = "never"
               /\ reset[t] # Absent /\ resets[t] = "once" =>
                      reset[t].used \/ Resetting(t) # {}

(* Nobody turns to a reset token or leaves it, and it may only go.         *)
ResetsAlone ==
    /\ resets' = resets /\ upset' = upset
    /\ \A t \in ResetIds : reset'[t] # Absent => reset'[t] = reset[t]
    /\ \A r \in Requests :
           \/ inflight'[r] = inflight[r]
           \/ /\ inflight[r].kind # "spend" /\ inflight'[r].kind # "spend"
              /\ inflight'[r].kind = "edit" => inflight'[r].reset = Absent
              /\ inflight[r].kind = "edit" => inflight[r].reset = Absent

LEMMA AloneResets ==
    ASSUME TypeOK, Resets, ResetsAlone
    PROVE  Resets'
<1>1. \A t \in ResetIds : Resetting(t)' = Resetting(t)
  BY AbsentAssumption DEF Resetting, ResetsAlone
<1>2. \A t \in ResetIds : \A r \in Resetting(t) : inflight'[r].kind = inflight[r].kind
  BY AbsentAssumption DEF Resetting, ResetsAlone
<1> QED BY <1>1, <1>2 DEF Resets, ResetsAlone

LEMMA ResetPasswordResets ==
    ASSUME TypeOK, Resets, NEW r \in Requests, NEW t \in ResetIds, NEW p \in Passwords,
           ResetPassword(r, t, p)
    PROVE  Resets'
<1>1. /\ reset[t] # Absent /\ ~reset[t].used /\ inflight[r] = Idle
      /\ resets' = resets /\ reset' = reset /\ resets[t] # Absent
      /\ upset' = IF Resetting(t) = {} THEN upset ELSE upset \cup {t}
  BY DEF ResetPassword, BeginEdit, Begin, tokens, TypeOK
<1>2. PICK w : /\ w.kind = "edit" /\ w.reset = t /\ Goes(r, w)
  BY DEF ResetPassword, BeginEdit, Begin
<1>3. inflight'[r] = w /\ \A s \in Requests \ {r} : inflight'[s] = inflight[s]
  BY <1>2 DEF Goes, TypeOK
<1>4. \A x \in ResetIds :
          Resetting(x)' = IF x = t THEN Resetting(x) \cup {r} ELSE Resetting(x)
  BY <1>1, <1>2, <1>3, IdleKind DEF Resetting
<1>5. \A x \in ResetIds : \A s \in Resetting(x) : inflight'[s] = inflight[s]
  BY <1>1, <1>3, IdleKind DEF Resetting
<1>6. ASSUME NEW x \in ResetIds, x # t
      PROVE  /\ Resetting(x)' = Resetting(x)
             /\ \A s \in Resetting(x)' : inflight'[s] = inflight[s]
             /\ x \in upset' <=> x \in upset
  BY <1>1, <1>4, <1>5, <1>6
<1>7. resets[t] = "never" \/ t \in upset'
  BY <1>1 DEF Resets, TypeOK
<1>8. /\ Resetting(t)' = Resetting(t) \cup {r}
      /\ \A s \in Resetting(t) : inflight'[s] = inflight[s]
      /\ t \notin upset' => Resetting(t) = {} /\ t \notin upset
  BY <1>1, <1>4, <1>5
<1> QED BY <1>1, <1>2, <1>3, <1>6, <1>7, <1>8 DEF Resets

LEMMA NewTokenResets ==
    ASSUME TypeOK, Resets, NEW r \in Requests, NEW t \in ResetIds, CommitResetToken(r, t)
    PROVE  Resets'
<1>1. /\ inflight[r].kind = "mint" /\ inflight[r].user \in UserIds
      /\ reset[t] = Absent /\ resets[t] = Absent /\ upset' = upset
      /\ reset' = [reset EXCEPT ![t] = [user |-> inflight[r].user, used |-> FALSE]]
      /\ resets' = [resets EXCEPT ![t] = "never"]
  BY KindFields, WorkFields DEF CommitResetToken
<1>2. inflight'[r] = Idle /\ \A s \in Requests \ {r} : inflight'[s] = inflight[s]
  BY GoesOn DEF CommitResetToken, End
<1>3. \A x \in ResetIds : Resetting(x)' = Resetting(x)
  BY <1>1, <1>2, IdleKind DEF Resetting
<1>4. \A x \in ResetIds : \A s \in Resetting(x) : inflight'[s] = inflight[s]
  BY <1>1, <1>2 DEF Resetting
<1>5. Resetting(t) = {} /\ resets'[t] = "never" /\ ~reset'[t].used
  BY <1>1 DEF Resets, TypeOK
<1>6. \A x \in ResetIds \ {t} : reset'[x] = reset[x] /\ resets'[x] = resets[x]
  BY <1>1 DEF TypeOK
<1>7. "never" # Absent
  BY AbsentAssumption
<1> QED BY <1>1, <1>3, <1>4, <1>5, <1>6, <1>7 DEF Resets

(* The first commit of a reset.                                            *)
LEMMA EditResets ==
    ASSUME TypeOK, Resets, NEW r \in Requests, CommitEdit(r), inflight[r].reset # Absent
    PROVE  Resets'
<1>0. PICK t \in ResetIds : t = inflight[r].reset
  BY KindFields, WorkFields DEF CommitEdit
<1> DEFINE w == [kind |-> "spend", token |-> t]
<1>1. /\ inflight[r].kind = "edit" /\ t \in ResetIds
      /\ upset' = upset /\ reset' = reset
      /\ resets' = [resets EXCEPT ![t] = Again(resets[t])] /\ Goes(r, w)
  BY <1>0 DEF CommitEdit, tokens
<1>2. inflight'[r] = w /\ \A s \in Requests \ {r} : inflight'[s] = inflight[s]
  BY <1>1 DEF Goes, TypeOK
<1>3. w.kind = "spend" /\ w.token = t
  OBVIOUS
<1>4. r \in Resetting(t)
  BY <1>0, <1>1 DEF Resetting
<1> HIDE DEF w
<1>5. \A x \in ResetIds : Resetting(x)' = Resetting(x)
  BY <1>0, <1>1, <1>2, <1>3, <1>4 DEF Resetting
<1>6. \A x \in ResetIds \ {t} : r \notin Resetting(x)
  BY <1>0, <1>1 DEF Resetting
<1>7. resets'[t] = Again(resets[t]) /\ \A x \in ResetIds \ {t} : resets'[x] = resets[x]
  BY <1>1 DEF TypeOK
<1>8. ASSUME NEW x \in ResetIds, x # t
      PROVE  /\ \A s \in Resetting(x)' : inflight'[s] = inflight[s]
             /\ Resetting(x)' = Resetting(x) /\ resets'[x] = resets[x]
  BY <1>2, <1>5, <1>6, <1>7, <1>8 DEF Resetting
<1>9. Again(resets[t]) \in {"once", "more"} /\ Again(resets[t]) # Absent
  BY AbsentAssumption DEF Again
<1>10. t \notin upset => resets[t] = "never" /\ Resetting(t) = {r}
  BY <1>1, <1>4 DEF Resets
<1>11. t \notin upset => Again(resets[t]) = "once" /\ Resetting(t)' = {r}
  BY <1>1, <1>5, <1>10 DEF Again
<1> QED BY <1>1, <1>2, <1>3, <1>4, <1>5, <1>7, <1>8, <1>9, <1>11 DEF Resets

(* The second one.                                                         *)
LEMMA UsedResets ==
    ASSUME TypeOK, Resets, NEW r \in Requests, CommitUsed(r)
    PROVE  Resets'
<1> DEFINE t == inflight[r].token
<1>1. /\ inflight[r].kind = "spend" /\ t \in ResetIds
      /\ upset' = upset /\ resets' = resets
      /\ reset' = IF reset[t] = Absent THEN reset ELSE [reset EXCEPT ![t].used = TRUE]
  BY KindFields, WorkFields DEF CommitUsed
<1>2. inflight'[r] = Idle /\ \A s \in Requests \ {r} : inflight'[s] = inflight[s]
  BY GoesOn DEF CommitUsed, End
<1>3. \A x \in ResetIds : Resetting(x)' = Resetting(x) \ {r}
  BY <1>2, IdleKind DEF Resetting
<1>4. \A x \in ResetIds \ {t} : r \notin Resetting(x)
  BY <1>1 DEF Resetting
<1>5. resets[t] \in {"once", "more"}
  BY <1>1 DEF Resets, Resetting
<1> HIDE DEF t
<1>6. /\ \A x \in ResetIds \ {t} : reset'[x] = reset[x]
      /\ reset'[t] # Absent => reset[t] # Absent /\ reset'[t].used
  BY <1>1 DEF TypeOK, ResetToken
<1>7. \A x \in ResetIds : \A s \in Resetting(x)' : inflight'[s] = inflight[s]
  BY <1>2, <1>3 DEF Resetting
<1> QED BY <1>1, <1>3, <1>4, <1>5, <1>6, <1>7 DEF Resets

LEMMA InterruptedResets ==
    ASSUME TypeOK, Resets, NEW r \in Requests, Interrupted(r)
    PROVE  Resets'
<1>1. /\ resets' = resets /\ reset' = reset /\ upset \subseteq upset'
      /\ inflight[r].kind = "spend" => inflight[r].token \in upset'
  BY DEF Interrupted, tokens
<1>2. inflight'[r] = Idle /\ \A s \in Requests \ {r} : inflight'[s] = inflight[s]
  BY GoesOn DEF Interrupted, End
<1>3. \A x \in ResetIds : Resetting(x)' = Resetting(x) \ {r}
  BY <1>2, IdleKind DEF Resetting
<1>4. \A x \in ResetIds : \A s \in Resetting(x)' : inflight'[s] = inflight[s]
  BY <1>2, <1>3 DEF Resetting
<1>5. \A x \in ResetIds \ upset' : r \in Resetting(x) => resets[x] = "never"
  BY <1>1 DEF Resets, Resetting
<1> QED BY <1>1, <1>3, <1>4, <1>5 DEF Resets

LEMMA NextResets == TypeOK /\ Resets /\ [Next]_vars => Resets'
<1> SUFFICES ASSUME TypeOK, Resets, [Next]_vars
             PROVE  Resets'
  OBVIOUS
<1> USE DEF tokens, history
<1>1. ASSUME NEW r \in Requests, NEW w, Goes(r, w), inflight[r].kind # "spend",
             w.kind # "spend", w.kind = "edit" => w.reset = Absent,
             inflight[r].kind = "edit" => inflight[r].reset = Absent,
             UNCHANGED <<reset, resets, upset>>
      PROVE  Resets'
  <2>1. inflight'[r] = w /\ \A s \in Requests \ {r} : inflight'[s] = inflight[s]
    BY <1>1 DEF Goes, TypeOK
  <2>2. ResetsAlone
    BY <1>1, <2>1 DEF ResetsAlone
  <2> QED BY <2>2, AloneResets
<1>2. ASSUME NEW r \in Requests, NEW u \in UserIds, NEW p \in Passwords,
             Register(r, u, p) \/ Login(r, u, p)
      PROVE  Resets'
  BY <1>1, <1>2, IdleKind DEF Register, Login, Begin
<1>3. ASSUME NEW r \in Requests, NEW t \in RefreshIds, Refresh(r, t) \/ Logout(r, t)
      PROVE  Resets'
  BY <1>1, <1>3, IdleKind DEF Refresh, Logout, Begin
<1>4. ASSUME NEW r \in Requests, NEW u, NEW c, NEW v,
             BeginEdit(r, u, c, v, Absent), upset' = upset
      PROVE  Resets'
  BY <1>1, <1>4, IdleKind DEF BeginEdit, Begin
<1>5. ASSUME NEW r \in Requests, NEW t \in RefreshIds,
             \/ CommitUser(r) \/ CommitRevoke(r) \/ CommitLogout(r)
             \/ CommitToken(r, t)
      PROVE  Resets'
  BY <1>1, <1>5, IdleKind DEF CommitUser, CommitRevoke, CommitLogout, CommitToken, End
<1>6. ASSUME NEW r \in Requests, CommitEdit(r)
      PROVE  Resets'
  <2>1. CASE inflight[r].reset = Absent
    BY <1>1, <1>6, <2>1, IdleKind DEF CommitEdit, End
  <2> QED BY <1>6, <2>1, EditResets
<1>7. ASSUME NEW t, Expire(t)
      PROVE  Resets'
  <2>1. ResetsAlone
    BY <1>7 DEF Expire, ResetsAlone
  <2> QED BY <2>1, AloneResets
<1>8. ASSUME NEW u, Erase(u)
      PROVE  Resets'
  <2>1. ResetsAlone
    BY <1>8 DEF Erase, ResetsAlone
  <2> QED BY <2>1, AloneResets
<1>9. CASE UNCHANGED vars
  <2>1. ResetsAlone
    BY <1>9 DEF vars, ResetsAlone
  <2> QED BY <2>1, AloneResets
<1>10. ASSUME NEW r \in Requests, Calls(r)
       PROVE  Resets'
  <2>1. ASSUME NEW u \in UserIds, IssuePasswordReset(r, u)
        PROVE  Resets'
    BY <1>1, <2>1, IdleKind DEF IssuePasswordReset, Begin
  <2>2. ASSUME NEW u, NEW c, NEW d, NEW v, ChangePassword(r, u, c, v) \/ SetFlag(r, u, c, v)
        PROVE  Resets'
    BY <1>4, <2>2 DEF ChangePassword, SetFlag
  <2> QED BY <1>2, <1>3, <1>10, <2>1, <2>2, ResetPasswordResets DEF Calls
<1>11. ASSUME NEW r \in Requests, Commits(r)
       PROVE  Resets'
  <2>1. CASE CommitUser(r) \/ CommitRevoke(r) \/ CommitLogout(r)
    BY <1>1, <2>1, IdleKind DEF CommitUser, CommitRevoke, CommitLogout, End
  <2> QED BY <1>5, <1>6, <1>11, <2>1, NewTokenResets, UsedResets, InterruptedResets
          DEF Commits
<1> QED BY <1>7, <1>8, <1>9, <1>10, <1>11 DEF Next

-----------------------------------------------------------------------------
(* An edit that nothing raced knows its column as it is.                   *)
Fresh(r) ==
    inflight[r].kind = "edit" /\ Exists(inflight[r].user) =>
        inflight[r].loaded[inflight[r].column]
            = account[inflight[r].user][inflight[r].column]

Edits ==
    /\ LastWord
    /\ \A u \in UserIds, c \in Columns :
           \A r, s \in Editing(u, c) : r # s => r \in raced
    /\ \A r \in Requests \ raced : Fresh(r)

(* A step that begins, commits or registers no edit.                       *)
EditsAlone ==
    /\ \A u \in UserIds : Exists(u)' =>
           /\ account'[u] = account[u] /\ asked'[u] = asked[u]
           /\ \A c \in Columns : <<u, c>> \in crossed => <<u, c>> \in crossed'
    /\ \A r \in Requests : inflight'[r].kind = "edit" =>
           inflight'[r] = inflight[r] /\ (r \in raced => r \in raced')

LEMMA AloneEdits ==
    ASSUME TypeOK, Edits, EditsAlone
    PROVE  Edits'
<1>1. \A u \in UserIds : Exists(u)' => Exists(u) /\ account'[u] = account[u]
  BY DEF EditsAlone, Exists
<1>2. LastWord'
  BY <1>1 DEF Edits, EditsAlone, LastWord
<1>3. \A u \in UserIds, c \in Columns : Editing(u, c)' \subseteq Editing(u, c)
  BY DEF EditsAlone, Editing
<1>4. ASSUME NEW u \in UserIds, NEW c \in Columns,
             NEW r \in Editing(u, c)', NEW s \in Editing(u, c)', r # s
      PROVE  r \in raced'
  BY <1>3, <1>4 DEF Edits, EditsAlone, Editing
<1>5. ASSUME NEW r \in Requests \ raced', inflight'[r].kind = "edit",
             account'[inflight'[r].user] # Absent
      PROVE  inflight'[r].loaded[inflight'[r].column]
                 = account'[inflight'[r].user][inflight'[r].column]
  <2>1. inflight'[r] = inflight[r] /\ r \notin raced
    BY <1>5 DEF EditsAlone
  <2>2. inflight[r].user \in UserIds
    BY <1>5, <2>1, KindFields, WorkFields
  <2>3. account[inflight[r].user] # Absent
    BY <1>1, <1>5, <2>1, <2>2 DEF Exists
  <2>4. account'[inflight[r].user] = account[inflight[r].user]
    BY <1>1, <1>5, <2>1, <2>2 DEF Exists
  <2>5. inflight[r].loaded[inflight[r].column]
            = account[inflight[r].user][inflight[r].column]
    BY <1>5, <2>1, <2>3 DEF Edits, Fresh, Exists
  <2> QED BY <2>1, <2>4, <2>5
<1> QED BY <1>2, <1>4, <1>5 DEF Edits, Fresh, Exists

(* A new edit knows the row as it is, and races those of its column.       *)
LEMMA BeginEdits ==
    ASSUME TypeOK, Edits, NEW r \in Requests, NEW u \in UserIds, NEW c \in Columns,
           NEW value \in Values(c), NEW t \in ResetIds \cup {Absent},
           Exists(u), BeginEdit(r, u, c, value, t)
    PROVE  Edits'
<1> DEFINE w == [kind |-> "edit", user |-> u, loaded |-> account[u],
                 column |-> c, value |-> value, reset |-> t]
<1>1. /\ w.kind = "edit" /\ w.user = u /\ w.loaded = account[u] /\ w.column = c
      /\ inflight[r] = Idle /\ Goes(r, w)
      /\ raced' = IF Editing(u, c) = {} THEN raced
                  ELSE raced \cup Editing(u, c) \cup {r}
      /\ account' = account /\ asked' = asked /\ crossed' = crossed
  BY DEF BeginEdit, Begin
<1> HIDE DEF w
<1>2. inflight'[r] = w /\ \A s \in Requests \ {r} : inflight'[s] = inflight[s]
  BY <1>1 DEF Goes, TypeOK
<1>3. LastWord'
  BY <1>1 DEF Edits, LastWord, Exists
<1>4. Editing(u, c)' \subseteq Editing(u, c) \cup {r}
  BY <1>2 DEF Editing
<1>5. \A v \in UserIds, d \in Columns :
          <<v, d>> # <<u, c>> => Editing(v, d)' \subseteq Editing(v, d)
  BY <1>1, <1>2 DEF Editing
<1>6. ASSUME NEW v \in UserIds, NEW d \in Columns,
             NEW q \in Editing(v, d)', NEW s \in Editing(v, d)', q # s
      PROVE  q \in raced'
  <2>1. CASE v = u /\ d = c
    BY <1>1, <1>4, <1>6, <2>1
  <2>2. CASE <<v, d>> # <<u, c>>
    <3>1. q \in raced
      BY <1>5, <1>6, <2>2 DEF Edits
    <3> QED BY <1>1, <3>1
  <2> QED BY <2>1, <2>2
<1>7. ASSUME NEW q \in Requests \ raced', inflight'[q].kind = "edit",
             account'[inflight'[q].user] # Absent
      PROVE  inflight'[q].loaded[inflight'[q].column]
                 = account'[inflight'[q].user][inflight'[q].column]
  <2>1. CASE q = r
    BY <1>1, <1>2, <2>1
  <2>2. CASE q # r
    <3>1. inflight'[q] = inflight[q] /\ q \notin raced
      BY <1>1, <1>2, <2>2
    <3> QED BY <1>1, <1>7, <3>1 DEF Edits, Fresh, Exists
  <2> QED BY <2>1, <2>2
<1> QED BY <1>3, <1>6, <1>7 DEF Edits, Fresh, Exists

(* A committed edit changes its column alone, in which it had the last     *)
(* word if nothing raced it; whoever else edits that column is raced.      *)
LEMMA CommitEdits ==
    ASSUME TypeOK, Edits, NEW r \in Requests, CommitEdit(r)
    PROVE  Edits'
<1>1. PICK w : w = inflight[r]
  OBVIOUS
<1>2. /\ w.kind = "edit" /\ Exists(w.user)
      /\ account' = [account EXCEPT ![w.user] = Edited(@, w)]
      /\ asked' = [asked EXCEPT ![w.user][w.column] = w.value]
      /\ crossed' = IF r \in raced THEN crossed \cup {<<w.user, w.column>>}
                                   ELSE crossed \ {<<w.user, w.column>>}
      /\ raced' = raced \ {r}
  BY <1>1 DEF CommitEdit, End
<1>3. /\ w \in Work
      /\ w.user \in UserIds /\ w.column \in Columns /\ w.value \in Values(w.column)
  BY <1>1, <1>2, IdleKind, KindFields, WorkFields
<1>4. inflight'[r].kind # "edit" /\ \A s \in Requests \ {r} : inflight'[s] = inflight[s]
  BY <1>1, IdleKind DEF CommitEdit, End, Goes, TypeOK
<1>5. account[w.user] \in Account /\ asked[w.user] \in Account
  BY <1>2, <1>3 DEF TypeOK, Exists
<1>6. /\ account'[w.user] = Edited(account[w.user], w)
      /\ asked'[w.user] = [asked[w.user] EXCEPT ![w.column] = w.value]
      /\ \A u \in UserIds \ {w.user} : account'[u] = account[u] /\ asked'[u] = asked[u]
  BY <1>2, <1>3 DEF TypeOK
<1>7. /\ \A c \in Columns \ {w.column} : account'[w.user][c] = account[w.user][c]
      /\ r \notin raced => account'[w.user][w.column] = w.value
  <2>1. r \notin raced => account[w.user][w.column] = w.loaded[w.column]
    BY <1>1, <1>2, <1>3 DEF Edits, Fresh
  <2>2. w \in Work /\ w.kind = "edit" /\ account[w.user] \in Account
    BY <1>2, <1>3, <1>5
  <2>3. \A c \in Columns \ {w.column} : account'[w.user][c] = account[w.user][c]
    <3>1. \A c \in Columns \ {w.column} : Edited(account[w.user], w)[c] = account[w.user][c]
      BY <2>2, EditedIsAccount
    <3> QED BY <1>6, <3>1
  <2>4. account[w.user][w.column] = w.loaded[w.column]
            => Edited(account[w.user], w)[w.column] = w.value
    BY <2>2, EditedIsAccount
  <2> QED BY <1>6, <2>1, <2>3, <2>4
<1>8. /\ asked'[w.user][w.column] = w.value
      /\ \A c \in Columns \ {w.column} : asked'[w.user][c] = asked[w.user][c]
  BY <1>3, <1>5, <1>6 DEF Account
<1>9. ASSUME NEW u \in UserIds, Exists(u)', NEW c \in Columns, <<u, c>> \notin crossed'
      PROVE  account'[u][c] = asked'[u][c]
  <2>1. Exists(u)
    BY <1>2, <1>6, <1>9 DEF Exists
  <2>2. CASE u = w.user /\ c = w.column
    <3>1. r \notin raced
      BY <1>2, <1>9, <2>2
    <3> QED BY <1>7, <1>8, <2>2, <3>1
  <2>3. CASE ~(u = w.user /\ c = w.column)
    <3>1. <<u, c>> \notin crossed
      BY <1>2, <1>9, <2>3
    <3>2. account[u][c] = asked[u][c]
      BY <2>1, <3>1 DEF Edits, LastWord
    <3> QED BY <1>6, <1>7, <1>8, <2>3, <3>2
  <2> QED BY <2>2, <2>3
<1>10. LastWord'
  BY <1>9 DEF LastWord, Exists
<1>11. \A u \in UserIds, c \in Columns : Editing(u, c)' \subseteq Editing(u, c) \ {r}
  BY <1>4 DEF Editing
<1>12. ASSUME NEW u \in UserIds, NEW c \in Columns,
              NEW q \in Editing(u, c)', NEW s \in Editing(u, c)', q # s
       PROVE  q \in raced'
  <2>1. q \in raced /\ q # r
    BY <1>11, <1>12 DEF Edits
  <2> QED BY <1>2, <2>1
<1>13. ASSUME NEW q \in Requests \ raced', inflight'[q].kind = "edit",
              account'[inflight'[q].user] # Absent
       PROVE  inflight'[q].loaded[inflight'[q].column]
                  = account'[inflight'[q].user][inflight'[q].column]
  <2>1. q # r /\ inflight'[q] = inflight[q] /\ q \notin raced
    BY <1>2, <1>4, <1>13
  <2>2. inflight[q].user \in UserIds /\ inflight[q].column \in Columns
    BY <1>13, <2>1, IdleKind, KindFields, WorkFields
  <2>3. ~(inflight[q].user = w.user /\ inflight[q].column = w.column)
    BY <1>1, <1>2, <1>3, <1>13, <2>1 DEF Edits, Editing
  <2>4. account'[inflight[q].user][inflight[q].column]
            = account[inflight[q].user][inflight[q].column]
    BY <1>6, <1>7, <2>2, <2>3
  <2>5. Exists(inflight[q].user)
    BY <1>2, <1>6, <1>13, <2>1, <2>2 DEF Exists
  <2> QED BY <1>13, <2>1, <2>4, <2>5 DEF Edits, Fresh
<1> QED BY <1>10, <1>12, <1>13 DEF Edits, Fresh, Exists

(* A new account is as it was asked for, and nobody edits it yet.          *)
LEMMA RegisterEdits ==
    ASSUME TypeOK, Edits, NEW r \in Requests, CommitUser(r)
    PROVE  Edits'
<1>1. PICK w : w = inflight[r]
  OBVIOUS
<1>2. /\ w.kind = "register" /\ Forgotten(w.user)
      /\ account' = [account EXCEPT ![w.user] = w.row]
      /\ asked' = [asked EXCEPT ![w.user] = w.row]
      /\ crossed' = crossed /\ raced' = raced
  BY <1>1 DEF CommitUser
<1>3. w.user \in UserIds
  BY <1>1, <1>2, IdleKind, KindFields, WorkFields
<1>4. inflight'[r].kind # "edit" /\ \A s \in Requests \ {r} : inflight'[s] = inflight[s]
  BY <1>1 DEF CommitUser, Goes, TypeOK
<1>5. /\ account'[w.user] = asked'[w.user]
      /\ \A u \in UserIds \ {w.user} : account'[u] = account[u] /\ asked'[u] = asked[u]
  BY <1>2, <1>3 DEF TypeOK
<1>6. LastWord'
  BY <1>2, <1>5 DEF Edits, LastWord, Exists
<1>7. \A u \in UserIds, c \in Columns : Editing(u, c)' \subseteq Editing(u, c)
  BY <1>4 DEF Editing
<1>8. ASSUME NEW q \in Requests \ raced', inflight'[q].kind = "edit",
             account'[inflight'[q].user] # Absent
      PROVE  inflight'[q].loaded[inflight'[q].column]
                 = account'[inflight'[q].user][inflight'[q].column]
  <2>1. inflight'[q] = inflight[q] /\ q \notin raced
    BY <1>2, <1>4, <1>8
  <2>2. inflight[q].user \in UserIds \ {w.user}
    BY <1>2, <1>8, <2>1, IdleKind, KindFields, WorkFields DEF Forgotten
  <2>3. Fresh(q) /\ Exists(inflight[q].user)
    BY <1>5, <1>8, <2>1, <2>2 DEF Edits, Exists
  <2> QED BY <1>5, <1>8, <2>1, <2>2, <2>3 DEF Fresh
<1>9. ASSUME NEW u \in UserIds, NEW c \in Columns,
             NEW q \in Editing(u, c)', NEW s \in Editing(u, c)', q # s
      PROVE  q \in raced'
  BY <1>2, <1>7, <1>9 DEF Edits
<1> QED BY <1>6, <1>8, <1>9 DEF Edits, Fresh, Exists

LEMMA NextEdits == TypeOK /\ Edits /\ [Next]_vars => Edits'
<1> SUFFICES ASSUME TypeOK, Edits, [Next]_vars
             PROVE  Edits'
  OBVIOUS
<1> USE DEF tokens, history
<1>1. ASSUME NEW r \in Requests, NEW w, Goes(r, w), w.kind # "edit",
             UNCHANGED <<account, asked, crossed>>, raced \ {r} \subseteq raced'
      PROVE  Edits'
  <2>1. inflight'[r] = w /\ \A s \in Requests \ {r} : inflight'[s] = inflight[s]
    BY <1>1 DEF Goes, TypeOK
  <2>2. EditsAlone
    BY <1>1, <2>1 DEF EditsAlone
  <2> QED BY <2>2, AloneEdits
<1>2. ASSUME NEW r \in Requests, Calls(r)
      PROVE  Edits'
  <2>1. ASSUME NEW u \in UserIds, NEW p \in Passwords, Register(r, u, p) \/ Login(r, u, p)
        PROVE  Edits'
    BY <1>1, <2>1 DEF Register, Login, Begin
  <2>2. ASSUME NEW t \in RefreshIds, Refresh(r, t) \/ Logout(r, t)
        PROVE  Edits'
    BY <1>1, <2>2 DEF Refresh, Logout, Begin
  <2>3. ASSUME NEW u \in UserIds, IssuePasswordReset(r, u)
        PROVE  Edits'
    BY <1>1, <2>3 DEF IssuePasswordReset, Begin
  <2>4. ASSUME NEW u \in UserIds, NEW p \in Passwords, NEW q \in Passwords,
               ChangePassword(r, u, p, q)
        PROVE  Edits'
    BY <2>4, BeginEdits DEF ChangePassword, Active, Columns, Values
  <2>5. ASSUME NEW u \in UserIds, NEW flag \in Flags, NEW value \in BOOLEAN,
               SetFlag(r, u, flag, value)
        PROVE  Edits'
    BY <2>5, BeginEdits, ActiveAssumption DEF SetFlag, Columns, Values
  <2>6. ASSUME NEW t \in ResetIds, NEW p \in Passwords, ResetPassword(r, t, p)
        PROVE  Edits'
    <3>1. reset[t].user \in UserIds /\ Exists(reset[t].user)
      BY <2>6, AbsentAssumption DEF ResetPassword, TypeOK, ResetToken
    <3> QED BY <2>6, <3>1, BeginEdits DEF ResetPassword, Columns, Values
  <2> QED BY <1>2, <2>1, <2>2, <2>3, <2>4, <2>5, <2>6 DEF Calls
<1>3. ASSUME NEW r \in Requests, Commits(r)
      PROVE  Edits'
  <2>1. CASE CommitRevoke(r)
    BY <1>1, <2>1 DEF CommitRevoke
  <2>2. CASE CommitLogout(r) \/ CommitUsed(r) \/ Interrupted(r)
    BY <1>1, <2>2, IdleKind DEF CommitLogout, CommitUsed, Interrupted, End
  <2>3. ASSUME NEW t \in RefreshIds, CommitToken(r, t)
        PROVE  Edits'
    BY <1>1, <2>3, IdleKind DEF CommitToken, End
  <2>4. ASSUME NEW t \in ResetIds, CommitResetToken(r, t)
        PROVE  Edits'
    BY <1>1, <2>4, IdleKind DEF CommitResetToken, End
  <2> QED BY <1>3, <2>1, <2>2, <2>3, <2>4, CommitEdits, RegisterEdits DEF Commits
<1>4. ASSUME NEW t, Expire(t)
      PROVE  Edits'
  <2>1. EditsAlone
    BY <1>4 DEF Expire, EditsAlone
  <2> QED BY <2>1, AloneEdits
<1>5. ASSUME NEW u \in UserIds, Erase(u)
      PROVE  Edits'
  <2>1. account'[u] = Absent
    BY <1>5 DEF Erase, TypeOK
  <2>2. \A v \in UserIds \ {u} :
            /\ account'[v] = account[v] /\ asked'[v] = asked[v]
            /\ \A c \in Columns : <<v, c>> \in crossed => <<v, c>> \in crossed'
    BY <1>5 DEF Erase, TypeOK
  <2>3. inflight' = inflight /\ raced' = raced
    BY <1>5 DEF Erase
  <2>4. EditsAlone
    BY <2>1, <2>2, <2>3 DEF EditsAlone, Exists
  <2> QED BY <2>4, AloneEdits
<1>6. CASE UNCHANGED vars
  <2>1. EditsAlone
    BY <1>6 DEF vars, EditsAlone
  <2> QED BY <2>1, AloneEdits
<1> QED BY <1>2, <1>3, <1>4, <1>5, <1>6 DEF Next

-----------------------------------------------------------------------------
Inv == TypeOK /\ Logins /\ Resets /\ Edits

LEMMA InitInv == Init => Inv
<1> SUFFICES ASSUME Init
             PROVE  Inv
  OBVIOUS
<1>1. /\ \A u \in UserIds : ~Exists(u)
      /\ \A t \in RefreshIds : refresh[t] = Absent /\ login[t] = Absent
      /\ \A t \in ResetIds : reset[t] = Absent /\ resets[t] = Absent
      /\ \A r \in Requests : inflight[r] = Idle /\ inflight[r].kind = "idle"
  BY IdleKind DEF Init, Exists
<1>2. TypeOK
  BY <1>1 DEF Init, TypeOK
<1>3. \A f \in RefreshIds : Live(f) = {} /\ Issuing(f) = {} /\ Refreshing(f) = {}
  BY <1>1 DEF Live, Issuing, Refreshing
<1>4. Logins
  BY <1>1, <1>3 DEF Logins, OneLine
<1>5. \A t \in ResetIds : Resetting(t) = {}
  BY <1>1 DEF Resetting
<1>6. Resets
  BY <1>1, <1>5, AbsentAssumption DEF Resets
<1>7. Edits
  BY <1>1 DEF Edits, LastWord, Editing, Fresh
<1> QED BY <1>2, <1>4, <1>6, <1>7 DEF Inv

LEMMA NextInv == Inv /\ [Next]_vars => Inv'
BY NextTypes, NextLogins, NextResets, NextEdits DEF Inv

(* Types, and every token belongs to an account that exists: the database  *)
(* cascades, and the commits that would issue a token for an erased        *)
(* account fail.                                                           *)
THEOREM TypeCorrect == Spec => []TypeOK
<1>1. Inv => TypeOK
  BY DEF Inv
<1> QED BY <1>1, InitInv, NextInv, PTL DEF Spec

(* A login has at most one good refresh token, unless two calls spent a    *)
(* token of it at a time (AuthService.refresh reads before it revokes).    *)
THEOREM OneLive == Spec => []OneLivePerLogin
<1>1. Inv => OneLivePerLogin
  BY DEF Inv, Logins, OneLine, OneLivePerLogin
<1> QED BY <1>1, InitInv, NextInv, PTL DEF Spec

(* No call brings a login back that has no good token and no call on its   *)
(* way to one.                                                             *)
THEOREM OverForGood == Spec => OverIsOver
<1>1. Inv /\ [Next]_vars => [OverIsOverStep]_vars
  BY NextLogins DEF Inv
<1> QED BY <1>1, InitInv, NextInv, PTL DEF Spec, OverIsOver

(* A password reset token sets the password at most once, unless two calls *)
(* use it at a time or one ends between its two commits.                   *)
THEOREM ResetsOnce == Spec => []ResetOnce
<1>1. Inv => ResetOnce
  BY DEF Inv, Resets, ResetOnce
<1> QED BY <1>1, InitInv, NextInv, PTL DEF Spec

(* Edits of different columns of an account do not undo each other.        *)
THEOREM LastWordStays == Spec => []LastWord
<1>1. Inv => LastWord
  BY DEF Inv, Edits
<1> QED BY <1>1, InitInv, NextInv, PTL DEF Spec
=============================================================================
