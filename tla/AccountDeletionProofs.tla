----------------------- MODULE AccountDeletionProofs ------------------------
(***************************************************************************)
(* Theorems of AccountDeletion, for any users, rows and overlapping or     *)
(* killed runs.                                                            *)
(***************************************************************************)
EXTENDS AccountDeletion, TLAPS

-----------------------------------------------------------------------------
(* A run that erases has its user; everyone a run still has to do, or is   *)
(* doing, is past the grace period, or has rescheduled or cancelled since. *)
ListHolds ==
    \A p \in Active : \A u \in Users :
        u \in runs[p].todo \/ u = runs[p].user =>
            u \in late \/ accounts[u] \in {"due", "gone"}

IInv ==
    /\ TypeOK
    /\ \A p \in Runs : runs[p].is = "erasing" => runs[p].user \in Users
    /\ ListHolds

-----------------------------------------------------------------------------
(* What purge_user_data keeps of a row is a row, without the reference to  *)
(* the purged user.                                                        *)
LEMMA ScrubbedRow ==
    ASSUME NEW row \in Row, NEW u \in Users, ~Dropped(row, u)
    PROVE  /\ Scrubbed(row, u) \in Row
           /\ Scrubbed(row, u).owner # row.owner => row.table = "review" /\ row.owner = u
           /\ Scrubbed(row, u) # row => u \in Named(row)
<1> DEFINE owner == IF Anonymized(row, u) THEN None ELSE row.owner
           other == IF Detached(row, u) THEN None ELSE row.other
           new == [table |-> row.table, owner |-> owner, other |-> other]
<1>1. Scrubbed(row, u) = new
  BY DEF Scrubbed
<1>2. row = [table |-> row.table, owner |-> row.owner, other |-> row.other]
  BY DEF Row
<1>4. new \in Row
  <2>1. CASE Anonymized(row, u)
    <3>1. row.table \in Tables \cap {"review"} /\ other = None
      BY <2>1 DEF Row, Anonymized, Detached, Personal, Cascaded, Shared, Mutual
    <3> QED BY <2>1, <3>1 DEF Row
  <2>2. CASE Detached(row, u) /\ ~Anonymized(row, u)
    <3>1. row.table \in Tables \cap Shared /\ row.owner \in Users
      BY <2>2 DEF Row, Detached, Personal, Cascaded, Shared, Mutual
    <3> QED BY <2>2, <3>1 DEF Row
  <2>3. CASE ~Detached(row, u) /\ ~Anonymized(row, u)
    BY <2>3, <1>2
  <2> QED BY <2>1, <2>2, <2>3
<1>5. new.owner # row.owner => row.table = "review" /\ row.owner = u
  BY DEF Anonymized
<1>6. new # row => u \in Named(row)
  <2>1. Anonymized(row, u) \/ Detached(row, u) => u \in Named(row)
    BY NoneAssumption DEF Anonymized, Detached, Named
  <2> QED BY <1>2, <2>1
<1> QED BY <1>1, <1>4, <1>5, <1>6

(* The rows after purge_user_data(u).                                      *)
LEMMA PurgedRows ==
    ASSUME TypeOK, NEW p \in Runs, NEW u \in Users, PurgeUserData(p, u), NEW i \in RowIds
    PROVE  /\ rows'[i] \in Row \cup {Absent}
           /\ rows[i] = Absent => rows'[i] = Absent
           /\ rows'[i] # rows[i] => u \in Named(rows[i])
           /\ i \in Rows /\ rows'[i] = Absent => Dropped(rows[i], u)
           /\ i \in Rows /\ rows'[i] # Absent /\ rows'[i].owner # rows[i].owner =>
                  rows[i].owner = u
<1>1. rows'[i] = IF rows[i] = Absent THEN Absent ELSE Scrubbed(rows[i], u)
  BY DEF PurgeUserData
<1>2. CASE rows[i] = Absent
  BY <1>1, <1>2 DEF Rows
<1>3. CASE rows[i] # Absent
  <2>1. rows[i] \in Row
    BY <1>3 DEF TypeOK
  <2>2. CASE Dropped(rows[i], u)
    <3>1. rows'[i] = Absent
      BY <1>1, <1>3, <2>2 DEF Scrubbed
    <3>2. u \in Named(rows[i])
      BY <2>1, <2>2, NoneAssumption DEF Dropped, Named
    <3> QED BY <1>3, <2>2, <3>1, <3>2
  <2>3. CASE ~Dropped(rows[i], u)
    BY <1>1, <1>3, <2>1, <2>3, ScrubbedRow, AbsentAssumption
  <2> QED BY <2>2, <2>3
<1> QED BY <1>2, <1>3

-----------------------------------------------------------------------------
LEMMA InitInv == Init => IInv
BY BoundAssumption DEF Init, IInv, TypeOK, States, Run, At, Idle, Active, ListHolds

(* The user's side of the deletion.                                        *)
LEMMA UserStepInv ==
    ASSUME IInv, NEW u \in Users, UserSteps(u)
    PROVE  IInv'
<1> USE DEF IInv, TypeOK, Active
<1>1. CASE Schedule(u)
  <2>1. TypeOK'
    BY <1>1 DEF Schedule, States
  <2>2. ListHolds'
    BY <1>1 DEF Schedule, ListHolds, Listed
  <2> QED BY <1>1, <2>1, <2>2 DEF Schedule
<1>2. CASE Cancel(u)
  BY <1>2 DEF Cancel, ListHolds
<1>3. CASE CommitCancel(u)
  <2>1. TypeOK'
    BY <1>3 DEF CommitCancel, States
  <2>2. ListHolds'
    BY <1>3 DEF CommitCancel, ListHolds, Listed, Exists
  <2> QED BY <1>3, <2>1, <2>2 DEF CommitCancel
<1>4. CASE GraceEnds(u)
  BY <1>4 DEF GraceEnds, ListHolds, States
<1> QED BY <1>1, <1>2, <1>3, <1>4 DEF UserSteps

(* The other handlers.                                                     *)
LEMMA RowStepInv ==
    ASSUME IInv, NEW i \in RowIds, RowSteps(i)
    PROVE  IInv'
<1> USE DEF IInv, TypeOK, At
<1>1. ASSUME NEW row, Write(i, row)
      PROVE  IInv'
  BY <1>1, BoundAssumption DEF Write, ListHolds, Active
<1>2. CASE Return(i)
  <2>1. rows[i] \in Row /\ rows[i].table = "book_status"
    BY <1>2 DEF Return, Rows
  <2>2. [rows[i] EXCEPT !.other = None] \in Row
    BY <2>1 DEF Row, Shared, Mutual, Personal, Cascaded
  <2> QED BY <1>2, <2>2 DEF Return, ListHolds, Active
<1>3. CASE Remove(i)
  BY <1>3 DEF Remove, ListHolds, Active
<1> QED BY <1>1, <1>2, <1>3 DEF RowSteps, Create, Refer

(* The purge job.                                                          *)
LEMMA PurgeInv ==
    ASSUME IInv, NEW p \in Runs, Purge(p) \/ Crash(p)
    PROVE  IInv'
<1> USE DEF IInv, TypeOK, At
<1>1. CASE StartPurge(p)
  <2> DEFINE due == {u \in Users : accounts[u] = "due"}
  <2>1. /\ runs' = [runs EXCEPT ![p] = At("listing", due, None)]
        /\ late' = IF Active = {} THEN {} ELSE late
        /\ UNCHANGED <<accounts, cancelling, rows, upsets>>
        /\ p \notin Active
    BY <1>1 DEF StartPurge, Start
  <2>2. TypeOK'
    BY <2>1 DEF Run
  <2>3. ListHolds'
    <3> SUFFICES ASSUME NEW q \in Active', NEW u \in Users,
                        u \in runs'[q].todo \/ u = runs'[q].user
                 PROVE  u \in late' \/ accounts'[u] \in {"due", "gone"}
      BY DEF ListHolds
    <3>1. CASE q = p
      BY <2>1, <3>1, NoneAssumption DEF Active
    <3>2. CASE q # p
      BY <2>1, <3>2 DEF Active, ListHolds
    <3> QED BY <3>1, <3>2
  <2> QED BY <2>1, <2>2, <2>3
<1>2. ASSUME NEW u \in Users, PurgeUserData(p, u)
      PROVE  IInv'
  <2>1. rows' \in [RowIds -> Row \cup {Absent}]
    BY <1>2, PurgedRows DEF PurgeUserData
  <2>2. runs' \in [Runs -> Run]
    BY <1>2 DEF PurgeUserData, Run
  <2>3. ListHolds'
    BY <1>2, NoneAssumption DEF PurgeUserData, ListHolds, Active, Run
  <2> QED BY <1>2, <2>1, <2>2, <2>3 DEF PurgeUserData, Run
<1>3. CASE DeleteUser(p)
  <2>1. rows' \in [RowIds -> Row \cup {Absent}]
    BY <1>3 DEF DeleteUser
  <2>2. runs' \in [Runs -> Run]
    BY <1>3 DEF DeleteUser, Run
  <2>3. accounts' \in [Users -> States]
    BY <1>3 DEF DeleteUser, States
  <2>4. ListHolds'
    BY <1>3, NoneAssumption DEF DeleteUser, ListHolds, Active, Run
  <2> QED BY <1>3, <2>1, <2>2, <2>3, <2>4 DEF DeleteUser, Run
<1>4. CASE PurgeFails(p)
  <2>1. PICK todo \in SUBSET Users :
            runs' = [runs EXCEPT ![p] = At("failed", todo, None)]
    BY <1>4 DEF PurgeFails, Run
  <2>2. runs' \in [Runs -> Run]
    BY <2>1 DEF Run
  <2>3. UNCHANGED <<accounts, cancelling, rows, upsets, late>>
    BY <1>4 DEF PurgeFails
  <2>4. ListHolds'
    BY <2>1, <2>3 DEF ListHolds, Active
  <2> QED BY <2>1, <2>2, <2>3, <2>4
<1>5. CASE Finish(p)
  BY <1>5 DEF Finish, ListHolds, Active, Run, Idle
<1>6. CASE Crash(p)
  BY <1>6, BoundAssumption DEF Crash, ListHolds, Active, Run, Idle
<1> QED BY <1>1, <1>2, <1>3, <1>4, <1>5, <1>6 DEF Purge

LEMMA StutterInv == IInv /\ UNCHANGED vars => IInv'
BY DEF IInv, TypeOK, ListHolds, Active, vars

(* The inductive invariant.                                                *)
THEOREM Invariance == Spec => []IInv
<1>1. IInv /\ [Next]_vars => IInv'
  BY UserStepInv, RowStepInv, PurgeInv, StutterInv DEF Next
<1> QED BY InitInv, <1>1, PTL DEF Spec

(* Every state has its type: a purge leaves no row without an owner it     *)
(* must have.                                                              *)
THEOREM TypeCorrect == Spec => []TypeOK
BY Invariance, PTL DEF IInv

-----------------------------------------------------------------------------
(* A step that lets an account go, or starts to erase a user's data, is a  *)
(* run's, for a user of its list.                                          *)
LEMMA OnlyDueOneStep ==
    ASSUME IInv, Next
    PROVE  OnlyDueStep
<1> USE DEF IInv, TypeOK, At
<1>1. ASSUME NEW u \in Users, UserSteps(u)
      PROVE  OnlyDueStep
  BY <1>1 DEF UserSteps, Schedule, Cancel, CommitCancel, GraceEnds, OnlyDueStep
<1>2. ASSUME NEW i \in RowIds, RowSteps(i)
      PROVE  OnlyDueStep
  <2>1. UNCHANGED <<accounts, runs>>
    BY <1>2 DEF RowSteps, Create, Refer, Write, Return, Remove
  <2> QED BY <2>1 DEF OnlyDueStep
<1>3. ASSUME NEW p \in Runs, Purge(p) \/ Crash(p)
      PROVE  OnlyDueStep
  <2>1. CASE StartPurge(p)
    BY <2>1, NoneAssumption DEF StartPurge, Start, OnlyDueStep, Run
  <2>2. ASSUME NEW u \in Users, PurgeUserData(p, u)
        PROVE  OnlyDueStep
    BY <2>2 DEF PurgeUserData, OnlyDueStep, ListHolds, Active, Run
  <2>3. CASE DeleteUser(p)
    BY <2>3, NoneAssumption DEF DeleteUser, OnlyDueStep, ListHolds, Active, Run
  <2>4. CASE PurgeFails(p)
    <3>1. /\ runs'[p].user = None
          /\ \A q \in Runs \ {p} : runs'[q] = runs[q]
          /\ UNCHANGED accounts
      BY <2>4 DEF PurgeFails, Run
    <3> QED BY <3>1, NoneAssumption DEF OnlyDueStep
  <2>5. CASE Finish(p) \/ Crash(p)
    BY <2>5, NoneAssumption DEF Finish, Crash, OnlyDueStep, Run, Idle
  <2> QED BY <1>3, <2>1, <2>2, <2>3, <2>4, <2>5 DEF Purge
<1> QED BY <1>1, <1>2, <1>3 DEF Next

(* Only accounts past their grace period are erased, whatever runs overlap *)
(* or die, unless their user rescheduled or cancelled during a run.        *)
THEOREM ErasesOnlyDue == Spec => OnlyDue
<1>1. IInv /\ [Next]_vars => [OnlyDueStep]_vars
  BY OnlyDueOneStep
<1> QED BY Invariance, <1>1, PTL DEF Spec, OnlyDue

-----------------------------------------------------------------------------
LEMMA SparesOthersOneStep ==
    ASSUME IInv, Next
    PROVE  SparesOthersStep
<1> USE DEF IInv, TypeOK, At
<1>1. ASSUME NEW u \in Users, UserSteps(u)
      PROVE  SparesOthersStep
  BY <1>1 DEF UserSteps, Schedule, Cancel, CommitCancel, GraceEnds, SparesOthersStep
<1>2. ASSUME NEW i \in RowIds, RowSteps(i)
      PROVE  SparesOthersStep
  <2>1. UNCHANGED runs
    BY <1>2 DEF RowSteps, Create, Refer, Write, Return, Remove
  <2> QED BY <2>1 DEF SparesOthersStep
<1>3. ASSUME NEW p \in Runs, Purge(p) \/ Crash(p)
      PROVE  SparesOthersStep
  <2>1. CASE StartPurge(p) \/ PurgeFails(p) \/ Finish(p) \/ Crash(p)
    <3>1. UNCHANGED rows
      BY <2>1 DEF StartPurge, Start, PurgeFails, Finish, Crash
    <3> QED BY <3>1 DEF SparesOthersStep
  <2>2. ASSUME NEW u \in Users, PurgeUserData(p, u)
        PROVE  SparesOthersStep
    <3> SUFFICES ASSUME NEW q \in Runs, runs'[q] # runs[q],
                        NEW i \in Rows, rows'[i] # rows[i]
                 PROVE  /\ runs'[q].is = "erasing" /\ runs'[q].user = u
                        /\ u \in Named(rows[i])
                        /\ rows'[i] = Absent =>
                               /\ rows[i].table # "review"
                               /\ rows[i].owner = u \/ rows[i].table = "friendship"
                        /\ rows'[i] # Absent /\ rows[i].owner # u =>
                               rows'[i].owner = rows[i].owner
      BY DEF SparesOthersStep
    <3>1. runs'[q].is = "erasing" /\ runs'[q].user = u
      BY <2>2 DEF PurgeUserData
    <3>2. i \in RowIds
      BY DEF Rows
    <3>3. Dropped(rows[i], u) => /\ rows[i].table # "review"
                                 /\ rows[i].owner = u \/ rows[i].table = "friendship"
      BY DEF Dropped
    <3> QED BY <2>2, <3>1, <3>2, <3>3, PurgedRows
  <2>3. CASE DeleteUser(p)
    <3> SUFFICES ASSUME NEW q \in Runs, runs'[q] # runs[q],
                        NEW i \in Rows, rows'[i] # rows[i]
                 PROVE  LET u == IF runs'[q].is = "erasing"
                                 THEN runs'[q].user ELSE runs[q].user
                        IN  /\ u \in Named(rows[i])
                            /\ rows'[i] = Absent
                            /\ rows[i].table # "review"
                            /\ rows[i].owner = u
      BY DEF SparesOthersStep
    <3>1. q = p /\ runs'[q].is = "listing" /\ runs[q].user \in Users
      BY <2>3 DEF DeleteUser, Run
    <3>2. /\ rows'[i] = Absent
          /\ rows[i].table \in Cascaded
          /\ rows[i].owner = runs[p].user
      BY <2>3 DEF DeleteUser, Rows
    <3> QED BY <3>1, <3>2, NoneAssumption DEF Named, Cascaded
  <2> QED BY <1>3, <2>1, <2>2, <2>3 DEF Purge
<1> QED BY <1>1, <1>2, <1>3 DEF Next

(* A purge takes nothing from the users it does not purge, except their    *)
(* friendship with the purged one, and no review at all.                   *)
THEOREM PurgeSparesOthers == Spec => SparesOthers
<1>1. IInv /\ [Next]_vars => [SparesOthersStep]_vars
  BY SparesOthersOneStep
<1> QED BY Invariance, <1>1, PTL DEF Spec, SparesOthers
=============================================================================
