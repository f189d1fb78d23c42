------------------------------ MODULE MemberData ------------------------------
(***************************************************************************)
(* What members do with what is theirs: chat, statuses, reading sessions,  *)
(* restores and the Google connection.  No two of these parts share a row, *)
(* so a property of one sees nothing of the others.                        *)
(***************************************************************************)
EXTENDS Chat, Sequences

CONSTANTS StatusIds, OtherKinds, Names,             \* of Statuses
          SessionIds, Releases,                     \* of ReadingSessions
          Tables, Keys, Unique, Referring, Backup,  \* of Restore
          ReplaceEnabled, MaxRows,
          MaxGrants, MaxFiles                       \* of GoogleBackup

VARIABLES statuses, patches, crossed, handmade, forgotten,
          sessions, calls, stopped,
          rows, issued, gone, restores, settled,
          row, grants, revoked, work, mixed, consent, files, records

(* The entries of a backup are rows of the user's tables, which are in the *)
(* purge's order; the bounds are numbers.                                  *)
ASSUME TablesAssumption ==
    /\ Tables \in Seq({k.table : k \in Keys})
    /\ \A k \in Keys : \E t \in DOMAIN Tables : Tables[t] = k.table
ASSUME BackupAssumption == Backup \in Seq(Keys)
ASSUME BoundsAssumption == MaxRows \in Nat /\ MaxGrants \in Nat /\ MaxFiles \in Nat

Shelf == INSTANCE Statuses
Sessions == INSTANCE ReadingSessions
Restores == INSTANCE Restore
Google == INSTANCE GoogleBackup

shelfVars == <<statuses, patches, crossed, handmade, forgotten>>
sessionVars == <<sessions, calls, stopped>>
restoreVars == <<rows, issued, gone, restores, settled>>
googleVars == <<row, grants, revoked, work, mixed, consent, files, records>>

allVars == <<vars, shelfVars, sessionVars, restoreVars, googleVars>>

-----------------------------------------------------------------------------
AllInit == Init /\ Shelf!Init /\ Sessions!Init /\ Restores!Init /\ Google!Init

(* Bound: a part moves while the others are where they began.              *)
ChatStep ==
    /\ Shelf!Init /\ Sessions!Init /\ Restores!Init /\ Google!Init
    /\ Next
    /\ UNCHANGED <<shelfVars, sessionVars, restoreVars, googleVars>>

ShelfStep ==
    /\ Init /\ Sessions!Init /\ Restores!Init /\ Google!Init
    /\ Shelf!Next
    /\ UNCHANGED <<vars, sessionVars, restoreVars, googleVars>>

SessionStep ==
    /\ Init /\ Shelf!Init /\ Restores!Init /\ Google!Init
    /\ Sessions!Next
    /\ UNCHANGED <<vars, shelfVars, restoreVars, googleVars>>

RestoreStep ==
    /\ Init /\ Shelf!Init /\ Sessions!Init /\ Google!Init
    /\ Restores!Next
    /\ UNCHANGED <<vars, shelfVars, sessionVars, googleVars>>

GoogleStep ==
    /\ Init /\ Shelf!Init /\ Sessions!Init /\ Restores!Init
    /\ Google!Next
    /\ UNCHANGED <<vars, shelfVars, sessionVars, restoreVars>>

AllNext == ChatStep \/ ShelfStep \/ SessionStep \/ RestoreStep \/ GoogleStep

AllSpec == AllInit /\ [][AllNext]_allVars

-----------------------------------------------------------------------------
(* Every variable of every part keeps its type.                            *)
TypesOK ==
    TypeOK /\ Shelf!TypeOK /\ Sessions!TypeOK /\ Restores!TypeOK /\ Google!TypeOK

(* The properties of the parts, stated and explained in their modules: a   *)
(* status is lent to one borrower or to none;                              *)
LentToOne == Shelf!LentToOne

(* a release has one open session of the user's at most,                   *)
OneOpen == Sessions!OneOpen

(* and one that was stopped stays so;                                      *)
StaysStopped == Sessions!StaysStopped

(* a merging restore is idempotent;                                        *)
MergedForGood == Restores!MergedForGood

(* a replacing one is all or nothing;                                      *)
ReplaceIsWhole == [][Restores!ReplaceIsWholeStep]_restoreVars

(* and the tokens in use are those of the last consent.                    *)
ConsentKept == Google!ConsentKept
=============================================================================
