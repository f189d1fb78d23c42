----------------------------- MODULE UnitOfWork -----------------------------
(***************************************************************************)
(* The unit of work every request handler runs in: one SQLAlchemy          *)
(* AsyncSession, made by app/core/db.py with expire_on_commit=False and    *)
(* autoflush=False, over PostgreSQL in its default READ COMMITTED level.   *)
(*                                                                         *)
(* A handler reads rows, decides on the copies it holds, edits them, and   *)
(* commits.  The session compares each copy with what it loaded and sends  *)
(* an UPDATE that names ONLY the columns whose value differs.  Another     *)
(* request may have committed to the same row in between, so what the row  *)
(* holds afterwards can be a mixture of the two requests.                  *)
(*                                                                         *)
(* A table is a function from row ids to rows, a row that does not exist   *)
(* being Absent.  A handler between its read and its commit is a record    *)
(* of what the commit will do:                                             *)
(*   kind    "insert", "update" or "delete"                                *)
(*   id      the primary key of the row                                    *)
(*   loaded  the copy the session loaded (an insert: the new row)          *)
(*   edited  the copy as the handler left it                               *)
(***************************************************************************)
CONSTANT Absent

(* The row after an UPDATE: the edited columns that have a net change win, *)
(* every other column keeps the value the database holds now.              *)
Flushed(row, loaded, edited) ==
    [c \in DOMAIN row |-> IF edited[c] # loaded[c] THEN edited[c] ELSE row[c]]

(* What table[w.id] becomes when the unit of work w commits.               *)
Written(table, w) ==
    CASE w.kind = "insert" -> w.edited
      [] w.kind = "update" -> Flushed(table[w.id], w.loaded, w.edited)
      [] w.kind = "delete" -> Absent

(* An UPDATE that matches no row raises StaleDataError and rolls back;     *)
(* a DELETE that matches no row only logs a warning and commits.           *)
StaleUpdate(table, w) ==
    w.kind = "update" /\ table[w.id] = Absent
=============================================================================
