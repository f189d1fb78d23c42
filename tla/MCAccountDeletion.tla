------------------------- MODULE MCAccountDeletion -------------------------
(***************************************************************************)
(* TLC instances of AccountDeletion.                                       *)
(***************************************************************************)
EXTENDS AccountDeletion

(* The tables that the purge treats alike are checked by one of them each. *)
OneOfEachKind ==
    {"review", "book_status", "friendship", "refresh_token", "chat_message"}
=============================================================================
