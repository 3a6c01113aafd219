---------------------------- MODULE MCLogReader ----------------------------
(* One writer, one relying party, at most MaxEdits edits. *)
EXTENDS LogReader
=============================================================================
