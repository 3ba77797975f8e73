------------------------------- MODULE Absent -------------------------------
(* The one value the components below share: no process, no file, no row. *)
CONSTANT None
=============================================================================
