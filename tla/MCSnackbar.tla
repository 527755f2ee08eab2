----------------------------- MODULE MCSnackbar -----------------------------
(* Three undoable actions compete for the one bar. *)
EXTENDS Snackbar
=============================================================================
