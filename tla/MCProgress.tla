----------------------------- MODULE MCProgress -----------------------------
(***************************************************************************)
(* The instance of Progress for TLC; the values are in the configuration.  *)
(* Nothing is symmetric: liveness is checked.                              *)
(***************************************************************************)
EXTENDS Progress
=============================================================================
