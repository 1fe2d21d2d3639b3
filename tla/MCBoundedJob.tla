---------------------------- MODULE MCBoundedJob -----------------------------
(***************************************************************************)
(* The bounded job alone.                                                  *)
(***************************************************************************)
EXTENDS BoundedJob
==============================================================================
