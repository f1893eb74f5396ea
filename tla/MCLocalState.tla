---------------------------- MODULE MCLocalState ----------------------------
(***************************************************************************)
(* The local state store for TLC; the .cfg files choose the bounds.        *)
(***************************************************************************)
EXTENDS LocalStateStore
=============================================================================
