------------------------------- MODULE MCSync -------------------------------
(***************************************************************************)
(* Instances of the sync engine for TLC: two or three peers, one file,     *)
(* three contents.  The .cfg files choose who edits, who restarts and the  *)
(* bounds.                                                                 *)
(***************************************************************************)
EXTENDS SyncClaims, TLC

\* The contents users write are interchangeable; the seeded one is not.
ContentSymmetry == Permutations(Content \ {Seed})
=============================================================================
