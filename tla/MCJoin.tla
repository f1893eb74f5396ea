-------------------------------- MODULE MCJoin --------------------------------
(***************************************************************************)
(* A peer that joins, for TLC: with a folder of its own, under any policy. *)
(***************************************************************************)
EXTENDS JoinPreview, TLC

\* The contents users write are interchangeable; the seeded one is not.
ContentSymmetry == Permutations(Content \ {Seed})
===============================================================================
