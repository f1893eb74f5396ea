------------------------------ MODULE MCSessions ------------------------------
(***************************************************************************)
(* The sessions for TLC: no folder and no policy is special; overlapping   *)
(* requests are followed in the first process only, up to its end, and     *)
(* only those that choose no policy.                                       *)
(***************************************************************************)
EXTENDS Sessions, TLC

Symmetric == Permutations(Folder) \cup Permutations(Policy)

Bounded ==
    overlapped =>
        /\ boots = 1 /\ life # "exited"
        /\ \A r \in Busy : task[r].asked = None
=============================================================================
