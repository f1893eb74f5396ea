------------------------------ MODULE RecentLog ------------------------------
(***************************************************************************)
(* What a log of the last Capacity items promises: newest first, nothing   *)
(* missing, nothing twice.  A new session begins with an empty one.        *)
(***************************************************************************)
EXTENDS Naturals, Sequences

CONSTANTS Item, Capacity

VARIABLE recent

Shorter(m, n) == IF m < n THEN m ELSE n

\* The first n elements of s, or all of them.
Prefix(s, n) == [i \in 1..Shorter(Len(s), n) |-> s[i]]

Init == recent = <<>>

Push(e) == recent' = Prefix(<<e>> \o recent, Capacity)

Clear == recent' = <<>>

Next == Clear \/ \E e \in Item : Push(e)

Spec == Init /\ [][Next]_recent
=============================================================================
