------------------------------ MODULE WriteOnce ------------------------------
(***************************************************************************)
(* What the store of file contents promises: a content can be read for     *)
(* ever, as it was when it was stored, under the name it was given then.   *)
(***************************************************************************)
CONSTANT Encode(_)  \* how a content is kept

VARIABLE stored     \* the entries: [name, data, kept]

Init == stored = {}

Put(entry) ==
    /\ entry.kept = Encode(entry.data)
    /\ \A old \in stored : old.name # entry.name
    /\ stored' = stored \cup {entry}

Next == \E entry \in stored' : Put(entry)

Spec == Init /\ [][Next]_stored
=============================================================================
