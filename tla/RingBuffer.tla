----------------------------- MODULE RingBuffer -----------------------------
(***************************************************************************)
(* The ring of the last events (src/src/ring-buffer.ts).  items is the     *)
(* array, indexed from 0; head is where the next item goes.                *)
(***************************************************************************)
EXTENDS Integers, Sequences

CONSTANTS
    Capacity,   \* its capacity
    Nothing     \* undefined: what a slot holds that was never written

ASSUME CapacityAssumption == Capacity \in Nat \ {0}

VARIABLES items, head, count

ringVars == <<items, head, count>>

Slot == 0 .. Capacity - 1

EmptyRing ==
    /\ items = [i \in Slot |-> Nothing]
    /\ head = 0 /\ count = 0

\* Mutant of RingPush: the head wraps one slot too late.
RingPushLate(item) ==
    /\ items' = [items EXCEPT ![head] = item]
    /\ head' = IF head = Capacity - 1 THEN head ELSE head + 1
    /\ count' = IF count < Capacity THEN count + 1 ELSE count

\* Mutant of RingPush: the head never wraps.
RingPushOn(item) ==
    /\ items' = [items EXCEPT ![head] = item]
    /\ head' = head + 1
    /\ count' = IF count < Capacity THEN count + 1 ELSE count

RingPush(item) ==
    /\ items' = [items EXCEPT ![head] = item]
    /\ head' = (head + 1) % Capacity
    /\ count' = IF count < Capacity THEN count + 1 ELSE count

\* The bridge of a new session has a ring of its own.
NewRing ==
    /\ items' = [i \in Slot |-> Nothing]
    /\ head' = 0 /\ count' = 0

\* All items, newest first; the i-th of them is at head - i.
ToArray == [i \in 1 .. count |-> items[(head - i + Capacity) % Capacity]]

\* Mutant of Slice: it starts one item late.
SliceLate(offset, limit) ==
    LET last == IF offset + limit < count THEN offset + limit ELSE count
    IN  SubSeq(ToArray, offset + 2, last)

\* Array.prototype.slice(offset, offset + limit), for an offset not negative.
Slice(offset, limit) ==
    LET last == IF offset + limit < count THEN offset + limit ELSE count
    IN  SubSeq(ToArray, offset + 1, last)

=============================================================================
