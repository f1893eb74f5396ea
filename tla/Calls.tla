-------------------------------- MODULE Calls --------------------------------
(***************************************************************************)
(* What a transport promises the page: a call is answered at most once,    *)
(* and its promise settles at most once, with the answer given to that     *)
(* very call or with an error.                                             *)
(***************************************************************************)
CONSTANTS Call, Answer, NoAnswer

VARIABLES
    outcome,    \* outcome[c]: what has become of the promise
    answered,   \* answered[c]: what the backend answered
    got         \* got[c]: what the promise resolved with

Init ==
    /\ outcome = [c \in Call |-> "unasked"]
    /\ answered = [c \in Call |-> NoAnswer]
    /\ got = [c \in Call |-> NoAnswer]

Ask(c) ==
    /\ outcome[c] = "unasked"
    /\ outcome' = [outcome EXCEPT ![c] = "waiting"]
    /\ UNCHANGED <<answered, got>>

\* A call that was given up may be answered all the same.
Serve(c) ==
    /\ outcome[c] # "unasked" /\ answered[c] = NoAnswer
    /\ answered'[c] \in Answer
    /\ answered' = [answered EXCEPT ![c] = answered'[c]]
    /\ UNCHANGED <<outcome, got>>

Resolve(c) ==
    /\ outcome[c] = "waiting" /\ answered[c] # NoAnswer
    /\ outcome' = [outcome EXCEPT ![c] = "resolved"]
    /\ got' = [got EXCEPT ![c] = answered[c]]
    /\ UNCHANGED answered

Reject(c) ==
    /\ outcome[c] = "waiting"
    /\ outcome' = [outcome EXCEPT ![c] = "rejected"]
    /\ UNCHANGED <<answered, got>>

Next == \E c \in Call : Ask(c) \/ Serve(c) \/ Resolve(c) \/ Reject(c)

Spec == Init /\ [][Next]_<<outcome, answered, got>>
=============================================================================
