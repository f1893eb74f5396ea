------------------------------ MODULE Transport ------------------------------
(***************************************************************************)
(* How the page calls the backend.  In the Pear app requests, answers and  *)
(* pushes share one ordered pipe: PipeTransport (pipe-transport.ts) keeps  *)
(* a table of promises by id, handlePipeLine (index.js) answers each line  *)
(* when it is done with it.  In a browser HttpTransport (transport.ts) has *)
(* a connection per call, and a call has no timer.                         *)
(*                                                                         *)
(* A call is its number.  Framing by newlines is external to the order of  *)
(* the lines, which is all that is kept of it.                             *)
(***************************************************************************)
EXTENDS Naturals, Sequences

CONSTANTS
    Item,       \* the events an answer may list
    MaxCalls,   \* bound: calls of the page and ends of the server, together
    MaxDeaths   \* bound: ends of the server

ASSUME BoundsAssumption == MaxCalls \in Nat /\ MaxDeaths \in Nat

Route == {"status", "events", "setup"}
CallId == 1 .. MaxCalls
State == {"setup", "watching", "ok", "error", "none", "push"}

Outcome == {"unasked", "waiting", "resolved", "rejected"}

\* What an answer or a push says; list is empty unless it is of events.
Body == [state : State, list : Seq(Item)]
Says(state) == [state |-> state, list |-> <<>>]
NoAnswer == Says("none")

VARIABLES
    mode,       \* "pipe" or "http"
    alive,      \* the backend runs
    calls,      \* calls[c]: the route of call c; nextId is Len(calls) + 1
    pending,    \* calls whose promise is in the table, its timer running
    outcome,    \* outcome[c]: what has become of the promise of c
    got,        \* got[c]: what it resolved with
    toServer,   \* calls on their way to the backend
    serving,    \* calls the backend has begun and not finished
    answered,   \* answered[c]: what the backend answered (history)
    toPage,     \* answers and pushes on their way to the page
    deaths      \* how often the server has ended

pageSide == <<calls, pending, outcome, got>>
serverSide == <<serving, answered>>
transportVars == <<mode, alive, pageSide, serverSide, toServer, toPage, deaths>>

TransportInit ==
    /\ mode \in {"pipe", "http"}
    /\ alive = TRUE
    /\ calls = <<>> /\ pending = {} /\ serving = {}
    /\ outcome = [c \in CallId |-> "unasked"]
    /\ answered = [c \in CallId |-> NoAnswer]
    /\ got = [c \in CallId |-> NoAnswer]
    /\ toServer = <<>> /\ toPage = <<>> /\ deaths = 0

\* Within the bound.
Room == Len(calls) + deaths < MaxCalls

\* The next line of the pipe; over HTTP any connection may be the next.
Arrivals(wire) == IF mode = "pipe" THEN {1} \cap DOMAIN wire ELSE DOMAIN wire

Without(wire, i) ==
    [j \in 1 .. Len(wire) - 1 |-> IF j < i THEN wire[j] ELSE wire[j + 1]]

\* get and post: the next id, a promise with a timer, a line in the pipe.
NextCall == Len(calls) + 1

Send(route) ==
    /\ Room
    /\ calls' = Append(calls, route)
    /\ pending' = pending \cup {NextCall}
    /\ outcome' = [outcome EXCEPT ![NextCall] = "waiting"]
    /\ toServer' = IF alive THEN Append(toServer, NextCall) ELSE toServer
    /\ UNCHANGED <<mode, alive, deaths, got, serverSide, toPage>>

(***************************************************************************)
(* The backend.  A request that has nothing to wait for is answered in the *)
(* step that reads it; another may be overtaken by later ones.             *)
(***************************************************************************)
Arrived(i, route) ==
    /\ alive /\ i \in Arrivals(toServer) /\ calls[toServer[i]] = route
    /\ toServer' = Without(toServer, i)

Reply(c, body) ==
    /\ answered' = [answered EXCEPT ![c] = body]
    /\ toPage' = Append(toPage, [call |-> c, body |-> body])

AnswerAtOnce(i, route, body) ==
    /\ Arrived(i, route)
    /\ Reply(toServer[i], body)
    /\ UNCHANGED <<mode, alive, deaths, pageSide, serving>>

BeginServing(i, route) ==
    /\ Arrived(i, route)
    /\ serving' = serving \cup {toServer[i]}
    /\ UNCHANGED <<mode, alive, deaths, pageSide, answered, toPage>>

FinishServing(c, body) ==
    /\ c \in serving
    /\ serving' = serving \ {c}
    /\ Reply(c, body)
    /\ UNCHANGED <<mode, alive, deaths, pageSide, toServer>>

\* A line without an id.
PushLine(e) ==
    toPage' = Append(toPage, [call |-> 0, body |-> [state |-> "push", list |-> <<e>>]])

(***************************************************************************)
(* handleMessage (pipe-transport.ts:78-108).                               *)
(***************************************************************************)
Settle(c, how) ==
    /\ pending' = pending \ {c}
    /\ outcome' = [outcome EXCEPT ![c] = how]

\* The call a message is taken to answer.
AnswerFor(i) == toPage[i].call

Receive(i, route) ==
    /\ i \in Arrivals(toPage) /\ toPage[i].call # 0
    /\ LET c == AnswerFor(i) IN
        /\ c \in pending /\ calls[c] = route
        /\ Settle(c, IF toPage[i].body.state = "error" THEN "rejected" ELSE "resolved")
        /\ got' = IF toPage[i].body.state = "error" THEN got
                  ELSE [got EXCEPT ![c] = toPage[i].body]
    /\ toPage' = Without(toPage, i)
    /\ UNCHANGED <<mode, alive, deaths, calls, serverSide, toServer>>

\* The answer to a call that has timed out.
ReceiveLate(i) ==
    /\ i \in Arrivals(toPage) /\ toPage[i].call # 0
    /\ AnswerFor(i) \notin pending
    /\ toPage' = Without(toPage, i)
    /\ UNCHANGED <<mode, alive, deaths, pageSide, serverSide, toServer>>

ReceivePush(i) ==
    /\ i \in Arrivals(toPage) /\ toPage[i].call = 0
    /\ toPage' = Without(toPage, i)
    /\ UNCHANGED <<mode, alive, deaths, pageSide, serverSide, toServer>>

\* Mutant of GiveUp: the entry stays in the table.
GiveUpKeeping(c) ==
    /\ outcome' = [outcome EXCEPT ![c] = "rejected"]
    /\ UNCHANGED <<mode, alive, deaths, calls, pending, got, serverSide, toServer, toPage>>

GiveUp(c) ==
    /\ Settle(c, "rejected")
    /\ UNCHANGED <<mode, alive, deaths, calls, got, serverSide, toServer, toPage>>

\* The timer of send (112-115).  The backend is not told.
Timeout(c) == mode = "pipe" /\ c \in pending /\ GiveUp(c)

InFlight(c) ==
    \/ \E i \in DOMAIN toServer : toServer[i] = c
    \/ c \in serving
    \/ \E i \in DOMAIN toPage : toPage[i].call = c

\* fetch rejects: the server refused the connection or is gone.
ConnectionLost(c) ==
    /\ mode = "http" /\ c \in pending /\ ~InFlight(c)
    /\ GiveUp(c)

\* The server process ends, and every connection with it.
TransportDies ==
    /\ mode = "http" /\ alive
    /\ Room /\ deaths < MaxDeaths
    /\ alive' = FALSE /\ deaths' = deaths + 1
    /\ toServer' = <<>> /\ serving' = {} /\ toPage' = <<>>
    /\ UNCHANGED <<mode, pageSide, answered>>

TransportRevives ==
    /\ ~alive /\ alive' = TRUE
    /\ UNCHANGED <<mode, deaths, pageSide, serverSide, toServer, toPage>>

-----------------------------------------------------------------------------
(***************************************************************************)
(* Both transports keep the promise of Calls: whatever is late, given up,  *)
(* overtaken or lost, no promise settles twice or with the answer to       *)
(* another call, and no request is answered twice.                         *)
(***************************************************************************)
Promise == INSTANCE Calls WITH Call <- CallId, Answer <- Body \ {NoAnswer}

CallsKept == Promise!Spec
=============================================================================
