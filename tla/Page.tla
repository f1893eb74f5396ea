-------------------------------- MODULE Page --------------------------------
(***************************************************************************)
(* The page: App and its status (App.tsx, useApi.ts), the setup form       *)
(* (Setup.tsx), and the dashboard's list of events (useEvents.ts), fetched *)
(* once and then extended by pushes (useWebSocket.ts).                     *)
(***************************************************************************)
EXTENDS EngineBridge, FiniteSets

CONSTANTS MaxShown      \* MAX_EVENTS of useEvents

\* 1000 are shown, 100 are fetched.
ASSUME ShownAssumption == MaxShown \in Nat /\ FetchLimit <= MaxShown

VARIABLES
    status,     \* useApi's data: the last status answered
    form,       \* the setup form: idle, loading, or done and about to refetch
    mounted,    \* the dashboard is there
    fetch,      \* the call of its getEvents, 0 before it
    shown,      \* its events, newest first
    nextId      \* nextIdRef: the id of the next pushed event

pageVars == <<status, form, mounted, fetch, shown, nextId>>
vars == <<transportVars, backendVars, pageVars>>

Init ==
    /\ TransportInit /\ BridgeInit
    /\ status = "none" /\ form = "idle"
    /\ mounted = FALSE /\ fetch = 0 /\ shown = <<>> /\ nextId = 1

\* useApi polls, whether or not the poll before was answered.
PollStatus ==
    /\ Send("status")
    /\ UNCHANGED <<backendVars, pageVars>>

\* handleSubmit; the button is disabled while loading.
Submit ==
    /\ ~mounted /\ status # "watching" /\ form = "idle"
    /\ Send("setup")
    /\ form' = "loading"
    /\ UNCHANGED <<backendVars, status, mounted, fetch, shown, nextId>>

\* onComplete: refetch.
SetupDone ==
    /\ form = "done" /\ form' = "idle"
    /\ Send("status")
    /\ UNCHANGED <<backendVars, status, mounted, fetch, shown, nextId>>

\* The dashboard is mounted: fetch the events, subscribe or connect.
Mount ==
    /\ ~mounted /\ status = "watching"
    /\ mounted' = TRUE
    /\ Send("events") /\ fetch' = NextCall
    /\ socket' = IF mode = "http" THEN "connecting" ELSE "off"
    /\ UNCHANGED <<ringVars, bridgeVars, registered, wire, status, form, shown, nextId>>

\* The status says setup again: the list goes with the dashboard.
Unmount ==
    /\ mounted /\ status # "watching"
    /\ mounted' = FALSE /\ fetch' = 0 /\ shown' = <<>> /\ nextId' = 1
    /\ socket' = "off" /\ Disconnect
    /\ UNCHANGED <<transportVars, ringVars, up, starting, nextEventId, emitted, status, form>>

-----------------------------------------------------------------------------
StatusArrives(i) ==
    /\ Receive(i, "status")
    /\ status' = toPage[i].body.state
    /\ UNCHANGED <<backendVars, form, mounted, fetch, shown, nextId>>

SetupArrives(i) ==
    /\ Receive(i, "setup")
    /\ form' = IF toPage[i].body.state = "ok" THEN "done" ELSE "idle"
    /\ UNCHANGED <<backendVars, status, mounted, fetch, shown, nextId>>

\* Mutant of After: the greatest id itself.
Greatest(list) == CHOOSE m \in {list[j].id : j \in DOMAIN list} :
                        \A j \in DOMAIN list : list[j].id <= m

\* The id after the greatest of a list.
After(list) == 1 + CHOOSE m \in {list[j].id : j \in DOMAIN list} :
                        \A j \in DOMAIN list : list[j].id <= m

\* setEvents(initial): what was pushed before is replaced (useEvents.ts:13-18).
EventsArrive(i) ==
    /\ Receive(i, "events")
    /\ IF mounted /\ AnswerFor(i) = fetch
       THEN LET initial == toPage[i].body.list IN
            /\ shown' = initial
            /\ nextId' = IF initial = <<>> THEN nextId ELSE After(initial)
       ELSE UNCHANGED <<shown, nextId>>
    /\ UNCHANGED <<backendVars, status, form, mounted, fetch>>

AnswerTooLate(i) ==
    /\ ReceiveLate(i)
    /\ UNCHANGED <<backendVars, pageVars>>

\* onMessage (54-62), with the page's own id.
Show(e) ==
    /\ shown' = Log!Prefix(<<[id |-> nextId, what |-> e.what]>> \o shown, MaxShown)
    /\ nextId' = nextId + 1

Hear(e) == IF mounted THEN Show(e) ELSE UNCHANGED <<shown, nextId>>

PushArrives(i) ==
    /\ ReceivePush(i)
    /\ Hear(toPage[i].body.list[1])
    /\ UNCHANGED <<backendVars, status, form, mounted, fetch>>

SocketMessage ==
    /\ wire # <<>> /\ wire' = Tail(wire)
    /\ Hear(wire[1])
    /\ UNCHANGED <<transportVars, ringVars, bridgeVars, socket, registered,
                   status, form, mounted, fetch>>

\* Mutant of CallFails: a poll that fails clears the status.
CallFailsClearing(c) ==
    /\ Timeout(c) \/ ConnectionLost(c)
    /\ status' = IF calls[c] = "status" THEN "none" ELSE status
    /\ form' = IF calls[c] = "setup" THEN "idle" ELSE form
    /\ UNCHANGED <<backendVars, mounted, fetch, shown, nextId>>

\* Mutant of CallFails: the form is enabled again only by an answer.
CallFailsLoading(c) ==
    /\ Timeout(c) \/ ConnectionLost(c)
    /\ UNCHANGED <<backendVars, pageVars>>

\* A failed poll keeps the data there is; a failed fetch leaves the list.
CallFails(c) ==
    /\ Timeout(c) \/ ConnectionLost(c)
    /\ form' = IF calls[c] = "setup" THEN "idle" ELSE form
    /\ UNCHANGED <<backendVars, status, mounted, fetch, shown, nextId>>

Delivery ==
    \/ \E i \in DOMAIN toPage :
        \/ StatusArrives(i) \/ SetupArrives(i) \/ EventsArrive(i)
        \/ AnswerTooLate(i) \/ PushArrives(i)
    \/ SocketMessage

Next ==
    \/ Backend /\ UNCHANGED pageVars
    \/ PollStatus \/ Submit \/ SetupDone \/ Mount \/ Unmount
    \/ Delivery
    \/ \E c \in CallId : CallFails(c)

Spec == Init /\ [][Next]_vars

(***************************************************************************)
(* Timers fire, messages arrive, a request that needs nothing else is      *)
(* answered, React renders what was set, and a socket is retried.  Nothing *)
(* obliges a setup to end, a server to come back or a user to act.         *)
(***************************************************************************)
FairSpec ==
    /\ Spec
    /\ WF_vars(Delivery) /\ WF_vars(Mount)
    /\ WF_vars(\E i \in DOMAIN toServer :
            (GetStatus(i) \/ GetEvents(i)) /\ UNCHANGED pageVars)
    /\ WF_vars((SocketOpens \/ SocketCloses \/ SocketRetries) /\ UNCHANGED pageVars)
    /\ \A c \in CallId : WF_vars(CallFails(c))

-----------------------------------------------------------------------------
(***************************************************************************)
(* The variables have their types.                                         *)
(***************************************************************************)
Message == [call : CallId \cup {0}, body : Body]

PageTypeOK ==
    /\ mode \in {"pipe", "http"} /\ alive \in BOOLEAN
    /\ calls \in Seq(Route) /\ Len(calls) <= MaxCalls
    /\ pending \in SUBSET CallId /\ serving \in SUBSET CallId
    /\ outcome \in [CallId -> Outcome]
    /\ answered \in [CallId -> Body] /\ got \in [CallId -> Body]
    /\ toServer \in Seq(CallId) /\ toPage \in Seq(Message)
    /\ items \in [Slot -> Item \cup {Nothing}]
    /\ head \in Slot /\ count \in 0 .. Capacity
    /\ up \in BOOLEAN /\ starting \in BOOLEAN /\ strays \subseteq BOOLEAN
    /\ nextEventId \in Nat \ {0} /\ emitted \in Nat
    /\ socket \in {"off", "connecting", "open", "waiting"}
    /\ registered \in BOOLEAN /\ wire \in Seq(Item) /\ deaths \in Nat
    /\ status \in {"none", "setup", "watching"}
    /\ form \in {"idle", "loading", "done"}
    /\ mounted \in BOOLEAN /\ fetch \in CallId \cup {0}
    /\ shown \in Seq([id : Nat \ {0}, what : Nat \ {0}]) /\ Len(shown) <= MaxShown
    /\ nextId \in Nat \ {0}

(***************************************************************************)
(* No two events in the list have the same id, which is the row's key      *)
(* (EventLog.tsx): the page numbers pushed events itself, from where the   *)
(* fetched list ends, and the server may meanwhile have begun again at 1.  *)
(***************************************************************************)
KeysUnique == \A j, k \in DOMAIN shown : shown[j].id = shown[k].id => j = k

(***************************************************************************)
(* Over the pipe the list shows no event twice and none out of order,      *)
(* whenever the snapshot is taken, whatever is pushed around it, and       *)
(* however many sessions push.  It is the latest events without a gap, and *)
(* lags only by the pushes that are still in the pipe, until a bridge has  *)
(* lost its place to another start: from then on two sessions push, and    *)
(* the snapshot is of one (index.js:93-111, 196-219).                      *)
(***************************************************************************)
PushesInPipe == Cardinality({i \in DOMAIN toPage : toPage[i].call = 0})

Latest == \A j \in DOMAIN shown : shown[j].what = emitted - PushesInPipe + 1 - j

NewestFirst == \A j, k \in DOMAIN shown : j < k => shown[k].what < shown[j].what

PipeShowsRecent ==
    mode = "pipe" /\ mounted => NewestFirst /\ (strays = {} => Latest)

(***************************************************************************)
(* Over the pipe polls that time out and answers that come late do not     *)
(* take the user from the dashboard back to the setup screen.  What does   *)
(* is a start of the saved folder that fails after a setup made while it   *)
(* was under way (index.js:212-217): it leaves a stray.                    *)
(***************************************************************************)
DashboardStays == [][mode = "pipe" /\ mounted /\ strays = {} => mounted']_vars

(***************************************************************************)
(* Over the pipe the form is not disabled for good: a setup that never     *)
(* ends, or whose answer finds nobody, is given up by its timer            *)
(* (pipe-transport.ts:112-115), and the form comes back.                   *)
(***************************************************************************)
FormComesBack == mode = "pipe" /\ form = "loading" ~> form # "loading"

(***************************************************************************)
(* In a browser the dashboard of a running session ends up hearing of      *)
(* every later event, through ends of the server, sessions that begin      *)
(* after the socket was opened, and retries.                               *)
(***************************************************************************)
SocketHears ==
    <>[](mode = "http" /\ mounted /\ alive /\ up) => <>[](socket = "open" /\ registered)
=============================================================================
