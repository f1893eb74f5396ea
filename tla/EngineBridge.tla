---------------------------- MODULE EngineBridge ----------------------------
(***************************************************************************)
(* The backend as the page meets it: the bridge of the running session     *)
(* (engine-bridge.ts), which numbers the engine's events, keeps the last   *)
(* ones in a ring and pushes each to the page; the routes that read it     *)
(* (index.js, web-server.ts); and, in a browser, the web socket of one     *)
(* page.  What a session does is left to Sessions; here it is up or not,   *)
(* and starts that overlap leave bridges behind that go on pushing.        *)
(***************************************************************************)
EXTENDS RingBuffer, Transport

CONSTANTS
    FetchLimit,             \* how many events the page asks for
    MaxEvents               \* bound: engine events and ends of the server

ASSUME EventAssumption ==
    /\ [id : 1 .. MaxEvents, what : 1 .. MaxEvents] \subseteq Item
    /\ MaxEvents \in Nat /\ FetchLimit \in Nat

VARIABLES
    up,         \* there is a bridge that the routes ask
    starting,   \* a start is under way that no call of this page began
    strays,     \* bridges attached but no longer asked: TRUE for one that has
                \* the page's socket among its wsClients
    nextEventId,\* the bridge's counter
    emitted,    \* how many events engines have emitted (history)
    socket,     \* the page's web socket: off, connecting, open, or waiting to retry
    registered, \* the socket is among the bridge's wsClients
    wire        \* pushes in the socket

socketVars == <<socket, registered, wire>>
sessionVars == <<up, starting, strays>>
bridgeVars == <<sessionVars, nextEventId, emitted>>
backendVars == <<ringVars, bridgeVars, socketVars>>

\* The worker serves the pipe while it starts the saved folder, if there is one
\* (index.js:196-219); the web server has done with it before it listens.
BridgeInit ==
    /\ EmptyRing /\ nextEventId = 1 /\ emitted = 0 /\ strays = {}
    /\ \/ mode = "pipe" /\ up = FALSE /\ starting \in BOOLEAN
       \/ mode = "http" /\ up \in BOOLEAN /\ starting = FALSE
    /\ socket = "off" /\ registered = FALSE /\ wire = <<>>

\* broadcast (73-83): the web sockets that are open, and the pipe's listener.
Broadcast(e, known) ==
    \/ /\ mode = "http"
       /\ wire' = IF known /\ socket = "open" THEN Append(wire, e) ELSE wire
       /\ UNCHANGED toPage
    \/ mode = "pipe" /\ PushLine(e) /\ UNCHANGED wire

\* onSync, onError and onAudit (152-233): record, then push.
EngineEvent ==
    /\ up /\ emitted + deaths < MaxEvents
    /\ LET e == [id |-> nextEventId, what |-> emitted + 1] IN
        RingPush(e) /\ Broadcast(e, registered)
    /\ nextEventId' = nextEventId + 1
    /\ emitted' = emitted + 1
    /\ UNCHANGED <<mode, alive, deaths, pageSide, serverSide, toServer, sessionVars,
                   socket, registered>>

\* The same of a bridge that was replaced: no route reads its ring.  The page
\* does not look at the id of a push, so that of the bridge is not kept.
StrayEvent ==
    /\ emitted + deaths < MaxEvents
    /\ \E known \in strays :
        Broadcast([id |-> emitted + 1, what |-> emitted + 1], known)
    /\ emitted' = emitted + 1
    /\ UNCHANGED <<mode, alive, deaths, pageSide, serverSide, toServer, ringVars,
                   sessionVars, nextEventId, socket, registered>>

GetStatus(i) ==
    /\ AnswerAtOnce(i, "status", Says(IF up THEN "watching" ELSE "setup"))
    /\ UNCHANGED backendVars

GetEvents(i) ==
    /\ AnswerAtOnce(i, "events",
            [state |-> "ok", list |-> IF up THEN Slice(0, FetchLimit) ELSE <<>>])
    /\ UNCHANGED backendVars

\* The bridge there is loses its place; nothing detaches it.
LeaveBridge == strays' = IF up THEN strays \cup {registered} ELSE strays

\* Mutant of NewBridge: only sockets that connect later hear of the events.
NewBridgeAlone ==
    /\ up' = TRUE /\ nextEventId' = 1
    /\ NewRing /\ LeaveBridge
    /\ UNCHANGED <<emitted, socketVars>>

\* A session begins.  Its bridge replaces whatever bridge there is, and is given
\* the sockets there are (web-server.ts:147-155, index.js:102-111).
NewBridge ==
    /\ up' = TRUE /\ nextEventId' = 1
    /\ NewRing /\ LeaveBridge
    /\ registered' = (socket = "open")
    /\ UNCHANGED <<emitted, socket, wire>>

RefuseSetup(i) ==
    /\ up /\ AnswerAtOnce(i, "setup", Says("error"))
    /\ UNCHANGED backendVars

BeginSetup(i) ==
    /\ ~up /\ BeginServing(i, "setup")
    /\ UNCHANGED backendVars

\* It was refused only if there was a session when it began.
FinishSetup(c) ==
    \/ FinishServing(c, Says("ok")) /\ NewBridge /\ UNCHANGED starting
    \/ FinishServing(c, Says("error")) /\ UNCHANGED backendVars

\* Another tab asks the server for a setup.
SetupElsewhere ==
    /\ mode = "http" /\ alive /\ ~up /\ ~starting
    /\ starting' = TRUE
    /\ UNCHANGED <<transportVars, ringVars, up, strays, nextEventId, emitted, socketVars>>

StartSucceeds ==
    /\ starting /\ starting' = FALSE
    /\ NewBridge
    /\ UNCHANGED transportVars

\* The worker's catch (index.js:212-217) resets engineBridge, even if a setup has
\* set it meanwhile; a setup that fails leaves it alone.
StartFails ==
    /\ starting /\ starting' = FALSE
    /\ \/ mode = "pipe" /\ up' = FALSE /\ LeaveBridge
       \/ mode = "http" /\ UNCHANGED <<up, strays>>
    /\ UNCHANGED <<transportVars, ringVars, nextEventId, emitted, socketVars>>

(***************************************************************************)
(* The page's web socket (useWebSocket.ts:26-70, web-server.ts:78-91).     *)
(***************************************************************************)
SocketOpens ==
    /\ socket = "connecting" /\ alive
    /\ socket' = "open" /\ registered' = up
    /\ UNCHANGED <<transportVars, ringVars, bridgeVars, wire>>

SocketCloses ==
    /\ socket = "connecting" /\ ~alive
    /\ socket' = "waiting"
    /\ UNCHANGED <<transportVars, ringVars, bridgeVars, registered, wire>>

SocketRetries ==
    /\ socket = "waiting" /\ socket' = "connecting"
    /\ UNCHANGED <<transportVars, ringVars, bridgeVars, registered, wire>>

\* The page's socket is closed.  A bridge that still knows it sends it nothing.
Disconnect ==
    /\ registered' = FALSE /\ wire' = <<>>
    /\ strays' = {FALSE : known \in strays}

\* The server ends and takes its sessions, the sockets and the calls with it.
ServerDies ==
    /\ TransportDies /\ emitted < MaxEvents
    /\ up' = FALSE /\ starting' = FALSE /\ strays' = {}
    /\ registered' = FALSE /\ wire' = <<>>
    /\ socket' = IF socket = "off" THEN "off" ELSE "waiting"
    /\ UNCHANGED <<ringVars, nextEventId, emitted>>

\* Started again, it listens with the saved session, or without one.
ServerRestarts ==
    /\ TransportRevives
    /\ \/ NewBridge /\ UNCHANGED starting
       \/ UNCHANGED backendVars

Backend ==
    \/ \E i \in DOMAIN toServer :
        GetStatus(i) \/ GetEvents(i) \/ RefuseSetup(i) \/ BeginSetup(i)
    \/ \E c \in CallId : FinishSetup(c)
    \/ EngineEvent \/ StrayEvent
    \/ SetupElsewhere \/ StartSucceeds \/ StartFails
    \/ SocketOpens \/ SocketCloses \/ SocketRetries
    \/ ServerDies \/ ServerRestarts

-----------------------------------------------------------------------------
(***************************************************************************)
(* The ring, read out, is the log of the last Capacity events: nothing     *)
(* missing, nothing twice, newest first, whatever the head has wrapped to. *)
(***************************************************************************)
Log == INSTANCE RecentLog WITH recent <- ToArray

RingKept == Log!Spec
=============================================================================
