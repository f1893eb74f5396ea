----------------------------- MODULE PageProofs -----------------------------
(***************************************************************************)
(* Proofs about the page and its backend, for every capacity of the ring   *)
(* and any bounds: the ring implements the log of the last Capacity        *)
(* events, and the transports implement the calls.                         *)
(***************************************************************************)
EXTENDS Page, TLAPS

(***************************************************************************)
(* The ring.                                                               *)
(***************************************************************************)
LEMMA Wrap ==
    ASSUME NEW n \in Nat, n < 2 * Capacity
    PROVE  n % Capacity = IF n < Capacity THEN n ELSE n - Capacity
  BY CapacityAssumption, SMT

\* The slot of the i-th newest item.
Place(i) == (head - i + Capacity) % Capacity

RingInv ==
    /\ head \in Slot /\ count \in 0 .. Capacity
    /\ DOMAIN items = Slot
    /\ \A i \in 1 .. count : items[Place(i)] \in Item

LEMMA PlaceOf ==
    ASSUME head \in Slot, NEW i \in 1 .. Capacity
    PROVE  Place(i) = IF i <= head THEN head - i ELSE head - i + Capacity
  BY CapacityAssumption, Wrap DEF Place, Slot

\* After a push the newest item is in the slot it went to, and each other
\* one is one further from the head.
LEMMA PlacesShift ==
    ASSUME head \in Slot, NEW e, RingPush(e)
    PROVE  /\ head' \in Slot
           /\ Place(1)' = head
           /\ \A i \in 2 .. Capacity : Place(i)' = Place(i - 1) /\ Place(i)' # head
  <1>1. head' = IF head + 1 < Capacity THEN head + 1 ELSE 0
    BY CapacityAssumption, Wrap DEF RingPush, Slot
  <1>2. head' \in Slot
    BY <1>1, CapacityAssumption DEF Slot
  <1>3. ASSUME NEW i \in 1 .. Capacity
        PROVE  Place(i)' = IF i <= head' THEN head' - i ELSE head' - i + Capacity
    BY <1>2, CapacityAssumption, Wrap DEF Place, Slot
  <1>4. Place(1)' = head
    BY <1>1, <1>2, <1>3, CapacityAssumption DEF Slot
  <1>5. ASSUME NEW i \in 2 .. Capacity
        PROVE  Place(i)' = Place(i - 1) /\ Place(i)' # head
    <2>1. Place(i)' = IF i <= head' THEN head' - i ELSE head' - i + Capacity
      BY <1>3
    <2>2. i - 1 \in 1 .. Capacity
      BY CapacityAssumption
    <2>3. Place(i - 1) = IF i - 1 <= head THEN head - (i - 1) ELSE head - (i - 1) + Capacity
      BY <2>2, PlaceOf
    <2>4. QED
      BY <1>1, <2>1, <2>3, CapacityAssumption DEF Slot
  <1>6. QED
    BY <1>2, <1>4, <1>5

LEMMA PushItems ==
    ASSUME RingInv, NEW e \in Item, RingPush(e)
    PROVE  /\ RingInv'
           /\ count' = Log!Shorter(count + 1, Capacity)
           /\ items'[Place(1)'] = e
           /\ \A i \in 2 .. count' : items'[Place(i)'] = items[Place(i - 1)]
  <1>1. /\ head' \in Slot /\ Place(1)' = head
        /\ \A i \in 2 .. Capacity : Place(i)' = Place(i - 1) /\ Place(i)' # head
    BY PlacesShift DEF RingInv
  <1>2. /\ count' = Log!Shorter(count + 1, Capacity)
        /\ count' \in 1 .. Capacity
    BY CapacityAssumption DEF RingPush, RingInv, Log!Shorter
  <1>3. DOMAIN items' = Slot /\ items'[head] = e
    BY DEF RingPush, RingInv
  <1>4. ASSUME NEW i \in 2 .. count'
        PROVE  items'[Place(i)'] = items[Place(i - 1)] /\ items'[Place(i)'] \in Item
    <2>1. i \in 2 .. Capacity /\ i - 1 \in 1 .. count /\ i - 1 \in 1 .. Capacity
      BY <1>2, CapacityAssumption DEF Log!Shorter, RingInv
    <2>2. Place(i)' = Place(i - 1) /\ Place(i)' # head
      BY <1>1, <2>1
    <2>3. Place(i - 1) \in Slot
      BY <2>1, PlaceOf, CapacityAssumption DEF RingInv, Slot
    <2>4. items'[Place(i)'] = items[Place(i - 1)]
      BY <2>2, <2>3 DEF RingPush, RingInv
    <2>5. QED
      BY <2>1, <2>4 DEF RingInv
  <1>5. ASSUME NEW i \in 1 .. count'
        PROVE  items'[Place(i)'] \in Item
    <2>1. CASE i = 1
      BY <2>1, <1>1, <1>3
    <2>2. CASE i # 1
      <3>1. i \in 2 .. count'
        BY <2>2, <1>2, CapacityAssumption
      <3>2. QED
        BY <3>1, <1>4
    <2>3. QED
      BY <2>1, <2>2
  <1>6. RingInv'
    BY <1>1, <1>2, <1>3, <1>5, CapacityAssumption DEF RingInv
  <1>7. QED
    BY <1>1, <1>2, <1>3, <1>4, <1>6

\* A push on the ring is a push on the log.
LEMMA RingPushIsPush ==
    ASSUME RingInv, NEW e \in Item, RingPush(e)
    PROVE  Log!Push(e)
  <1> DEFINE longer == <<e>> \o ToArray
  <1>1. ToArray = [i \in 1 .. count |-> items[Place(i)]] /\ Len(ToArray) = count
    BY DEF ToArray, Place, RingInv
  <1>2. ToArray' = [i \in 1 .. count' |-> items'[Place(i)']]
    BY DEF ToArray, Place
  <1>3. /\ Len(longer) = count + 1
        /\ longer[1] = e
        /\ \A i \in 2 .. count + 1 : longer[i] = items[Place(i - 1)]
    BY <1>1, CapacityAssumption DEF RingInv
  <1>4. /\ count' = Log!Shorter(count + 1, Capacity)
        /\ items'[Place(1)'] = e
        /\ \A i \in 2 .. count' : items'[Place(i)'] = items[Place(i - 1)]
    BY PushItems
  <1>5. count' \in 1 .. count + 1
    BY <1>4, CapacityAssumption DEF Log!Shorter, RingInv
  <1>6. ASSUME NEW i \in 1 .. count'
        PROVE  items'[Place(i)'] = longer[i]
    <2>1. CASE i = 1
      BY <2>1, <1>3, <1>4
    <2>2. CASE i # 1
      <3>1. i \in 2 .. count' /\ i \in 2 .. count + 1
        BY <2>2, <1>5, CapacityAssumption DEF RingInv
      <3>2. QED
        BY <3>1, <1>3, <1>4
    <2>3. QED
      BY <2>1, <2>2
  <1>7. ToArray' = [i \in 1 .. count' |-> longer[i]]
    BY <1>2, <1>6
  <1> HIDE DEF longer
  <1>8. Log!Prefix(longer, Capacity) = [i \in 1 .. count' |-> longer[i]]
    BY <1>3, <1>4 DEF Log!Prefix
  <1>9. QED
    BY <1>7, <1>8 DEF Log!Push, longer

(***************************************************************************)
(* A new bridge starts an empty log; every other step leaves the ring be.  *)
(***************************************************************************)
LEMMA NewRingIsClear ==
    ASSUME NewRing
    PROVE  RingInv' /\ Log!Clear
  <1>1. count' = 0 /\ head' \in Slot /\ DOMAIN items' = Slot
    BY CapacityAssumption DEF NewRing, Slot
  <1>2. ToArray' = <<>>
    BY <1>1 DEF ToArray
  <1>3. QED
    BY <1>1, <1>2, CapacityAssumption DEF RingInv, Log!Clear

LEMMA SameRing ==
    ASSUME UNCHANGED ringVars
    PROVE  (RingInv => RingInv') /\ UNCHANGED ToArray
  BY DEF ringVars, RingInv, Place, ToArray

\* The counters stay below the bounds, so an event is an item.
CountInv ==
    /\ emitted \in Nat /\ deaths \in Nat
    /\ nextEventId \in Nat \ {0} /\ nextEventId <= emitted + 1

RingStep == UNCHANGED ringVars \/ NewRing \/ \E e \in Item : RingPush(e)

CountStep ==
    \/ UNCHANGED <<nextEventId, emitted, deaths>>
    \/ nextEventId' = nextEventId + 1 /\ emitted' = emitted + 1 /\ UNCHANGED deaths
    \/ emitted' = emitted + 1 /\ UNCHANGED <<nextEventId, deaths>>
    \/ nextEventId' = 1 /\ UNCHANGED <<emitted, deaths>>
    \/ deaths' = deaths + 1 /\ UNCHANGED <<nextEventId, emitted>>

LEMMA BackendOnRing ==
    ASSUME CountInv, Backend
    PROVE  RingStep /\ CountStep
  <1> USE DEF RingStep, CountStep
  <1>1. CASE EngineEvent
    <2>1. [id |-> nextEventId, what |-> emitted + 1] \in Item
      BY <1>1, EventAssumption DEF EngineEvent, CountInv
    <2>2. QED
      BY <1>1, <2>1 DEF EngineEvent
  <1>2. ASSUME NEW i, GetStatus(i) \/ GetEvents(i) \/ RefuseSetup(i) \/ BeginSetup(i)
        PROVE  RingStep /\ CountStep
    BY <1>2 DEF GetStatus, GetEvents, RefuseSetup, BeginSetup, AnswerAtOnce, BeginServing,
           backendVars, bridgeVars
  <1>3. ASSUME NEW c, FinishSetup(c)
        PROVE  RingStep /\ CountStep
    BY <1>3 DEF FinishSetup, FinishServing, NewBridge, backendVars, bridgeVars
  <1>4. CASE StrayEvent
    BY <1>4 DEF StrayEvent
  <1>5. CASE SetupElsewhere \/ StartSucceeds \/ StartFails
    BY <1>5 DEF SetupElsewhere, StartSucceeds, StartFails, NewBridge, transportVars
  <1>6. CASE SocketOpens \/ SocketCloses \/ SocketRetries
    BY <1>6 DEF SocketOpens, SocketCloses, SocketRetries, transportVars, bridgeVars
  <1>7. CASE ServerDies
    BY <1>7 DEF ServerDies, TransportDies
  <1>8. CASE ServerRestarts
    BY <1>8 DEF ServerRestarts, TransportRevives, NewBridge, backendVars, bridgeVars
  <1>9. QED
    BY <1>1, <1>2, <1>3, <1>4, <1>5, <1>6, <1>7, <1>8 DEF Backend

LEMMA PageOnRing ==
    ASSUME Next, ~Backend
    PROVE  UNCHANGED <<ringVars, nextEventId, emitted, deaths>>
  <1> USE DEF backendVars, bridgeVars
  <1>1. CASE PollStatus \/ Submit \/ SetupDone \/ Mount
    BY <1>1 DEF PollStatus, Submit, SetupDone, Mount, Send
  <1>2. CASE Unmount
    BY <1>2 DEF Unmount, transportVars
  <1>3. ASSUME NEW i, StatusArrives(i) \/ SetupArrives(i) \/ EventsArrive(i)
        PROVE  UNCHANGED <<ringVars, nextEventId, emitted, deaths>>
    BY <1>3 DEF StatusArrives, SetupArrives, EventsArrive, Receive
  <1>4. ASSUME NEW i, AnswerTooLate(i) \/ PushArrives(i)
        PROVE  UNCHANGED <<ringVars, nextEventId, emitted, deaths>>
    BY <1>4 DEF AnswerTooLate, PushArrives, ReceiveLate, ReceivePush
  <1>5. CASE SocketMessage
    BY <1>5 DEF SocketMessage, transportVars
  <1>6. ASSUME NEW c, CallFails(c)
        PROVE  UNCHANGED <<ringVars, nextEventId, emitted, deaths>>
    BY <1>6 DEF CallFails, Timeout, ConnectionLost, GiveUp
  <1>7. QED
    BY <1>1, <1>2, <1>3, <1>4, <1>5, <1>6 DEF Next, Delivery

LEMMA StepOnRing ==
    ASSUME CountInv, [Next]_vars
    PROVE  RingStep /\ CountStep
  <1>1. CASE Backend
    BY <1>1, BackendOnRing
  <1>2. CASE Next /\ ~Backend
    BY <1>2, PageOnRing DEF RingStep, CountStep
  <1>3. CASE UNCHANGED vars
    BY <1>3 DEF RingStep, CountStep, vars, backendVars, bridgeVars, transportVars
  <1>4. QED
    BY <1>1, <1>2, <1>3

(***************************************************************************)
(* The ring of the bridge implements the log of the last Capacity events   *)
(* (ring-buffer.ts), for every capacity and every number of events.        *)
(***************************************************************************)
THEOREM RingIsLog == Spec => RingKept
  <1>1. Init => RingInv /\ CountInv /\ Log!Init
    <2> SUFFICES ASSUME Init PROVE RingInv /\ CountInv /\ Log!Init
      OBVIOUS
    <2>1. count = 0 /\ head \in Slot /\ DOMAIN items = Slot
      BY CapacityAssumption DEF Init, BridgeInit, EmptyRing, Slot
    <2>2. ToArray = <<>>
      BY <2>1 DEF ToArray
    <2>3. CountInv
      BY DEF Init, BridgeInit, TransportInit, CountInv
    <2>4. QED
      BY <2>1, <2>2, <2>3, CapacityAssumption DEF RingInv, Log!Init
  <1>2. RingInv /\ CountInv /\ [Next]_vars => RingInv' /\ CountInv' /\ [Log!Next]_ToArray
    <2> SUFFICES ASSUME RingInv, CountInv, [Next]_vars
                 PROVE  RingInv' /\ CountInv' /\ [Log!Next]_ToArray
      OBVIOUS
    <2>1. RingStep /\ CountStep
      BY StepOnRing
    <2>2. CountInv'
      BY <2>1 DEF CountInv, CountStep
    <2>3. CASE UNCHANGED ringVars
      BY <2>2, <2>3, SameRing
    <2>4. CASE NewRing
      BY <2>2, <2>4, NewRingIsClear DEF Log!Next
    <2>5. ASSUME NEW e \in Item, RingPush(e)
          PROVE  RingInv' /\ [Log!Next]_ToArray
      BY <2>5, PushItems, RingPushIsPush DEF Log!Next
    <2>6. QED
      BY <2>1, <2>2, <2>3, <2>4, <2>5 DEF RingStep
  <1>3. QED
    BY <1>1, <1>2, PTL DEF Spec, RingKept, Log!Spec

-----------------------------------------------------------------------------
(***************************************************************************)
(* The transports.  A call is in one place at a time until it is answered, *)
(* and every answer under way is the one recorded for its call.            *)
(***************************************************************************)
Asked == 1 .. Len(calls)

TablesInv ==
    /\ calls \in Seq(Route) /\ Len(calls) <= MaxCalls
    /\ outcome \in [CallId -> Outcome]
    /\ answered \in [CallId -> Body] /\ DOMAIN got = CallId
    /\ pending \subseteq Asked
    /\ \A c \in pending : outcome[c] = "waiting"
    /\ \A c \in CallId \ Asked : outcome[c] = "unasked" /\ answered[c] = NoAnswer
    /\ \A c \in Asked : outcome[c] # "unasked"

RequestsInv ==
    /\ toServer \in Seq(Asked) /\ serving \subseteq Asked
    /\ \A i, j \in DOMAIN toServer : toServer[i] = toServer[j] => i = j
    /\ \A i \in DOMAIN toServer : toServer[i] \notin serving /\ answered[toServer[i]] = NoAnswer
    /\ \A c \in serving : answered[c] = NoAnswer

AnswersInv ==
    /\ toPage \in Seq(Message)
    /\ \A i \in DOMAIN toPage : toPage[i].call # 0 =>
            /\ toPage[i].call \in Asked
            /\ toPage[i].body = answered[toPage[i].call]
            /\ toPage[i].body # NoAnswer

TransportInv == deaths \in Nat /\ TablesInv /\ RequestsInv /\ AnswersInv

LEMMA WithoutOf ==
    ASSUME NEW S, NEW s \in Seq(S), NEW i \in DOMAIN s
    PROVE  /\ Without(s, i) \in Seq(S)
           /\ \A j \in DOMAIN Without(s, i) :
                \E k \in DOMAIN s : k # i /\ Without(s, i)[j] = s[k]
           /\ \A j, k \in DOMAIN Without(s, i) :
                (\A m, n \in DOMAIN s : s[m] = s[n] => m = n)
                    => (Without(s, i)[j] = Without(s, i)[k] => j = k)
  <1> DEFINE w == Without(s, i)
  <1>1. Len(s) \in Nat \ {0} /\ DOMAIN s = 1 .. Len(s)
    OBVIOUS
  <1>2. w = [j \in 1 .. Len(s) - 1 |-> IF j < i THEN s[j] ELSE s[j + 1]]
    BY DEF Without
  <1>3. DOMAIN w = 1 .. Len(s) - 1
    BY <1>2
  <1>4. \A j \in 1 .. Len(s) - 1 : w[j] \in S
    BY <1>1, <1>2
  <1>5. w \in Seq(S)
    BY <1>1, <1>2, <1>4
  <1>6. ASSUME NEW j \in DOMAIN w
        PROVE  \E k \in DOMAIN s : k # i /\ w[j] = s[k]
    BY <1>1, <1>2, <1>3
  <1>7. ASSUME NEW j \in DOMAIN w, NEW k \in DOMAIN w, w[j] = w[k],
               \A m, n \in DOMAIN s : s[m] = s[n] => m = n
        PROVE  j = k
    BY <1>1, <1>2, <1>3, <1>7
  <1>8. QED
    BY <1>5, <1>6, <1>7

LEMMA ArrivalsOf ==
    ASSUME NEW wire_, NEW i \in Arrivals(wire_)
    PROVE  i \in DOMAIN wire_
  BY DEF Arrivals

abstractVars == <<outcome, answered, got>>

LEMMA SendAsks ==
    ASSUME TransportInv, NEW r \in Route, Send(r)
    PROVE  TransportInv' /\ Promise!Ask(NextCall) /\ NextCall \in CallId
  <1>1. NextCall \in CallId /\ NextCall \notin Asked /\ Asked \subseteq CallId
    BY BoundsAssumption DEF Send, Room, NextCall, CallId, TransportInv, TablesInv, Asked
  <1>2. calls' = Append(calls, r) /\ Len(calls') = NextCall /\ calls' \in Seq(Route)
    BY DEF Send, NextCall, TransportInv, TablesInv
  <1>3. Asked' = Asked \cup {NextCall} /\ Len(calls') <= MaxCalls
    BY <1>1, <1>2, BoundsAssumption DEF Asked, NextCall, TransportInv, TablesInv, CallId
  <1>4. TablesInv'
    <2>1. outcome' = [outcome EXCEPT ![NextCall] = "waiting"] /\ outcome' \in [CallId -> Outcome]
      BY <1>1 DEF TransportInv, TablesInv, Send, Outcome
    <2>2. pending' = pending \cup {NextCall} /\ UNCHANGED <<got, answered>>
      BY DEF Send, serverSide
    <2>3. \A c \in CallId \ {NextCall} : outcome'[c] = outcome[c]
      BY <1>1, <2>1 DEF TransportInv, TablesInv
    <2>4. outcome'[NextCall] = "waiting"
      BY <1>1, <2>1 DEF TransportInv, TablesInv
    <2>5. \A c \in pending' : outcome'[c] = "waiting"
      BY <1>1, <2>2, <2>3, <2>4 DEF TransportInv, TablesInv
    <2>6. \A c \in CallId \ Asked' : outcome'[c] = "unasked" /\ answered'[c] = NoAnswer
      BY <1>3, <2>2, <2>3 DEF TransportInv, TablesInv
    <2>7. \A c \in Asked' : outcome'[c] # "unasked"
      BY <1>1, <1>3, <2>3, <2>4 DEF TransportInv, TablesInv
    <2>8. QED
      BY <1>2, <1>3, <2>1, <2>2, <2>5, <2>6, <2>7 DEF TransportInv, TablesInv
  <1>5. \A i \in DOMAIN toServer : toServer[i] # NextCall
    BY <1>1 DEF TransportInv, RequestsInv
  <1>6. NextCall \notin serving /\ answered[NextCall] = NoAnswer
    BY <1>1 DEF TransportInv, RequestsInv, TablesInv
  <1>7. RequestsInv'
    <2>1. CASE toServer' = toServer
      <3>1. toServer' \in Seq(Asked')
        BY <1>3, <2>1 DEF TransportInv, RequestsInv
      <3>2. QED
        BY <1>3, <2>1, <3>1 DEF TransportInv, RequestsInv, Send, serverSide
    <2>2. CASE toServer' = Append(toServer, NextCall)
      <3>1. /\ toServer' \in Seq(Asked') /\ DOMAIN toServer' = 1 .. Len(toServer) + 1
            /\ DOMAIN toServer = 1 .. Len(toServer) /\ Len(toServer) \in Nat
        BY <1>3, <2>2 DEF TransportInv, RequestsInv
      <3>2. \A i \in DOMAIN toServer' :
              toServer'[i] = IF i \in DOMAIN toServer THEN toServer[i] ELSE NextCall
        BY <2>2, <3>1 DEF TransportInv, RequestsInv
      <3>3. \A i, j \in DOMAIN toServer' : toServer'[i] = toServer'[j] => i = j
        BY <1>5, <3>1, <3>2 DEF TransportInv, RequestsInv
      <3>4. UNCHANGED <<serving, answered>>
        BY DEF Send, serverSide
      <3>5. QED
        BY <1>3, <1>5, <1>6, <3>1, <3>2, <3>3, <3>4 DEF TransportInv, RequestsInv
    <2>3. QED
      BY <2>1, <2>2 DEF Send
  <1>8. AnswersInv'
    <2>1. UNCHANGED <<toPage, answered>>
      BY DEF Send, serverSide
    <2>2. QED
      BY <1>3, <2>1 DEF TransportInv, AnswersInv
  <1>9. Promise!Ask(NextCall)
    BY <1>1 DEF TransportInv, TablesInv, Send, serverSide, Promise!Ask
  <1>10. QED
    BY <1>1, <1>4, <1>7, <1>8, <1>9 DEF TransportInv, Send

LEMMA TakenRequest ==
    ASSUME TransportInv, NEW i \in Arrivals(toServer), NEW c, c = toServer[i],
           toServer' = Without(toServer, i), UNCHANGED calls
    PROVE  /\ c \in Asked /\ c \in CallId /\ c \notin serving
           /\ answered[c] = NoAnswer /\ outcome[c] # "unasked"
           /\ toServer' \in Seq(Asked')
           /\ \A j \in DOMAIN toServer' :
                /\ toServer'[j] # c /\ toServer'[j] \notin serving
                /\ toServer'[j] \in Asked /\ answered[toServer'[j]] = NoAnswer
           /\ \A j, k \in DOMAIN toServer' : toServer'[j] = toServer'[k] => j = k
  <1>1. i \in DOMAIN toServer /\ toServer \in Seq(Asked)
    BY ArrivalsOf DEF TransportInv, RequestsInv
  <1>2. c \in Asked /\ c \notin serving /\ answered[c] = NoAnswer /\ outcome[c] # "unasked"
    BY <1>1 DEF TransportInv, RequestsInv, TablesInv
  <1>3. c \in CallId
    BY <1>2, BoundsAssumption DEF TransportInv, TablesInv, Asked, CallId
  <1>4. Asked' = Asked
    BY DEF Asked
  <1>5. toServer' \in Seq(Asked')
    BY <1>1, <1>4, WithoutOf
  <1>6. \A j \in DOMAIN toServer' : \E k \in DOMAIN toServer : k # i /\ toServer'[j] = toServer[k]
    BY <1>1, WithoutOf
  <1>7. \A j, k \in DOMAIN toServer : toServer[j] = toServer[k] => j = k
    BY DEF TransportInv, RequestsInv
  <1>8. \A j, k \in DOMAIN toServer' : toServer'[j] = toServer'[k] => j = k
    BY <1>1, <1>7, WithoutOf
  <1>9. ASSUME NEW j \in DOMAIN toServer'
        PROVE  /\ toServer'[j] # c /\ toServer'[j] \notin serving
               /\ toServer'[j] \in Asked /\ answered[toServer'[j]] = NoAnswer
    <2>1. PICK k \in DOMAIN toServer : k # i /\ toServer'[j] = toServer[k]
      BY <1>6
    <2>2. QED
      BY <1>1, <1>7, <2>1 DEF TransportInv, RequestsInv
  <1>10. QED
    BY <1>2, <1>3, <1>5, <1>8, <1>9

\* An answer that is recorded and sent.
LEMMA ReplyAnswers ==
    ASSUME TransportInv, NEW c \in Asked, NEW body \in Body \ {NoAnswer}, Reply(c, body),
           answered[c] = NoAnswer, UNCHANGED <<deaths, pageSide>>
    PROVE  /\ TablesInv' /\ AnswersInv' /\ Promise!Serve(c) /\ Asked' = Asked
           /\ \A d \in CallId \ {c} : answered'[d] = answered[d]
  <1>1. c \in CallId /\ Asked' = Asked /\ UNCHANGED <<calls, pending, outcome, got>>
    BY BoundsAssumption DEF TransportInv, TablesInv, Asked, CallId, pageSide
  <1>2. answered' = [answered EXCEPT ![c] = body] /\ answered'[c] = body
    BY <1>1 DEF Reply, TransportInv, TablesInv
  <1>3. answered' \in [CallId -> Body]
    BY <1>1, <1>2 DEF TransportInv, TablesInv
  <1>4. \A d \in CallId \ {c} : answered'[d] = answered[d]
    BY <1>2 DEF TransportInv, TablesInv
  <1>5. TablesInv'
    BY <1>1, <1>3, <1>4 DEF TransportInv, TablesInv
  <1>6. Promise!Serve(c)
    BY <1>1, <1>2 DEF TransportInv, TablesInv, Promise!Serve
  <1>7. AnswersInv'
    <2> DEFINE m == [call |-> c, body |-> body]
    <2>1. m \in Message /\ m.call = c /\ m.body = body
      BY <1>1 DEF Message
    <2>2. toPage' = Append(toPage, m) /\ toPage \in Seq(Message)
      BY DEF Reply, TransportInv, AnswersInv
    <2> HIDE DEF m
    <2>3. /\ toPage' \in Seq(Message) /\ DOMAIN toPage' = 1 .. Len(toPage) + 1
          /\ DOMAIN toPage = 1 .. Len(toPage) /\ Len(toPage) \in Nat
          /\ \A i \in DOMAIN toPage' : toPage'[i] = IF i \in DOMAIN toPage THEN toPage[i] ELSE m
      BY <2>1, <2>2
    <2>4. ASSUME NEW i \in DOMAIN toPage', toPage'[i].call # 0
          PROVE  /\ toPage'[i].call \in Asked
                 /\ toPage'[i].body = answered'[toPage'[i].call]
                 /\ toPage'[i].body # NoAnswer
      <3>1. CASE i \in DOMAIN toPage
        <4>1. /\ toPage[i].call \in Asked /\ toPage[i].body # NoAnswer
              /\ toPage[i].body = answered[toPage[i].call]
          BY <2>3, <2>4, <3>1 DEF TransportInv, AnswersInv
        <4>2. toPage[i].call # c /\ toPage[i].call \in CallId
          BY <4>1, BoundsAssumption DEF TransportInv, TablesInv, Asked, CallId
        <4>3. QED
          BY <1>4, <2>3, <3>1, <4>1, <4>2
      <3>2. CASE i \notin DOMAIN toPage
        BY <1>2, <2>1, <2>3, <3>2
      <3>3. QED
        BY <3>1, <3>2
    <2>5. QED
      BY <1>1, <2>3, <2>4 DEF AnswersInv, Message, NoAnswer, Says
  <1>8. QED
    BY <1>1, <1>4, <1>5, <1>6, <1>7

LEMMA AnswerAtOnceServes ==
    ASSUME TransportInv, NEW i, NEW route, NEW body \in Body \ {NoAnswer},
           AnswerAtOnce(i, route, body)
    PROVE  TransportInv' /\ \E c \in CallId : Promise!Serve(c)
  <1> DEFINE c == toServer[i]
  <1>1. i \in Arrivals(toServer) /\ toServer' = Without(toServer, i)
    BY DEF AnswerAtOnce, Arrived
  <1>2. UNCHANGED <<deaths, pageSide, serving>> /\ UNCHANGED calls /\ Reply(c, body)
    BY DEF AnswerAtOnce, pageSide
  <1>3. /\ c \in Asked /\ c \in CallId /\ c \notin serving /\ answered[c] = NoAnswer
        /\ toServer' \in Seq(Asked')
        /\ \A j \in DOMAIN toServer' :
                /\ toServer'[j] # c /\ toServer'[j] \notin serving
                /\ toServer'[j] \in Asked /\ answered[toServer'[j]] = NoAnswer
        /\ \A j, k \in DOMAIN toServer' : toServer'[j] = toServer'[k] => j = k
    BY <1>1, <1>2, TakenRequest
  <1> HIDE DEF c
  <1>4. /\ TablesInv' /\ AnswersInv' /\ Promise!Serve(c) /\ Asked' = Asked
        /\ \A d \in CallId \ {c} : answered'[d] = answered[d]
    BY <1>2, <1>3, ReplyAnswers
  <1>5. Asked \subseteq CallId
    BY BoundsAssumption DEF TransportInv, TablesInv, Asked, CallId
  <1>6. RequestsInv'
    <2>1. \A j \in DOMAIN toServer' : answered'[toServer'[j]] = NoAnswer'
      BY <1>3, <1>4, <1>5 DEF NoAnswer, Says
    <2>2. \A d \in serving' : answered'[d] = NoAnswer'
      BY <1>2, <1>3, <1>4, <1>5 DEF TransportInv, RequestsInv, NoAnswer, Says
    <2>3. QED
      BY <1>2, <1>3, <1>4, <2>1, <2>2 DEF TransportInv, RequestsInv
  <1>7. QED
    BY <1>2, <1>3, <1>4, <1>6 DEF TransportInv

LEMMA BeginServingKeeps ==
    ASSUME TransportInv, NEW i, NEW route, BeginServing(i, route)
    PROVE  TransportInv' /\ UNCHANGED abstractVars
  <1> DEFINE c == toServer[i]
  <1>1. i \in Arrivals(toServer) /\ toServer' = Without(toServer, i)
    BY DEF BeginServing, Arrived
  <1>2. /\ UNCHANGED <<deaths, calls, pending, outcome, got, answered, toPage>>
        /\ serving' = serving \cup {c}
    BY DEF BeginServing, pageSide
  <1>3. /\ c \in Asked /\ answered[c] = NoAnswer
        /\ toServer' \in Seq(Asked')
        /\ \A j \in DOMAIN toServer' :
                /\ toServer'[j] # c /\ toServer'[j] \notin serving
                /\ toServer'[j] \in Asked /\ answered[toServer'[j]] = NoAnswer
        /\ \A j, k \in DOMAIN toServer' : toServer'[j] = toServer'[k] => j = k
    BY <1>1, <1>2, TakenRequest
  <1> HIDE DEF c
  <1>4. Asked' = Asked
    BY <1>2 DEF Asked
  <1>5. RequestsInv'
    BY <1>2, <1>3, <1>4 DEF TransportInv, RequestsInv
  <1>6. TablesInv' /\ AnswersInv'
    BY <1>2, <1>4 DEF TransportInv, TablesInv, AnswersInv
  <1>7. QED
    BY <1>2, <1>5, <1>6 DEF TransportInv, abstractVars

LEMMA FinishServingServes ==
    ASSUME TransportInv, NEW c, NEW body \in Body \ {NoAnswer}, FinishServing(c, body)
    PROVE  TransportInv' /\ c \in CallId /\ Promise!Serve(c)
  <1>1. UNCHANGED <<deaths, pageSide, toServer>> /\ serving' = serving \ {c}
    BY DEF FinishServing
  <1>2. c \in Asked /\ c \in serving /\ answered[c] = NoAnswer /\ Reply(c, body)
    BY DEF FinishServing, TransportInv, RequestsInv
  <1>3. Asked \subseteq CallId
    BY BoundsAssumption DEF TransportInv, TablesInv, Asked, CallId
  <1>4. /\ TablesInv' /\ AnswersInv' /\ Promise!Serve(c) /\ Asked' = Asked
        /\ \A d \in CallId \ {c} : answered'[d] = answered[d]
    BY <1>1, <1>2, ReplyAnswers
  <1>5. RequestsInv'
    <2>1. /\ toServer \in Seq(Asked) /\ serving \subseteq Asked
          /\ \A j \in DOMAIN toServer : toServer[j] \in Asked /\ toServer[j] # c
      BY <1>2 DEF TransportInv, RequestsInv
    <2>2. \A j \in DOMAIN toServer : answered'[toServer[j]] = NoAnswer'
      BY <1>3, <1>4, <2>1 DEF TransportInv, RequestsInv, NoAnswer, Says
    <2>3. \A d \in serving' : answered'[d] = NoAnswer'
      BY <1>1, <1>3, <1>4, <2>1 DEF TransportInv, RequestsInv, NoAnswer, Says
    <2>4. QED
      BY <1>1, <1>4, <2>1, <2>2, <2>3 DEF TransportInv, RequestsInv
  <1>6. QED
    BY <1>1, <1>2, <1>3, <1>4, <1>5 DEF TransportInv

LEMMA PushLineKeeps ==
    ASSUME TransportInv, NEW e \in Item, PushLine(e),
           UNCHANGED <<deaths, pageSide, serverSide, toServer>>
    PROVE  TransportInv' /\ UNCHANGED abstractVars
  <1> DEFINE m == [call |-> 0, body |-> [state |-> "push", list |-> <<e>>]]
  <1>1. m \in Message /\ m.call = 0
    BY DEF Message, Body, State
  <1>2. toPage' = Append(toPage, m) /\ toPage \in Seq(Message)
    BY DEF PushLine, TransportInv, AnswersInv
  <1> HIDE DEF m
  <1>3. /\ toPage' \in Seq(Message) /\ DOMAIN toPage' = 1 .. Len(toPage) + 1
        /\ DOMAIN toPage = 1 .. Len(toPage) /\ Len(toPage) \in Nat
        /\ \A i \in DOMAIN toPage' : toPage'[i] = IF i \in DOMAIN toPage THEN toPage[i] ELSE m
    BY <1>1, <1>2
  <1>4. UNCHANGED <<calls, pending, outcome, got, serving, answered, toServer, deaths>>
    BY DEF pageSide, serverSide
  <1>5. Asked' = Asked
    BY <1>4 DEF Asked
  <1>6. AnswersInv'
    BY <1>1, <1>3, <1>4, <1>5 DEF TransportInv, AnswersInv
  <1>7. TablesInv' /\ RequestsInv'
    BY <1>4, <1>5 DEF TransportInv, TablesInv, RequestsInv
  <1>8. QED
    BY <1>4, <1>6, <1>7 DEF TransportInv, abstractVars

\* A message taken off its way leaves the others as they were.
LEMMA FewerMessages ==
    ASSUME TransportInv, NEW i \in Arrivals(toPage), toPage' = Without(toPage, i),
           UNCHANGED <<calls, answered>>
    PROVE  AnswersInv'
  <1>1. i \in DOMAIN toPage /\ toPage \in Seq(Message) /\ Asked' = Asked
    BY ArrivalsOf DEF TransportInv, AnswersInv, Asked
  <1>2. /\ toPage' \in Seq(Message)
        /\ \A j \in DOMAIN toPage' : \E k \in DOMAIN toPage : k # i /\ toPage'[j] = toPage[k]
    BY <1>1, WithoutOf
  <1>3. ASSUME NEW j \in DOMAIN toPage', toPage'[j].call # 0
        PROVE  /\ toPage'[j].call \in Asked
               /\ toPage'[j].body = answered[toPage'[j].call]
               /\ toPage'[j].body # NoAnswer
    BY <1>2, <1>3 DEF TransportInv, AnswersInv
  <1>4. QED
    BY <1>1, <1>2, <1>3 DEF AnswersInv, Message, NoAnswer, Says

\* A promise that is still waiting settles.
LEMMA SettleKeepsTables ==
    ASSUME TransportInv, NEW c \in pending, NEW how \in {"resolved", "rejected"},
           Settle(c, how), UNCHANGED <<calls, answered>>, DOMAIN got' = CallId
    PROVE  /\ TablesInv' /\ c \in CallId /\ outcome[c] = "waiting"
           /\ outcome' = [outcome EXCEPT ![c] = how]
  <1>1. c \in Asked /\ c \in CallId /\ outcome[c] = "waiting" /\ Asked' = Asked
    BY BoundsAssumption DEF TransportInv, TablesInv, Asked, CallId
  <1>2. outcome' = [outcome EXCEPT ![c] = how] /\ pending' = pending \ {c}
    BY DEF Settle
  <1>3. outcome' \in [CallId -> Outcome] /\ outcome'[c] = how
    BY <1>1, <1>2 DEF TransportInv, TablesInv, Outcome
  <1>4. \A d \in CallId \ {c} : outcome'[d] = outcome[d]
    BY <1>1, <1>2 DEF TransportInv, TablesInv
  <1>5. pending \subseteq CallId /\ Asked \subseteq CallId
    BY BoundsAssumption DEF TransportInv, TablesInv, Asked, CallId
  <1>6. TablesInv'
    BY <1>1, <1>2, <1>3, <1>4, <1>5 DEF TransportInv, TablesInv
  <1>7. QED
    BY <1>1, <1>2, <1>6

LEMMA ReceiveSettles ==
    ASSUME TransportInv, NEW i, NEW route, Receive(i, route)
    PROVE  TransportInv' /\ \E c \in CallId : Promise!Resolve(c) \/ Promise!Reject(c)
  <1> DEFINE c == AnswerFor(i)
             failed == toPage[i].body.state = "error"
  <1>1. /\ i \in Arrivals(toPage) /\ toPage[i].call # 0 /\ c \in pending
        /\ Settle(c, IF failed THEN "rejected" ELSE "resolved")
        /\ got' = IF failed THEN got ELSE [got EXCEPT ![c] = toPage[i].body]
        /\ toPage' = Without(toPage, i)
        /\ UNCHANGED <<deaths, calls, serving, answered, toServer>>
    BY DEF Receive, serverSide
  <1>2. c = toPage[i].call /\ toPage[i].body = answered[c] /\ answered[c] # NoAnswer
    BY <1>1, ArrivalsOf DEF TransportInv, AnswersInv, AnswerFor
  <1>3. DOMAIN got' = CallId
    BY <1>1 DEF TransportInv, TablesInv
  <1> HIDE DEF c, failed
  <1>4. /\ TablesInv' /\ c \in CallId /\ outcome[c] = "waiting"
        /\ outcome' = [outcome EXCEPT ![c] = IF failed THEN "rejected" ELSE "resolved"]
    BY <1>1, <1>3, SettleKeepsTables
  <1>5. AnswersInv'
    BY <1>1, FewerMessages
  <1>6. RequestsInv'
    BY <1>1 DEF TransportInv, RequestsInv, Asked
  <1>7. Promise!Resolve(c) \/ Promise!Reject(c)
    BY <1>1, <1>2, <1>4 DEF Promise!Resolve, Promise!Reject
  <1>8. QED
    BY <1>1, <1>4, <1>5, <1>6, <1>7 DEF TransportInv

LEMMA DroppedKeeps ==
    ASSUME TransportInv, NEW i, ReceiveLate(i) \/ ReceivePush(i)
    PROVE  TransportInv' /\ UNCHANGED abstractVars
  <1>1. /\ i \in Arrivals(toPage) /\ toPage' = Without(toPage, i)
        /\ UNCHANGED <<deaths, calls, pending, outcome, got, serving, answered, toServer>>
    BY DEF ReceiveLate, ReceivePush, pageSide, serverSide
  <1>2. AnswersInv'
    BY <1>1, FewerMessages
  <1>3. TablesInv' /\ RequestsInv'
    BY <1>1 DEF TransportInv, TablesInv, RequestsInv, Asked
  <1>4. QED
    BY <1>1, <1>2, <1>3 DEF TransportInv, abstractVars

LEMMA GiveUpRejects ==
    ASSUME TransportInv, NEW c \in pending, GiveUp(c)
    PROVE  TransportInv' /\ c \in CallId /\ Promise!Reject(c)
  <1>1. /\ Settle(c, "rejected")
        /\ UNCHANGED <<deaths, calls, got, serving, answered, toServer, toPage>>
    BY DEF GiveUp, serverSide
  <1>2. DOMAIN got' = CallId
    BY <1>1 DEF TransportInv, TablesInv
  <1>3. /\ TablesInv' /\ c \in CallId /\ outcome[c] = "waiting"
        /\ outcome' = [outcome EXCEPT ![c] = "rejected"]
    BY <1>1, <1>2, SettleKeepsTables
  <1>4. RequestsInv' /\ AnswersInv'
    BY <1>1 DEF TransportInv, RequestsInv, AnswersInv, Asked
  <1>5. QED
    BY <1>1, <1>3, <1>4 DEF TransportInv, Promise!Reject

LEMMA DiesKeeps ==
    ASSUME TransportInv, TransportDies \/ TransportRevives
    PROVE  TransportInv' /\ UNCHANGED abstractVars
  <1>1. UNCHANGED <<calls, pending, outcome, got, answered>> /\ deaths' \in Nat
    BY DEF TransportDies, TransportRevives, pageSide, serverSide, TransportInv
  <1>2. TablesInv'
    BY <1>1 DEF TransportInv, TablesInv, Asked
  <1>3. CASE TransportDies
    <2>1. toServer' = <<>> /\ toPage' = <<>> /\ serving' = {}
      BY <1>3 DEF TransportDies
    <2>2. RequestsInv' /\ AnswersInv'
      BY <2>1 DEF RequestsInv, AnswersInv
    <2>3. QED
      BY <1>1, <1>2, <2>2 DEF TransportInv, abstractVars
  <1>4. CASE TransportRevives
    <2>1. UNCHANGED <<toServer, toPage, serving>>
      BY <1>4 DEF TransportRevives, serverSide
    <2>2. RequestsInv' /\ AnswersInv'
      BY <1>1, <2>1 DEF TransportInv, RequestsInv, AnswersInv, Asked
    <2>3. QED
      BY <1>1, <1>2, <2>2 DEF TransportInv, abstractVars
  <1>5. QED
    BY <1>3, <1>4

LEMMA SaysBody ==
    /\ \A x \in State \ {"none"} : Says(x) \in Body \ {NoAnswer}
    /\ NoAnswer \in Body
  BY DEF Says, Body, NoAnswer, State

\* What GetEvents answers.
LEMMA SliceOfItems ==
    ASSUME RingInv
    PROVE  Slice(0, FetchLimit) \in Seq(Item)
  <1> DEFINE last == IF FetchLimit < count THEN FetchLimit ELSE count
  <1>1. ToArray \in Seq(Item) /\ Len(ToArray) = count
    <2>1. ToArray = [i \in 1 .. count |-> items[Place(i)]]
      BY DEF ToArray, Place
    <2>2. QED
      BY <2>1, CapacityAssumption DEF RingInv
  <1>2. last \in 0 .. count
    BY EventAssumption, CapacityAssumption DEF RingInv
  <1>3. \A i \in 1 .. last : ToArray[i] \in Item
    BY <1>1, <1>2, CapacityAssumption DEF RingInv
  <1>4. SubSeq(ToArray, 1, last) = [i \in 1 .. last |-> ToArray[i]]
    BY <1>1, <1>2, CapacityAssumption DEF RingInv
  <1>5. SubSeq(ToArray, 1, last) \in Seq(Item)
    BY <1>2, <1>3, <1>4, CapacityAssumption DEF RingInv
  <1>6. Slice(0, FetchLimit) = SubSeq(ToArray, 1, last)
    <2>1. 0 + FetchLimit = FetchLimit /\ 0 + 1 = 1
      BY EventAssumption
    <2>2. QED
      BY <2>1 DEF Slice
  <1>7. QED
    BY <1>5, <1>6

TransportStep == TransportInv' /\ [Promise!Next]_abstractVars

LEMMA SendStep ==
    ASSUME TransportInv, NEW r \in Route, Send(r)
    PROVE  TransportStep
  BY SendAsks DEF TransportStep, Promise!Next

LEMMA UnchangedTransport ==
    ASSUME TransportInv, UNCHANGED transportVars
    PROVE  TransportStep
  BY DEF TransportInv, TablesInv, RequestsInv, AnswersInv, Asked, TransportStep,
         abstractVars, transportVars, pageSide, serverSide

\* A push is a line in the pipe, or nothing to the calls.
LEMMA BroadcastKeeps ==
    ASSUME TransportInv, NEW e \in Item, NEW known, Broadcast(e, known),
           UNCHANGED <<mode, alive, deaths, pageSide, serverSide, toServer>>
    PROVE  TransportStep
  <1>1. CASE UNCHANGED toPage
    BY <1>1, UnchangedTransport DEF transportVars
  <1>2. CASE PushLine(e)
    BY <1>2, PushLineKeeps DEF TransportStep
  <1>3. QED
    BY <1>1, <1>2 DEF Broadcast

LEMMA BackendOnTransport ==
    ASSUME TransportInv, RingInv, CountInv, Backend
    PROVE  TransportStep
  <1>1. ASSUME NEW i, GetStatus(i) \/ GetEvents(i) \/ RefuseSetup(i)
        PROVE  TransportStep
    <2>1. \E route, body : body \in Body \ {NoAnswer} /\ AnswerAtOnce(i, route, body)
      <3>1. CASE GetStatus(i)
        BY <3>1, SaysBody DEF GetStatus, State
      <3>2. CASE GetEvents(i)
        <4>1. [state |-> "ok", list |-> IF up THEN Slice(0, FetchLimit) ELSE <<>>]
                \in Body \ {NoAnswer}
          BY SliceOfItems DEF Body, State, NoAnswer, Says
        <4>2. QED
          BY <3>2, <4>1 DEF GetEvents
      <3>3. CASE RefuseSetup(i)
        BY <3>3, SaysBody DEF RefuseSetup, State
      <3>4. QED
        BY <1>1, <3>1, <3>2, <3>3
    <2>2. QED
      BY <2>1, AnswerAtOnceServes DEF TransportStep, Promise!Next
  <1>2. ASSUME NEW i, BeginSetup(i)
        PROVE  TransportStep
    BY <1>2, BeginServingKeeps DEF BeginSetup, TransportStep
  <1>3. ASSUME NEW c, FinishSetup(c)
        PROVE  TransportStep
    <2>1. \E body \in Body \ {NoAnswer} : FinishServing(c, body)
      BY <1>3, SaysBody DEF FinishSetup, State
    <2>2. QED
      BY <2>1, FinishServingServes DEF TransportStep, Promise!Next
  <1>4. CASE EngineEvent
    <2> DEFINE e == [id |-> nextEventId, what |-> emitted + 1]
    <2>1. e \in Item
      BY <1>4, EventAssumption DEF EngineEvent, CountInv
    <2>2. Broadcast(e, registered)
      BY <1>4 DEF EngineEvent
    <2> HIDE DEF e
    <2>3. QED
      BY <1>4, <2>1, <2>2, BroadcastKeeps DEF EngineEvent
  <1>5. CASE StrayEvent
    <2>1. /\ [id |-> emitted + 1, what |-> emitted + 1] \in Item
          /\ \E known : Broadcast([id |-> emitted + 1, what |-> emitted + 1], known)
      BY <1>5, EventAssumption DEF StrayEvent, CountInv
    <2>2. QED
      BY <1>5, <2>1, BroadcastKeeps DEF StrayEvent
  <1>6. CASE \/ SetupElsewhere \/ StartSucceeds \/ StartFails
             \/ SocketOpens \/ SocketCloses \/ SocketRetries
    BY <1>6, UnchangedTransport DEF SetupElsewhere, StartSucceeds, StartFails,
                                    SocketOpens, SocketCloses, SocketRetries
  <1>7. CASE ServerDies \/ ServerRestarts
    BY <1>7, DiesKeeps DEF ServerDies, ServerRestarts, TransportStep
  <1>8. QED
    BY <1>1, <1>2, <1>3, <1>4, <1>5, <1>6, <1>7 DEF Backend

LEMMA PageOnTransport ==
    ASSUME TransportInv, Next, ~Backend
    PROVE  TransportStep
  <1>1. CASE PollStatus \/ Submit \/ SetupDone \/ Mount
    BY <1>1, SendStep DEF PollStatus, Submit, SetupDone, Mount, Route
  <1>2. CASE Unmount \/ SocketMessage
    BY <1>2, UnchangedTransport DEF Unmount, SocketMessage
  <1>3. ASSUME NEW i, StatusArrives(i) \/ SetupArrives(i) \/ EventsArrive(i)
        PROVE  TransportStep
    <2>1. \E route : Receive(i, route)
      BY <1>3 DEF StatusArrives, SetupArrives, EventsArrive
    <2>2. QED
      BY <2>1, ReceiveSettles DEF TransportStep, Promise!Next
  <1>4. ASSUME NEW i, AnswerTooLate(i) \/ PushArrives(i)
        PROVE  TransportStep
    BY <1>4, DroppedKeeps DEF AnswerTooLate, PushArrives, TransportStep
  <1>5. ASSUME NEW c, CallFails(c)
        PROVE  TransportStep
    BY <1>5, GiveUpRejects DEF CallFails, Timeout, ConnectionLost, TransportStep, Promise!Next
  <1>6. QED
    BY <1>1, <1>2, <1>3, <1>4, <1>5 DEF Next, Delivery

LEMMA RingInvariant == Spec => [](RingInv /\ CountInv)
  <1>1. Init => RingInv /\ CountInv
    <2> SUFFICES ASSUME Init PROVE RingInv /\ CountInv
      OBVIOUS
    <2>1. count = 0 /\ head \in Slot /\ DOMAIN items = Slot
      BY CapacityAssumption DEF Init, BridgeInit, EmptyRing, Slot
    <2>2. QED
      BY <2>1, CapacityAssumption DEF RingInv, CountInv, Init, BridgeInit, TransportInit
  <1>2. RingInv /\ CountInv /\ [Next]_vars => (RingInv /\ CountInv)'
    <2> SUFFICES ASSUME RingInv, CountInv, [Next]_vars PROVE (RingInv /\ CountInv)'
      OBVIOUS
    <2>1. RingStep /\ CountStep
      BY StepOnRing
    <2>2. CountInv'
      BY <2>1 DEF CountInv, CountStep
    <2>3. QED
      BY <2>1, <2>2, SameRing, NewRingIsClear, PushItems DEF RingStep
  <1>3. QED
    BY <1>1, <1>2, PTL DEF Spec

LEMMA TransportInitially == Init => TransportInv /\ Promise!Init
  <1> SUFFICES ASSUME Init PROVE TransportInv /\ Promise!Init
    OBVIOUS
  <1> USE DEF Init, TransportInit
  <1>1. calls = <<>> /\ Asked = {}
    BY DEF Asked
  <1>2. TablesInv
    BY <1>1, SaysBody, BoundsAssumption DEF TablesInv, Outcome
  <1>3. RequestsInv /\ AnswersInv
    BY DEF RequestsInv, AnswersInv
  <1>4. QED
    BY <1>2, <1>3 DEF TransportInv, Promise!Init

LEMMA TransportNext ==
    ASSUME TransportInv, RingInv, CountInv, [Next]_vars
    PROVE  TransportInv' /\ [Promise!Next]_abstractVars
  <1> SUFFICES TransportStep
    BY DEF TransportStep
  <1>1. CASE Backend
    BY <1>1, BackendOnTransport
  <1>2. CASE Next /\ ~Backend
    BY <1>2, PageOnTransport
  <1>3. CASE UNCHANGED vars
    BY <1>3, UnchangedTransport DEF vars
  <1>4. QED
    BY <1>1, <1>2, <1>3

LEMMA TransportInvariant == Spec => []TransportInv
  <1>1. TransportInv /\ RingInv /\ CountInv /\ [Next]_vars => TransportInv'
    BY TransportNext
  <1>2. QED
    BY <1>1, TransportInitially, RingInvariant, PTL DEF Spec

(***************************************************************************)
(* The page's transports implement the calls (pipe-transport.ts:78-120,    *)
(* index.js:58-85, transport.ts:10-33), for any number of calls.           *)
(***************************************************************************)
THEOREM CallsAreKept == Spec => CallsKept
  <1>1. TransportInv /\ RingInv /\ CountInv /\ [Next]_vars => [Promise!Next]_abstractVars
    BY TransportNext
  <1>2. QED
    BY <1>1, TransportInitially, TransportInvariant, RingInvariant, PTL
       DEF Spec, CallsKept, Promise!Spec, abstractVars
=============================================================================
