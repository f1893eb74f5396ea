--------------------------- MODULE EventListProofs ---------------------------
(***************************************************************************)
(* Proofs about the dashboard and its list of events, for any bounds: the  *)
(* rows have ids of their own, whatever is fetched, pushed and begun again *)
(* around them; and over the pipe the dashboard stays and shows the latest *)
(* events, until a bridge has lost its place to another start.             *)
(***************************************************************************)
EXTENDS PageProofs, FiniteSetTheorems

(***************************************************************************)
(* The inductive invariant.  Ids fall from the newest event to the oldest: *)
(* in the ring, in every list on its way to the page, and in the list that *)
(* is shown, whose next id is above them all.                              *)
(***************************************************************************)
Event == [id : Nat \ {0}, what : Nat \ {0}]

Falls(list) == \A j, k \in DOMAIN list : j < k => list[k].id < list[j].id

EventList(list) == list \in Seq(Event) /\ Falls(list)

\* The i-th newest event in the ring.
Kept(i) == items[Place(i)]

RingFalls ==
    /\ \A i \in 1 .. count : Kept(i) \in Event /\ Kept(i).id < nextEventId
    /\ \A i, j \in 1 .. count : i < j => Kept(j).id < Kept(i).id

GoodMessage(m) == EventList(m.body.list) /\ (m.call = 0 => m.body.list # <<>>)

PipeInv == \A i \in DOMAIN toPage : GoodMessage(toPage[i])

WireInv == wire \in Seq(Event)

ListInv ==
    /\ EventList(shown) /\ nextId \in Nat \ {0}
    /\ \A j \in DOMAIN shown : shown[j].id < nextId

EventsInv == RingFalls /\ PipeInv /\ WireInv /\ ListInv

-----------------------------------------------------------------------------
(***************************************************************************)
(* The ring: an event is pushed with the next id, or a new bridge begins   *)
(* again at 1 with an empty ring.                                          *)
(***************************************************************************)
Emitted == [id |-> nextEventId, what |-> emitted + 1]

\* What a bridge without a ring that is read pushes.
Strayed == [id |-> emitted + 1, what |-> emitted + 1]

RingEventStep ==
    \/ UNCHANGED <<ringVars, nextEventId>>
    \/ NewRing /\ nextEventId' = 1
    \/ RingPush(Emitted) /\ Emitted \in Item /\ nextEventId' = nextEventId + 1

LEMMA StepEvents ==
    ASSUME CountInv, [Next]_vars
    PROVE  RingEventStep
  <1> USE DEF RingEventStep
  <1>1. CASE EngineEvent
    <2>1. Emitted \in Item
      BY <1>1, EventAssumption DEF EngineEvent, CountInv, Emitted
    <2>2. QED
      BY <1>1, <2>1 DEF EngineEvent, Emitted
  <1>2. ASSUME NEW i, GetStatus(i) \/ GetEvents(i) \/ RefuseSetup(i) \/ BeginSetup(i)
        PROVE  RingEventStep
    BY <1>2 DEF GetStatus, GetEvents, RefuseSetup, BeginSetup, backendVars, bridgeVars
  <1>3. ASSUME NEW c, FinishSetup(c)
        PROVE  RingEventStep
    BY <1>3 DEF FinishSetup, NewBridge, backendVars, bridgeVars
  <1>4. CASE StrayEvent
    BY <1>4 DEF StrayEvent
  <1>5. CASE SetupElsewhere \/ StartSucceeds \/ StartFails
    BY <1>5 DEF SetupElsewhere, StartSucceeds, StartFails, NewBridge
  <1>6. CASE SocketOpens \/ SocketCloses \/ SocketRetries
    BY <1>6 DEF SocketOpens, SocketCloses, SocketRetries, bridgeVars
  <1>7. CASE ServerDies \/ ServerRestarts
    BY <1>7 DEF ServerDies, ServerRestarts, NewBridge, backendVars, bridgeVars
  <1>8. CASE Next /\ ~Backend
    BY <1>8, PageOnRing
  <1>9. CASE UNCHANGED vars
    BY <1>9 DEF vars, backendVars, bridgeVars
  <1>10. QED
    BY <1>1, <1>2, <1>3, <1>4, <1>5, <1>6, <1>7, <1>8, <1>9 DEF Backend

LEMMA EmittedEvent ==
    ASSUME CountInv
    PROVE  Emitted \in Event /\ Emitted.id = nextEventId /\ Strayed \in Event
  BY DEF CountInv, Emitted, Strayed, Event

LEMMA RingKeepsFalling ==
    ASSUME RingInv, CountInv, RingFalls, RingEventStep
    PROVE  RingFalls'
  <1>1. CASE UNCHANGED <<ringVars, nextEventId>>
    BY <1>1 DEF ringVars, RingFalls, Kept, Place
  <1>2. CASE NewRing
    BY <1>2 DEF NewRing, RingFalls
  <1>3. CASE RingPush(Emitted) /\ Emitted \in Item /\ nextEventId' = nextEventId + 1
    <2>1. /\ count' = Log!Shorter(count + 1, Capacity)
          /\ Kept(1)' = Emitted
          /\ \A i \in 2 .. count' : Kept(i)' = Kept(i - 1)
      BY <1>3, PushItems DEF Kept
    <2>2. count \in Nat /\ count' \in 1 .. count + 1 /\ nextEventId \in Nat
      BY <2>1, CapacityAssumption DEF Log!Shorter, RingInv, CountInv
    <2> DEFINE new(i) == Kept(i)'
    <2> HIDE DEF new
    <2>3. new(1) \in Event /\ new(1).id = nextEventId
      BY <2>1, EmittedEvent DEF new
    <2>4. ASSUME NEW i \in 2 .. count'
          PROVE  i - 1 \in 1 .. count /\ new(i) = Kept(i - 1) /\ new(i) \in Event
                 /\ new(i).id < nextEventId
    <3>1. i - 1 \in 1 .. count /\ new(i) = Kept(i - 1)
      BY <2>1, <2>2 DEF new
    <3>2. QED
      BY <3>1 DEF RingFalls
    <2>5. ASSUME NEW i \in 1 .. count'
          PROVE  new(i) \in Event /\ new(i).id < nextEventId'
      BY <1>3, <2>2, <2>3, <2>4 DEF Event
    <2>6. ASSUME NEW i \in 1 .. count', NEW j \in 1 .. count', i < j
          PROVE  new(j).id < new(i).id
      <3>1. j \in 2 .. count'
        BY <2>2, <2>6
      <3>2. CASE i = 1
        BY <2>3, <2>4, <3>1, <3>2
      <3>3. CASE i # 1
        <4>1. i \in 2 .. count' /\ i - 1 < j - 1
          BY <2>2, <2>6, <3>3
        <4>2. QED
          BY <2>4, <3>1, <4>1 DEF RingFalls
      <3>4. QED
        BY <3>2, <3>3
    <2>7. QED
      BY <2>5, <2>6 DEF RingFalls, new
  <1>4. QED
    BY <1>1, <1>2, <1>3 DEF RingEventStep

\* What getEvents answers falls too.
LEMMA SliceFalls ==
    ASSUME RingInv, RingFalls
    PROVE  EventList(Slice(0, FetchLimit))
  <1> DEFINE last == IF FetchLimit < count THEN FetchLimit ELSE count
             list == Slice(0, FetchLimit)
  <1>1. ToArray = [i \in 1 .. count |-> Kept(i)] /\ count \in Nat
    BY CapacityAssumption DEF ToArray, Kept, Place, RingInv
  <1>2. last \in 0 .. count
    BY <1>1, EventAssumption
  <1>3. list = SubSeq(ToArray, 1, last)
    <2>1. 0 + FetchLimit = FetchLimit /\ 0 + 1 = 1
      BY EventAssumption
    <2>2. QED
      BY <2>1 DEF Slice
  <1> HIDE DEF last, list
  <1>4. ToArray \in Seq(Event) /\ Len(ToArray) = count
    BY <1>1 DEF RingFalls
  <1>5. /\ list \in Seq(Event) /\ DOMAIN list = 1 .. last
        /\ \A i \in 1 .. last : list[i] = ToArray[i]
    BY <1>2, <1>3, <1>4
  <1>6. ASSUME NEW i \in DOMAIN list
        PROVE  i \in 1 .. count /\ list[i] = Kept(i)
    <2>1. i \in 1 .. last /\ i \in 1 .. count
      BY <1>1, <1>2, <1>5
    <2>2. ToArray[i] = Kept(i)
      BY <1>1, <2>1
    <2>3. QED
      BY <1>5, <2>1, <2>2
  <1>7. Falls(list)
    <2>1. \A i, j \in 1 .. count : i < j => Kept(j).id < Kept(i).id
      BY DEF RingFalls
    <2>2. QED
      BY <1>6, <2>1, Zenon DEF Falls
  <1>8. QED
    BY <1>5, <1>7 DEF EventList, list

-----------------------------------------------------------------------------
(***************************************************************************)
(* The way to the page.                                                    *)
(***************************************************************************)
LEMMA NoEvents == EventList(<<>>)
  BY DEF EventList, Falls

LEMMA OneEvent ==
    ASSUME NEW e \in Event
    PROVE  EventList(<<e>>) /\ <<e>> # <<>>
  BY DEF EventList, Falls

LEMMA MessageAdded ==
    ASSUME AnswersInv, PipeInv, NEW m, GoodMessage(m), toPage' = Append(toPage, m)
    PROVE  PipeInv'
  <1>1. toPage \in Seq(Message)
    BY DEF AnswersInv
  <1>2. \A i \in DOMAIN toPage' : toPage'[i] = m \/ (i \in DOMAIN toPage /\ toPage'[i] = toPage[i])
    BY <1>1
  <1>3. QED
    BY <1>2 DEF PipeInv

LEMMA MessageTaken ==
    ASSUME AnswersInv, PipeInv, NEW i \in Arrivals(toPage), toPage' = Without(toPage, i)
    PROVE  PipeInv' /\ GoodMessage(toPage[i])
  <1>1. toPage \in Seq(Message) /\ i \in DOMAIN toPage
    BY ArrivalsOf DEF AnswersInv
  <1>2. \A j \in DOMAIN toPage' : \E k \in DOMAIN toPage : toPage'[j] = toPage[k]
    BY <1>1, WithoutOf
  <1>3. QED
    BY <1>1, <1>2 DEF PipeInv

LEMMA ReplyKeeps ==
    ASSUME AnswersInv, PipeInv, NEW c, c # 0, NEW body, EventList(body.list), Reply(c, body)
    PROVE  PipeInv'
  <1> DEFINE m == [call |-> c, body |-> body]
  <1>1. GoodMessage(m) /\ toPage' = Append(toPage, m)
    BY DEF GoodMessage, Reply
  <1> HIDE DEF m
  <1>2. QED
    BY <1>1, MessageAdded

LEMMA SaysNothing ==
    ASSUME NEW state
    PROVE  EventList(Says(state).list)
  BY NoEvents DEF Says

LEMMA BackendLists ==
    ASSUME TransportInv, RingInv, CountInv, EventsInv, Backend
    PROVE  PipeInv' /\ WireInv'
  <1>1. AnswersInv /\ RequestsInv
    BY DEF TransportInv
  <1>2. PipeInv /\ WireInv /\ RingFalls
    BY DEF EventsInv
  <1>3. ASSUME NEW i, NEW route, NEW body, EventList(body.list), AnswerAtOnce(i, route, body)
        PROVE  PipeInv'
    <2>1. toServer[i] # 0
      <3>1. i \in DOMAIN toServer /\ toServer \in Seq(Asked)
        BY <1>1, <1>3, ArrivalsOf DEF AnswerAtOnce, Arrived, RequestsInv
      <3>2. QED
        BY <3>1 DEF Asked
    <2>2. QED
      BY <1>1, <1>2, <1>3, <2>1, ReplyKeeps DEF AnswerAtOnce
  <1>4. ASSUME NEW i, GetStatus(i) \/ RefuseSetup(i)
        PROVE  PipeInv' /\ WireInv'
    <2>1. PipeInv'
      BY <1>3, <1>4, SaysNothing DEF GetStatus, RefuseSetup
    <2>2. QED
      BY <1>2, <1>4, <2>1 DEF GetStatus, RefuseSetup, backendVars, socketVars, WireInv
  <1>5. ASSUME NEW i, GetEvents(i)
        PROVE  PipeInv' /\ WireInv'
    <2> DEFINE list == IF up THEN Slice(0, FetchLimit) ELSE <<>>
    <2>1. EventList(list)
      BY <1>2, SliceFalls, NoEvents
    <2> HIDE DEF list
    <2>2. EventList([state |-> "ok", list |-> list].list)
      BY <2>1
    <2>3. PipeInv'
      BY <1>3, <1>5, <2>2 DEF GetEvents, list
    <2>4. QED
      BY <1>2, <1>5, <2>3 DEF GetEvents, backendVars, socketVars, WireInv
  <1>6. ASSUME NEW i, BeginSetup(i)
        PROVE  PipeInv' /\ WireInv'
    BY <1>2, <1>6 DEF BeginSetup, BeginServing, backendVars, socketVars, PipeInv, WireInv
  <1>7. ASSUME NEW c, FinishSetup(c)
        PROVE  PipeInv' /\ WireInv'
    <2>1. PICK state : FinishServing(c, Says(state))
      BY <1>7 DEF FinishSetup
    <2>2. c # 0
      BY <1>1, <2>1 DEF FinishServing, RequestsInv, Asked
    <2>3. PipeInv'
      BY <1>1, <1>2, <2>1, <2>2, ReplyKeeps, SaysNothing DEF FinishServing
    <2>4. QED
      BY <1>2, <1>7, <2>3 DEF FinishSetup, NewBridge, backendVars, socketVars, WireInv
  <1>8. ASSUME NEW e \in Event, NEW known, Broadcast(e, known)
        PROVE  PipeInv' /\ WireInv'
    <2>1. CASE PushLine(e) /\ UNCHANGED wire
      <3> DEFINE m == [call |-> 0, body |-> [state |-> "push", list |-> <<e>>]]
      <3>1. m.body.list = <<e>> /\ toPage' = Append(toPage, m)
        BY <2>1 DEF PushLine
      <3>2. GoodMessage(m)
        BY <3>1, OneEvent DEF GoodMessage
      <3> HIDE DEF m
      <3>3. QED
        BY <1>1, <1>2, <2>1, <3>1, <3>2, MessageAdded DEF WireInv
    <2>2. CASE UNCHANGED toPage /\ wire' \in {wire, Append(wire, e)}
      <3>1. WireInv'
        BY <1>2, <2>2 DEF WireInv
      <3>2. QED
        BY <1>2, <2>2, <3>1 DEF PipeInv
    <2>3. QED
      BY <1>8, <2>1, <2>2 DEF Broadcast
  <1>9. CASE EngineEvent
    BY <1>8, <1>9, EmittedEvent DEF EngineEvent, Emitted
  <1>10. CASE StrayEvent
    BY <1>8, <1>10, EmittedEvent DEF StrayEvent, Strayed
  <1>11. CASE \/ SetupElsewhere \/ StartSucceeds \/ StartFails
             \/ SocketOpens \/ SocketCloses \/ SocketRetries
    BY <1>2, <1>11 DEF SetupElsewhere, StartSucceeds, StartFails, NewBridge, SocketOpens,
                      SocketCloses, SocketRetries, transportVars, socketVars, PipeInv, WireInv
  <1>12. CASE ServerDies
    BY <1>12 DEF ServerDies, TransportDies, PipeInv, WireInv
  <1>13. CASE ServerRestarts
    BY <1>2, <1>13 DEF ServerRestarts, TransportRevives, NewBridge, backendVars, socketVars,
                       PipeInv, WireInv
  <1>14. QED
    BY <1>4, <1>5, <1>6, <1>7, <1>9, <1>10, <1>11, <1>12, <1>13 DEF Backend

-----------------------------------------------------------------------------
(***************************************************************************)
(* The list.                                                               *)
(***************************************************************************)
LEMMA ShowKeeps ==
    ASSUME ListInv, NEW e \in Event, Show(e)
    PROVE  ListInv'
  <1> DEFINE row == [id |-> nextId, what |-> e.what]
             longer == <<row>> \o shown
             n == Log!Shorter(Len(longer), MaxShown)
  <1>1. row \in Event /\ row.id = nextId /\ nextId \in Nat /\ nextId' = nextId + 1
    BY DEF ListInv, Event, Show
  <1>2. shown \in Seq(Event) /\ Len(shown) \in Nat /\ DOMAIN shown = 1 .. Len(shown)
    BY DEF ListInv, EventList
  <1>3. shown' = Log!Prefix(longer, MaxShown)
    BY DEF Show
  <1> HIDE DEF row
  <1>4. /\ Len(longer) = Len(shown) + 1 /\ longer[1] = row
        /\ \A i \in 2 .. Len(shown) + 1 : longer[i] = shown[i - 1]
    BY <1>1, <1>2
  <1> HIDE DEF longer
  <1>5. n \in 0 .. Len(shown) + 1
    BY <1>2, <1>4, ShownAssumption DEF Log!Shorter
  <1>6. shown' = [i \in 1 .. n |-> longer[i]]
    BY <1>3 DEF Log!Prefix
  <1> HIDE DEF n
  <1>7. ASSUME NEW i \in 2 .. n
        PROVE  i - 1 \in DOMAIN shown /\ longer[i] = shown[i - 1]
    <2>1. i \in 2 .. Len(shown) + 1 /\ i - 1 \in 1 .. Len(shown)
      BY <1>2, <1>5
    <2>2. QED
      BY <1>2, <1>4, <2>1
  <1>8. ASSUME NEW i \in 2 .. n
        PROVE  longer[i] \in Event /\ longer[i].id < nextId
    <2>1. shown[i - 1] \in Event
      BY <1>2, <1>7
    <2>2. QED
      BY <1>7, <2>1 DEF ListInv
  <1>9. ASSUME NEW i \in 1 .. n
        PROVE  longer[i] \in Event /\ longer[i].id < nextId'
    <2>1. CASE i = 1
      BY <1>1, <1>4, <2>1
    <2>2. CASE i # 1
      <3>1. i \in 2 .. n
        BY <1>5, <2>2
      <3>2. longer[i] \in Event /\ longer[i].id < nextId /\ longer[i].id \in Nat
        BY <1>8, <3>1 DEF Event
      <3>3. QED
        BY <1>1, <3>2
    <2>3. QED
      BY <2>1, <2>2
  <1>10. ASSUME NEW i \in 1 .. n, NEW j \in 1 .. n, i < j
         PROVE  longer[j].id < longer[i].id
    <2>1. j \in 2 .. n /\ n \in Nat
      BY <1>5, <1>10
    <2>2. CASE i = 1
      BY <1>1, <1>4, <1>8, <2>1, <2>2
    <2>3. CASE i # 1
      <3>1. i \in 2 .. n /\ i - 1 < j - 1
        BY <1>5, <1>10, <2>3
      <3>2. i - 1 \in DOMAIN shown /\ j - 1 \in DOMAIN shown
        BY <1>7, <2>1, <3>1
      <3>3. shown[j - 1].id < shown[i - 1].id
        BY <3>1, <3>2, Zenon DEF ListInv, EventList, Falls
      <3>4. QED
        BY <1>7, <2>1, <3>1, <3>3
    <2>4. QED
      BY <2>2, <2>3
  <1>11. shown' \in Seq(Event) /\ DOMAIN shown' = 1 .. n /\ \A i \in 1 .. n : shown'[i] = longer[i]
    BY <1>5, <1>6, <1>9
  <1>12. Falls(shown')
    <2> SUFFICES ASSUME NEW i \in DOMAIN shown', NEW j \in DOMAIN shown', i < j
                 PROVE  shown'[j].id < shown'[i].id
      BY DEF Falls
    <2>1. i \in 1 .. n /\ j \in 1 .. n
      BY <1>11
    <2>2. shown'[i] = longer[i] /\ shown'[j] = longer[j]
      BY <1>11, <2>1
    <2>3. longer[j].id < longer[i].id
      BY <1>10, <2>1
    <2>4. QED
      BY <2>2, <2>3
  <1>13. QED
    BY <1>1, <1>9, <1>11, <1>12 DEF ListInv, EventList

LEMMA HearKeeps ==
    ASSUME ListInv, NEW e \in Event, Hear(e)
    PROVE  ListInv'
  <1>1. CASE mounted
    BY <1>1, ShowKeeps DEF Hear
  <1>2. CASE ~mounted
    BY <1>2 DEF Hear, ListInv
  <1>3. QED
    BY <1>1, <1>2

\* The id after a list is above all of its ids.
LEMMA AfterAll ==
    ASSUME NEW list, EventList(list), list # <<>>
    PROVE  After(list) \in Nat \ {0} /\ \A j \in DOMAIN list : list[j].id < After(list)
  <1> DEFINE ids == {list[j].id : j \in DOMAIN list}
             Highest(m) == \A j \in DOMAIN list : list[j].id <= m
  <1>1. /\ list \in Seq(Event) /\ Len(list) \in Nat \ {0} /\ DOMAIN list = 1 .. Len(list)
    BY DEF EventList
  <1>2. 1 \in DOMAIN list /\ \A j \in DOMAIN list : list[j] \in Event /\ j \in Nat
    BY <1>1
  <1>3. \A j \in DOMAIN list : list[j].id \in Nat
    BY <1>2 DEF Event
  <1>4. list[1].id \in ids /\ Highest(list[1].id)
    <2>1. ASSUME NEW j \in DOMAIN list
          PROVE  list[j].id <= list[1].id
      <3>1. j = 1 \/ 1 < j
        BY <1>1
      <3>2. 1 < j => list[j].id < list[1].id
        BY <1>2 DEF EventList, Falls
      <3>3. QED
        BY <1>2, <1>3, <3>1, <3>2
    <2>2. QED
      BY <1>2, <2>1
  <1> DEFINE top == CHOOSE m \in ids : Highest(m)
  <1>5. top \in ids /\ Highest(top)
    BY <1>4
  <1>6. After(list) = 1 + top
    BY DEF After
  <1>7. top \in Nat
    BY <1>3, <1>5
  <1> HIDE DEF top
  <1>8. QED
    BY <1>3, <1>5, <1>6, <1>7

LEMMA PageLists ==
    ASSUME TransportInv, EventsInv, Next, ~(Backend /\ UNCHANGED pageVars)
    PROVE  PipeInv' /\ WireInv' /\ ListInv'
  <1>1. AnswersInv /\ PipeInv /\ WireInv /\ ListInv
    BY DEF TransportInv, EventsInv
  <1>2. ASSUME UNCHANGED <<toPage, wire, shown, nextId>>
        PROVE  PipeInv' /\ WireInv' /\ ListInv'
    BY <1>1, <1>2 DEF PipeInv, WireInv, ListInv
  <1>3. CASE PollStatus \/ Submit \/ SetupDone \/ Mount
    BY <1>2, <1>3 DEF PollStatus, Submit, SetupDone, Mount, Send, backendVars, socketVars, pageVars
  <1>4. CASE Unmount
    BY <1>1, <1>4, NoEvents DEF Unmount, Disconnect, transportVars, PipeInv, WireInv, ListInv
  <1>5. ASSUME NEW i, i \in Arrivals(toPage), toPage' = Without(toPage, i),
               UNCHANGED <<wire, shown, nextId>>
        PROVE  PipeInv' /\ WireInv' /\ ListInv'
    BY <1>1, <1>5, MessageTaken DEF WireInv, ListInv
  <1>6. ASSUME NEW i, StatusArrives(i) \/ SetupArrives(i) \/ AnswerTooLate(i)
        PROVE  PipeInv' /\ WireInv' /\ ListInv'
    BY <1>5, <1>6 DEF StatusArrives, SetupArrives, AnswerTooLate, Receive, ReceiveLate,
                      backendVars, socketVars, pageVars
  <1>7. ASSUME NEW i, EventsArrive(i)
        PROVE  PipeInv' /\ WireInv' /\ ListInv'
    <2> DEFINE initial == toPage[i].body.list
    <2>1. i \in Arrivals(toPage) /\ toPage' = Without(toPage, i) /\ UNCHANGED wire
      BY <1>7 DEF EventsArrive, Receive, backendVars, socketVars
    <2>2. PipeInv' /\ WireInv' /\ EventList(initial)
      BY <1>1, <2>1, MessageTaken DEF WireInv, GoodMessage
    <2>3. \/ shown' = initial /\ nextId' = IF initial = <<>> THEN nextId ELSE After(initial)
          \/ UNCHANGED <<shown, nextId>>
      BY <1>7 DEF EventsArrive
    <2> HIDE DEF initial
    <2>4. CASE shown' = initial /\ nextId' = IF initial = <<>> THEN nextId ELSE After(initial)
      <3>1. EventList(shown)'
        BY <2>2, <2>4 DEF EventList, Falls
      <3>2. CASE initial = <<>>
        <4>1. nextId' = nextId /\ DOMAIN shown' = {}
          BY <2>4, <3>2
        <4>2. QED
          BY <1>1, <2>2, <3>1, <4>1 DEF ListInv
      <3>3. CASE initial # <<>>
        <4>1. shown' = initial /\ nextId' = After(initial)
          BY <2>4, <3>3
        <4>2. After(initial) \in Nat \ {0}
              /\ \A j \in DOMAIN initial : initial[j].id < After(initial)
          BY <2>2, <3>3, AfterAll
        <4>3. nextId' \in Nat \ {0} /\ \A j \in DOMAIN shown' : shown'[j].id < nextId'
          BY <4>1, <4>2
        <4>4. QED
          BY <2>2, <3>1, <4>3 DEF ListInv
      <3>4. QED
        BY <3>2, <3>3
    <2>5. CASE UNCHANGED <<shown, nextId>>
      <3>1. EventList(shown)' /\ ListInv'
        BY <1>1, <2>5 DEF ListInv, EventList, Falls
      <3>2. QED
        BY <2>2, <3>1
    <2>6. QED
      BY <2>2, <2>3, <2>4, <2>5
  <1>8. ASSUME NEW i, PushArrives(i)
        PROVE  PipeInv' /\ WireInv' /\ ListInv'
    <2> DEFINE list == toPage[i].body.list
    <2>1. /\ i \in Arrivals(toPage) /\ toPage' = Without(toPage, i) /\ toPage[i].call = 0
          /\ Hear(list[1]) /\ UNCHANGED wire
      BY <1>8 DEF PushArrives, ReceivePush, backendVars, socketVars
    <2>2. PipeInv' /\ WireInv' /\ EventList(list) /\ list # <<>>
      BY <1>1, <2>1, MessageTaken DEF WireInv, GoodMessage
    <2> HIDE DEF list
    <2>3. list[1] \in Event
      BY <2>2 DEF EventList
    <2>4. QED
      BY <1>1, <2>1, <2>2, <2>3, HearKeeps
  <1>9. CASE SocketMessage
    <2>1. wire # <<>> /\ wire' = Tail(wire) /\ Hear(wire[1]) /\ UNCHANGED toPage
      BY <1>9 DEF SocketMessage, transportVars
    <2>2. wire[1] \in Event /\ WireInv'
      <3>1. wire \in Seq(Event) /\ wire # <<>>
        BY <1>1, <2>1 DEF WireInv
      <3>2. wire[1] \in Event /\ Tail(wire) \in Seq(Event)
        BY <3>1
      <3>3. QED
        BY <2>1, <3>2 DEF WireInv
    <2>3. QED
      BY <1>1, <2>1, <2>2, HearKeeps DEF PipeInv
  <1>10. ASSUME NEW c, CallFails(c)
         PROVE  PipeInv' /\ WireInv' /\ ListInv'
    BY <1>2, <1>10 DEF CallFails, Timeout, ConnectionLost, GiveUp, backendVars, socketVars
  <1>11. QED
    BY <1>3, <1>4, <1>6, <1>7, <1>8, <1>9, <1>10 DEF Next, Delivery

LEMMA EventsNext ==
    ASSUME TransportInv, RingInv, CountInv, EventsInv, [Next]_vars
    PROVE  EventsInv'
  <1>1. RingFalls'
    BY StepEvents, RingKeepsFalling DEF EventsInv
  <1>2. CASE Backend /\ UNCHANGED pageVars
    <2>1. ListInv'
      BY <1>2 DEF pageVars, EventsInv, ListInv
    <2>2. QED
      BY <1>1, <1>2, <2>1, BackendLists DEF EventsInv
  <1>3. CASE Next /\ ~(Backend /\ UNCHANGED pageVars)
    BY <1>1, <1>3, PageLists DEF EventsInv
  <1>4. CASE UNCHANGED vars
    BY <1>1, <1>4 DEF vars, transportVars, backendVars, socketVars, pageVars, EventsInv, PipeInv,
                      WireInv, ListInv
  <1>5. QED
    BY <1>2, <1>3, <1>4

LEMMA EventsInvariant == Spec => []EventsInv
  <1>1. Init => EventsInv
    <2> SUFFICES ASSUME Init PROVE EventsInv
      OBVIOUS
    <2>1. RingFalls /\ PipeInv
      BY DEF Init, BridgeInit, EmptyRing, TransportInit, RingFalls, PipeInv
    <2>2. WireInv /\ ListInv
      BY NoEvents DEF Init, BridgeInit, WireInv, ListInv
    <2>3. QED
      BY <2>1, <2>2 DEF EventsInv
  <1>2. TransportInv /\ RingInv /\ CountInv /\ EventsInv /\ [Next]_vars => EventsInv'
    BY EventsNext
  <1>3. QED
    BY <1>1, <1>2, TransportInvariant, RingInvariant, PTL DEF Spec

(***************************************************************************)
(* No two rows of the list have one key (useEvents.ts, EventLog.tsx).      *)
(***************************************************************************)
THEOREM RowsAreDistinct == Spec => []KeysUnique
  <1>1. EventsInv => KeysUnique
    <2> SUFFICES ASSUME EventsInv,
                        NEW j \in DOMAIN shown, NEW k \in DOMAIN shown, shown[j].id = shown[k].id
                 PROVE  j = k
      BY DEF KeysUnique
    <2>1. /\ shown[j] \in Event /\ shown[k] \in Event /\ j \in Nat /\ k \in Nat
          /\ j < k => shown[k].id < shown[j].id
          /\ k < j => shown[j].id < shown[k].id
      BY DEF EventsInv, ListInv, EventList, Falls
    <2>2. QED
      BY <2>1 DEF Event
  <1>2. QED
    BY <1>1, EventsInvariant, PTL

-----------------------------------------------------------------------------
(***************************************************************************)
(* What an answer says depends on the route: a status is that of the       *)
(* session, a list is no longer than asked for, a setup has none.          *)
(***************************************************************************)
Asks(m, route) == m.call # 0 /\ calls[m.call] = route

Shaped(m) ==
    /\ m.call # 0 => Len(m.body.list) <= FetchLimit
    /\ Asks(m, "status") => m.body.state \in {"setup", "watching"}

ShapesInv ==
    /\ \A i \in DOMAIN toPage : Shaped(toPage[i])
    /\ \A c \in serving : calls[c] = "setup"

Answers(c, body) ==
    \/ calls[c] = "status" /\ body = Says(IF up THEN "watching" ELSE "setup")
    \/ calls[c] = "events" /\ body.list = (IF up THEN Slice(0, FetchLimit) ELSE <<>>)
    \/ calls[c] = "setup" /\ body.list = <<>>

AnswerTo(c, body) == [call |-> c, body |-> body]
PushOf(e) == [call |-> 0, body |-> [state |-> "push", list |-> <<e>>]]

\* What the backend does to the way to the page.
LineGrows ==
    \/ UNCHANGED toPage /\ (UNCHANGED emitted \/ mode = "http")
    \/ toPage' = <<>> /\ mode = "http"
    \/ /\ UNCHANGED emitted
       /\ \E c \in Asked, body \in Body :
            Answers(c, body) /\ toPage' = Append(toPage, AnswerTo(c, body))
    \/ /\ emitted' = emitted + 1
       /\ \E e \in Item : e.what = emitted + 1 /\ toPage' = Append(toPage, PushOf(e))

\* While no bridge has lost its place, the one there is stays.
BackendFrame ==
    /\ UNCHANGED <<mode, calls>>
    /\ \A c \in serving' : calls[c] = "setup"
    /\ mode = "pipe" => UNCHANGED wire /\ (strays' = {} => strays = {} /\ (up => up'))

LEMMA BackendGrows ==
    ASSUME TransportInv, RingInv, CountInv, ShapesInv, Backend
    PROVE  LineGrows /\ BackendFrame
  <1> USE DEF sessionVars, LeaveBridge
  <1>1. RequestsInv /\ \A c \in serving : calls[c] = "setup"
    BY DEF TransportInv, ShapesInv
  <1>2. ASSUME NEW i, NEW route, NEW body \in Body, AnswerAtOnce(i, route, body)
        PROVE  /\ toPage' = Append(toPage, AnswerTo(toServer[i], body))
               /\ toServer[i] \in Asked /\ calls[toServer[i]] = route
               /\ UNCHANGED <<mode, calls, serving>>
    <2>1. i \in DOMAIN toServer /\ toServer[i] \in Asked
      BY <1>1, <1>2, ArrivalsOf DEF AnswerAtOnce, Arrived, RequestsInv
    <2>2. QED
      BY <1>2, <2>1 DEF AnswerAtOnce, Arrived, Reply, AnswerTo, pageSide
  <1>3. ASSUME NEW i, GetStatus(i) \/ GetEvents(i) \/ RefuseSetup(i)
        PROVE  LineGrows /\ BackendFrame
    <2>1. UNCHANGED <<up, strays, emitted, wire>>
      BY <1>3 DEF GetStatus, GetEvents, RefuseSetup, backendVars, bridgeVars, socketVars
    <2>2. \E c \in Asked, body \in Body :
            /\ Answers(c, body) /\ toPage' = Append(toPage, AnswerTo(c, body))
            /\ UNCHANGED <<mode, calls, serving>>
      <3>1. CASE GetStatus(i)
        <4> DEFINE body == Says(IF up THEN "watching" ELSE "setup")
        <4>1. body \in Body
          BY SaysBody DEF State
        <4>2. AnswerAtOnce(i, "status", body)
          BY <3>1 DEF GetStatus
        <4>3. QED
          BY <1>2, <4>1, <4>2 DEF Answers
      <3>2. CASE GetEvents(i)
        <4> DEFINE body == [state |-> "ok", list |-> IF up THEN Slice(0, FetchLimit) ELSE <<>>]
        <4>1. body \in Body /\ body.list = IF up THEN Slice(0, FetchLimit) ELSE <<>>
          BY SliceOfItems DEF Body, State
        <4>2. AnswerAtOnce(i, "events", body)
          BY <3>2 DEF GetEvents
        <4> HIDE DEF body
        <4>3. QED
          BY <1>2, <4>1, <4>2 DEF Answers
      <3>3. CASE RefuseSetup(i)
        <4>1. Says("error") \in Body /\ Says("error").list = <<>>
          BY SaysBody DEF State, Says
        <4>2. AnswerAtOnce(i, "setup", Says("error"))
          BY <3>3 DEF RefuseSetup
        <4>3. QED
          BY <1>2, <4>1, <4>2 DEF Answers
      <3>4. QED
        BY <1>3, <3>1, <3>2, <3>3
    <2>3. QED
      BY <1>1, <2>1, <2>2 DEF LineGrows, BackendFrame
  <1>4. ASSUME NEW i, BeginSetup(i)
        PROVE  LineGrows /\ BackendFrame
    BY <1>1, <1>4 DEF BeginSetup, BeginServing, Arrived, backendVars, bridgeVars, socketVars,
                      pageSide, LineGrows, BackendFrame
  <1>5. ASSUME NEW c, FinishSetup(c)
        PROVE  LineGrows /\ BackendFrame
    <2>1. PICK state \in {"ok", "error"} : FinishServing(c, Says(state))
      BY <1>5 DEF FinishSetup
    <2>2. Says(state) \in Body /\ Says(state).list = <<>>
      BY SaysBody DEF State, Says
    <2>3. c \in Asked /\ calls[c] = "setup" /\ serving' \subseteq serving
          /\ toPage' = Append(toPage, AnswerTo(c, Says(state))) /\ UNCHANGED <<mode, calls>>
      BY <1>1, <2>1 DEF FinishServing, Reply, AnswerTo, RequestsInv, pageSide
    <2>4. UNCHANGED <<emitted, wire>> /\ (strays' = {} => strays = {} /\ (up => up'))
      BY <1>5 DEF FinishSetup, NewBridge, backendVars, bridgeVars, socketVars
    <2>5. QED
      BY <1>1, <2>2, <2>3, <2>4 DEF LineGrows, BackendFrame, Answers
  <1>6. CASE EngineEvent
    <2>1. Emitted \in Item
      BY <1>6, EventAssumption DEF EngineEvent, CountInv, Emitted
    <2>2. /\ Emitted.what = emitted + 1 /\ Broadcast(Emitted, registered)
          /\ emitted' = emitted + 1 /\ UNCHANGED <<mode, calls, serving, up, strays>>
      BY <1>6 DEF EngineEvent, Emitted, pageSide, serverSide
    <2>3. QED
      BY <1>1, <2>1, <2>2 DEF Broadcast, PushLine, PushOf, LineGrows, BackendFrame
  <1>7. CASE StrayEvent
    <2>1. Strayed \in Item
      BY <1>7, EventAssumption DEF StrayEvent, CountInv, Strayed
    <2>2. /\ Strayed.what = emitted + 1 /\ \E known : Broadcast(Strayed, known)
          /\ emitted' = emitted + 1 /\ UNCHANGED <<mode, calls, serving, up, strays>>
      BY <1>7 DEF StrayEvent, Strayed, pageSide, serverSide
    <2>3. QED
      BY <1>1, <2>1, <2>2 DEF Broadcast, PushLine, PushOf, LineGrows, BackendFrame
  <1>8. CASE SetupElsewhere \/ StartSucceeds \/ StartFails
    BY <1>1, <1>8 DEF SetupElsewhere, StartSucceeds, StartFails, NewBridge, transportVars,
                      pageSide, serverSide, socketVars, LineGrows, BackendFrame
  <1>9. CASE SocketOpens \/ SocketCloses \/ SocketRetries
    BY <1>1, <1>9 DEF SocketOpens, SocketCloses, SocketRetries, transportVars, pageSide,
                      serverSide, bridgeVars, LineGrows, BackendFrame
  <1>10. CASE ServerDies
    BY <1>10 DEF ServerDies, TransportDies, pageSide, LineGrows, BackendFrame
  <1>11. CASE ServerRestarts
    BY <1>1, <1>11 DEF ServerRestarts, TransportRevives, NewBridge, backendVars, bridgeVars,
                      pageSide, serverSide, socketVars, LineGrows, BackendFrame
  <1>12. QED
    BY <1>3, <1>4, <1>5, <1>6, <1>7, <1>8, <1>9, <1>10, <1>11 DEF Backend

\* What the page does to it.
PageFrame ==
    /\ UNCHANGED <<mode, up, emitted, serving>>
    /\ strays' = {} <=> strays = {}
    /\ \A c \in Asked : c \in Asked' /\ calls'[c] = calls[c]

LineTaken == \E i \in Arrivals(toPage) : toPage' = Without(toPage, i)

LEMMA SendFrame ==
    ASSUME TransportInv, NEW r \in Route, Send(r), UNCHANGED <<up, strays, emitted>>
    PROVE  PageFrame /\ UNCHANGED toPage
  <1>1. calls \in Seq(Route) /\ Len(calls) \in Nat
    BY DEF TransportInv, TablesInv
  <1>2. calls' = Append(calls, r) /\ UNCHANGED <<mode, serving, toPage>>
    BY DEF Send, serverSide
  <1>3. \A c \in Asked : c \in Asked' /\ calls'[c] = calls[c]
    BY <1>1, <1>2 DEF Asked
  <1>4. QED
    BY <1>2, <1>3 DEF PageFrame

LEMMA SameFrame ==
    ASSUME UNCHANGED <<mode, up, emitted, serving, calls>>, strays' = {} <=> strays = {}
    PROVE  PageFrame
  BY DEF PageFrame, Asked

LEMMA PageTakes ==
    ASSUME TransportInv, Next, ~(Backend /\ UNCHANGED pageVars)
    PROVE  PageFrame /\ (UNCHANGED toPage \/ LineTaken)
  <1> USE DEF backendVars, bridgeVars, sessionVars
  <1>1. CASE PollStatus \/ Submit \/ SetupDone \/ Mount
    BY <1>1, SendFrame DEF PollStatus, Submit, SetupDone, Mount, Route
  <1>2. CASE Unmount \/ SocketMessage
    BY <1>2, SameFrame DEF Unmount, Disconnect, SocketMessage, transportVars, pageSide, serverSide
  <1>3. ASSUME NEW i, StatusArrives(i) \/ SetupArrives(i) \/ EventsArrive(i)
        PROVE  PageFrame /\ LineTaken
    BY <1>3, SameFrame DEF StatusArrives, SetupArrives, EventsArrive, Receive, serverSide, LineTaken
  <1>4. ASSUME NEW i, AnswerTooLate(i) \/ PushArrives(i)
        PROVE  PageFrame /\ LineTaken
    BY <1>4, SameFrame DEF AnswerTooLate, PushArrives, ReceiveLate, ReceivePush, pageSide,
                           serverSide, LineTaken
  <1>5. ASSUME NEW c, CallFails(c)
        PROVE  PageFrame /\ UNCHANGED toPage
    BY <1>5, SameFrame DEF CallFails, Timeout, ConnectionLost, GiveUp, serverSide
  <1>6. QED
    BY <1>1, <1>2, <1>3, <1>4, <1>5 DEF Next, Delivery

LEMMA Appended ==
    ASSUME AnswersInv, NEW m, toPage' = Append(toPage, m)
    PROVE  /\ Len(toPage) \in Nat /\ DOMAIN toPage = 1 .. Len(toPage)
           /\ DOMAIN toPage' = DOMAIN toPage \cup {Len(toPage) + 1}
           /\ Len(toPage') = Len(toPage) + 1
           /\ toPage'[Len(toPage) + 1] = m
           /\ \A i \in DOMAIN toPage : toPage'[i] = toPage[i]
  <1>1. toPage \in Seq(Message)
    BY DEF AnswersInv
  <1>2. QED
    BY <1>1

LEMMA Took ==
    ASSUME AnswersInv, NEW i \in Arrivals(toPage), toPage' = Without(toPage, i)
    PROVE  /\ i \in DOMAIN toPage
           /\ \A j \in DOMAIN toPage' : \E k \in DOMAIN toPage : k # i /\ toPage'[j] = toPage[k]
  <1>1. toPage \in Seq(Message) /\ i \in DOMAIN toPage
    BY ArrivalsOf DEF AnswersInv
  <1>2. QED
    BY <1>1, WithoutOf

\* Over the pipe it is the first message that is taken.
LEMMA TookFirst ==
    ASSUME AnswersInv, mode = "pipe", NEW i \in Arrivals(toPage), toPage' = Without(toPage, i)
    PROVE  /\ i = 1 /\ toPage # <<>> /\ toPage \in Seq(Message)
           /\ Len(toPage) \in Nat \ {0} /\ DOMAIN toPage = 1 .. Len(toPage)
           /\ DOMAIN toPage' = 1 .. Len(toPage) - 1
           /\ \A j \in DOMAIN toPage' : j + 1 \in DOMAIN toPage /\ toPage'[j] = toPage[j + 1]
  <1>1. toPage \in Seq(Message) /\ i = 1 /\ i \in DOMAIN toPage
    BY DEF AnswersInv, Arrivals
  <1>2. Len(toPage) \in Nat \ {0} /\ DOMAIN toPage = 1 .. Len(toPage) /\ toPage # <<>>
    BY <1>1
  <1>3. toPage' = [j \in 1 .. Len(toPage) - 1 |-> toPage[j + 1]]
    BY <1>1, <1>2 DEF Without
  <1>4. QED
    BY <1>1, <1>2, <1>3

LEMMA SliceLength ==
    ASSUME RingInv
    PROVE  Len(Slice(0, FetchLimit)) <= FetchLimit
  <1> DEFINE last == IF FetchLimit < count THEN FetchLimit ELSE count
  <1>1. count \in Nat /\ FetchLimit \in Nat /\ last \in 0 .. count /\ last <= FetchLimit
    BY CapacityAssumption, EventAssumption DEF RingInv
  <1>2. ToArray \in Seq(Item) /\ Len(ToArray) = count
    <2>1. ToArray = [i \in 1 .. count |-> items[Place(i)]]
      BY DEF ToArray, Place
    <2>2. QED
      BY <1>1, <2>1 DEF RingInv
  <1>3. Slice(0, FetchLimit) = SubSeq(ToArray, 1, last)
    <2>1. 0 + FetchLimit = FetchLimit /\ 0 + 1 = 1
      BY <1>1
    <2>2. QED
      BY <2>1 DEF Slice
  <1> HIDE DEF last
  <1>4. Len(Slice(0, FetchLimit)) = last
    BY <1>1, <1>2, <1>3
  <1>5. QED
    BY <1>1, <1>4

LEMMA AnswerShaped ==
    ASSUME TransportInv, RingInv, NEW c \in Asked, NEW body \in Body, Answers(c, body)
    PROVE  Shaped(AnswerTo(c, body))
  <1>1. AnswerTo(c, body).call = c /\ AnswerTo(c, body).body = body
    BY DEF AnswerTo
  <1>2. Len(<<>>) <= FetchLimit
    BY EventAssumption
  <1>3. CASE calls[c] = "status" /\ body = Says(IF up THEN "watching" ELSE "setup")
    BY <1>1, <1>2, <1>3 DEF Says, Shaped
  <1>4. CASE calls[c] = "events" /\ body.list = (IF up THEN Slice(0, FetchLimit) ELSE <<>>)
    BY <1>1, <1>2, <1>4, SliceLength DEF Shaped, Asks
  <1>5. CASE calls[c] = "setup" /\ body.list = <<>>
    BY <1>1, <1>2, <1>5 DEF Shaped, Asks
  <1>6. QED
    BY <1>3, <1>4, <1>5 DEF Answers

LEMMA ShapesNext ==
    ASSUME TransportInv, RingInv, CountInv, ShapesInv, [Next]_vars
    PROVE  ShapesInv'
  <1>1. AnswersInv
    BY DEF TransportInv
  <1>2. ASSUME NEW m, Shaped(m), m.call # 0 => m.call \in Asked,
               \A c \in Asked : calls'[c] = calls[c]
        PROVE  Shaped(m)'
    BY <1>2 DEF Shaped, Asks
  <1>3. \A i \in DOMAIN toPage : toPage[i].call # 0 => toPage[i].call \in Asked
    BY <1>1 DEF AnswersInv
  <1>4. CASE Backend /\ UNCHANGED pageVars
    <2>1. LineGrows /\ BackendFrame
      BY <1>4, BackendGrows
    <2>2. \A c \in Asked : calls'[c] = calls[c]
      BY <2>1 DEF BackendFrame
    <2>3. \A c \in serving' : calls'[c] = "setup"
      BY <2>1 DEF BackendFrame
    <2>4. ASSUME UNCHANGED toPage \/ toPage' = <<>>
          PROVE  \A i \in DOMAIN toPage' : Shaped(toPage[i])'
      BY <1>2, <1>3, <2>2, <2>4 DEF ShapesInv
    <2>5. ASSUME NEW m, toPage' = Append(toPage, m), Shaped(m), m.call # 0 => m.call \in Asked
          PROVE  \A i \in DOMAIN toPage' : Shaped(toPage[i])'
      BY <1>1, <1>2, <1>3, <2>2, <2>5, Appended DEF ShapesInv
    <2>6. ASSUME NEW c \in Asked, NEW body \in Body, Answers(c, body),
                 toPage' = Append(toPage, AnswerTo(c, body))
          PROVE  \A i \in DOMAIN toPage' : Shaped(toPage[i])'
      <3>1. AnswerTo(c, body).call \in Asked
        BY DEF AnswerTo
      <3>2. QED
        BY <2>5, <2>6, <3>1, AnswerShaped
    <2>7. ASSUME NEW e, toPage' = Append(toPage, PushOf(e))
          PROVE  \A i \in DOMAIN toPage' : Shaped(toPage[i])'
      <3>1. PushOf(e).call = 0
        BY DEF PushOf
      <3>2. Shaped(PushOf(e))
        BY <3>1 DEF Shaped, Asks
      <3>3. QED
        BY <2>5, <2>7, <3>1, <3>2
    <2>8. \A i \in DOMAIN toPage' : Shaped(toPage[i])'
      BY <2>1, <2>4, <2>6, <2>7 DEF LineGrows
    <2>9. QED
      BY <2>3, <2>8 DEF ShapesInv
  <1>5. CASE Next /\ ~(Backend /\ UNCHANGED pageVars)
    <2>1. PageFrame /\ (UNCHANGED toPage \/ LineTaken)
      BY <1>5, PageTakes
    <2>2. \A c \in Asked : calls'[c] = calls[c]
      BY <2>1 DEF PageFrame
    <2>3. \A c \in serving' : calls'[c] = "setup"
      BY <2>1, <2>2 DEF PageFrame, ShapesInv, TransportInv, RequestsInv
    <2>4. \A i \in DOMAIN toPage' : \E k \in DOMAIN toPage : toPage'[i] = toPage[k]
      BY <1>1, <2>1, Took DEF LineTaken
    <2>5. \A i \in DOMAIN toPage' : Shaped(toPage[i])'
      BY <1>2, <1>3, <2>2, <2>4 DEF ShapesInv
    <2>6. QED
      BY <2>3, <2>5 DEF ShapesInv
  <1>6. CASE UNCHANGED vars
    BY <1>6 DEF vars, transportVars, pageSide, serverSide, ShapesInv, Shaped, Asks
  <1>7. QED
    BY <1>4, <1>5, <1>6

-----------------------------------------------------------------------------
(***************************************************************************)
(* The dashboard.  Over the pipe, and until a bridge has lost its place, a *)
(* status is never followed by one of an earlier state: once a session has *)
(* been seen, every later answer and every answer still on its way tells   *)
(* of it, and the worker does not end.                                     *)
(***************************************************************************)
Watching(m) == m.body.state = "watching"

StatusOrder ==
    \A i \in DOMAIN toPage : Asks(toPage[i], "status") =>
        /\ Watching(toPage[i]) => up
        /\ status = "watching" => Watching(toPage[i])
        /\ \A j \in DOMAIN toPage :
            i < j /\ Watching(toPage[i]) /\ Asks(toPage[j], "status") => Watching(toPage[j])

DashboardInv ==
    mode = "pipe" /\ strays = {} =>
        /\ StatusOrder
        /\ status = "watching" => up
        /\ mounted => status = "watching"

\* A call on its way keeps its route.
LEMMA SameRoute ==
    ASSUME AnswersInv, \A c \in Asked : calls'[c] = calls[c], NEW i \in DOMAIN toPage, NEW r,
           NEW m, m = toPage[i]
    PROVE  Asks(m, r)' <=> Asks(toPage[i], r)
  BY DEF AnswersInv, Asks

LEMMA OrderGrows ==
    ASSUME AnswersInv, mode = "pipe", StatusOrder, status = "watching" => up,
           LineGrows, BackendFrame, strays' = {}, UNCHANGED status
    PROVE  StatusOrder'
  <1> DEFINE Told(m) == m.call # 0 /\ calls[m.call] = "status"
  <1>1. (up => up') /\ calls' = calls
    BY DEF BackendFrame
  <1>2. /\ \A i \in DOMAIN toPage : Told(toPage[i]) =>
            /\ Watching(toPage[i]) => up
            /\ status = "watching" => Watching(toPage[i])
            /\ \A j \in DOMAIN toPage :
                i < j /\ Watching(toPage[i]) /\ Told(toPage[j]) => Watching(toPage[j])
    BY DEF StatusOrder, Asks
  <1>3. CASE UNCHANGED toPage
    BY <1>1, <1>2, <1>3 DEF StatusOrder, Asks, Watching
  <1>4. ASSUME NEW m, toPage' = Append(toPage, m),
               Told(m) => (Watching(m) <=> up)
        PROVE  StatusOrder'
    <2> DEFINE n == Len(toPage) + 1
    <2>1. /\ n \in Nat /\ DOMAIN toPage' = DOMAIN toPage \cup {n} /\ toPage'[n] = m
          /\ \A i \in DOMAIN toPage : i \in Nat /\ toPage'[i] = toPage[i] /\ i < n
      BY <1>4, Appended
    <2> HIDE DEF n
    <2>2. ASSUME NEW i \in DOMAIN toPage', Told(toPage'[i])
          PROVE  /\ Watching(toPage'[i]) => up
                 /\ status = "watching" => Watching(toPage'[i])
                 /\ \A j \in DOMAIN toPage' :
                     i < j /\ Watching(toPage'[i]) /\ Told(toPage'[j]) => Watching(toPage'[j])
      <3>1. CASE i = n
        <4>1. \A j \in DOMAIN toPage' : ~(i < j)
          BY <2>1, <3>1
        <4>2. QED
          BY <1>4, <2>1, <2>2, <3>1, <4>1
      <3>2. CASE i \in DOMAIN toPage
        BY <1>2, <1>4, <2>1, <2>2, <3>2
      <3>3. QED
        BY <2>1, <3>1, <3>2
    <2>3. QED
      BY <1>1, <2>2 DEF StatusOrder, Asks, Watching
  <1>5. ASSUME NEW c \in Asked, NEW body \in Body, Answers(c, body),
               toPage' = Append(toPage, AnswerTo(c, body))
        PROVE  StatusOrder'
    <2>1. AnswerTo(c, body).call = c /\ AnswerTo(c, body).body = body
      BY DEF AnswerTo
    <2>2. Told(AnswerTo(c, body)) => (Watching(AnswerTo(c, body)) <=> up)
      BY <1>5, <2>1 DEF Answers, Watching, Says
    <2>3. QED
      BY <1>4, <1>5, <2>2
  <1>6. ASSUME NEW e, toPage' = Append(toPage, PushOf(e))
        PROVE  StatusOrder'
    <2>1. ~Told(PushOf(e))
      BY DEF PushOf
    <2>2. QED
      BY <1>4, <1>6, <2>1
  <1>7. QED
    BY <1>3, <1>5, <1>6 DEF LineGrows

\* The first message goes.
LEMMA OrderTakes ==
    ASSUME AnswersInv, mode = "pipe", StatusOrder, PageFrame, NEW i \in Arrivals(toPage),
           toPage' = Without(toPage, i),
           \/ UNCHANGED status
           \/ Asks(toPage[i], "status") /\ status' = toPage[i].body.state
    PROVE  StatusOrder'
  <1>1. /\ i = 1 /\ Len(toPage) \in Nat \ {0} /\ DOMAIN toPage = 1 .. Len(toPage)
        /\ DOMAIN toPage' = 1 .. Len(toPage) - 1
        /\ \A j \in DOMAIN toPage' : j + 1 \in DOMAIN toPage /\ toPage'[j] = toPage[j + 1]
    BY TookFirst
  <1>2. UNCHANGED up /\ \A c \in Asked : calls'[c] = calls[c]
    BY DEF PageFrame
  <1>3. \A j \in DOMAIN toPage : toPage[j].call # 0 => toPage[j].call \in Asked
    BY DEF AnswersInv
  <1>4. ASSUME NEW j \in DOMAIN toPage'
        PROVE  Asks(toPage[j], "status")' <=> Asks(toPage[j + 1], "status")
    BY <1>1, <1>2, <1>3 DEF Asks
  <1>5. status' = "watching" => \A j \in DOMAIN toPage' :
            Asks(toPage[j + 1], "status") => Watching(toPage[j + 1])
    <2>1. ASSUME NEW j \in DOMAIN toPage', Asks(toPage[j + 1], "status"), status' = "watching"
          PROVE  Watching(toPage[j + 1])
      <3>1. j + 1 \in DOMAIN toPage /\ 1 \in DOMAIN toPage /\ 1 < j + 1
        BY <1>1
      <3>2. CASE UNCHANGED status
        BY <2>1, <3>1, <3>2 DEF StatusOrder
      <3>3. CASE Asks(toPage[1], "status") /\ status' = toPage[1].body.state
        BY <2>1, <3>1, <3>3 DEF StatusOrder, Watching
      <3>4. QED
        BY <1>1, <3>2, <3>3
    <2>2. QED
      BY <2>1
  <1>6. ASSUME NEW j \in DOMAIN toPage', Asks(toPage[j], "status")'
        PROVE  /\ Watching(toPage'[j]) => up
               /\ status' = "watching" => Watching(toPage'[j])
               /\ \A k \in DOMAIN toPage' :
                    j < k /\ Watching(toPage'[j]) /\ Asks(toPage[k], "status")'
                        => Watching(toPage'[k])
    <2>1. Asks(toPage[j + 1], "status") /\ toPage'[j] = toPage[j + 1] /\ j + 1 \in DOMAIN toPage
      BY <1>1, <1>4, <1>6
    <2>2. ASSUME NEW k \in DOMAIN toPage', j < k, Watching(toPage'[j]), Asks(toPage[k], "status")'
          PROVE  Watching(toPage'[k])
      <3>1. /\ Asks(toPage[k + 1], "status") /\ toPage'[k] = toPage[k + 1]
            /\ k + 1 \in DOMAIN toPage /\ j + 1 < k + 1
        BY <1>1, <1>4, <2>2
      <3>2. QED
        BY <2>1, <2>2, <3>1 DEF StatusOrder
    <2>3. (Watching(toPage'[j]) => up) /\ (status' = "watching" => Watching(toPage'[j]))
      BY <1>5, <1>6, <2>1 DEF StatusOrder
    <2>4. QED
      BY <2>2, <2>3
  <1>7. QED
    BY <1>2, <1>6 DEF StatusOrder, Watching

LEMMA OrderStays ==
    ASSUME AnswersInv, StatusOrder, PageFrame, UNCHANGED <<toPage, status>>
    PROVE  StatusOrder'
  <1>1. UNCHANGED up /\ \A c \in Asked : calls'[c] = calls[c]
    BY DEF PageFrame
  <1>2. \A j \in DOMAIN toPage : toPage[j].call # 0 => toPage[j].call \in Asked
    BY DEF AnswersInv
  <1>3. \A j \in DOMAIN toPage : Asks(toPage[j], "status")' <=> Asks(toPage[j], "status")
    BY <1>1, <1>2 DEF Asks
  <1>4. QED
    BY <1>1, <1>3 DEF StatusOrder, Watching

StatusStep ==
    \/ UNCHANGED <<toPage, status, mounted>>
    \/ UNCHANGED <<toPage, status>> /\ status = "watching" /\ mounted'
    \/ UNCHANGED <<toPage, status>> /\ mounted /\ status # "watching" /\ ~mounted'
    \/ \E i \in Arrivals(toPage) :
        /\ toPage' = Without(toPage, i) /\ UNCHANGED mounted
        /\ \/ UNCHANGED status
           \/ Asks(toPage[i], "status") /\ status' = toPage[i].body.state

LEMMA PageStatus ==
    ASSUME Next, ~(Backend /\ UNCHANGED pageVars)
    PROVE  StatusStep
  <1> USE DEF StatusStep
  <1>1. CASE PollStatus \/ Submit \/ SetupDone \/ Mount
    BY <1>1 DEF PollStatus, Submit, SetupDone, Mount, Send, pageVars
  <1>2. CASE Unmount \/ SocketMessage
    BY <1>2 DEF Unmount, SocketMessage, transportVars
  <1>3. ASSUME NEW i, StatusArrives(i)
        PROVE  StatusStep
    BY <1>3 DEF StatusArrives, Receive, AnswerFor, Asks
  <1>4. ASSUME NEW i, SetupArrives(i) \/ EventsArrive(i) \/ AnswerTooLate(i) \/ PushArrives(i)
        PROVE  StatusStep
    BY <1>4 DEF SetupArrives, EventsArrive, AnswerTooLate, PushArrives, Receive, ReceiveLate,
                ReceivePush, pageVars
  <1>5. ASSUME NEW c, CallFails(c)
        PROVE  StatusStep
    BY <1>5 DEF CallFails, Timeout, ConnectionLost, GiveUp
  <1>6. QED
    BY <1>1, <1>2, <1>3, <1>4, <1>5 DEF Next, Delivery

LEMMA DashboardNext ==
    ASSUME TransportInv, RingInv, CountInv, ShapesInv, DashboardInv, [Next]_vars
    PROVE  DashboardInv' /\ (mode = "pipe" /\ mounted /\ strays = {} => mounted')
  <1>1. AnswersInv
    BY DEF TransportInv
  <1>2. CASE Backend /\ UNCHANGED pageVars
    <2>1. LineGrows /\ BackendFrame /\ UNCHANGED <<status, mounted>>
      BY <1>2, BackendGrows DEF pageVars
    <2>2. mode = "pipe" /\ strays' = {} => StatusOrder'
      BY <1>1, <2>1, OrderGrows DEF DashboardInv, BackendFrame
    <2>3. QED
      BY <2>1, <2>2 DEF BackendFrame, DashboardInv
  <1>3. CASE Next /\ ~(Backend /\ UNCHANGED pageVars)
    <2>1. PageFrame /\ StatusStep
      BY <1>3, PageTakes, PageStatus
    <2>2. UNCHANGED <<mode, up>> /\ (strays' = {} <=> strays = {})
      BY <2>1 DEF PageFrame
    <2>3. CASE mode = "pipe" /\ strays = {}
      <3>1. StatusOrder /\ (status = "watching" => up) /\ (mounted => status = "watching")
        BY <2>3 DEF DashboardInv
      <3>2. CASE UNCHANGED <<toPage, status, mounted>>
        BY <1>1, <2>1, <2>2, <3>1, <3>2, OrderStays DEF DashboardInv
      <3>3. CASE UNCHANGED <<toPage, status>> /\ status = "watching" /\ mounted'
        BY <1>1, <2>1, <2>2, <3>1, <3>3, OrderStays DEF DashboardInv
      <3>4. ASSUME NEW i \in Arrivals(toPage), toPage' = Without(toPage, i), UNCHANGED mounted,
                   \/ UNCHANGED status
                   \/ Asks(toPage[i], "status") /\ status' = toPage[i].body.state
            PROVE  DashboardInv' /\ (mounted => mounted')
        <4>1. StatusOrder'
          BY <1>1, <2>1, <2>3, <3>1, <3>4, OrderTakes
        <4>2. i \in DOMAIN toPage
          BY <3>4, ArrivalsOf
        <4>3. (status' = "watching" => up) /\ (mounted => status' = "watching")
          BY <3>1, <3>4, <4>2 DEF StatusOrder, Watching
        <4>4. QED
          BY <2>2, <3>4, <4>1, <4>3 DEF DashboardInv
      <3>5. QED
        BY <2>1, <3>1, <3>2, <3>3, <3>4 DEF StatusStep
    <2>4. QED
      BY <2>2, <2>3 DEF DashboardInv
  <1>4. CASE UNCHANGED vars
    BY <1>4 DEF vars, transportVars, pageSide, backendVars, bridgeVars, sessionVars, pageVars,
                DashboardInv, StatusOrder, Asks, Watching
  <1>5. QED
    BY <1>2, <1>3, <1>4

LEMMA ShapesInvariant == Spec => []ShapesInv
  <1>1. Init => ShapesInv
    BY DEF Init, TransportInit, ShapesInv
  <1>2. TransportInv /\ RingInv /\ CountInv /\ ShapesInv /\ [Next]_vars => ShapesInv'
    BY ShapesNext
  <1>3. QED
    BY <1>1, <1>2, TransportInvariant, RingInvariant, PTL DEF Spec

(***************************************************************************)
(* Over the pipe the dashboard, once mounted, stays (useApi.ts, App.tsx)   *)
(* for as long as no bridge has lost its place to a start that overlapped: *)
(* a poll that times out keeps the status there is, and no answer tells of *)
(* an earlier state than one received before (index.js:58-85).             *)
(***************************************************************************)
THEOREM DashboardIsKept == Spec => DashboardStays
  <1>1. Init => DashboardInv
    BY DEF Init, TransportInit, DashboardInv, StatusOrder
  <1>2. TransportInv /\ RingInv /\ CountInv /\ ShapesInv /\ DashboardInv /\ [Next]_vars
            => DashboardInv' /\ (mode = "pipe" /\ mounted /\ strays = {} => mounted')
    BY DashboardNext
  <1>3. TransportInv /\ RingInv /\ CountInv /\ ShapesInv /\ DashboardInv /\ [Next]_vars
            => [mode = "pipe" /\ mounted /\ strays = {} => mounted']_vars
    BY <1>2
  <1>4. QED
    BY <1>1, <1>2, <1>3, TransportInvariant, RingInvariant, ShapesInvariant, PTL
       DEF Spec, DashboardStays

-----------------------------------------------------------------------------
(***************************************************************************)
(* The pushes behind a place in the pipe.                                  *)
(***************************************************************************)
Pushes(line, from) == {k \in DOMAIN line : from < k /\ line[k].call = 0}

Behind(i) == Cardinality(Pushes(toPage, i))

LEMMA PushesFinite ==
    ASSUME NEW S, NEW line \in Seq(S), NEW from
    PROVE  IsFiniteSet(Pushes(line, from)) /\ Cardinality(Pushes(line, from)) \in Nat
  <1>1. IsFiniteSet(1 .. Len(line))
    BY FS_Interval
  <1>2. Pushes(line, from) \subseteq 1 .. Len(line)
    BY DEF Pushes
  <1>3. QED
    BY <1>1, <1>2, FS_Subset, FS_CardinalityType

LEMMA PushesAppended ==
    ASSUME NEW S, NEW line \in Seq(S), NEW m \in S, NEW i \in 0 .. Len(line)
    PROVE  Cardinality(Pushes(Append(line, m), i))
             = Cardinality(Pushes(line, i)) + (IF m.call = 0 THEN 1 ELSE 0)
  <1> DEFINE n == Len(line) + 1
             longer == Append(line, m)
  <1>1. /\ Len(line) \in Nat /\ DOMAIN line = 1 .. Len(line) /\ n \notin DOMAIN line
        /\ DOMAIN longer = DOMAIN line \cup {n} /\ longer[n] = m /\ i < n
        /\ \A k \in DOMAIN line : longer[k] = line[k]
    OBVIOUS
  <1> HIDE DEF n, longer
  <1>2. IsFiniteSet(Pushes(line, i)) /\ n \notin Pushes(line, i)
    BY <1>1, PushesFinite DEF Pushes
  <1>3. Cardinality(Pushes(line, i)) \in Nat
    BY PushesFinite
  <1>4. CASE m.call = 0
    <2>1. Pushes(longer, i) = Pushes(line, i) \cup {n}
      BY <1>1, <1>4 DEF Pushes
    <2>2. Cardinality(Pushes(longer, i)) = Cardinality(Pushes(line, i)) + 1
      BY <1>2, <2>1, FS_AddElement
    <2>3. QED
      BY <1>4, <2>2 DEF longer
  <1>5. CASE m.call # 0
    <2>1. Pushes(longer, i) = Pushes(line, i)
      BY <1>1, <1>5 DEF Pushes
    <2>2. QED
      BY <1>3, <1>5, <2>1 DEF longer
  <1>6. QED
    BY <1>4, <1>5

LEMMA PushesLast ==
    ASSUME NEW S, NEW line \in Seq(S)
    PROVE  Cardinality(Pushes(line, Len(line))) = 0
  <1>1. Pushes(line, Len(line)) = {}
    BY DEF Pushes
  <1>2. QED
    BY <1>1, FS_EmptySet

LEMMA PushesTaken ==
    ASSUME NEW S, NEW line \in Seq(S), line # <<>>
    PROVE  /\ \A i \in 0 .. Len(line) - 1 :
                Cardinality(Pushes(Without(line, 1), i)) = Cardinality(Pushes(line, i + 1))
           /\ Cardinality(Pushes(line, 0))
                = Cardinality(Pushes(line, 1)) + (IF line[1].call = 0 THEN 1 ELSE 0)
  <1> DEFINE rest == Without(line, 1)
  <1>1. /\ Len(line) \in Nat \ {0} /\ DOMAIN line = 1 .. Len(line) /\ 1 \in DOMAIN line
        /\ rest = [j \in 1 .. Len(line) - 1 |-> line[j + 1]]
    BY DEF Without
  <1> HIDE DEF rest
  <1>2. ASSUME NEW i \in 0 .. Len(line) - 1
        PROVE  Cardinality(Pushes(rest, i)) = Cardinality(Pushes(line, i + 1))
    <2> DEFINE A == Pushes(line, i + 1)
               B == Pushes(rest, i)
               shift == [k \in A |-> k - 1]
    <2>1. \A k \in A : k \in 2 .. Len(line) /\ line[k].call = 0 /\ i + 1 < k
      BY <1>1 DEF Pushes
    <2>2. \A k \in B : k \in 1 .. Len(line) - 1 /\ line[k + 1].call = 0 /\ i < k
      BY <1>1 DEF Pushes
    <2>3. \A k \in A : k - 1 \in B
      BY <1>1, <2>1 DEF Pushes
    <2>4. \A k \in B : k + 1 \in A /\ (k + 1) - 1 = k
      BY <1>1, <2>2 DEF Pushes
    <2> HIDE DEF A, B
    <2>5. shift \in [A -> B]
      BY <2>3
    <2>6. \A j, k \in A : shift[j] = shift[k] => j = k
      BY <2>1
    <2>7. \A k \in B : \E j \in A : shift[j] = k
      BY <2>4
    <2> HIDE DEF shift
    <2>8. shift \in Bijection(A, B)
      BY <2>5, <2>6, <2>7 DEF Bijection, Injection, Surjection, IsInjective
    <2>9. IsFiniteSet(A)
      BY PushesFinite DEF A
    <2>10. QED
      BY <2>8, <2>9, FS_Bijection DEF ExistsBijection, A, B
  <1>3. Cardinality(Pushes(line, 0))
          = Cardinality(Pushes(line, 1)) + (IF line[1].call = 0 THEN 1 ELSE 0)
    <2>0. IsFiniteSet(Pushes(line, 1)) /\ Cardinality(Pushes(line, 1)) \in Nat
      BY PushesFinite
    <2>1. /\ IsFiniteSet(Pushes(line, 1)) /\ 1 \notin Pushes(line, 1)
          /\ Cardinality(Pushes(line, 1)) \in Nat
      BY <2>0 DEF Pushes
    <2>2. CASE line[1].call = 0
      <3>1. Pushes(line, 0) = Pushes(line, 1) \cup {1}
        BY <1>1, <2>2 DEF Pushes
      <3>2. Cardinality(Pushes(line, 0)) = Cardinality(Pushes(line, 1)) + 1
        BY <2>1, <3>1, FS_AddElement
      <3>3. QED
        BY <2>2, <3>2
    <2>3. CASE line[1].call # 0
      <3>1. Pushes(line, 0) = Pushes(line, 1)
        BY <1>1, <2>3 DEF Pushes
      <3>2. QED
        BY <2>1, <2>3, <3>1
    <2>4. QED
      BY <2>2, <2>3
  <1>4. QED
    BY <1>2, <1>3 DEF rest

-----------------------------------------------------------------------------
(***************************************************************************)
(* The events shown.  The list of the ring, of an answer, of a push and of *)
(* the page fall from some last event; the last ones lag behind by the     *)
(* pushes that are still behind them.  Until a bridge has lost its place   *)
(* there is no gap either: the j-th is the j-th last that was emitted.     *)
(***************************************************************************)
Descends(list, last) ==
    /\ \A j \in DOMAIN list : list[j].what <= last
    /\ \A j, k \in DOMAIN list : j < k => list[k].what < list[j].what

Recent(list, last) == \A j \in DOMAIN list : list[j].what = last + 1 - j

Tells(list, last, exact) == Descends(list, last) /\ (exact => Recent(list, last))

RingTells == Tells(ToArray, emitted, strays = {})

\* The last event sent before, or by, the i-th message.
LastAt(i) == emitted - Behind(i)

\* A push is the last event itself, whichever bridge sends it.
Exact(m) == strays = {} \/ m.call = 0

LineTells == \A i \in DOMAIN toPage : Tells(toPage[i].body.list, LastAt(i), Exact(toPage[i]))

ShownTells ==
    /\ Tells(shown, LastAt(0), strays = {})
    /\ ~mounted => shown = <<>>
    /\ wire = <<>>

RecentInv == mode = "pipe" => RingTells /\ LineTells /\ ShownTells

LEMMA NoneTells ==
    ASSUME NEW n, NEW exact
    PROVE  Tells(<<>>, n, exact)
  BY DEF Tells, Recent, Descends

\* A single event is as recent as can be.
LEMMA OneTells ==
    ASSUME NEW e \in Event, NEW exact
    PROVE  Tells(<<e>>, e.what, exact)
  <1>1. DOMAIN <<e>> = {1} /\ <<e>>[1] = e /\ e.what \in Nat
    BY DEF Event
  <1>2. QED
    BY <1>1 DEF Tells, Recent, Descends

\* An event in front of a list, and the list cut.
LEMMA PrefixTells ==
    ASSUME NEW n \in Int, NEW exact, NEW list \in Seq(Event), Tells(list, n, exact),
           NEW e, e.what = n + 1, NEW cap \in Nat
    PROVE  Tells(Log!Prefix(<<e>> \o list, cap), n + 1, exact)
  <1> DEFINE longer == <<e>> \o list
             k == Log!Shorter(Len(longer), cap)
             new == Log!Prefix(longer, cap)
  <1>1. Len(list) \in Nat /\ DOMAIN list = 1 .. Len(list)
    OBVIOUS
  <1>2. /\ Len(longer) = Len(list) + 1 /\ longer[1] = e
        /\ \A i \in 2 .. Len(list) + 1 : longer[i] = list[i - 1]
    BY <1>1
  <1> HIDE DEF longer
  <1>3. k \in 0 .. Len(list) + 1 /\ k \in Nat
    BY <1>1, <1>2 DEF Log!Shorter
  <1>4. new = [i \in 1 .. k |-> longer[i]]
    BY DEF Log!Prefix
  <1> HIDE DEF k, new
  <1>5. DOMAIN new = 1 .. k /\ \A i \in 1 .. k : new[i] = longer[i]
    BY <1>4
  <1>6. ASSUME NEW i \in 2 .. k
        PROVE  /\ i - 1 \in DOMAIN list /\ new[i] = list[i - 1]
               /\ new[i].what \in Int /\ new[i].what <= n
    <2>1. i \in 1 .. k /\ i \in 2 .. Len(list) + 1 /\ i - 1 \in 1 .. Len(list)
      BY <1>1, <1>3
    <2>2. i - 1 \in DOMAIN list /\ new[i] = list[i - 1]
      BY <1>1, <1>2, <1>5, <2>1
    <2>3. list[i - 1] \in Event
      BY <2>2
    <2>4. QED
      BY <2>2, <2>3 DEF Event, Tells, Descends
  <1>7. 1 \in 1 .. k => new[1].what = n + 1
    BY <1>2, <1>5
  <1>8. ASSUME NEW i \in 1 .. k
        PROVE  new[i].what <= n + 1
    <2>1. i = 1 \/ i \in 2 .. k
      BY <1>3
    <2>2. QED
      BY <1>6, <1>7, <2>1
  <1>9. ASSUME NEW i \in 1 .. k, NEW j \in 1 .. k, i < j
        PROVE  new[j].what < new[i].what
    <2>1. j \in 2 .. k /\ (i = 1 \/ i \in 2 .. k)
      BY <1>3, <1>9
    <2>2. CASE i = 1
      BY <1>6, <1>7, <2>1, <2>2
    <2>3. CASE i \in 2 .. k
      <3>1. i - 1 < j - 1
        BY <1>3, <1>9
      <3>2. QED
        BY <1>6, <2>1, <2>3, <3>1 DEF Tells, Descends
    <2>4. QED
      BY <2>1, <2>2, <2>3
  <1>10. ASSUME exact, NEW i \in 1 .. k
         PROVE  new[i].what = (n + 1) + 1 - i
    <2>1. i \in Nat /\ (i = 1 \/ i \in 2 .. k)
      BY <1>3
    <2>2. CASE i = 1
      BY <1>7, <2>2
    <2>3. CASE i \in 2 .. k
      <3>1. list[i - 1].what = n + 1 - (i - 1)
        BY <1>6, <1>10, <2>3 DEF Tells, Recent
      <3>2. QED
        BY <1>6, <2>1, <2>3, <3>1
    <2>4. QED
      BY <2>1, <2>2, <2>3
  <1>11. Descends(new, n + 1)
    BY <1>5, <1>8, <1>9 DEF Descends
  <1>12. exact => Recent(new, n + 1)
    BY <1>5, <1>10 DEF Recent
  <1>13. QED
    BY <1>11, <1>12 DEF Tells, new, longer

EmittedStep ==
    \/ UNCHANGED <<emitted, ringVars>>
    \/ UNCHANGED emitted /\ NewRing
    \/ emitted' = emitted + 1 /\ RingPush(Emitted) /\ Emitted \in Item
    \/ emitted' = emitted + 1 /\ UNCHANGED ringVars /\ strays' # {}

LEMMA StepEmits ==
    ASSUME CountInv, [Next]_vars
    PROVE  EmittedStep
  <1> USE DEF EmittedStep
  <1>1. CASE EngineEvent
    <2>1. Emitted \in Item
      BY <1>1, EventAssumption DEF EngineEvent, CountInv, Emitted
    <2>2. QED
      BY <1>1, <2>1 DEF EngineEvent, Emitted
  <1>2. ASSUME NEW i, GetStatus(i) \/ GetEvents(i) \/ RefuseSetup(i) \/ BeginSetup(i)
        PROVE  EmittedStep
    BY <1>2 DEF GetStatus, GetEvents, RefuseSetup, BeginSetup, backendVars, bridgeVars
  <1>3. ASSUME NEW c, FinishSetup(c)
        PROVE  EmittedStep
    BY <1>3 DEF FinishSetup, NewBridge, backendVars, bridgeVars
  <1>4. CASE StrayEvent
    BY <1>4 DEF StrayEvent, sessionVars
  <1>5. CASE SetupElsewhere \/ StartSucceeds \/ StartFails
    BY <1>5 DEF SetupElsewhere, StartSucceeds, StartFails, NewBridge
  <1>6. CASE SocketOpens \/ SocketCloses \/ SocketRetries
    BY <1>6 DEF SocketOpens, SocketCloses, SocketRetries, bridgeVars
  <1>7. CASE ServerDies \/ ServerRestarts
    BY <1>7 DEF ServerDies, ServerRestarts, NewBridge, backendVars, bridgeVars
  <1>8. CASE Next /\ ~Backend
    BY <1>8, PageOnRing
  <1>9. CASE UNCHANGED vars
    BY <1>9 DEF vars, backendVars, bridgeVars
  <1>10. QED
    BY <1>1, <1>2, <1>3, <1>4, <1>5, <1>6, <1>7, <1>8, <1>9 DEF Backend

LEMMA ArrayOfEvents ==
    ASSUME RingInv, RingFalls
    PROVE  ToArray \in Seq(Event) /\ Len(ToArray) = count /\ count \in Nat
  <1>1. ToArray = [i \in 1 .. count |-> Kept(i)] /\ count \in Nat
    BY CapacityAssumption DEF ToArray, Kept, Place, RingInv
  <1>2. QED
    BY <1>1 DEF RingFalls

LEMMA RingStaysRecent ==
    ASSUME RingInv, CountInv, RingFalls, RingTells, EmittedStep, strays' = {} => strays = {}
    PROVE  RingTells'
  <1> DEFINE whole == strays = {}
  <1>1. Tells(ToArray, emitted, whole)
    BY DEF RingTells
  <1> HIDE DEF whole
  <1>2. emitted \in Nat /\ ToArray \in Seq(Event)
    BY ArrayOfEvents DEF CountInv
  <1>3. CASE UNCHANGED <<emitted, ringVars>>
    <2>1. UNCHANGED ToArray
      BY <1>3, SameRing
    <2>2. QED
      BY <1>3, <2>1 DEF RingTells, Tells
  <1>4. CASE NewRing
    <2>1. ToArray' = <<>>
      BY <1>4, NewRingIsClear DEF Log!Clear
    <2>2. QED
      BY <2>1, NoneTells DEF RingTells
  <1>5. CASE emitted' = emitted + 1 /\ RingPush(Emitted) /\ Emitted \in Item
    <2>1. ToArray' = Log!Prefix(<<Emitted>> \o ToArray, Capacity)
      BY <1>5, RingPushIsPush DEF Log!Push
    <2>2. Emitted.what = emitted + 1 /\ emitted \in Int /\ Capacity \in Nat
      BY <1>2, CapacityAssumption DEF Emitted
    <2>3. Tells(ToArray', emitted + 1, whole)
      BY <1>1, <1>2, <2>1, <2>2, PrefixTells
    <2>4. QED
      BY <1>5, <2>3 DEF RingTells, Tells, whole
  <1>6. CASE emitted' = emitted + 1 /\ UNCHANGED ringVars /\ strays' # {}
    <2>1. UNCHANGED ToArray
      BY <1>6, SameRing
    <2>2. \A j \in DOMAIN ToArray : ToArray[j].what \in Nat
      <3>1. \A j \in DOMAIN ToArray : ToArray[j] \in Event
        BY <1>2
      <3>2. QED
        BY <3>1 DEF Event
    <2>3. Descends(ToArray, emitted + 1)
      BY <1>2, <2>2 DEF RingTells, Tells, Descends
    <2>4. QED
      BY <1>6, <2>1, <2>3 DEF RingTells, Tells
  <1>7. QED
    BY <1>3, <1>4, <1>5, <1>6 DEF EmittedStep

LEMMA SliceTells ==
    ASSUME RingInv, RingFalls, RingTells
    PROVE  Tells(Slice(0, FetchLimit), emitted, strays = {})
  <1> DEFINE last == IF FetchLimit < count THEN FetchLimit ELSE count
             list == Slice(0, FetchLimit)
  <1>1. ToArray \in Seq(Event) /\ Len(ToArray) = count /\ count \in Nat
    BY ArrayOfEvents
  <1>2. last \in 0 .. count
    BY <1>1, EventAssumption
  <1>3. list = SubSeq(ToArray, 1, last)
    <2>1. 0 + FetchLimit = FetchLimit /\ 0 + 1 = 1
      BY EventAssumption
    <2>2. QED
      BY <2>1 DEF Slice
  <1> HIDE DEF last, list
  <1>4. DOMAIN list = 1 .. last /\ \A i \in 1 .. last : list[i] = ToArray[i]
    BY <1>1, <1>2, <1>3
  <1>5. \A i \in DOMAIN list : i \in DOMAIN ToArray /\ list[i] = ToArray[i]
    BY <1>1, <1>2, <1>4
  <1>6. Descends(list, emitted)
    BY <1>5 DEF RingTells, Tells, Descends
  <1>7. strays = {} => Recent(list, emitted)
    BY <1>5 DEF RingTells, Tells, Recent
  <1>8. QED
    BY <1>6, <1>7 DEF Tells, list

\* Messages that are added leave what was there as recent as it was.
LEMMA LastAdded ==
    ASSUME AnswersInv, CountInv, NEW m \in Message, toPage' = Append(toPage, m),
           emitted' = emitted + (IF m.call = 0 THEN 1 ELSE 0), NEW i \in 0 .. Len(toPage)
    PROVE  LastAt(i)' = LastAt(i)
  <1>1. toPage \in Seq(Message) /\ emitted \in Nat
    BY DEF AnswersInv, CountInv
  <1>2. Behind(i) \in Nat
    BY <1>1, PushesFinite DEF Behind
  <1>3. Behind(i)' = Cardinality(Pushes(Append(toPage, m), i))
    BY DEF Behind
  <1>4. Behind(i)' = Behind(i) + (IF m.call = 0 THEN 1 ELSE 0)
    BY <1>1, <1>3, PushesAppended DEF Behind
  <1>5. QED
    BY <1>1, <1>2, <1>4 DEF LastAt

LEMMA LineAdded ==
    ASSUME AnswersInv, AnswersInv', CountInv, CountInv', LineTells, ShownTells,
           strays' = {} => strays = {},
           NEW m \in Message, toPage' = Append(toPage, m),
           emitted' = emitted + (IF m.call = 0 THEN 1 ELSE 0),
           Tells(m.body.list, emitted', Exact(m))
    PROVE  LineTells' /\ LastAt(0)' = LastAt(0)
  <1>0. PICK n : n = Len(toPage) + 1
    OBVIOUS
  <1>1. /\ Len(toPage) \in Nat /\ DOMAIN toPage = 1 .. Len(toPage)
        /\ DOMAIN toPage' = DOMAIN toPage \cup {n}
        /\ Len(toPage') = n /\ toPage'[n] = m
        /\ \A i \in DOMAIN toPage : toPage'[i] = toPage[i]
    BY <1>0, Appended
  <1>2. \A i \in 0 .. Len(toPage) : LastAt(i)' = LastAt(i)
    BY LastAdded
  <1>3. LastAt(n)' = emitted'
    <2>1. toPage' \in Seq(Message) /\ emitted' \in Nat
      BY DEF AnswersInv, CountInv, Message
    <2>2. Cardinality(Pushes(toPage', Len(toPage'))) = 0
      BY <2>1, PushesLast
    <2>3. QED
      BY <1>1, <2>1, <2>2 DEF LastAt, Behind
  <1>4. ASSUME NEW i \in DOMAIN toPage'
        PROVE  Tells(toPage'[i].body.list, LastAt(i)', Exact(toPage[i])')
    <2>1. CASE i \in DOMAIN toPage
      <3>1. LastAt(i)' = LastAt(i) /\ toPage'[i] = toPage[i]
        BY <1>1, <1>2, <2>1
      <3>2. Tells(toPage[i].body.list, LastAt(i), Exact(toPage[i]))
        BY <2>1 DEF LineTells
      <3>3. QED
        BY <3>1, <3>2 DEF Tells, Exact
    <2>2. CASE i = n
      BY <1>1, <1>3, <2>2 DEF Tells, Exact
    <2>3. QED
      BY <1>1, <2>1, <2>2
  <1>5. QED
    BY <1>1, <1>2, <1>4 DEF LineTells, Exact

\* The first message is taken: what lagged behind it now lags behind none.
LEMMA FirstTaken ==
    ASSUME AnswersInv, CountInv, LineTells, mode = "pipe", UNCHANGED emitted,
           strays' = {} <=> strays = {},
           NEW i \in Arrivals(toPage), toPage' = Without(toPage, i)
    PROVE  /\ LineTells' /\ i = 1 /\ i \in DOMAIN toPage
           /\ Tells(toPage[i].body.list, LastAt(0)', Exact(toPage[i]))
           /\ LastAt(0) = LastAt(0)' - (IF toPage[i].call = 0 THEN 1 ELSE 0)
           /\ LastAt(0)' \in Int
  <1>1. /\ i = 1 /\ toPage # <<>> /\ toPage \in Seq(Message)
        /\ Len(toPage) \in Nat \ {0} /\ DOMAIN toPage = 1 .. Len(toPage)
        /\ DOMAIN toPage' = 1 .. Len(toPage) - 1
        /\ \A j \in DOMAIN toPage' : j + 1 \in DOMAIN toPage /\ toPage'[j] = toPage[j + 1]
    BY TookFirst
  <1>2. emitted \in Nat
    BY DEF CountInv
  <1>3. /\ \A j \in 0 .. Len(toPage) - 1 : Behind(j)' = Behind(j + 1)
        /\ Behind(0) = Behind(1) + (IF toPage[1].call = 0 THEN 1 ELSE 0)
    <2>1. toPage' = Without(toPage, 1)
      BY <1>1
    <2>2. QED
      BY <1>1, <2>1, PushesTaken DEF Behind
  <1>4. \A j \in 0 .. Len(toPage) - 1 : LastAt(j)' = LastAt(j + 1)
    BY <1>3 DEF LastAt
  <1>5. Behind(1) \in Nat
    BY <1>1, PushesFinite DEF Behind
  <1>6. LastAt(0)' = LastAt(1) /\ LastAt(1) \in Int
        /\ LastAt(0) = LastAt(1) - (IF toPage[1].call = 0 THEN 1 ELSE 0)
    <2>1. 0 \in 0 .. Len(toPage) - 1 /\ 0 + 1 = 1
      BY <1>1
    <2>2. QED
      BY <1>2, <1>3, <1>4, <1>5, <2>1 DEF LastAt
  <1>7. ASSUME NEW j \in DOMAIN toPage'
        PROVE  Tells(toPage'[j].body.list, LastAt(j)', Exact(toPage[j])')
    <2>1. toPage'[j] = toPage[j + 1] /\ j + 1 \in DOMAIN toPage /\ LastAt(j)' = LastAt(j + 1)
      BY <1>1, <1>4
    <2>2. Tells(toPage[j + 1].body.list, LastAt(j + 1), Exact(toPage[j + 1]))
      BY <2>1 DEF LineTells
    <2>3. QED
      BY <2>1, <2>2 DEF Tells, Exact
  <1>8. Tells(toPage[1].body.list, LastAt(1), Exact(toPage[1]))
    BY <1>1 DEF LineTells
  <1>9. LineTells'
    BY <1>7 DEF LineTells, Exact
  <1>10. QED
    BY <1>1, <1>6, <1>8, <1>9

LEMMA AnswerTells ==
    ASSUME RingInv, RingFalls, RingTells, NEW c \in Asked, NEW body \in Body, Answers(c, body)
    PROVE  Tells(body.list, emitted, strays = {})
  <1>1. CASE calls[c] = "status" /\ body = Says(IF up THEN "watching" ELSE "setup")
    BY <1>1, NoneTells DEF Says
  <1>2. CASE calls[c] = "events" /\ body.list = (IF up THEN Slice(0, FetchLimit) ELSE <<>>)
    BY <1>2, NoneTells, SliceTells
  <1>3. CASE calls[c] = "setup" /\ body.list = <<>>
    BY <1>3, NoneTells
  <1>4. QED
    BY <1>1, <1>2, <1>3 DEF Answers

LEMMA BackendTells ==
    ASSUME TransportInv, TransportInv', RingInv, CountInv, CountInv', EventsInv, EventsInv',
           ShapesInv, RecentInv, Backend, UNCHANGED pageVars, mode = "pipe"
    PROVE  LineTells' /\ ShownTells'
  <1>1. /\ LineGrows /\ UNCHANGED <<wire, shown, mounted>> /\ (strays' = {} => strays = {})
        /\ AnswersInv /\ AnswersInv' /\ RingTells /\ LineTells /\ ShownTells /\ RingFalls
        /\ PipeInv' /\ emitted \in Nat
    BY BackendGrows DEF BackendFrame, pageVars, TransportInv, RecentInv, CountInv, EventsInv
  <1>2. ASSUME LastAt(0)' = LastAt(0)
        PROVE  ShownTells'
    BY <1>1, <1>2 DEF ShownTells, Tells
  <1>3. CASE UNCHANGED <<toPage, emitted>>
    <2>1. \A i : LastAt(i)' = LastAt(i)
      BY <1>3 DEF LastAt, Behind
    <2>2. LineTells'
      BY <1>1, <1>3, <2>1 DEF LineTells, Tells, Exact
    <2>3. QED
      BY <1>2, <2>1, <2>2
  <1>4. ASSUME UNCHANGED emitted, NEW c \in Asked, NEW body \in Body, Answers(c, body),
               toPage' = Append(toPage, AnswerTo(c, body))
        PROVE  LineTells' /\ ShownTells'
    <2> DEFINE m == AnswerTo(c, body)
    <2>1. c # 0 /\ c \in CallId
      BY BoundsAssumption DEF TransportInv, TablesInv, Asked, CallId
    <2>2. m \in Message /\ m.call # 0 /\ m.body = body
      BY <2>1 DEF AnswerTo, Message
    <2>3. Tells(body.list, emitted, strays = {})
      BY <1>1, <1>4, AnswerTells
    <2>4. emitted' = emitted + (IF m.call = 0 THEN 1 ELSE 0)
      BY <1>1, <1>4, <2>2
    <2>5. Tells(m.body.list, emitted', Exact(m))
      BY <1>4, <2>2, <2>3 DEF Tells, Exact
    <2> HIDE DEF m
    <2>6. LineTells' /\ LastAt(0)' = LastAt(0)
      BY <1>1, <1>4, <2>2, <2>4, <2>5, LineAdded DEF m
    <2>7. QED
      BY <1>2, <2>6
  <1>5. ASSUME emitted' = emitted + 1, NEW e \in Item, e.what = emitted + 1,
               toPage' = Append(toPage, PushOf(e))
        PROVE  LineTells' /\ ShownTells'
    <2> DEFINE m == PushOf(e)
    <2>1. m \in Message /\ m.call = 0 /\ m.body.list = <<e>>
      BY <1>5 DEF PushOf, Message, Body, State
    <2>2. emitted' = emitted + (IF m.call = 0 THEN 1 ELSE 0)
      BY <1>5, <2>1
    <2> HIDE DEF m
    <2>3. e \in Event
      <3>1. PICK n : n \in DOMAIN toPage' /\ toPage'[n] = m
        BY <1>1, <1>5, Appended DEF m
      <3>2. EventList(m.body.list)
        BY <1>1, <3>1 DEF PipeInv, GoodMessage
      <3>3. <<e>> \in Seq(Event) /\ 1 \in DOMAIN <<e>> /\ <<e>>[1] = e
        BY <2>1, <3>2 DEF EventList
      <3>4. QED
        BY <3>3
    <2>4. Tells(m.body.list, emitted', Exact(m))
      BY <1>5, <2>1, <2>3, OneTells
    <2>5. LineTells' /\ LastAt(0)' = LastAt(0)
      BY <1>1, <1>5, <2>1, <2>2, <2>4, LineAdded DEF m
    <2>6. QED
      BY <1>2, <2>5
  <1>6. QED
    BY <1>1, <1>3, <1>4, <1>5 DEF LineGrows

LEMMA PageTells ==
    ASSUME TransportInv, CountInv, EventsInv, RecentInv, Next, ~(Backend /\ UNCHANGED pageVars),
           mode = "pipe"
    PROVE  LineTells' /\ ShownTells'
  <1>1. /\ AnswersInv /\ LineTells /\ ShownTells /\ UNCHANGED emitted
        /\ (strays' = {} <=> strays = {})
        /\ PipeInv /\ shown \in Seq(Event)
    BY PageTakes DEF TransportInv, RecentInv, PageFrame, EventsInv, ListInv, EventList
  <1>2. ASSUME UNCHANGED toPage
        PROVE  LineTells' /\ LastAt(0)' = LastAt(0)
    <2>1. \A i : LastAt(i)' = LastAt(i)
      BY <1>1, <1>2 DEF LastAt, Behind
    <2>2. QED
      BY <1>1, <1>2, <2>1 DEF LineTells, Tells, Exact
  <1>3. CASE PollStatus \/ Submit \/ SetupDone \/ Mount
    <2>1. UNCHANGED <<toPage, shown, wire>> /\ (mounted' = mounted \/ mounted')
      BY <1>3 DEF PollStatus, Submit, SetupDone, Mount, Send, backendVars, socketVars, pageVars
    <2>2. QED
      BY <1>1, <1>2, <2>1 DEF ShownTells, Tells
  <1>4. CASE Unmount
    <2>1. UNCHANGED toPage /\ shown' = <<>> /\ wire' = <<>>
      BY <1>4 DEF Unmount, Disconnect, transportVars
    <2>2. QED
      BY <1>2, <2>1, NoneTells DEF ShownTells
  <1>5. CASE SocketMessage
    BY <1>1, <1>5 DEF SocketMessage, ShownTells
  <1>6. ASSUME NEW c, CallFails(c)
        PROVE  LineTells' /\ ShownTells'
    <2>1. UNCHANGED <<toPage, shown, wire, mounted>>
      BY <1>6 DEF CallFails, Timeout, ConnectionLost, GiveUp, backendVars, socketVars
    <2>2. QED
      BY <1>1, <1>2, <2>1 DEF ShownTells, Tells
  <1>7. ASSUME NEW i \in Arrivals(toPage), toPage[i].call # 0, toPage' = Without(toPage, i),
               UNCHANGED <<mounted, wire>>, shown' = shown \/ (mounted /\ shown' = toPage[i].body.list)
        PROVE  LineTells' /\ ShownTells'
    <2>1. /\ LineTells' /\ Tells(toPage[i].body.list, LastAt(0)', strays = {})
          /\ LastAt(0) = LastAt(0)' - 0 /\ LastAt(0)' \in Int
      BY <1>1, <1>7, FirstTaken DEF Exact, Tells
    <2>2. LastAt(0)' = LastAt(0)
      BY <2>1
    <2>3. Tells(shown', LastAt(0)', strays' = {})
      BY <1>1, <1>7, <2>1, <2>2 DEF ShownTells, Tells
    <2>4. QED
      BY <1>1, <1>7, <2>1, <2>3 DEF ShownTells
  <1>8. ASSUME NEW i, StatusArrives(i) \/ SetupArrives(i) \/ EventsArrive(i) \/ AnswerTooLate(i)
        PROVE  LineTells' /\ ShownTells'
    <2>1. /\ i \in Arrivals(toPage) /\ toPage[i].call # 0 /\ toPage' = Without(toPage, i)
          /\ UNCHANGED <<mounted, wire>>
      BY <1>8 DEF StatusArrives, SetupArrives, EventsArrive, AnswerTooLate, Receive,
                  ReceiveLate, backendVars, socketVars, pageVars
    <2>2. shown' = shown \/ (mounted /\ shown' = toPage[i].body.list)
      BY <1>8, Zenon DEF StatusArrives, SetupArrives, EventsArrive, AnswerTooLate, pageVars
    <2>3. QED
      BY <1>7, <2>1, <2>2
  <1>9. ASSUME NEW i, PushArrives(i)
        PROVE  LineTells' /\ ShownTells'
    <2> DEFINE list == toPage[i].body.list
    <2>1. /\ i \in Arrivals(toPage) /\ toPage' = Without(toPage, i) /\ toPage[i].call = 0
          /\ Hear(list[1]) /\ UNCHANGED <<wire, mounted>>
      BY <1>9 DEF PushArrives, ReceivePush, backendVars, socketVars
    <2>2. PICK last \in Int : last = LastAt(0)'
      BY <1>1, <2>1, FirstTaken
    <2>3. /\ LineTells' /\ i \in DOMAIN toPage /\ Recent(list, last) /\ LastAt(0) = last - 1
      BY <1>1, <2>1, <2>2, FirstTaken DEF Exact, Tells
    <2>4. list # <<>> /\ list \in Seq(Event)
      BY <1>1, <2>1, <2>3 DEF PipeInv, GoodMessage, EventList
    <2> HIDE DEF list
    <2>5. 1 \in DOMAIN list
      BY <2>4
    <2>6. list[1].what = last
      BY <2>3, <2>5 DEF Recent
    <2>7. CASE mounted
      <3>1. shown' = Log!Prefix(<<[id |-> nextId, what |-> list[1].what]>> \o shown, MaxShown)
        BY <2>1, <2>7 DEF Hear, Show
      <3>2. last - 1 \in Int /\ (last - 1) + 1 = last /\ Tells(shown, last - 1, strays = {})
        BY <1>1, <2>3 DEF ShownTells
      <3>3. Tells(shown', last, strays = {})
        BY <1>1, <2>6, <3>1, <3>2, PrefixTells, ShownAssumption
      <3>4. QED
        BY <1>1, <2>1, <2>2, <2>3, <2>7, <3>3 DEF ShownTells, Tells
    <2>8. CASE ~mounted
      <3>1. shown' = <<>>
        BY <1>1, <2>1, <2>8 DEF Hear, ShownTells
      <3>2. QED
        BY <1>1, <2>1, <2>3, <3>1, NoneTells DEF ShownTells
    <2>9. QED
      BY <2>7, <2>8
  <1>10. QED
    BY <1>3, <1>4, <1>5, <1>6, <1>8, <1>9 DEF Next, Delivery

LEMMA RecentNext ==
    ASSUME TransportInv, TransportInv', RingInv, CountInv, CountInv', EventsInv, EventsInv',
           ShapesInv, RecentInv, [Next]_vars
    PROVE  RecentInv'
  <1>1. ASSUME mode = "pipe", strays' = {} => strays = {}
        PROVE  RingTells'
    BY <1>1, StepEmits, RingStaysRecent DEF RecentInv, EventsInv
  <1>2. CASE Backend /\ UNCHANGED pageVars
    <2>1. UNCHANGED mode /\ (mode = "pipe" => (strays' = {} => strays = {}))
      BY <1>2, BackendGrows DEF BackendFrame
    <2>2. QED
      BY <1>1, <1>2, <2>1, BackendTells DEF RecentInv
  <1>3. CASE Next /\ ~(Backend /\ UNCHANGED pageVars)
    <2>1. UNCHANGED mode /\ (strays' = {} <=> strays = {})
      BY <1>3, PageTakes DEF PageFrame
    <2>2. QED
      BY <1>1, <1>3, <2>1, PageTells DEF RecentInv
  <1>4. CASE UNCHANGED vars
    <2>1. UNCHANGED <<mode, toPage, emitted, strays, shown, mounted, wire>>
      BY <1>4 DEF vars, transportVars, backendVars, bridgeVars, sessionVars, socketVars, pageVars
    <2>2. \A i : LastAt(i)' = LastAt(i)
      BY <2>1 DEF LastAt, Behind
    <2>3. QED
      BY <1>1, <2>1, <2>2 DEF RecentInv, LineTells, ShownTells, Tells, Exact
  <1>5. QED
    BY <1>2, <1>3, <1>4

(***************************************************************************)
(* Over the pipe the list shows no event twice and none out of order,      *)
(* whatever the list fetched held (useEvents.ts:13-18), whichever pushes   *)
(* were around it (54-62), and whether one session pushes or, after starts *)
(* that overlapped (index.js:93-111, 196-219), several; while it is one it *)
(* is the latest events without a gap, but for the pushes still in the     *)
(* pipe.  For every size of the ring, of a fetch and of the list.          *)
(***************************************************************************)
THEOREM ListIsRecent == Spec => []PipeShowsRecent
  <1>1. Init => RecentInv
    <2> SUFFICES ASSUME Init PROVE RecentInv
      OBVIOUS
    <2>1. count = 0 /\ toPage = <<>> /\ shown = <<>> /\ wire = <<>>
      BY DEF Init, BridgeInit, EmptyRing, TransportInit
    <2>2. ToArray = <<>>
      BY <2>1 DEF ToArray
    <2>3. QED
      BY <2>1, <2>2, NoneTells DEF RecentInv, RingTells, LineTells, ShownTells
  <1>2. TransportInv /\ TransportInv' /\ RingInv /\ CountInv /\ CountInv' /\ EventsInv /\ EventsInv'
            /\ ShapesInv /\ RecentInv /\ [Next]_vars => RecentInv'
    BY RecentNext
  <1>3. TransportInv /\ RecentInv => PipeShowsRecent
    <2> SUFFICES ASSUME TransportInv, RecentInv, mode = "pipe"
                 PROVE  NewestFirst /\ (strays = {} => Latest)
      BY DEF PipeShowsRecent
    <2>1. DOMAIN toPage = 1 .. Len(toPage)
      BY DEF TransportInv, AnswersInv
    <2>2. {i \in DOMAIN toPage : toPage[i].call = 0} = Pushes(toPage, 0)
      BY <2>1 DEF Pushes
    <2>3. PushesInPipe = Behind(0)
      BY <2>2 DEF PushesInPipe, Behind
    <2>4. Descends(shown, LastAt(0)) /\ (strays = {} => Recent(shown, LastAt(0)))
      BY DEF RecentInv, ShownTells, Tells
    <2>5. NewestFirst
      BY <2>4 DEF NewestFirst, Descends
    <2>6. strays = {} => Latest
      BY <2>3, <2>4 DEF Latest, Recent, LastAt
    <2>7. QED
      BY <2>5, <2>6
  <1>4. QED
    BY <1>1, <1>2, <1>3, TransportInvariant, RingInvariant, EventsInvariant, ShapesInvariant, PTL
       DEF Spec

-----------------------------------------------------------------------------
(***************************************************************************)
(* The types.                                                              *)
(***************************************************************************)
BackendTypes ==
    /\ mode \in {"pipe", "http"} /\ alive \in BOOLEAN
    /\ got \in [CallId -> Body]
    /\ items \in [Slot -> Item \cup {Nothing}]
    /\ up \in BOOLEAN /\ starting \in BOOLEAN /\ strays \subseteq BOOLEAN
    /\ registered \in BOOLEAN /\ wire \in Seq(Item)
    /\ socket \in {"off", "connecting", "open", "waiting"}

ScreenTypes ==
    /\ status \in {"none", "setup", "watching"}
    /\ form \in {"idle", "loading", "done"}
    /\ mounted \in BOOLEAN /\ fetch \in CallId \cup {0}
    /\ Len(shown) <= MaxShown

LEMMA RingTypes ==
    ASSUME RingInv, CountInv, BackendTypes, [Next]_vars
    PROVE  items' \in [Slot -> Item \cup {Nothing}]
  <1>1. RingStep /\ head \in Slot /\ items \in [Slot -> Item \cup {Nothing}]
    BY StepOnRing DEF RingInv, BackendTypes
  <1>2. QED
    BY <1>1 DEF RingStep, ringVars, NewRing, RingPush

LEMMA EngineBridgeTypes ==
    ASSUME TransportInv, RingInv, CountInv, BackendTypes, Backend
    PROVE  /\ UNCHANGED <<mode, got>> /\ alive' \in BOOLEAN /\ up' \in BOOLEAN
           /\ starting' \in BOOLEAN /\ strays' \subseteq BOOLEAN
           /\ registered' \in BOOLEAN /\ wire' \in Seq(Item)
           /\ socket' \in {"off", "connecting", "open", "waiting"}
  <1> USE DEF backendVars, bridgeVars, sessionVars, socketVars, pageSide, serverSide, BackendTypes
  <1>1. ASSUME NEW i, GetStatus(i) \/ GetEvents(i) \/ RefuseSetup(i) \/ BeginSetup(i)
        PROVE  UNCHANGED <<mode, got, alive, sessionVars, registered, wire, socket>>
    BY <1>1 DEF GetStatus, GetEvents, RefuseSetup, BeginSetup, AnswerAtOnce, BeginServing
  <1>2. ASSUME NewBridge
        PROVE  /\ UNCHANGED <<wire, socket>>
               /\ up' \in BOOLEAN /\ strays' \subseteq BOOLEAN /\ registered' \in BOOLEAN
    BY <1>2 DEF NewBridge, LeaveBridge
  <1>3. ASSUME NEW c, FinishSetup(c)
        PROVE  /\ UNCHANGED <<mode, got, alive, wire, socket, starting>>
               /\ up' \in BOOLEAN /\ strays' \subseteq BOOLEAN /\ registered' \in BOOLEAN
    BY <1>2, <1>3 DEF FinishSetup, FinishServing
  <1>4. ASSUME NEW e \in Item, NEW known, Broadcast(e, known)
        PROVE  wire' \in Seq(Item)
    <2>1. wire' \in {wire, Append(wire, e)}
      BY <1>4 DEF Broadcast
    <2>2. QED
      BY <2>1
  <1>5. CASE EngineEvent
    <2>1. Emitted \in Item
      BY <1>5, EventAssumption DEF EngineEvent, CountInv, Emitted
    <2>2. QED
      BY <1>4, <1>5, <2>1 DEF EngineEvent, Emitted
  <1>6. CASE StrayEvent
    <2>1. Strayed \in Item
      BY <1>6, EventAssumption DEF StrayEvent, CountInv, Strayed
    <2>2. QED
      BY <1>4, <1>6, <2>1 DEF StrayEvent, Strayed
  <1>7. CASE SetupElsewhere \/ StartSucceeds \/ StartFails
    BY <1>2, <1>7 DEF SetupElsewhere, StartSucceeds, StartFails, LeaveBridge, transportVars
  <1>8. CASE SocketOpens \/ SocketCloses \/ SocketRetries
    BY <1>8 DEF SocketOpens, SocketCloses, SocketRetries, transportVars
  <1>9. CASE ServerDies
    <2>1. /\ UNCHANGED <<mode, got>> /\ alive' = FALSE /\ up' = FALSE /\ registered' = FALSE
          /\ starting' = FALSE /\ strays' = {} /\ wire' = <<>> /\ socket' \in {"off", "waiting"}
      BY <1>9 DEF ServerDies, TransportDies
    <2>2. wire' \in Seq(Item) /\ strays' \subseteq BOOLEAN
      BY <2>1
    <2>3. /\ alive' \in BOOLEAN /\ up' \in BOOLEAN /\ registered' \in BOOLEAN
          /\ starting' \in BOOLEAN /\ socket' \in {"off", "connecting", "open", "waiting"}
      BY <2>1, Zenon
    <2>4. QED
      BY <2>1, <2>2, <2>3, Zenon
  <1>10. CASE ServerRestarts
    BY <1>2, <1>10 DEF ServerRestarts, TransportRevives
  <1>11. QED
    BY <1>1, <1>3, <1>5, <1>6, <1>7, <1>8, <1>9, <1>10 DEF Backend

\* What arrives is of its type.
LEMMA ArrivalTypes ==
    ASSUME TransportInv, ShapesInv, NEW i, NEW route, Receive(i, route)
    PROVE  /\ toPage[i].body \in Body /\ Len(toPage[i].body.list) <= FetchLimit
           /\ route = "status" => toPage[i].body.state \in {"setup", "watching"}
           /\ got \in [CallId -> Body] => got' \in [CallId -> Body]
           /\ UNCHANGED <<mode, alive>>
  <1>1. i \in DOMAIN toPage /\ toPage[i].call # 0 /\ toPage[i] \in Message
    BY ArrivalsOf DEF Receive, TransportInv, AnswersInv
  <1>2. Shaped(toPage[i]) /\ calls[toPage[i].call] = route
    BY <1>1 DEF ShapesInv, Receive, AnswerFor
  <1>3. toPage[i].body \in Body
    BY <1>1 DEF Message
  <1>4. QED
    BY <1>1, <1>2, <1>3 DEF Shaped, Asks, Receive

LEMMA PageMoves ==
    ASSUME TransportInv, EventsInv, EventsInv', ShapesInv, BackendTypes, ScreenTypes, Next,
           ~(Backend /\ UNCHANGED pageVars)
    PROVE  /\ UNCHANGED <<mode, alive, up, starting>> /\ strays' \subseteq BOOLEAN /\ got' \in [CallId -> Body]
           /\ registered' \in BOOLEAN /\ wire' \in Seq(Item)
           /\ socket' \in {"off", "connecting", "open", "waiting"}
           /\ ScreenTypes'
  <1> USE DEF backendVars, bridgeVars, sessionVars, socketVars, BackendTypes, ScreenTypes
  <1>1. CASE PollStatus \/ Submit \/ SetupDone
    BY <1>1 DEF PollStatus, Submit, SetupDone, Send, pageVars
  <1>2. CASE Mount
    <2>1. NextCall \in CallId
      BY <1>2, SendAsks DEF Mount, Route
    <2>2. QED
      BY <1>2, <2>1 DEF Mount, Send
  <1>3. CASE Unmount
    <2>1. /\ UNCHANGED <<mode, alive, up, starting, got, status, form>> /\ registered' = FALSE
          /\ wire' = <<>> /\ socket' = "off" /\ mounted' = FALSE /\ fetch' = 0 /\ shown' = <<>>
      BY <1>3 DEF Unmount, Disconnect, transportVars, pageSide
    <2>6. strays' \subseteq BOOLEAN
      BY <1>3 DEF Unmount, Disconnect
    <2>2. Len(shown') <= MaxShown
      BY <2>1, ShownAssumption
    <2>3. ScreenTypes'
      BY <2>1, <2>2
    <2>4. wire' \in Seq(Item)
      BY <2>1
    <2>5. registered' \in BOOLEAN /\ got' \in [CallId -> Body]
      BY <2>1, Zenon
    <2>7. QED
      BY <2>1, <2>3, <2>4, <2>5, <2>6, Zenon
  <1>4. ASSUME NEW i, StatusArrives(i)
        PROVE  /\ UNCHANGED <<mode, alive, sessionVars, registered, wire, socket>>
               /\ got' \in [CallId -> Body] /\ ScreenTypes'
    BY <1>4, ArrivalTypes DEF StatusArrives
  <1>5. ASSUME NEW i, SetupArrives(i)
        PROVE  /\ UNCHANGED <<mode, alive, sessionVars, registered, wire, socket>>
               /\ got' \in [CallId -> Body] /\ ScreenTypes'
    BY <1>5, ArrivalTypes DEF SetupArrives
  <1>6. ASSUME NEW i, EventsArrive(i)
        PROVE  /\ UNCHANGED <<mode, alive, sessionVars, registered, wire, socket>>
               /\ got' \in [CallId -> Body] /\ ScreenTypes'
    <2>1. Len(toPage[i].body.list) <= MaxShown
      <3>1. /\ Len(toPage[i].body.list) <= FetchLimit /\ toPage[i].body.list \in Seq(Item)
        BY <1>6, ArrivalTypes DEF EventsArrive, Body
      <3>2. Len(toPage[i].body.list) \in Nat
        BY <3>1
      <3>3. QED
        BY <3>1, <3>2, ShownAssumption, EventAssumption
    <2>2. shown' = shown \/ shown' = toPage[i].body.list
      BY <1>6, Zenon DEF EventsArrive
    <2>3. QED
      BY <1>6, <2>1, <2>2, ArrivalTypes DEF EventsArrive
  <1>7. ASSUME NEW i, AnswerTooLate(i)
        PROVE  /\ UNCHANGED <<mode, alive, sessionVars, registered, wire, socket>>
               /\ got' \in [CallId -> Body] /\ ScreenTypes'
    BY <1>7 DEF AnswerTooLate, ReceiveLate, pageSide, pageVars
  <1>8. ASSUME NEW e, Hear(e)
        PROVE  Len(shown') <= MaxShown
    <2>1. CASE mounted
      <3> DEFINE longer == <<[id |-> nextId, what |-> e.what]>> \o shown
                 k == Log!Shorter(Len(longer), MaxShown)
      <3>1. shown' = [j \in 1 .. k |-> longer[j]]
        BY <1>8, <2>1 DEF Hear, Show, Log!Prefix
      <3>2. Len(longer) = Len(shown) + 1 /\ Len(shown) \in Nat
        BY DEF EventsInv, ListInv, EventList
      <3> HIDE DEF longer
      <3>3. k \in Nat /\ k <= MaxShown
        BY <3>2, ShownAssumption DEF Log!Shorter
      <3> HIDE DEF k
      <3>4. DOMAIN shown' = 1 .. k /\ DOMAIN shown' = 1 .. Len(shown') /\ Len(shown') \in Nat
        <4>1. shown' \in Seq(Event)
          BY DEF EventsInv, ListInv, EventList, Event
        <4>2. DOMAIN shown' = 1 .. Len(shown') /\ Len(shown') \in Nat
          BY <4>1
        <4>3. DOMAIN shown' = 1 .. k
          BY <3>1
        <4>4. QED
          BY <4>2, <4>3
      <3>5. QED
        BY <3>3, <3>4
    <2>2. CASE ~mounted
      BY <1>8, <2>2 DEF Hear
    <2>3. QED
      BY <2>1, <2>2
  <1>9. ASSUME NEW i, PushArrives(i)
        PROVE  /\ UNCHANGED <<mode, alive, sessionVars, registered, wire, socket>>
               /\ got' \in [CallId -> Body] /\ ScreenTypes'
    <2>1. /\ UNCHANGED <<mode, alive, got, sessionVars, registered, wire, socket>>
          /\ UNCHANGED <<status, form, mounted, fetch>> /\ Hear(toPage[i].body.list[1])
      BY <1>9 DEF PushArrives, ReceivePush, pageSide
    <2>2. Len(shown') <= MaxShown
      BY <1>8, <2>1
    <2>3. QED
      BY <2>1, <2>2
  <1>10. CASE SocketMessage
    <2>1. /\ UNCHANGED <<mode, alive, got, sessionVars, registered, socket>> /\ wire' = Tail(wire)
          /\ UNCHANGED <<status, form, mounted, fetch>> /\ Hear(wire[1]) /\ wire # <<>>
      BY <1>10 DEF SocketMessage, transportVars, pageSide
    <2>2. Len(shown') <= MaxShown /\ wire' \in Seq(Item)
      BY <1>8, <2>1
    <2>3. QED
      BY <2>1, <2>2
  <1>11. ASSUME NEW c, CallFails(c)
         PROVE  /\ UNCHANGED <<mode, alive, sessionVars, registered, wire, socket>>
                /\ got' \in [CallId -> Body] /\ ScreenTypes'
    BY <1>11 DEF CallFails, Timeout, ConnectionLost, GiveUp
  <1>12. QED
    BY <1>1, <1>2, <1>3, <1>4, <1>5, <1>6, <1>7, <1>9, <1>10, <1>11 DEF Next, Delivery

PageTypes == BackendTypes /\ ScreenTypes

LEMMA TypesNext ==
    ASSUME TransportInv, RingInv, CountInv, EventsInv, EventsInv', ShapesInv, PageTypes,
           [Next]_vars
    PROVE  PageTypes'
  <1>1. items' \in [Slot -> Item \cup {Nothing}]
    BY RingTypes DEF PageTypes
  <1>2. CASE Backend /\ UNCHANGED pageVars
    <2>1. ScreenTypes'
      BY <1>2 DEF pageVars, PageTypes, ScreenTypes
    <2>2. BackendTypes'
      BY <1>1, <1>2, EngineBridgeTypes DEF PageTypes, BackendTypes
    <2>3. QED
      BY <2>1, <2>2 DEF PageTypes
  <1>3. CASE Next /\ ~(Backend /\ UNCHANGED pageVars)
    BY <1>1, <1>3, PageMoves, Zenon DEF PageTypes, BackendTypes
  <1>4. CASE UNCHANGED vars
    BY <1>4 DEF vars, transportVars, pageSide, backendVars, ringVars, bridgeVars, sessionVars,
                socketVars, pageVars, PageTypes, BackendTypes, ScreenTypes
  <1>5. QED
    BY <1>2, <1>3, <1>4

(***************************************************************************)
(* The variables of the page and its backend keep their types, for any     *)
(* bounds; a list that is fetched fits the list that is shown              *)
(* (useEvents.ts: 100 are fetched, 1000 are kept).                         *)
(***************************************************************************)
THEOREM PageTypeCorrect == Spec => []PageTypeOK
  <1>1. Init => PageTypes
    <2> SUFFICES ASSUME Init PROVE PageTypes
      OBVIOUS
    <2>1. BackendTypes
      <3>1. /\ mode \in {"pipe", "http"} /\ alive = TRUE /\ registered = FALSE
            /\ wire = <<>> /\ socket = "off" /\ strays = {}
        BY DEF Init, TransportInit, BridgeInit
      <3>2. got \in [CallId -> Body]
        BY SaysBody DEF Init, TransportInit
      <3>3. items \in [Slot -> Item \cup {Nothing}]
        BY DEF Init, BridgeInit, EmptyRing
      <3>4. wire \in Seq(Item) /\ strays \subseteq BOOLEAN
        BY <3>1
      <3>5. alive \in BOOLEAN /\ registered \in BOOLEAN
        BY <3>1, Zenon
      <3>6. up \in BOOLEAN /\ starting \in BOOLEAN
        BY Zenon DEF Init, BridgeInit
      <3>7. QED
        BY <3>1, <3>2, <3>3, <3>4, <3>5, <3>6, Zenon DEF BackendTypes
    <2>2. ScreenTypes
      <3>1. /\ status = "none" /\ form = "idle" /\ mounted = FALSE /\ fetch = 0 /\ shown = <<>>
        BY DEF Init
      <3>2. Len(shown) <= MaxShown
        BY <3>1, ShownAssumption
      <3>3. QED
        BY <3>1, <3>2 DEF ScreenTypes
    <2>3. QED
      BY <2>1, <2>2 DEF PageTypes
  <1>2. TransportInv /\ RingInv /\ CountInv /\ EventsInv /\ EventsInv' /\ ShapesInv /\ PageTypes
            /\ [Next]_vars => PageTypes'
    BY TypesNext
  <1>3. TransportInv /\ RingInv /\ CountInv /\ EventsInv /\ PageTypes => PageTypeOK
    <2> SUFFICES ASSUME TransportInv, RingInv, CountInv, EventsInv, PageTypes PROVE PageTypeOK
      OBVIOUS
    <2>1. Asked \subseteq CallId
      BY BoundsAssumption DEF TransportInv, TablesInv, Asked, CallId
    <2>2. /\ calls \in Seq(Route) /\ Len(calls) <= MaxCalls
          /\ pending \in SUBSET CallId /\ serving \in SUBSET CallId
          /\ outcome \in [CallId -> Outcome] /\ answered \in [CallId -> Body]
          /\ toServer \in Seq(CallId) /\ toPage \in Seq(Message) /\ deaths \in Nat
      BY <2>1 DEF TransportInv, TablesInv, RequestsInv, AnswersInv
    <2>3. shown \in Seq([id : Nat \ {0}, what : Nat \ {0}]) /\ nextId \in Nat \ {0}
      BY DEF EventsInv, ListInv, EventList, Event
    <2>4. head \in Slot /\ count \in 0 .. Capacity /\ nextEventId \in Nat \ {0} /\ emitted \in Nat
      BY DEF RingInv, CountInv
    <2>5. QED
      BY <2>2, <2>3, <2>4 DEF PageTypes, BackendTypes, ScreenTypes, PageTypeOK
  <1>4. QED
    BY <1>1, <1>2, <1>3, TransportInvariant, RingInvariant, EventsInvariant, ShapesInvariant, PTL
       DEF Spec
=============================================================================
