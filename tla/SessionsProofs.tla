--------------------------- MODULE SessionsProofs ---------------------------
(***************************************************************************)
(* Proofs about the sessions of a process, for any folders and policies    *)
(* and any number of requests and starts.                                  *)
(***************************************************************************)
EXTENDS Sessions, TLAPS

(***************************************************************************)
(* The inductive invariant.  What a request may be at depends on its kind; *)
(* a process that has ended holds nothing; and while no two requests are   *)
(* under way at once, the one there is has the folder of resolvedFolder,   *)
(* and is about a session only if none has started.                        *)
(***************************************************************************)
StartPlace == {"clear", "clearStore", "cleared", "open", "manifest", "resolve",
               "persist", "ready", "start", "list"}
ShutdownPlace == {"clear", "clearStore", "cleared", "stop", "closeManifest", "closeStore",
                  "closeServer"}

Shape(t) ==
    \/ t.kind = "none" /\ t.pc \in {"idle", "done"}
    \/ t.kind = "shutdown" /\ t.pc \in ShutdownPlace /\ t.next = "stop"
    \/ /\ t.kind \in {"boot", "setup", "preview"}
       /\ t.pc \in StartPlace /\ t.next \in {"open", "done"}
       /\ t.folder \in Folder /\ t.session \in Handle

TaskTypes == task \in [Handle -> TaskType] /\ \A r \in Handle : Shape(task[r])

ManagerTypes ==
    /\ config \in [Folder -> Choice] /\ chosen \in [Folder -> Choice]
    /\ storeOpen \subseteq Handle /\ manifestOpen \subseteq Handle
    /\ engineOn \subseteq Handle /\ leaked \subseteq Handle

ProcessTypes ==
    /\ host \in {"web", "pear"} /\ life \in {"exited", "up", "down"}
    /\ engine \in SessionType \cup {None} /\ bridge \in SessionType \cup {None}
    /\ resolvedFolder \in Folder \cup {None} /\ saved \in Folder \cup {None}
    /\ pending \in Handle \cup {None} /\ shutdownCalled \in BOOLEAN
    /\ requests \in 0 .. MaxRequests /\ boots \in 0 .. MaxBoots
    /\ ran \subseteq Folder /\ overlapped \in BOOLEAN

HoldsNothing == life = "exited" => Busy = {} /\ engine = None /\ bridge = None

OneAtATime ==
    ~overlapped =>
        /\ \A r, s \in Busy : r = s
        /\ \A r \in Busy :
            task[r].kind # "shutdown" => task[r].folder = resolvedFolder /\ engine = None
        /\ bridge = engine
        /\ saved \in ran \cup {None}

SessionsInv == TaskTypes /\ ManagerTypes /\ ProcessTypes /\ HoldsNothing /\ OneAtATime

LEMMA TypesOK == TaskTypes /\ ManagerTypes /\ ProcessTypes => SessionsTypeOK
  BY DEF TaskTypes, ManagerTypes, ProcessTypes, SessionsTypeOK

-----------------------------------------------------------------------------
(***************************************************************************)
(* A request under way goes on: it stays what it is, or it is answered.    *)
(***************************************************************************)
Follows(t, old) ==
    /\ t \in TaskType /\ Shape(t)
    /\ t.pc = "done" \/ (t.kind = old.kind /\ t.folder = old.folder)

Advances(r) ==
    /\ r \in Busy
    /\ \E t : Follows(t, task[r]) /\ task' = [task EXCEPT ![r] = t]

LEMMA Handles == Boot \in Handle /\ Request \subseteq Handle
  BY DEF Handle

LEMMA BusyShape ==
    ASSUME TaskTypes, NEW r \in Busy
    PROVE  /\ task[r] \in TaskType
           /\ task[r].kind = "shutdown" =>
                task[r].pc \in ShutdownPlace /\ task[r].next = "stop"
           /\ task[r].kind # "shutdown" =>
                /\ task[r].kind \in {"boot", "setup", "preview"}
                /\ task[r].pc \in StartPlace /\ task[r].next \in {"open", "done"}
                /\ task[r].folder \in Folder /\ task[r].session \in Handle
  BY DEF TaskTypes, Shape, Busy

LEMMA IsBusy ==
    ASSUME NEW r \in Handle, NEW pc \in StartPlace \cup ShutdownPlace, At(r, pc)
    PROVE  r \in Busy
  BY DEF Busy, At, StartPlace, ShutdownPlace

\* The two ways a request goes on: to another place, or to its end.
LEMMA GotoFollows ==
    ASSUME TaskTypes, NEW r \in Busy, NEW pc,
           pc \in IF task[r].kind = "shutdown" THEN ShutdownPlace ELSE StartPlace,
           Goto(r, pc)
    PROVE  Advances(r)
  <1> DEFINE t == [task[r] EXCEPT !.pc = pc]
  <1>1. r \in Handle /\ task' = [task EXCEPT ![r] = t]
    BY DEF TaskTypes, Goto, Busy
  <1>2. t \in TaskType
    BY BusyShape DEF TaskType, Place, StartPlace, ShutdownPlace
  <1>3. Shape(t) /\ t.kind = task[r].kind /\ t.folder = task[r].folder
    BY BusyShape DEF TaskType, Shape
  <1>4. QED
    BY <1>1, <1>2, <1>3 DEF Advances, Follows

LEMMA DoneFollows ==
    ASSUME TaskTypes, NEW r \in Busy, Done(r)
    PROVE  Advances(r)
  <1> DEFINE t == Task("none", task[r].folder, FALSE, None, None, "done", "idle")
  <1>1. t \in TaskType /\ Shape(t) /\ t.pc = "done"
    BY BusyShape DEF TaskType, Shape, Task, Place, Choice
  <1>2. QED
    BY <1>1 DEF Advances, Follows, Done

LEMMA ClearThenAnswerFollows ==
    ASSUME TaskTypes, NEW r \in Busy, task[r].kind # "shutdown", ClearThenAnswer(r)
    PROVE  Advances(r)
  <1>1. CASE pending = None
    BY <1>1, DoneFollows DEF ClearThenAnswer
  <1>2. CASE pending # None
    <2> DEFINE t == [task[r] EXCEPT !.pc = "clear", !.next = "done"]
    <2>1. task' = [task EXCEPT ![r] = t]
      BY <1>2 DEF TaskTypes, ClearThenAnswer, Busy
    <2>2. t \in TaskType
      BY BusyShape DEF TaskType, Place
    <2>3. Shape(t) /\ t.kind = task[r].kind /\ t.folder = task[r].folder
      BY BusyShape DEF TaskType, Shape, StartPlace
    <2>4. QED
      BY <2>1, <2>2, <2>3 DEF Advances, Follows
  <1>3. QED
    BY <1>1, <1>2

-----------------------------------------------------------------------------
(***************************************************************************)
(* The engine manager.                                                     *)
(***************************************************************************)
sameSession == <<closure, counts, history, life, saved>>

LEMMA ManagerAdvances ==
    ASSUME TaskTypes, ManagerTypes, NEW r \in Handle, ManagerStep(r)
    PROVE  Advances(r) /\ ManagerTypes' /\ UNCHANGED sameSession
  <1>1. CASE OpenStore(r)
    <2>1. r \in Busy /\ task[r].kind # "shutdown"
      BY <1>1, IsBusy, BusyShape DEF OpenStore, At, StartPlace, ShutdownPlace
    <2>2. Advances(r)
      BY <1>1, <2>1, GotoFollows DEF OpenStore, StartPlace
    <2>3. QED
      BY <1>1, <2>2 DEF OpenStore, ManagerStep, ManagerTypes, policies, sameSession
  <1>2. CASE OpenManifest(r)
    <2>1. r \in Busy /\ task[r].kind # "shutdown"
      BY <1>2, IsBusy, BusyShape DEF OpenManifest, At, StartPlace, ShutdownPlace
    <2>2. Advances(r)
      BY <1>2, <2>1, GotoFollows DEF OpenManifest, StartPlace
    <2>3. config' \in [Folder -> Choice] /\ chosen' \in [Folder -> Choice]
      BY <1>2 DEF OpenManifest, SetByOthers, policies, ManagerTypes, Choice
    <2>4. QED
      BY <1>2, <2>2, <2>3 DEF OpenManifest, ManagerStep, ManagerTypes, sameSession
  <1>3. CASE ResolvePolicy(r)
    <2>1. r \in Busy /\ task[r].kind # "shutdown"
      BY <1>3, IsBusy, BusyShape DEF ResolvePolicy, At, StartPlace, ShutdownPlace
    <2> DEFINE policy == IF task[r].asked = None THEN config[task[r].folder] ELSE task[r].asked
               t == [task[r] EXCEPT !.pc = "persist", !.policy = policy]
    <2>2. policy \in Choice
      BY <2>1, BusyShape DEF ManagerTypes, TaskType
    <2>3. task' = [task EXCEPT ![r] = t]
      BY <1>3 DEF ResolvePolicy, TaskTypes
    <2> HIDE DEF policy
    <2>4. t \in TaskType
      BY <2>1, <2>2, BusyShape DEF TaskType, Place
    <2>5. Shape(t) /\ t.kind = task[r].kind /\ t.folder = task[r].folder
      BY <2>1, BusyShape DEF TaskType, Shape, StartPlace
    <2>6. Advances(r)
      BY <2>1, <2>3, <2>4, <2>5 DEF Advances, Follows
    <2>7. QED
      BY <1>3, <2>6 DEF ResolvePolicy, ManagerStep, ManagerTypes, policies, resources, sameSession
  <1>4. CASE PersistConfig(r)
    <2>1. r \in Busy /\ task[r].kind # "shutdown"
      BY <1>4, IsBusy, BusyShape DEF PersistConfig, At, StartPlace, ShutdownPlace
    <2>2. Advances(r)
      BY <1>4, <2>1, GotoFollows DEF PersistConfig, StartPlace
    <2>3. config' \in [Folder -> Choice] /\ chosen' \in [Folder -> Choice]
      BY <1>4, <2>1, BusyShape DEF PersistConfig, ManagerTypes, TaskType
    <2>4. QED
      BY <1>4, <2>2, <2>3 DEF PersistConfig, ManagerStep, ManagerTypes, resources, sameSession
  <1>5. CASE ReadyEngine(r)
    <2>1. r \in Busy /\ task[r].kind # "shutdown"
      BY <1>5, IsBusy, BusyShape DEF ReadyEngine, At, StartPlace, ShutdownPlace
    <2>2. Advances(r)
      BY <1>5, <2>1, GotoFollows DEF ReadyEngine, StartPlace
    <2>3. QED
      BY <1>5, <2>1, <2>2, BusyShape DEF ReadyEngine, ManagerStep, ManagerTypes, policies, sameSession
  <1>6. QED
    BY <1>1, <1>2, <1>3, <1>4, <1>5 DEF ManagerStep

(***************************************************************************)
(* The steps that leave the session, the folder and the process alone:     *)
(* clearing, the preview's end, and all of a shutdown but its last.        *)
(***************************************************************************)
sameOwner == <<engine, bridge, resolvedFolder, history, life, saved>>

QuietStep(r) ==
    \/ ClearManifest(r) \/ ClearStore(r) \/ ClearThrows(r) \/ Cleared(r)
    \/ Previewed(r) \/ PreviewFails(r)
    \/ StopEngine(r) \/ CloseManifest(r) \/ CloseStore(r)

LEMMA GoOnFollows ==
    ASSUME TaskTypes, NEW r \in Busy, task[r].pc \in {"clear", "cleared"}, GoOn(r)
    PROVE  Advances(r)
  <1>1. CASE task[r].next = "done"
    BY <1>1, DoneFollows DEF GoOn
  <1>2. CASE task[r].next # "done"
    BY <1>2, BusyShape, GotoFollows DEF GoOn, StartPlace, ShutdownPlace
  <1>3. QED
    BY <1>1, <1>2

LEMMA QuietAdvances ==
    ASSUME TaskTypes, ManagerTypes, ProcessTypes, NEW r \in Handle, QuietStep(r)
    PROVE  Advances(r) /\ ManagerTypes' /\ ProcessTypes' /\ UNCHANGED sameOwner
  <1> USE DEF policies, resources, sameProcess, sameOwner, counts, history, ManagerTypes, ProcessTypes
  <1>1. CASE ClearManifest(r)
    <2>1. r \in Busy
      BY <1>1, IsBusy DEF ClearManifest, StartPlace
    <2>2. Advances(r)
      BY <1>1, <2>1, GoOnFollows, GotoFollows DEF ClearManifest, At, StartPlace, ShutdownPlace
    <2>3. QED
      BY <1>1, <2>2 DEF ClearManifest
  <1>2. CASE ClearStore(r)
    <2>1. r \in Busy
      BY <1>2, IsBusy DEF ClearStore, StartPlace
    <2>2. Advances(r)
      BY <1>2, <2>1, GotoFollows DEF ClearStore, StartPlace, ShutdownPlace
    <2>3. QED
      BY <1>2, <2>2 DEF ClearStore
  <1>3. CASE ClearThrows(r)
    <2>1. r \in Busy
      BY <1>3, IsBusy DEF ClearThrows, StartPlace
    <2>2. Advances(r)
      BY <1>3, <2>1, DoneFollows DEF ClearThrows
    <2>3. QED
      BY <1>3, <2>2 DEF ClearThrows
  <1>4. CASE Cleared(r)
    <2>1. r \in Busy
      BY <1>4, IsBusy DEF Cleared, StartPlace
    <2>2. Advances(r)
      BY <1>4, <2>1, GoOnFollows DEF Cleared, At
    <2>3. QED
      BY <1>4, <2>2 DEF Cleared
  <1>5. CASE Previewed(r)
    <2>1. r \in Busy
      BY <1>5, IsBusy DEF Previewed, StartPlace
    <2>2. Advances(r)
      BY <1>5, <2>1, DoneFollows DEF Previewed
    <2>3. QED
      BY <1>5, <2>2 DEF Previewed
  <1>6. CASE PreviewFails(r)
    <2>1. r \in Busy /\ task[r].kind # "shutdown"
      BY <1>6, IsBusy DEF PreviewFails, PreviewRejects, At, Busy
    <2>2. Advances(r)
      BY <1>6, <2>1, ClearThenAnswerFollows DEF PreviewFails
    <2>3. QED
      BY <1>6, <2>2 DEF PreviewFails, PreviewRejects
  <1>7. CASE StopEngine(r)
    <2>1. r \in Busy /\ task[r].kind = "shutdown"
      BY <1>7, IsBusy, BusyShape DEF StopEngine, At, StartPlace, ShutdownPlace
    <2> DEFINE session == IF Configured THEN engine.session ELSE None
               pc == IF host = "web" THEN "closeManifest" ELSE "closeStore"
               t == [task[r] EXCEPT !.session = session, !.pc = pc]
    <2>2. session \in Handle \cup {None} /\ pc \in {"closeManifest", "closeStore"}
      BY DEF SessionType, Configured
    <2>3. task' = [task EXCEPT ![r] = t]
      BY <1>7 DEF StopEngine, TaskTypes
    <2> HIDE DEF session, pc
    <2>4. t \in TaskType
      BY <2>1, <2>2, BusyShape DEF TaskType, Place
    <2>5. Shape(t) /\ t.kind = task[r].kind /\ t.folder = task[r].folder
      BY <2>1, <2>2, BusyShape DEF TaskType, Shape, ShutdownPlace
    <2>6. Advances(r)
      BY <2>1, <2>3, <2>4, <2>5 DEF Advances, Follows
    <2>7. QED
      BY <1>7, <2>6 DEF StopEngine
  <1>8. CASE CloseManifest(r)
    <2>1. r \in Busy /\ task[r].kind = "shutdown"
      BY <1>8, IsBusy, BusyShape DEF CloseManifest, At, StartPlace, ShutdownPlace
    <2>2. Advances(r)
      BY <1>8, <2>1, GotoFollows DEF CloseManifest, ShutdownPlace
    <2>3. QED
      BY <1>8, <2>2 DEF CloseManifest
  <1>9. CASE CloseStore(r)
    <2>1. r \in Busy /\ task[r].kind = "shutdown"
      BY <1>9, IsBusy, BusyShape DEF CloseStore, At, StartPlace, ShutdownPlace
    <2>2. Advances(r)
      BY <1>9, <2>1, GotoFollows DEF CloseStore, ShutdownPlace
    <2>3. QED
      BY <1>9, <2>2 DEF CloseStore
  <1>10. QED
    BY <1>1, <1>2, <1>3, <1>4, <1>5, <1>6, <1>7, <1>8, <1>9 DEF QuietStep

-----------------------------------------------------------------------------
(***************************************************************************)
(* No request is begun by one that goes on.                                *)
(***************************************************************************)
LEMMA AdvancesTasks ==
    ASSUME TaskTypes, NEW r, Advances(r)
    PROVE  /\ TaskTypes'
           /\ Busy' \subseteq Busy
           /\ \A s \in Busy' : task'[s].kind = task[s].kind /\ task'[s].folder = task[s].folder
  <1>1. PICK t : Follows(t, task[r]) /\ task' = [task EXCEPT ![r] = t]
    BY DEF Advances
  <1>2. r \in Handle /\ r \in Busy
    BY DEF Advances, Busy
  <1>3. task' \in [Handle -> TaskType]
    BY <1>1 DEF TaskTypes, Follows
  <1>4. ASSUME NEW s \in Handle
        PROVE  task'[s] = IF s = r THEN t ELSE task[s]
    BY <1>1, <1>2 DEF TaskTypes
  <1>5. TaskTypes'
    BY <1>1, <1>3, <1>4 DEF TaskTypes, Follows
  <1>6. ASSUME NEW s \in Busy'
        PROVE  s \in Busy /\ task'[s].kind = task[s].kind /\ task'[s].folder = task[s].folder
    <2>1. s \in Handle /\ task'[s].pc \notin {"idle", "done"}
      BY DEF Busy
    <2>2. QED
      BY <1>1, <1>2, <1>4, <2>1 DEF Follows, Busy
  <1>7. QED
    BY <1>5, <1>6

LEMMA AdvancesKeep ==
    ASSUME TaskTypes, HoldsNothing, OneAtATime, NEW r, Advances(r), UNCHANGED sameOwner
    PROVE  TaskTypes' /\ HoldsNothing' /\ OneAtATime'
  <1>1. /\ TaskTypes' /\ Busy' \subseteq Busy
        /\ \A s \in Busy' : task'[s].kind = task[s].kind /\ task'[s].folder = task[s].folder
    BY AdvancesTasks
  <1>2. HoldsNothing'
    BY <1>1 DEF HoldsNothing, sameOwner
  <1>3. OneAtATime'
    <2> SUFFICES ASSUME ~overlapped'
                 PROVE  /\ \A s, u \in Busy' : s = u
                        /\ \A s \in Busy' :
                            task'[s].kind # "shutdown" =>
                                task'[s].folder = resolvedFolder' /\ engine' = None
                        /\ bridge' = engine'
                        /\ saved' \in ran' \cup {None}
      BY DEF OneAtATime
    <2>1. ~overlapped
      BY DEF sameOwner, history
    <2>2. QED
      BY <1>1, <2>1 DEF OneAtATime, sameOwner, history, Starting
  <1>4. QED
    BY <1>1, <1>2, <1>3

(***************************************************************************)
(* The session that has started.  As the only request it has the folder of *)
(* resolvedFolder, and no other is left that would start one.              *)
(***************************************************************************)
LEMMA FinishStep ==
    ASSUME SessionsInv, NEW r \in Handle, Finish(r)
    PROVE  SessionsInv' /\ (~overlapped => engine = None)
  <1>1. r \in Busy /\ Starting(r) /\ task[r].kind # "shutdown"
    BY IsBusy DEF Finish, Starting, StartPlace
  <1>2. Advances(r)
    BY <1>1, DoneFollows DEF Finish, SessionsInv
  <1>3. TaskTypes' /\ Busy' \subseteq Busy
    BY <1>2, AdvancesTasks DEF SessionsInv
  <1>4. task[r].folder \in Folder /\ task[r].session \in Handle /\ task[r].policy \in Choice
    BY <1>1, BusyShape DEF SessionsInv, TaskType
  <1>5. engine' \in SessionType /\ bridge' \in SessionType
    BY <1>4 DEF Finish, SessionType, SessionsInv, ProcessTypes
  <1>6. ManagerTypes' /\ ProcessTypes'
    BY <1>4, <1>5 DEF Finish, SaveLastFolder, SessionsInv, ManagerTypes, ProcessTypes, policies,
                      resources, counts
  <1>7. HoldsNothing' /\ life' = life /\ life # "exited"
    BY <1>1 DEF Finish, SessionsInv, HoldsNothing
  <1>8. ASSUME ~overlapped
        PROVE  /\ Busy' = {} /\ engine = None /\ bridge' = engine'
               /\ saved' \in ran' \cup {None}
    <2>1. /\ Busy \subseteq {r} /\ task[r].folder = resolvedFolder /\ engine = None
          /\ saved \in ran \cup {None}
      BY <1>1, <1>8 DEF SessionsInv, OneAtATime
    <2>2. r \notin Busy'
      <3>1. task'[r].pc = "done"
        BY <1>1 DEF Finish, Done, Task, SessionsInv, TaskTypes
      <3>2. QED
        BY <3>1 DEF Busy
    <2>3. bridge' = engine' /\ saved' \in ran' \cup {None}
      BY <2>1 DEF Finish, SaveLastFolder
    <2>4. QED
      BY <1>3, <2>1, <2>2, <2>3
  <1>9. OneAtATime'
    <2>1. overlapped' = overlapped
      BY DEF Finish
    <2>2. QED
      BY <1>8, <2>1 DEF OneAtATime
  <1>10. QED
    BY <1>3, <1>6, <1>7, <1>8, <1>9 DEF SessionsInv

\* A start that fails leaves no session where there was none.
LEMMA RejectsStep ==
    ASSUME SessionsInv, NEW r \in Handle, Rejects(r)
    PROVE  SessionsInv' /\ (~overlapped => engine' = engine)
  <1>1. r \in Busy /\ Starting(r) /\ task[r].kind # "shutdown"
    BY DEF Rejects, StartRejects, Starting, At, Busy
  <1>2. Advances(r)
    BY <1>1, DoneFollows, ClearThenAnswerFollows DEF Rejects, SessionsInv
  <1>3. /\ TaskTypes' /\ Busy' \subseteq Busy
        /\ \A s \in Busy' : task'[s].kind = task[s].kind /\ task'[s].folder = task[s].folder
    BY <1>2, AdvancesTasks DEF SessionsInv
  <1>4. ManagerTypes' /\ ProcessTypes'
    BY DEF Rejects, StartRejects, SessionsInv, ManagerTypes, ProcessTypes, policies, resources,
           counts, history
  <1>5. HoldsNothing'
    BY <1>1 DEF Rejects, SessionsInv, HoldsNothing
  <1>6. ASSUME ~overlapped
        PROVE  engine = None /\ engine' = None /\ bridge' = None /\ saved' \in ran' \cup {None}
    BY <1>1, <1>6 DEF Rejects, SessionsInv, OneAtATime, history
  <1>7. ASSUME ~overlapped, NEW s \in Busy', task'[s].kind # "shutdown"
        PROVE  task'[s].folder = resolvedFolder'
    <2>1. s = r
      BY <1>1, <1>3, <1>7 DEF SessionsInv, OneAtATime
    <2>2. CASE task[r].kind = "boot"
      <3>1. task'[r].pc = "done"
        BY <1>1, <2>2 DEF Rejects, Done, Task, SessionsInv, TaskTypes
      <3>2. QED
        BY <2>1, <3>1 DEF Busy
    <2>3. CASE task[r].kind # "boot"
      BY <1>1, <1>3, <1>7, <2>1, <2>3 DEF Rejects, SessionsInv, OneAtATime
    <2>4. QED
      BY <2>2, <2>3
  <1>8. OneAtATime'
    <2>1. overlapped' = overlapped
      BY DEF Rejects, history
    <2>2. QED
      BY <1>3, <1>6, <1>7, <2>1 DEF OneAtATime, SessionsInv
  <1>9. QED
    BY <1>3, <1>4, <1>5, <1>6, <1>8 DEF SessionsInv

LEMMA CloseServerStep ==
    ASSUME SessionsInv, NEW r \in Handle, CloseServer(r)
    PROVE  SessionsInv' /\ engine' = engine
  <1>1. r \in Busy
    BY IsBusy DEF CloseServer, ShutdownPlace
  <1>2. Advances(r)
    BY <1>1, DoneFollows DEF CloseServer, SessionsInv
  <1>3. /\ TaskTypes' /\ Busy' \subseteq Busy
        /\ \A s \in Busy' : task'[s].kind = task[s].kind /\ task'[s].folder = task[s].folder
    BY <1>2, AdvancesTasks DEF SessionsInv
  <1>4. ManagerTypes' /\ ProcessTypes' /\ HoldsNothing'
    BY DEF CloseServer, SessionsInv, ManagerTypes, ProcessTypes, HoldsNothing, policies, resources,
           closure, counts, history
  <1>5. OneAtATime'
    BY <1>3 DEF CloseServer, SessionsInv, OneAtATime, closure, history, Starting
  <1>6. QED
    BY <1>3, <1>4, <1>5 DEF SessionsInv, CloseServer, closure

-----------------------------------------------------------------------------
(***************************************************************************)
(* A request arrives: it is the only one, or requests overlap from now on. *)
(***************************************************************************)
LEMMA ArrivalKeeps ==
    ASSUME SessionsInv, NEW r \in Request, Arrives(r),
           NEW t \in TaskType, Shape(t), Begin(r, t),
           t.kind # "shutdown" => t.folder = resolvedFolder' /\ engine = None,
           UNCHANGED <<engine, bridge>>
    PROVE  TaskTypes' /\ HoldsNothing' /\ OneAtATime'
  <1>1. r \in Handle /\ task' = [task EXCEPT ![r] = t] /\ task'[r] = t
    BY Handles DEF Begin, SessionsInv, TaskTypes
  <1>2. TaskTypes'
    BY <1>1 DEF SessionsInv, TaskTypes
  <1>3. HoldsNothing'
    BY DEF Arrives, Serving, HoldsNothing
  <1>4. ASSUME ~overlapped'
        PROVE  Busy' \subseteq {r} /\ ~overlapped /\ saved' \in ran' \cup {None} /\ bridge' = engine'
    <2>1. ~overlapped /\ Busy = {} /\ UNCHANGED <<ran, saved>>
      BY <1>4 DEF Arrives, SessionsInv, ProcessTypes
    <2>2. ASSUME NEW s \in Handle, s # r
          PROVE  task'[s].pc \in {"idle", "done"}
      BY <1>1, <2>1, <2>2 DEF Busy, SessionsInv, TaskTypes
    <2>3. QED
      BY <2>1, <2>2 DEF Busy, SessionsInv, OneAtATime
  <1>5. OneAtATime'
    BY <1>1, <1>4 DEF OneAtATime, Starting
  <1>6. QED
    BY <1>2, <1>3, <1>5

LEMMA ArrivalTypes ==
    ASSUME SessionsInv, NEW r \in Request, Arrives(r)
    PROVE  /\ host' = host /\ life' = life /\ saved' = saved /\ boots' = boots /\ ran' = ran
           /\ requests' \in 0 .. MaxRequests /\ overlapped' \in BOOLEAN
  BY RequestAssumption DEF Arrives, Request, SessionsInv, ProcessTypes

LEMMA SetupTask ==
    ASSUME SessionsInv, NEW r \in Request, NEW folder \in Folder, NEW join \in BOOLEAN,
           NEW policy \in Policy \cup {None}, Setup(r, folder, join, policy)
    PROVE  /\ pending' \in Handle \cup {None}
           /\ \E session \in Handle, pc \in {"clear", "open", "resolve"} :
                Begin(r, Task("setup", folder, join, policy, session, pc, "open"))
  <1>1. r \in Handle /\ pending \in Handle \cup {None}
    BY Handles DEF SessionsInv, ProcessTypes
  <1>2. ASSUME TakePrepared(r, folder, policy), join = TRUE
        PROVE  /\ pending' = None /\ pending \in Handle
               /\ Begin(r, Task("setup", folder, join, policy, pending, "resolve", "open"))
    BY <1>1, <1>2 DEF TakePrepared
  <1>3. Clearing \in {"clear", "open"}
    BY DEF Clearing
  <1>4. QED
    BY <1>1, <1>2, <1>3 DEF Setup

LEMMA SetupStep ==
    ASSUME SessionsInv, NEW r \in Request, NEW folder \in Folder, NEW join \in BOOLEAN,
           NEW policy \in Policy \cup {None}, Setup(r, folder, join, policy)
    PROVE  SessionsInv' /\ engine' = engine
  <1>1. /\ Arrives(r) /\ engine = None /\ resolvedFolder' = folder
        /\ UNCHANGED <<policies, resources, leaked, engine, bridge, shutdownCalled>>
    BY DEF Setup, Configured
  <1>2. /\ pending' \in Handle \cup {None}
        /\ \E session \in Handle, pc \in {"clear", "open", "resolve"} :
              Begin(r, Task("setup", folder, join, policy, session, pc, "open"))
    BY SetupTask
  <1>3. PICK session \in Handle, pc \in {"clear", "open", "resolve"} :
            Begin(r, Task("setup", folder, join, policy, session, pc, "open"))
    BY <1>2
  <1> DEFINE t == Task("setup", folder, join, policy, session, pc, "open")
  <1>4. t \in TaskType /\ Shape(t) /\ t.kind = "setup" /\ t.folder = folder
    BY DEF Task, TaskType, Shape, Place, Choice, StartPlace
  <1> HIDE DEF t
  <1>5. TaskTypes' /\ HoldsNothing' /\ OneAtATime'
    BY <1>1, <1>3, <1>4, ArrivalKeeps DEF t
  <1>6. ManagerTypes' /\ ProcessTypes'
    BY <1>1, <1>2, ArrivalTypes DEF SessionsInv, ManagerTypes, ProcessTypes, policies, resources
  <1>7. QED
    BY <1>1, <1>5, <1>6 DEF SessionsInv

LEMMA PreviewStep ==
    ASSUME SessionsInv, NEW r \in Request, NEW folder \in Folder, Preview(r, folder)
    PROVE  SessionsInv' /\ engine' = engine
  <1>1. /\ Arrives(r) /\ engine = None /\ resolvedFolder' = folder
        /\ UNCHANGED <<policies, resources, leaked, engine, bridge, pending, shutdownCalled>>
        /\ Begin(r, Task("preview", folder, TRUE, None, r, Clearing, "open"))
    BY DEF Preview, Configured
  <1>2. Clearing \in {"clear", "open"} /\ r \in Handle
    BY Handles DEF Clearing
  <1> DEFINE t == Task("preview", folder, TRUE, None, r, Clearing, "open")
  <1>3. t \in TaskType /\ Shape(t) /\ t.kind = "preview" /\ t.folder = folder
    BY <1>2 DEF Task, TaskType, Shape, Place, Choice, StartPlace
  <1> HIDE DEF t
  <1>4. TaskTypes' /\ HoldsNothing' /\ OneAtATime'
    BY <1>1, <1>3, ArrivalKeeps DEF t
  <1>5. ManagerTypes' /\ ProcessTypes'
    BY <1>1, ArrivalTypes DEF SessionsInv, ManagerTypes, ProcessTypes, policies, resources
  <1>6. QED
    BY <1>1, <1>4, <1>5 DEF SessionsInv

LEMMA ShutdownBegins ==
    ASSUME SessionsInv, NEW r \in Request, Shutdown(r)
    PROVE  SessionsInv' /\ engine' = engine
  <1> DEFINE pc == IF host = "web" /\ pending # None THEN "clear" ELSE "stop"
             t == Task("shutdown", None, FALSE, None, None, pc, "stop")
  <1>1. /\ Arrives(r) /\ shutdownCalled' \in BOOLEAN /\ Begin(r, t)
        /\ UNCHANGED <<policies, resources, leaked, engine, bridge, resolvedFolder, pending>>
    BY DEF Shutdown
  <1>2. t \in TaskType /\ Shape(t) /\ t.kind = "shutdown"
    BY DEF Task, TaskType, Shape, Place, Choice, ShutdownPlace
  <1> HIDE DEF t, pc
  <1>3. TaskTypes' /\ HoldsNothing' /\ OneAtATime'
    BY <1>1, <1>2, ArrivalKeeps
  <1>4. ManagerTypes' /\ ProcessTypes'
    BY <1>1, ArrivalTypes DEF SessionsInv, ManagerTypes, ProcessTypes, policies, resources
  <1>5. QED
    BY <1>1, <1>3, <1>4 DEF SessionsInv

-----------------------------------------------------------------------------
(***************************************************************************)
(* The process ends and starts again.                                      *)
(***************************************************************************)
LEMMA IdleTask == Idle \in TaskType /\ Shape(Idle) /\ Idle.pc = "idle"
  BY DEF Idle, Task, TaskType, Shape, Place, Choice

LEMMA ExitStep ==
    ASSUME SessionsInv, Exit
    PROVE  SessionsInv'
  <1>1. TaskTypes' /\ Busy' = {}
    BY IdleTask DEF Exit, TaskTypes, Busy
  <1>2. ManagerTypes' /\ ProcessTypes'
    BY DEF Exit, SessionsInv, ManagerTypes, ProcessTypes, policies, counts, history
  <1>3. HoldsNothing' /\ OneAtATime'
    BY <1>1 DEF Exit, SessionsInv, HoldsNothing, OneAtATime, history
  <1>4. QED
    BY <1>1, <1>2, <1>3 DEF SessionsInv

LEMMA StartStep ==
    ASSUME SessionsInv, Start
    PROVE  SessionsInv' /\ engine' = engine
  <1>1. Busy = {} /\ engine = None /\ bridge = None
    BY DEF Start, SessionsInv, HoldsNothing
  <1>2. PICK folder \in Folder \cup {None} :
            /\ resolvedFolder' = folder
            /\ IF folder = None THEN UNCHANGED task
               ELSE Begin(Boot, Task("boot", folder, FALSE, None, Boot, "open", "open"))
    BY DEF Start, LoadLastFolder, SessionsInv, ProcessTypes
  <1> DEFINE t == Task("boot", folder, FALSE, None, Boot, "open", "open")
  <1>3. ASSUME folder # None
        PROVE  t \in TaskType /\ Shape(t) /\ t.folder = folder
    BY <1>3, Handles DEF Task, TaskType, Shape, Place, Choice, StartPlace
  <1> HIDE DEF t
  <1>4. TaskTypes' /\ \A s \in Busy' : s = Boot /\ task'[s].folder = folder
    <2>1. CASE folder = None
      BY <1>1, <1>2, <2>1 DEF SessionsInv, TaskTypes, Busy
    <2>2. CASE folder # None
      <3>1. task' = [task EXCEPT ![Boot] = t] /\ Boot \in Handle
        BY <1>2, <2>2, Handles DEF Begin, t
      <3>2. ASSUME NEW s \in Handle
            PROVE  task'[s] = IF s = Boot THEN t ELSE task[s]
        BY <3>1 DEF SessionsInv, TaskTypes
      <3>3. TaskTypes'
        BY <1>3, <2>2, <3>1, <3>2 DEF SessionsInv, TaskTypes
      <3>4. \A s \in Busy' : s = Boot /\ task'[s].folder = folder
        BY <1>1, <1>3, <2>2, <3>2 DEF Busy
      <3>5. QED
        BY <3>3, <3>4
    <2>3. QED
      BY <2>1, <2>2
  <1>5. boots' \in 0 .. MaxBoots /\ life' = "up"
    <2>1. boots \in 0 .. MaxBoots /\ boots < MaxBoots /\ boots' = boots + 1
      BY DEF Start, SessionsInv, ProcessTypes
    <2>2. boots' \in 0 .. MaxBoots
      BY <2>1, BootsAssumption
    <2>3. QED
      BY <2>2 DEF Start
  <1>6. ManagerTypes' /\ ProcessTypes' /\ HoldsNothing'
    BY <1>2, <1>5 DEF Start, SessionsInv, ManagerTypes, ProcessTypes, HoldsNothing, policies,
                      resources, history
  <1>7. OneAtATime'
    BY <1>1, <1>2, <1>4 DEF Start, SessionsInv, OneAtATime, history
  <1>8. QED
    BY <1>4, <1>6, <1>7 DEF SessionsInv, Start

LEMMA PeerStepKeeps ==
    ASSUME SessionsInv, NEW f \in Folder, PeerStep(f)
    PROVE  SessionsInv' /\ engine' = engine
  <1>1. UNCHANGED <<task, resources, leaked, closure, counts, history, life, saved>>
    BY DEF PeerStep, PeerPersists
  <1>2. config' \in [Folder -> Choice] /\ chosen' \in [Folder -> Choice]
    BY DEF PeerStep, PeerPersists, SetByOthers, SessionsInv, ManagerTypes, Choice
  <1>3. QED
    BY <1>1, <1>2 DEF SessionsInv, TaskTypes, ManagerTypes, ProcessTypes, HoldsNothing, OneAtATime,
                      Busy, Starting, resources, closure, counts, history

-----------------------------------------------------------------------------
LEMMA SessionsInitially == Init => SessionsInv
  <1> SUFFICES ASSUME Init
               PROVE  SessionsInv
    OBVIOUS
  <1>1. TaskTypes /\ Busy = {}
    BY IdleTask DEF Init, ManagerInit, TaskTypes, Busy
  <1>2. ManagerTypes
    BY DEF Init, ManagerInit, ManagerTypes, Choice
  <1>3. ProcessTypes
    <2>1. requests \in 0 .. MaxRequests /\ boots \in 0 .. MaxBoots
      BY RequestAssumption, BootsAssumption DEF Init
    <2>2. shutdownCalled \in BOOLEAN /\ overlapped \in BOOLEAN
      BY DEF Init
    <2>3. QED
      BY <2>1, <2>2 DEF Init, ProcessTypes
  <1>4. QED
    BY <1>1, <1>2, <1>3 DEF Init, SessionsInv, HoldsNothing, OneAtATime

\* A step of a request that is under way.
HandleStep(r) ==
    \/ ClearStep(r) \/ ManagerStep(r) \/ Finish(r) \/ Rejects(r)
    \/ Previewed(r) \/ PreviewFails(r) \/ ShutdownStep(r)

LEMMA HandleStepKeeps ==
    ASSUME SessionsInv, NEW r \in Handle, HandleStep(r)
    PROVE  /\ SessionsInv'
           /\ ~overlapped' /\ engine # None /\ life' # "exited" => engine' = engine
  <1>1. CASE ManagerStep(r)
    <2>1. Advances(r) /\ ManagerTypes' /\ UNCHANGED sameSession
      BY <1>1, ManagerAdvances DEF SessionsInv
    <2>2. UNCHANGED sameOwner /\ ProcessTypes'
      BY <2>1 DEF sameSession, sameOwner, closure, counts, history, SessionsInv, ProcessTypes
    <2>3. QED
      BY <2>1, <2>2, AdvancesKeep DEF SessionsInv, sameOwner
  <1>2. CASE QuietStep(r)
    <2>1. Advances(r) /\ ManagerTypes' /\ ProcessTypes' /\ UNCHANGED sameOwner
      BY <1>2, QuietAdvances DEF SessionsInv
    <2>2. QED
      BY <2>1, AdvancesKeep DEF SessionsInv, sameOwner
  <1>3. CASE Finish(r)
    BY <1>3, FinishStep DEF Finish
  <1>4. CASE Rejects(r)
    BY <1>4, RejectsStep DEF Rejects, history
  <1>5. CASE CloseServer(r)
    BY <1>5, CloseServerStep
  <1>6. CASE Exit
    BY <1>6, ExitStep DEF Exit
  <1>7. QED
    BY <1>1, <1>2, <1>3, <1>4, <1>5, <1>6
       DEF HandleStep, ClearStep, ShutdownStep, PearExit, ShutdownThrows, QuietStep

LEMMA SessionsNext ==
    ASSUME SessionsInv, [Next]_vars
    PROVE  /\ SessionsInv'
           /\ ~overlapped' /\ engine # None /\ life' # "exited" => engine' = engine
  <1>1. CASE UNCHANGED vars
    BY <1>1 DEF vars, managerVars, policies, resources, closure, counts, history, SessionsInv,
                TaskTypes, ManagerTypes, ProcessTypes, HoldsNothing, OneAtATime, Busy, Starting
  <1>2. ASSUME NEW r \in Request, NEW folder \in Folder, NEW join \in BOOLEAN,
               NEW policy \in Policy \cup {None}, Setup(r, folder, join, policy)
        PROVE  SessionsInv' /\ engine' = engine
    BY <1>2, SetupStep
  <1>3. ASSUME NEW r \in Request, NEW folder \in Folder, Preview(r, folder)
        PROVE  SessionsInv' /\ engine' = engine
    BY <1>3, PreviewStep
  <1>4. ASSUME NEW r \in Request, Shutdown(r)
        PROVE  SessionsInv' /\ engine' = engine
    BY <1>4, ShutdownBegins
  <1>5. ASSUME NEW r \in Handle, HandleStep(r)
        PROVE  /\ SessionsInv'
               /\ ~overlapped' /\ engine # None /\ life' # "exited" => engine' = engine
    BY <1>5, HandleStepKeeps
  <1>6. ASSUME NEW f \in Folder, PeerStep(f)
        PROVE  SessionsInv' /\ engine' = engine
    BY <1>6, PeerStepKeeps
  <1>7. CASE Exit
    BY <1>7, ExitStep DEF Exit
  <1>8. CASE Start
    BY <1>8, StartStep
  <1>9. QED
    BY <1>1, <1>2, <1>3, <1>4, <1>5, <1>6, <1>7, <1>8 DEF Next, HandleStep

LEMMA SessionsInvHolds == Spec => []SessionsInv
  <1>1. SessionsInv /\ [Next]_vars => SessionsInv'
    BY SessionsNext
  <1>2. QED
    BY <1>1, SessionsInitially, PTL DEF Spec

(***************************************************************************)
(* The variables of a process and its engine manager have their types,     *)
(* however requests overlap.                                               *)
(***************************************************************************)
THEOREM SessionTypes == Spec => []SessionsTypeOK
  <1>1. SessionsInv => SessionsTypeOK
    BY TypesOK DEF SessionsInv
  <1>2. QED
    BY <1>1, SessionsInvHolds, PTL

(***************************************************************************)
(* The status tells of the session that runs, after any requests that did  *)
(* not overlap (engine-bridge.ts, told by web-server.ts and index.js).     *)
(***************************************************************************)
THEOREM StatusIsTheSession == Spec => []BridgeAgrees
  <1>1. SessionsInv => BridgeAgrees
    BY DEF SessionsInv, OneAtATime, BridgeAgrees
  <1>2. QED
    BY <1>1, SessionsInvHolds, PTL

(***************************************************************************)
(* The folder the next launch starts has run, after any requests that did  *)
(* not overlap (last-folder-config.ts).                                    *)
(***************************************************************************)
THEOREM SavedFolderHasRun == Spec => []SavedHasRun
  <1>1. SessionsInv => SavedHasRun
    BY DEF SessionsInv, OneAtATime, SavedHasRun
  <1>2. QED
    BY <1>1, SessionsInvHolds, PTL

(***************************************************************************)
(* No request replaces the session that runs, unless requests overlap.     *)
(***************************************************************************)
THEOREM SessionIsKept == Spec => EngineKept
  <1>1. SessionsInv /\ [Next]_vars =>
            [engine # None /\ ~overlapped' /\ life' # "exited" => engine' = engine]_vars
    BY SessionsNext
  <1>2. QED
    BY <1>1, SessionsInvHolds, PTL DEF Spec, EngineKept

-----------------------------------------------------------------------------
(***************************************************************************)
(* What the sessions hold open and the policies they run with, as long as  *)
(* no two requests are under way at once.                                  *)
(***************************************************************************)

\* The fields of a request after a step.
LEMMA AfterGoto ==
    ASSUME TaskTypes, NEW r \in Handle, NEW pc, Goto(r, pc)
    PROVE  /\ task'[r].pc = pc
           /\ task'[r].kind = task[r].kind /\ task'[r].folder = task[r].folder
           /\ task'[r].asked = task[r].asked /\ task'[r].policy = task[r].policy
           /\ task'[r].session = task[r].session /\ task'[r].next = task[r].next
  BY DEF Goto, TaskTypes, TaskType

LEMMA AfterDone ==
    ASSUME TaskTypes, NEW r \in Handle, Done(r)
    PROVE  task'[r].pc = "done" /\ r \notin Busy'
  BY DEF Done, Task, TaskTypes, Busy

LEMMA AfterBegin ==
    ASSUME TaskTypes, NEW r \in Handle, NEW t, Begin(r, t)
    PROVE  task'[r] = t
  BY DEF Begin, TaskTypes

\* Alone, the request that steps is the only one before and after.
LEMMA Alone ==
    ASSUME SessionsInv, SessionsInv', ~overlapped', overlapped' = overlapped, NEW r, Advances(r)
    PROVE  /\ r \in Handle /\ Busy = {r} /\ Busy' \subseteq {r} /\ ~overlapped
           /\ task[r].kind # "shutdown" =>
                /\ engine = None /\ task[r].kind \in {"boot", "setup", "preview"}
                /\ task[r].folder \in Folder /\ task[r].session \in Handle
           /\ life # "exited"
  <1>1. r \in Busy /\ r \in Handle /\ ~overlapped
    BY DEF Advances, Busy
  <1>2. Busy = {r}
    BY <1>1 DEF SessionsInv, OneAtATime
  <1>3. Busy' \subseteq Busy
    BY AdvancesTasks DEF SessionsInv
  <1>4. QED
    BY <1>1, <1>2, <1>3, BusyShape DEF SessionsInv, OneAtATime, HoldsNothing

-----------------------------------------------------------------------------
(***************************************************************************)
(* Policies: the one that was chosen is the one in the manifest, that of a *)
(* start that has settled it, and that of the session.                     *)
(***************************************************************************)
PolicyOf(t) == chosen[t.folder] # None => t.policy = chosen[t.folder]

PolicySettled(t) ==
    /\ t.pc = "persist" => IF t.asked # None THEN t.policy = t.asked ELSE PolicyOf(t)
    /\ t.pc \in {"ready", "start"} => PolicyOf(t)

PoliciesHold ==
    /\ \A f \in Folder : chosen[f] # None => config[f] = chosen[f]
    /\ engine # None => engine.folder \in Folder /\ PolicyOf(engine)
    /\ \A r \in Busy : PolicySettled(task[r])

PoliciesInv == ~overlapped => PoliciesHold

\* Steps that change neither policies nor engine, nor settle a policy.
LEMMA PoliciesStay ==
    ASSUME SessionsInv, SessionsInv', PoliciesInv, ~overlapped', overlapped' = overlapped,
           UNCHANGED policies, engine' \in {engine, None}, NEW r, Advances(r),
           r \in Busy' =>
                \/ task'[r].pc \notin {"persist", "ready", "start"}
                \/ /\ task[r].pc \in {"ready", "start"} /\ task'[r].pc # "persist"
                   /\ task'[r].folder = task[r].folder /\ task'[r].policy = task[r].policy
    PROVE  PoliciesHold'
  <1>1. Busy = {r} /\ Busy' \subseteq {r} /\ ~overlapped
    BY Alone
  <1>2. PoliciesHold
    BY <1>1 DEF PoliciesInv
  <1>3. \A s \in Busy' : PolicySettled(task[s])'
    BY <1>1, <1>2 DEF PoliciesHold, PolicySettled, PolicyOf, policies
  <1>4. QED
    BY <1>2, <1>3 DEF PoliciesHold, PolicyOf, policies

\* What a peer sets is nobody's choice any more.
LEMMA PeersPolicies ==
    ASSUME ManagerTypes, NEW f \in Folder, NEW p, SetByOthers(f, p),
           \A g \in Folder : chosen[g] # None => config[g] = chosen[g]
    PROVE  /\ \A g \in Folder : chosen'[g] # None => config'[g] = chosen'[g] /\ chosen'[g] = chosen[g]
  BY DEF SetByOthers, ManagerTypes

LEMMA ManagerPolicies ==
    ASSUME SessionsInv, SessionsInv', PoliciesInv, ~overlapped', NEW r \in Handle, ManagerStep(r)
    PROVE  PoliciesHold'
  <1>1. Advances(r) /\ UNCHANGED <<engine, overlapped>>
    BY ManagerAdvances DEF SessionsInv, sameSession, closure, history
  <1>2. /\ Busy = {r} /\ Busy' \subseteq {r} /\ ~overlapped
        /\ PoliciesHold
    BY <1>1, Alone DEF PoliciesInv
  <1>3. TaskTypes /\ ManagerTypes
    BY DEF SessionsInv
  <1>4. CASE OpenStore(r) \/ ReadyEngine(r)
    <2>1. /\ task'[r].folder = task[r].folder /\ task'[r].policy = task[r].policy
          /\ \/ task'[r].pc = "manifest"
             \/ task[r].pc = "ready" /\ task'[r].pc = "start"
      BY <1>3, <1>4, AfterGoto DEF OpenStore, ReadyEngine, At
    <2>2. QED
      BY <1>1, <1>4, <2>1, PoliciesStay DEF OpenStore, ReadyEngine
  <1>5. ASSUME task[r].kind # "shutdown"
        PROVE  engine = None /\ task[r].folder \in Folder
    BY <1>1, <1>5, Alone
  <1>6. ASSUME NEW pc, At(r, pc), pc \in {"manifest", "resolve", "persist"}
        PROVE  engine = None /\ task[r].folder \in Folder
    BY <1>2, <1>3, <1>5, <1>6, BusyShape DEF At, ShutdownPlace
  <1>7. CASE OpenManifest(r)
    <2>1. task'[r].pc \in {"resolve", "list"}
      BY <1>3, <1>7, AfterGoto DEF OpenManifest
    <2>2. task[r].folder \in Folder /\ engine' = None
      BY <1>1, <1>6, <1>7 DEF OpenManifest
    <2>3. \A g \in Folder : chosen'[g] # None => config'[g] = chosen'[g]
      BY <1>2, <1>3, <1>7, <2>2, PeersPolicies DEF OpenManifest, PoliciesHold, policies
    <2>4. QED
      BY <1>2, <2>1, <2>2, <2>3 DEF PoliciesHold, PolicySettled
  <1>8. CASE ResolvePolicy(r)
    <2>1. task[r].folder \in Folder /\ engine' = None
      BY <1>1, <1>6, <1>8 DEF ResolvePolicy
    <2>2. /\ task'[r].pc = "persist" /\ task'[r].folder = task[r].folder
          /\ task'[r].asked = task[r].asked
          /\ task'[r].policy = IF task[r].asked = None THEN config[task[r].folder] ELSE task[r].asked
      BY <1>3, <1>8 DEF ResolvePolicy, TaskTypes, TaskType
    <2>3. PolicySettled(task[r])'
      BY <1>2, <1>8, <2>1, <2>2 DEF ResolvePolicy, PolicySettled, PolicyOf, PoliciesHold, policies
    <2>4. QED
      BY <1>2, <1>8, <2>1, <2>3 DEF ResolvePolicy, PoliciesHold, policies
  <1>9. CASE PersistConfig(r)
    <2>1. task[r].folder \in Folder /\ engine' = None
      BY <1>1, <1>6, <1>9 DEF PersistConfig
    <2> DEFINE folder == task[r].folder
               policy == task[r].policy
    <2>2. /\ config' = [config EXCEPT ![folder] = policy]
          /\ chosen' = [chosen EXCEPT ![folder] = IF task[r].asked = None THEN @ ELSE task[r].asked]
          /\ task'[r].pc = "ready" /\ task'[r].folder = folder /\ task'[r].policy = policy
      BY <1>3, <1>9, AfterGoto DEF PersistConfig
    <2>3. IF task[r].asked # None THEN policy = task[r].asked ELSE PolicyOf(task[r])
      BY <1>2, <1>9 DEF PersistConfig, At, PoliciesHold, PolicySettled
    <2> HIDE DEF policy, folder
    <2>4. folder \in Folder /\ chosen'[folder] \in {None, policy} /\ config'[folder] = policy
      BY <1>3, <2>1, <2>2, <2>3 DEF ManagerTypes, PolicyOf, folder, policy
    <2>5. ASSUME NEW g \in Folder, g # folder
          PROVE  chosen'[g] = chosen[g] /\ config'[g] = config[g]
      BY <1>3, <2>2, <2>5 DEF ManagerTypes
    <2>6. \A g \in Folder : chosen'[g] # None => config'[g] = chosen'[g]
      BY <1>2, <2>4, <2>5 DEF PoliciesHold
    <2>7. PolicySettled(task[r])'
      BY <2>2, <2>4 DEF PolicySettled, PolicyOf
    <2>8. QED
      BY <1>2, <2>1, <2>6, <2>7 DEF PoliciesHold
  <1>10. QED
    BY <1>4, <1>7, <1>8, <1>9 DEF ManagerStep

\* A quiet step settles no policy.
LEMMA QuietPlaces ==
    ASSUME TaskTypes, NEW r \in Handle, QuietStep(r)
    PROVE  r \in Busy' => task'[r].pc \notin {"persist", "ready", "start"}
  <1>1. CASE ClearManifest(r) \/ Cleared(r)
    <2>1. r \in Busy
      BY <1>1, IsBusy DEF ClearManifest, Cleared, StartPlace
    <2>2. task[r].next \in {"open", "stop", "done"}
      BY <2>1, BusyShape
    <2>3. QED
      BY <1>1, <2>2, AfterGoto, AfterDone DEF ClearManifest, Cleared, GoOn
  <1>2. CASE ClearStore(r) \/ CloseManifest(r) \/ CloseStore(r)
    BY <1>2, AfterGoto DEF ClearStore, CloseManifest, CloseStore
  <1>3. CASE ClearThrows(r) \/ Previewed(r)
    BY <1>3, AfterDone DEF ClearThrows, Previewed
  <1>4. CASE PreviewFails(r)
    <2>1. CASE pending = None
      BY <1>4, <2>1, AfterDone DEF PreviewFails, ClearThenAnswer
    <2>2. CASE pending # None
      BY <1>4, <2>2 DEF PreviewFails, ClearThenAnswer, TaskTypes, TaskType
    <2>3. QED
      BY <2>1, <2>2
  <1>5. CASE StopEngine(r)
    BY <1>5 DEF StopEngine, TaskTypes, TaskType
  <1>6. QED
    BY <1>1, <1>2, <1>3, <1>4, <1>5 DEF QuietStep

LEMMA QuietPolicies ==
    ASSUME SessionsInv, SessionsInv', PoliciesInv, ~overlapped', NEW r \in Handle, QuietStep(r)
    PROVE  PoliciesHold'
  <1>1. Advances(r) /\ UNCHANGED <<engine, overlapped>>
    BY QuietAdvances DEF SessionsInv, sameOwner, history
  <1>2. UNCHANGED policies
    BY DEF QuietStep, ClearManifest, ClearStore, ClearThrows, Cleared, Previewed, PreviewFails,
           PreviewRejects, StopEngine, CloseManifest, CloseStore
  <1>3. r \in Busy' => task'[r].pc \notin {"persist", "ready", "start"}
    BY QuietPlaces DEF SessionsInv
  <1>4. QED
    BY <1>1, <1>2, <1>3, PoliciesStay

LEMMA OwnerPolicies ==
    ASSUME SessionsInv, SessionsInv', PoliciesInv, ~overlapped', NEW r \in Handle,
           Finish(r) \/ Rejects(r) \/ CloseServer(r)
    PROVE  PoliciesHold'
  <1>1. TaskTypes
    BY DEF SessionsInv
  <1>2. CASE Finish(r)
    <2>1. r \in Busy /\ ~overlapped
      BY <1>2, IsBusy DEF Finish, StartPlace
    <2>2. Busy = {r} /\ PoliciesHold
      BY <2>1 DEF PoliciesInv, SessionsInv, OneAtATime
    <2>3. Advances(r) /\ r \notin Busy'
      BY <1>1, <1>2, <2>1, AfterDone, DoneFollows DEF Finish
    <2>4. Busy' = {}
      BY <1>1, <2>2, <2>3, AdvancesTasks
    <2>5. PolicyOf(task[r])
      BY <1>2, <2>2 DEF Finish, At, PoliciesHold, PolicySettled
    <2>6. engine'.folder \in Folder /\ PolicyOf(engine)'
      <3>1. task[r].folder \in Folder
        BY <1>1, <1>2, <2>1, BusyShape DEF Finish, Starting
      <3>2. QED
        BY <1>2, <2>5, <3>1 DEF Finish, PolicyOf, policies
    <2>7. QED
      BY <1>2, <2>2, <2>4, <2>6 DEF Finish, PoliciesHold, policies
  <1>3. CASE Rejects(r)
    <2>1. r \in Busy /\ task[r].kind # "shutdown"
      BY <1>3 DEF Rejects, StartRejects, Starting, At, Busy
    <2>2. Advances(r)
      BY <1>1, <1>3, <2>1, DoneFollows, ClearThenAnswerFollows DEF Rejects
    <2>3. r \in Busy' => task'[r].pc \notin {"persist", "ready", "start"}
      <3>1. CASE Done(r)
        BY <1>1, <3>1, AfterDone
      <3>2. CASE ~Done(r)
        BY <1>1, <1>3, <3>2 DEF Rejects, ClearThenAnswer, TaskTypes, TaskType
      <3>3. QED
        BY <3>1, <3>2
    <2>4. UNCHANGED policies /\ engine' \in {engine, None} /\ overlapped' = overlapped
      BY <1>3 DEF Rejects, StartRejects, history
    <2>5. QED
      BY <2>2, <2>3, <2>4, PoliciesStay
  <1>4. CASE CloseServer(r)
    <2>1. r \in Busy
      BY <1>4, IsBusy DEF CloseServer, ShutdownPlace
    <2>2. Advances(r) /\ r \notin Busy'
      BY <1>1, <1>4, <2>1, AfterDone, DoneFollows DEF CloseServer
    <2>3. QED
      BY <1>4, <2>2, PoliciesStay DEF CloseServer, closure, history
  <1>5. QED
    BY <1>2, <1>3, <1>4

LEMMA ArrivalPolicies ==
    ASSUME SessionsInv, SessionsInv', PoliciesInv, ~overlapped', NEW r \in Request, Arrives(r),
           UNCHANGED <<policies, engine>>, NEW t, Begin(r, t),
           t.pc \notin {"persist", "ready", "start"}
    PROVE  PoliciesHold'
  <1>1. ~overlapped /\ Busy = {} /\ PoliciesHold
    BY DEF Arrives, SessionsInv, ProcessTypes, PoliciesInv
  <1>2. \A s \in Busy' : task'[s] = t
    BY <1>1, Handles DEF Busy, Begin, SessionsInv, TaskTypes
  <1>3. QED
    BY <1>1, <1>2 DEF PoliciesHold, PolicySettled, PolicyOf, policies

LEMMA RequestPolicies ==
    ASSUME SessionsInv, SessionsInv', PoliciesInv, ~overlapped', NEW r \in Request,
           \/ \E folder \in Folder, join \in BOOLEAN, policy \in Policy \cup {None} :
                Setup(r, folder, join, policy)
           \/ \E folder \in Folder : Preview(r, folder)
           \/ Shutdown(r)
    PROVE  PoliciesHold'
  <1>1. ASSUME NEW folder \in Folder, NEW join \in BOOLEAN, NEW policy \in Policy \cup {None},
               Setup(r, folder, join, policy)
        PROVE  PoliciesHold'
    <2>1. PICK session \in Handle, pc \in {"clear", "open", "resolve"} :
            Begin(r, Task("setup", folder, join, policy, session, pc, "open"))
      BY <1>1, SetupTask
    <2>2. Task("setup", folder, join, policy, session, pc, "open").pc = pc
      BY DEF Task
    <2>3. QED
      BY <1>1, <2>1, <2>2, ArrivalPolicies DEF Setup
  <1>2. ASSUME NEW folder \in Folder, Preview(r, folder)
        PROVE  PoliciesHold'
    <2>1. Task("preview", folder, TRUE, None, r, Clearing, "open").pc \in {"clear", "open"}
      BY DEF Task, Clearing
    <2>2. QED
      BY <1>2, <2>1, ArrivalPolicies DEF Preview
  <1>3. CASE Shutdown(r)
    <2> DEFINE pc == IF host = "web" /\ pending # None THEN "clear" ELSE "stop"
    <2>1. Task("shutdown", None, FALSE, None, None, pc, "stop").pc \in {"clear", "stop"}
      BY DEF Task
    <2>2. QED
      BY <1>3, <2>1, ArrivalPolicies DEF Shutdown
  <1>4. QED
    BY <1>1, <1>2, <1>3

LEMMA ProcessPolicies ==
    ASSUME SessionsInv, SessionsInv', PoliciesInv, ~overlapped',
           Exit \/ Start \/ \E f \in Folder : PeerStep(f)
    PROVE  PoliciesHold'
  <1>1. ~overlapped /\ PoliciesHold
    <2>1. overlapped' = overlapped
      BY DEF Exit, Start, PeerStep, history
    <2>2. QED
      BY <2>1 DEF PoliciesInv
  <1>2. CASE Exit
    <2>1. Busy' = {}
      BY <1>2, IdleTask DEF Exit, Busy
    <2>2. QED
      BY <1>1, <1>2, <2>1 DEF Exit, PoliciesHold, policies
  <1>3. CASE Start
    <2>1. Busy = {} /\ engine = None /\ UNCHANGED <<policies, engine>>
      BY <1>3 DEF Start, SessionsInv, HoldsNothing
    <2>2. \A s \in Busy' : task'[s].pc = "open"
      BY <1>3, <2>1, Handles DEF Start, Begin, Task, Busy, SessionsInv, TaskTypes
    <2>3. QED
      BY <1>1, <2>1, <2>2 DEF PoliciesHold, PolicySettled, policies
  <1>4. ASSUME NEW f \in Folder, PeerStep(f)
        PROVE  PoliciesHold'
    <2>1. PICK p : SetByOthers(f, p)
      BY <1>4 DEF PeerStep, PeerPersists
    <2>2. UNCHANGED <<task, engine>> /\ Busy' = Busy
      BY <1>4 DEF PeerStep, PeerPersists, closure, Busy
    <2>3. \A g \in Folder :
            chosen'[g] # None => config'[g] = chosen'[g] /\ chosen'[g] = chosen[g]
      BY <1>1, <2>1, PeersPolicies DEF SessionsInv, PoliciesHold
    <2>4. ASSUME NEW t, t.folder \in Folder, PolicyOf(t)
          PROVE  chosen'[t.folder] # None => t.policy = chosen'[t.folder]
      BY <2>3, <2>4 DEF PolicyOf
    <2>5. engine # None => engine.folder \in Folder /\ PolicyOf(engine)'
      BY <1>1, <2>2, <2>4 DEF PoliciesHold, PolicyOf
    <2>6. ASSUME NEW s \in Busy
          PROVE  PolicySettled(task[s])'
      <3>1. PolicySettled(task[s]) /\ task'[s] = task[s]
        BY <1>1, <2>2 DEF PoliciesHold
      <3>2. task[s].pc \in {"persist", "ready", "start"} => task[s].folder \in Folder
        BY BusyShape DEF SessionsInv, ShutdownPlace
      <3>3. QED
        BY <2>4, <3>1, <3>2 DEF PolicySettled, PolicyOf
    <2>7. QED
      BY <2>2, <2>3, <2>5, <2>6 DEF PoliciesHold
  <1>5. QED
    BY <1>2, <1>3, <1>4

LEMMA PoliciesNext ==
    ASSUME SessionsInv, SessionsInv', PoliciesInv, [Next]_vars
    PROVE  PoliciesInv'
  <1> SUFFICES ASSUME ~overlapped'
               PROVE  PoliciesHold'
    BY DEF PoliciesInv
  <1>1. CASE UNCHANGED vars
    <2>1. PoliciesHold
      BY <1>1 DEF vars, history, PoliciesInv
    <2>2. QED
      BY <1>1, <2>1 DEF vars, managerVars, policies, closure, PoliciesHold, PolicySettled, PolicyOf, Busy
  <1>2. CASE Exit \/ Start \/ \E f \in Folder : PeerStep(f)
    BY <1>2, ProcessPolicies
  <1>3. ASSUME NEW r \in Request, NEW folder \in Folder, NEW join \in BOOLEAN,
               NEW policy \in Policy \cup {None}, Setup(r, folder, join, policy)
        PROVE  PoliciesHold'
    BY <1>3, RequestPolicies
  <1>4. ASSUME NEW r \in Request, NEW folder \in Folder, Preview(r, folder)
        PROVE  PoliciesHold'
    BY <1>4, RequestPolicies
  <1>5. ASSUME NEW r \in Request, Shutdown(r)
        PROVE  PoliciesHold'
    BY <1>5, RequestPolicies
  <1>6. ASSUME NEW r \in Handle, ManagerStep(r)
        PROVE  PoliciesHold'
    BY <1>6, ManagerPolicies
  <1>7. ASSUME NEW r \in Handle, QuietStep(r)
        PROVE  PoliciesHold'
    BY <1>7, QuietPolicies
  <1>8. ASSUME NEW r \in Handle, Finish(r) \/ Rejects(r) \/ CloseServer(r)
        PROVE  PoliciesHold'
    BY <1>8, OwnerPolicies
  <1>9. ASSUME NEW r \in Handle, PearExit(r) \/ ShutdownThrows(r)
        PROVE  PoliciesHold'
    BY <1>9, <1>2 DEF PearExit, ShutdownThrows
  <1>10. QED
    BY <1>1, <1>2, <1>3, <1>4, <1>5, <1>6, <1>7, <1>8, <1>9
       DEF Next, ClearStep, ShutdownStep, QuietStep

(***************************************************************************)
(* The policy a user chose is the one the folder's sessions run with until *)
(* a peer sets another (resolvePolicyState, persistConfig).                *)
(***************************************************************************)
THEOREM ChosenPolicyIsRun == Spec => []ChosenPolicyRuns
  <1>1. Init => PoliciesInv
    BY IdleTask DEF Init, ManagerInit, PoliciesInv, PoliciesHold, Busy
  <1>2. SessionsInv /\ SessionsInv' /\ PoliciesInv /\ [Next]_vars => PoliciesInv'
    BY PoliciesNext
  <1>3. PoliciesInv => ChosenPolicyRuns
    BY DEF PoliciesInv, PoliciesHold, PolicyOf, ChosenPolicyRuns
  <1>4. QED
    BY <1>1, <1>2, <1>3, SessionsInvHolds, PTL DEF Spec

-----------------------------------------------------------------------------
(***************************************************************************)
(* What is open, request by request: the inductive invariant, for requests *)
(* that do not overlap.                                                    *)
(***************************************************************************)
Open == storeOpen \cup manifestOpen \cup engineOn

\* A request is known by a number that nothing open has; Boot is one again
\* only after everything is closed.
IdsFresh ==
    /\ Open \cup Busy \subseteq 0 .. requests
    /\ life = "exited" => Open = {} /\ pending = None
    /\ life = "down" => Busy = {}

\* The session of a preview, up to the first step that closes it.
PreparedWhole ==
    /\ engine # None \/ host = "pear" \/ life = "down" => pending = None
    /\ pending \notin engineOn
    /\ pending # None /\ (\A r \in Busy : task[r].pc \notin {"clearStore", "cleared"}) =>
            pending \in storeOpen \cap manifestOpen

EngineWhole ==
    engine # None /\ ~ShuttingDown => engine.session \in storeOpen \cap manifestOpen \cap engineOn

\* A request clears the prepared session before anything else.
ClearWhole(t) ==
    /\ t.pc \in {"clear", "clearStore", "cleared"} => t.next # "done"
    /\ t.pc \in {"clearStore", "cleared"} => pending # None /\ pending \notin manifestOpen
    /\ t.pc = "cleared" => pending \notin storeOpen
    /\ t.pc \notin {"clear", "clearStore", "cleared"} => pending = None

StartWhole(r, t) ==
    /\ t.kind = "preview" => host = "web"
    /\ t.pc \in {"clear", "clearStore", "cleared", "open"} => t.session = r /\ r \notin Open
    /\ t.pc = "manifest" =>
            t.session = r /\ r \in storeOpen /\ r \notin manifestOpen \cup engineOn
    /\ t.pc \in {"resolve", "persist", "ready", "start"} =>
            t.kind # "preview" /\ t.session \in storeOpen \cap manifestOpen
    /\ t.pc = "start" => t.session \in engineOn
    /\ t.pc = "list" =>
            /\ t.kind = "preview" /\ t.session = r
            /\ r \in storeOpen \cap manifestOpen /\ r \notin engineOn

ShutdownWhole(t) ==
    /\ t.pc = "closeManifest" => t.session = IF engine = None THEN None ELSE engine.session
    /\ t.session \in {None} \cup IF engine = None THEN {} ELSE {engine.session}
    /\ engine # None =>
        /\ t.pc \in {"closeManifest", "closeStore", "closeServer"} => engine.session \notin engineOn
        /\ host = "web" /\ t.pc \in {"closeStore", "closeServer"} => engine.session \notin manifestOpen
        /\ host = "web" /\ t.pc = "closeServer" => engine.session \notin storeOpen

RequestWhole(r) ==
    /\ ClearWhole(task[r])
    /\ IF task[r].kind = "shutdown" THEN ShutdownWhole(task[r]) ELSE StartWhole(r, task[r])

WholeInv ==
    ~overlapped =>
        /\ IdsFresh /\ PreparedWhole /\ EngineWhole
        /\ \A r \in Busy : RequestWhole(r)
        /\ NothingOrphaned

SessionOf == IF engine = None THEN {} ELSE {engine.session}

\* The invariant of a process whose only request is r.
LEMMA AloneHas ==
    ASSUME SessionsInv, WholeInv, ~overlapped, NEW r \in Busy
    PROVE  /\ Busy = {r} /\ r \in Handle /\ life = "up"
           /\ IdsFresh /\ PreparedWhole /\ EngineWhole /\ RequestWhole(r)
           /\ Open \subseteq {task[r].session, pending} \cup SessionOf \cup leaked
  <1>1. Busy = {r} /\ r \in Handle
    BY DEF SessionsInv, OneAtATime, Busy
  <1>2. IdsFresh /\ PreparedWhole /\ EngineWhole /\ RequestWhole(r) /\ NothingOrphaned
    BY DEF WholeInv
  <1>3. life = "up"
    BY <1>1, <1>2 DEF IdsFresh, SessionsInv, HoldsNothing, ProcessTypes
  <1>4. Owned = {task[r].session, pending} \cup SessionOf
    BY <1>1, <1>3 DEF Owned, SessionOf
  <1>5. Open \subseteq Owned \cup leaked
    BY <1>2 DEF NothingOrphaned, Open
  <1>6. QED
    BY <1>1, <1>2, <1>3, <1>4, <1>5

\* It is one of these after a step if it holds for r, or r is the last.
LEMMA AloneKeeps ==
    ASSUME NEW r, Busy' \subseteq {r}, life' = "up",
           (Open \cup Busy \subseteq 0 .. requests)', PreparedWhole', EngineWhole',
           r \in Busy' => RequestWhole(r)',
           Open' \subseteq {task'[r].session} \cup {pending'} \cup SessionOf' \cup leaked',
           r \notin Busy' => Open' \subseteq {pending'} \cup SessionOf' \cup leaked'
    PROVE  WholeInv'
  <1>1. IdsFresh'
    BY DEF IdsFresh
  <1>2. Open' \subseteq Owned' \cup leaked'
    <2>1. {pending'} \cup SessionOf' \subseteq Owned'
      BY DEF Owned, SessionOf
    <2>2. r \in Busy' => task'[r].session \in Owned'
      BY DEF Owned
    <2>3. QED
      BY <2>1, <2>2
  <1>3. NothingOrphaned'
    BY <1>2 DEF NothingOrphaned, Open
  <1>4. QED
    BY <1>1, <1>3 DEF WholeInv

-----------------------------------------------------------------------------
LEMMA NoneIsNoHandle == None \notin Handle
  BY NoneAssumption, RequestAssumption DEF Handle, Request, Boot

LEMMA ManagerWhole ==
    ASSUME SessionsInv, SessionsInv', WholeInv, ~overlapped', NEW r \in Handle, ManagerStep(r)
    PROVE  WholeInv'
  <1>1. Advances(r) /\ UNCHANGED sameSession
    BY ManagerAdvances DEF SessionsInv
  <1>2. /\ UNCHANGED <<engine, pending, host, requests, overlapped, life>>
    BY <1>1 DEF sameSession, closure, counts, history
  <1>3. r \in Busy /\ ~overlapped /\ Busy' \subseteq {r}
    BY <1>1, <1>2, Alone DEF Advances
  <1>4. /\ Busy = {r} /\ life = "up"
        /\ IdsFresh /\ PreparedWhole /\ RequestWhole(r)
        /\ Open \subseteq {task[r].session, pending} \cup SessionOf \cup leaked
    BY <1>3, AloneHas
  <1>5. TaskTypes
    BY DEF SessionsInv
  <1>6. task[r].pc \in {"open", "manifest", "resolve", "persist", "ready"}
    BY DEF ManagerStep, OpenStore, OpenManifest, ResolvePolicy, PersistConfig, ReadyEngine, At
  <1>7. task[r].kind # "shutdown" /\ engine = None
    <2>1. task[r].kind # "shutdown"
      BY <1>3, <1>5, <1>6, BusyShape DEF ShutdownPlace
    <2>2. QED
      BY <1>1, <1>2, <2>1, Alone
  <1>8. pending = None /\ pending' = None /\ None \notin Handle
    <2>1. pending = None
      BY <1>4, <1>6 DEF RequestWhole, ClearWhole
    <2>2. QED
      BY <1>2, <2>1, NoneIsNoHandle
  <1>9. StartWhole(r, task[r])
    BY <1>4, <1>7 DEF RequestWhole
  <1>10. /\ task'[r].kind = task[r].kind /\ task'[r].session = task[r].session
         /\ task'[r].pc \in {"manifest", "resolve", "list", "persist", "ready", "start"}
    BY <1>5, AfterGoto DEF ManagerStep, OpenStore, OpenManifest, ResolvePolicy, PersistConfig,
                           ReadyEngine, TaskTypes, TaskType
  <1>11. /\ StartWhole(r, task[r])' /\ leaked' = leaked
         /\ Open' \subseteq Open \cup {r}
         /\ Open' \subseteq Open \cup {task[r].session}
    <2>1. CASE OpenStore(r)
      <3>1. task'[r].pc = "manifest" /\ storeOpen' = storeOpen \cup {r} /\ leaked' = leaked
            /\ UNCHANGED <<manifestOpen, engineOn>>
        BY <1>5, <2>1, AfterGoto DEF OpenStore
      <3>2. task[r].session = r /\ r \notin Open
        BY <1>9, <2>1 DEF OpenStore, At, StartWhole
      <3>3. QED
        BY <1>2, <1>9, <1>10, <3>1, <3>2 DEF StartWhole, Open
    <2>2. CASE OpenManifest(r)
      <3>1. /\ task'[r].pc = IF Starting(r) THEN "resolve" ELSE "list"
            /\ manifestOpen' = manifestOpen \cup {r} /\ leaked' = leaked
            /\ UNCHANGED <<storeOpen, engineOn>>
        BY <1>5, <2>2, AfterGoto DEF OpenManifest
      <3>2. task[r].session = r /\ r \in storeOpen /\ r \notin engineOn
        BY <1>9, <2>2 DEF OpenManifest, At, StartWhole
      <3>3. Starting(r) <=> task[r].kind # "preview"
        BY <1>3, <1>5, <1>7, BusyShape DEF Starting
      <3>4. QED
        BY <1>2, <1>9, <1>10, <3>1, <3>2, <3>3 DEF StartWhole, Open
    <2>3. CASE ResolvePolicy(r) \/ PersistConfig(r)
      <3>1. task'[r].pc \in {"persist", "ready"} /\ leaked' = leaked /\ UNCHANGED resources
        BY <1>5, <2>3, AfterGoto DEF ResolvePolicy, PersistConfig, TaskTypes, TaskType
      <3>2. task[r].kind # "preview" /\ task[r].session \in storeOpen \cap manifestOpen
        BY <1>9, <2>3 DEF ResolvePolicy, PersistConfig, At, StartWhole
      <3>3. QED
        BY <1>2, <1>9, <1>10, <3>1, <3>2 DEF StartWhole, Open, resources
    <2>4. CASE ReadyEngine(r)
      <3>1. /\ task'[r].pc = "start" /\ engineOn' = engineOn \cup {task[r].session}
            /\ leaked' = leaked /\ UNCHANGED <<storeOpen, manifestOpen>>
        BY <1>5, <2>4, AfterGoto DEF ReadyEngine
      <3>2. task[r].kind # "preview" /\ task[r].session \in storeOpen \cap manifestOpen
        BY <1>9, <2>4 DEF ReadyEngine, At, StartWhole
      <3>3. QED
        BY <1>2, <1>9, <1>10, <3>1, <3>2 DEF StartWhole, Open
    <2>5. QED
      BY <2>1, <2>2, <2>3, <2>4 DEF ManagerStep
  <1>12. RequestWhole(r)'
    BY <1>7, <1>8, <1>10, <1>11 DEF RequestWhole, ClearWhole
  <1>13. PreparedWhole' /\ EngineWhole'
    <2>1. engineOn' \subseteq Handle
      BY DEF SessionsInv, ManagerTypes
    <2>2. QED
      BY <1>2, <1>7, <1>8, <2>1 DEF PreparedWhole, EngineWhole
  <1>14. (Open \cup Busy \subseteq 0 .. requests)'
    BY <1>2, <1>3, <1>4, <1>11 DEF IdsFresh
  <1>15. Open' \subseteq {task'[r].session} \cup {pending'} \cup SessionOf' \cup leaked'
    BY <1>2, <1>4, <1>7, <1>8, <1>10, <1>11 DEF SessionOf
  <1>16. r \in Busy'
    BY <1>3, <1>10 DEF Busy
  <1>17. QED
    BY <1>2, <1>3, <1>4, <1>12, <1>13, <1>14, <1>15, <1>16, AloneKeeps

\* What is closed is only given up, so it is enough that the request knows
\* of what remains.
LEMMA ClearingWhole ==
    ASSUME SessionsInv, SessionsInv', WholeInv, ~overlapped', NEW r \in Handle,
           ClearManifest(r) \/ ClearStore(r) \/ ClearThrows(r) \/ Cleared(r)
    PROVE  WholeInv'
  <1>1. /\ Advances(r) /\ UNCHANGED sameOwner
        /\ UNCHANGED <<host, requests, engineOn, leaked>>
    BY QuietAdvances DEF SessionsInv, QuietStep, ClearManifest, ClearStore, ClearThrows, Cleared,
                         sameProcess, counts, resources
  <1>2. UNCHANGED <<engine, overlapped, life>>
    BY <1>1 DEF sameOwner, history
  <1>3. r \in Busy /\ ~overlapped /\ Busy' \subseteq {r}
    BY <1>1, <1>2, Alone DEF Advances
  <1>4. /\ Busy = {r} /\ life = "up"
        /\ IdsFresh /\ PreparedWhole /\ RequestWhole(r)
        /\ Open \subseteq {task[r].session, pending} \cup SessionOf \cup leaked
    BY <1>3, AloneHas
  <1>5. TaskTypes
    BY DEF SessionsInv
  <1>6. /\ task[r].pc \in {"clear", "clearStore", "cleared"} /\ ClearWhole(task[r])
        /\ task[r].next \in {"open", "stop"}
    <2>1. task[r].pc \in {"clear", "clearStore", "cleared"} /\ ClearWhole(task[r])
      BY <1>4 DEF ClearManifest, ClearStore, ClearThrows, Cleared, At, RequestWhole
    <2>2. QED
      BY <1>3, <1>5, <2>1, BusyShape DEF ClearWhole
  <1>7. /\ task[r].kind = "shutdown" => task[r].next = "stop"
        /\ task[r].kind # "shutdown" => task[r].next = "open" /\ engine = None
    BY <1>1, <1>2, <1>3, <1>5, <1>6, Alone, BusyShape
  <1>8. ~ClearThrows(r)
    BY <1>6 DEF ClearThrows, At, ClearWhole
  <1>9. /\ task'[r].kind = task[r].kind /\ task'[r].session = task[r].session
        /\ task'[r].next = task[r].next
        /\ task'[r].pc = IF task[r].pc = "clear" /\ pending # None THEN "clearStore"
                         ELSE IF task[r].pc = "clearStore" THEN "cleared" ELSE task[r].next
    BY <1>5, <1>6, <1>8, AfterGoto DEF ClearManifest, ClearStore, Cleared, GoOn, At
  <1>10. /\ storeOpen' \subseteq storeOpen /\ manifestOpen' \subseteq manifestOpen
         /\ task[r].pc = "clear" => pending' = pending /\ pending \notin manifestOpen'
         /\ task[r].pc = "clearStore" => pending' = pending /\ pending \notin storeOpen'
         /\ task[r].pc = "cleared" => pending' = None /\ UNCHANGED storeOpen
    BY <1>6, <1>8 DEF ClearManifest, ClearStore, Cleared, At, resources
  <1>11. Open' \subseteq Open
    BY <1>1, <1>10 DEF Open
  <1>12. RequestWhole(r)'
    <2>1. ClearWhole(task[r])'
      BY <1>6, <1>9, <1>10 DEF ClearWhole
    <2>2. CASE task[r].kind = "shutdown"
      <3>1. ShutdownWhole(task[r])'
        BY <1>2, <1>4, <1>6, <1>7, <1>9, <2>2 DEF RequestWhole, ShutdownWhole
      <3>2. QED
        BY <1>9, <2>1, <2>2, <3>1 DEF RequestWhole
    <2>3. CASE task[r].kind # "shutdown"
      <3>1. /\ task[r].kind = "preview" => host = "web"
            /\ task[r].session = r /\ r \notin Open
        BY <1>4, <1>6, <2>3 DEF RequestWhole, StartWhole
      <3>2. StartWhole(r, task[r])'
        BY <1>1, <1>6, <1>7, <1>9, <1>11, <2>3, <3>1 DEF StartWhole
      <3>3. QED
        BY <1>9, <2>1, <2>3, <3>2 DEF RequestWhole
    <2>4. QED
      BY <2>2, <2>3
  <1>13. r \in Busy' /\ r \in Handle
    BY <1>3, <1>6, <1>9 DEF Busy
  <1>14. EngineWhole'
    BY <1>2, <1>7, <1>9, <1>13 DEF EngineWhole, ShuttingDown
  <1>15. PreparedWhole'
    <2>1. pending' \in {pending, None} /\ (pending' # None => task'[r].pc \in {"clearStore", "cleared"})
      BY <1>6, <1>9, <1>10
    <2>2. None \notin engineOn
      BY NoneIsNoHandle DEF SessionsInv, ManagerTypes
    <2>3. QED
      BY <1>1, <1>2, <1>4, <1>13, <2>1, <2>2 DEF PreparedWhole
  <1>16. (Open \cup Busy \subseteq 0 .. requests)'
    BY <1>1, <1>3, <1>4, <1>11 DEF IdsFresh
  <1>17. Open' \subseteq {task'[r].session} \cup {pending'} \cup SessionOf' \cup leaked'
    <2>1. task[r].pc = "cleared" => pending \notin Open
      BY <1>4, <1>6 DEF ClearWhole, PreparedWhole, Open
    <2>2. QED
      BY <1>1, <1>2, <1>4, <1>6, <1>9, <1>10, <1>11, <2>1 DEF SessionOf
  <1>18. QED
    BY <1>2, <1>3, <1>4, <1>12, <1>13, <1>14, <1>15, <1>16, <1>17, AloneKeeps

\* A preview ends: it leaves its session prepared, or closed.
LEMMA PreviewWhole ==
    ASSUME SessionsInv, SessionsInv', WholeInv, ~overlapped', NEW r \in Handle,
           Previewed(r) \/ PreviewFails(r)
    PROVE  WholeInv'
  <1>1. /\ Advances(r) /\ UNCHANGED sameOwner
        /\ UNCHANGED <<host, requests, engineOn, leaked>>
    BY QuietAdvances DEF SessionsInv, QuietStep, Previewed, PreviewFails, PreviewRejects,
                         sameProcess, counts, resources
  <1>2. UNCHANGED <<engine, overlapped, life>>
    BY <1>1 DEF sameOwner, history
  <1>3. r \in Busy /\ ~overlapped /\ Busy' \subseteq {r}
    BY <1>1, <1>2, Alone DEF Advances
  <1>4. /\ Busy = {r} /\ life = "up"
        /\ IdsFresh /\ PreparedWhole /\ RequestWhole(r)
        /\ Open \subseteq {task[r].session, pending} \cup SessionOf \cup leaked
    BY <1>3, AloneHas
  <1>5. TaskTypes
    BY DEF SessionsInv
  <1>6. task[r].pc \in {"open", "manifest", "list"}
    BY DEF Previewed, PreviewFails, PreviewRejects, At
  <1>7. task[r].kind # "shutdown" /\ engine = None
    <2>1. task[r].kind # "shutdown"
      BY <1>3, <1>5, <1>6, BusyShape DEF ShutdownPlace
    <2>2. QED
      BY <1>1, <1>2, <2>1, Alone
  <1>8. /\ pending = None /\ StartWhole(r, task[r])
        /\ task[r].session = r /\ r \notin engineOn
    BY <1>4, <1>6, <1>7 DEF RequestWhole, ClearWhole, StartWhole, Open
  <1>9. Done(r) /\ r \notin Busy' /\ Busy' = {}
    <2>1. Done(r)
      BY <1>8 DEF Previewed, PreviewFails, ClearThenAnswer
    <2>2. QED
      BY <1>3, <1>5, <2>1, AfterDone
  <1>10. Open' \subseteq Open /\ Open' \subseteq {pending'} \cup leaked'
    <2>1. CASE Previewed(r)
      BY <1>1, <1>4, <1>7, <1>8, <2>1, NoneIsNoHandle
         DEF Previewed, Open, resources, SessionOf, SessionsInv, ManagerTypes
    <2>2. CASE PreviewFails(r)
      <3>1. storeOpen' = storeOpen \ {r} /\ manifestOpen' = manifestOpen \ {r} /\ pending' = pending
        BY <2>2 DEF PreviewFails, PreviewRejects
      <3>2. r \notin Open' /\ Open' \subseteq Open
        BY <1>1, <1>8, <3>1 DEF Open
      <3>3. QED
        BY <1>1, <1>4, <1>7, <1>8, <3>1, <3>2 DEF SessionOf
    <2>3. QED
      BY <2>1, <2>2
  <1>11. PreparedWhole'
    <2>1. None \notin engineOn
      BY NoneIsNoHandle DEF SessionsInv, ManagerTypes
    <2>2. CASE Previewed(r)
      <3>1. /\ pending' = r /\ UNCHANGED <<storeOpen, manifestOpen>> /\ task[r].pc = "list"
        BY <2>2 DEF Previewed, At, resources
      <3>2. host = "web" /\ r \in storeOpen \cap manifestOpen
        BY <1>8, <3>1 DEF StartWhole
      <3>3. QED
        BY <1>1, <1>2, <1>4, <1>7, <1>8, <3>1, <3>2 DEF PreparedWhole
    <2>3. CASE PreviewFails(r)
      BY <1>1, <1>2, <1>8, <2>1, <2>3 DEF PreviewFails, PreparedWhole
    <2>4. QED
      BY <2>2, <2>3
  <1>12. EngineWhole'
    BY <1>2, <1>7 DEF EngineWhole
  <1>13. (Open \cup Busy \subseteq 0 .. requests)'
    BY <1>1, <1>4, <1>9, <1>10 DEF IdsFresh
  <1>14. QED
    BY <1>2, <1>3, <1>4, <1>9, <1>10, <1>11, <1>12, <1>13, AloneKeeps

\* Shutting down: the session's parts are closed one after another.
LEMMA ShutdownWholeStep ==
    ASSUME SessionsInv, SessionsInv', WholeInv, ~overlapped', NEW r \in Handle,
           StopEngine(r) \/ CloseManifest(r) \/ CloseStore(r)
    PROVE  WholeInv'
  <1>1. /\ Advances(r) /\ UNCHANGED sameOwner
        /\ UNCHANGED <<host, requests, pending, leaked>>
    BY QuietAdvances DEF SessionsInv, QuietStep, StopEngine, CloseManifest, CloseStore,
                         sameProcess, counts
  <1>2. UNCHANGED <<engine, overlapped, life>>
    BY <1>1 DEF sameOwner, history
  <1>3. r \in Busy /\ ~overlapped /\ Busy' \subseteq {r}
    BY <1>1, <1>2, Alone DEF Advances
  <1>4. /\ Busy = {r} /\ life = "up"
        /\ IdsFresh /\ PreparedWhole /\ RequestWhole(r)
        /\ Open \subseteq {task[r].session, pending} \cup SessionOf \cup leaked
    BY <1>3, AloneHas
  <1>5. TaskTypes
    BY DEF SessionsInv
  <1>6. task[r].pc \in {"stop", "closeManifest", "closeStore"}
    BY DEF StopEngine, CloseManifest, CloseStore, At
  <1>7. task[r].kind = "shutdown" /\ pending = None /\ ShutdownWhole(task[r])
    <2>1. task[r].kind = "shutdown"
      BY <1>3, <1>5, <1>6, BusyShape DEF StartPlace
    <2>2. QED
      BY <1>4, <1>6, <2>1 DEF RequestWhole, ClearWhole
  <1>8. /\ task'[r].kind = "shutdown" /\ ShutdownWhole(task[r])' /\ Open' \subseteq Open
        /\ task'[r].pc \in {"closeManifest", "closeStore", "closeServer"}
        /\ engineOn' \subseteq engineOn
    <2>1. CASE StopEngine(r)
      <3> DEFINE session == IF engine = None THEN None ELSE engine.session
      <3>1. /\ task'[r].kind = "shutdown" /\ task'[r].session = session
            /\ task'[r].pc = IF host = "web" THEN "closeManifest" ELSE "closeStore"
        BY <1>5, <1>7, <2>1 DEF StopEngine, Configured, TaskTypes, TaskType
      <3>2. /\ engineOn' = IF engine = None THEN engineOn ELSE engineOn \ {engine.session}
            /\ UNCHANGED <<storeOpen, manifestOpen>>
        BY <2>1 DEF StopEngine, Configured
      <3>3. QED
        BY <1>1, <1>2, <1>7, <3>1, <3>2 DEF ShutdownWhole, Open
    <2>2. CASE CloseManifest(r)
      <3>1. /\ task'[r].pc = "closeStore" /\ task'[r].kind = "shutdown"
            /\ task'[r].session = task[r].session /\ task[r].pc = "closeManifest"
        BY <1>5, <1>7, <2>2, AfterGoto DEF CloseManifest, At
      <3>2. /\ manifestOpen' = manifestOpen \ {task[r].session}
            /\ UNCHANGED <<storeOpen, engineOn>>
        BY <2>2 DEF CloseManifest
      <3>3. QED
        BY <1>1, <1>2, <1>7, <3>1, <3>2 DEF ShutdownWhole, Open
    <2>3. CASE CloseStore(r)
      <3>1. /\ task'[r].pc = "closeServer" /\ task'[r].kind = "shutdown"
            /\ task'[r].session = task[r].session /\ task[r].pc = "closeStore"
        BY <1>5, <1>7, <2>3, AfterGoto DEF CloseStore, At
      <3>2. /\ storeOpen' = IF engine = None THEN storeOpen ELSE storeOpen \ {engine.session}
            /\ UNCHANGED <<manifestOpen, engineOn>>
        BY <2>3 DEF CloseStore, Configured
      <3>3. QED
        BY <1>1, <1>2, <1>7, <3>1, <3>2 DEF ShutdownWhole, Open
    <2>4. QED
      BY <2>1, <2>2, <2>3
  <1>9. RequestWhole(r)'
    BY <1>1, <1>7, <1>8 DEF RequestWhole, ClearWhole
  <1>10. r \in Busy' /\ r \in Handle
    BY <1>3, <1>8 DEF Busy
  <1>11. EngineWhole'
    BY <1>8, <1>10 DEF EngineWhole, ShuttingDown
  <1>12. PreparedWhole'
    <2>1. None \notin engineOn
      BY NoneIsNoHandle DEF SessionsInv, ManagerTypes
    <2>2. QED
      BY <1>1, <1>7, <1>8, <2>1 DEF PreparedWhole
  <1>13. (Open \cup Busy \subseteq 0 .. requests)'
    BY <1>1, <1>3, <1>4, <1>8 DEF IdsFresh
  <1>14. Open' \subseteq {task'[r].session} \cup {pending'} \cup SessionOf' \cup leaked'
    <2>1. Open \subseteq {pending} \cup SessionOf \cup leaked
      BY <1>4, <1>7 DEF ShutdownWhole, SessionOf
    <2>2. QED
      BY <1>1, <1>2, <1>8, <2>1 DEF SessionOf
  <1>15. QED
    BY <1>2, <1>3, <1>4, <1>9, <1>10, <1>11, <1>12, <1>13, <1>14, AloneKeeps

\* The server has closed: only what failed starts left is open.
LEMMA CloseServerWhole ==
    ASSUME SessionsInv, SessionsInv', WholeInv, ~overlapped', NEW r \in Handle, CloseServer(r)
    PROVE  WholeInv'
  <1>1. /\ r \in Busy /\ Done(r) /\ ~overlapped /\ host = "web" /\ life' = "down"
        /\ UNCHANGED <<resources, leaked, engine, pending, requests, host>>
    BY IsBusy DEF CloseServer, ShutdownPlace, closure, history, counts
  <1>2. /\ Busy = {r} /\ IdsFresh /\ PreparedWhole /\ RequestWhole(r)
        /\ Open \subseteq {task[r].session, pending} \cup SessionOf \cup leaked
    BY <1>1, AloneHas
  <1>3. TaskTypes /\ None \notin Open
    BY NoneIsNoHandle DEF SessionsInv, ManagerTypes, Open
  <1>4. task[r].pc = "closeServer" /\ task[r].kind = "shutdown"
    BY <1>1, <1>3, BusyShape DEF CloseServer, At, StartPlace
  <1>5. pending = None /\ ShutdownWhole(task[r])
    BY <1>2, <1>4 DEF RequestWhole, ClearWhole
  <1>6. engine # None => engine.session \notin Open
    BY <1>1, <1>4, <1>5 DEF ShutdownWhole, Open
  <1>7. Open \subseteq leaked
    BY <1>2, <1>3, <1>5, <1>6 DEF ShutdownWhole, SessionOf
  <1>8. Busy' = {}
    <2>1. Advances(r)
      BY <1>1, <1>3, DoneFollows
    <2>2. Busy' \subseteq Busy /\ r \notin Busy'
      BY <1>1, <1>3, <2>1, AdvancesTasks, AfterDone
    <2>3. QED
      BY <1>2, <2>2
  <1>9. IdsFresh'
    BY <1>1, <1>2, <1>8 DEF IdsFresh, Open, resources
  <1>10. PreparedWhole'
    BY <1>1, <1>3, <1>5 DEF PreparedWhole, Open, resources
  <1>11. EngineWhole'
    BY <1>1 DEF EngineWhole, ShuttingDown
  <1>12. NothingOrphaned'
    BY <1>1, <1>7 DEF NothingOrphaned, Open, resources
  <1>13. QED
    BY <1>8, <1>9, <1>10, <1>11, <1>12 DEF WholeInv

\* The session has started, with all its parts, and becomes the process' own.
LEMMA FinishWhole ==
    ASSUME SessionsInv, SessionsInv', WholeInv, ~overlapped', NEW r \in Handle, Finish(r)
    PROVE  WholeInv'
  <1>1. /\ r \in Busy /\ Done(r) /\ ~overlapped /\ Starting(r) /\ task[r].pc = "start"
        /\ engine' # None /\ engine'.session = task[r].session
        /\ UNCHANGED <<resources, leaked, pending, requests, host, life>>
    <2>1. r \in Busy /\ task[r].pc = "start"
      BY IsBusy DEF Finish, StartPlace, At
    <2>2. /\ Done(r) /\ ~overlapped /\ Starting(r)
          /\ UNCHANGED <<resources, leaked, pending, requests, host, life>>
      BY DEF Finish, counts
    <2>3. engine' = [session |-> task[r].session, folder |-> task[r].folder, policy |-> task[r].policy]
      BY DEF Finish
    <2>4. engine' # None
      <3>1. Advances(r)
        BY <2>1, <2>2, DoneFollows DEF SessionsInv
      <3>2. engine' \in SessionType
        BY <2>1, <2>2, <2>3, BusyShape DEF SessionsInv, SessionType, TaskType, Starting
      <3>3. QED
        BY <3>2, SessionAssumption
    <2>5. QED
      BY <2>1, <2>2, <2>3, <2>4
  <1>2. /\ Busy = {r} /\ life = "up" /\ IdsFresh /\ PreparedWhole /\ RequestWhole(r)
        /\ Open \subseteq {task[r].session, pending} \cup SessionOf \cup leaked
    BY <1>1, AloneHas
  <1>3. TaskTypes /\ None \notin engineOn
    BY NoneIsNoHandle DEF SessionsInv, ManagerTypes
  <1>4. engine = None /\ pending = None /\ task[r].session \in storeOpen \cap manifestOpen \cap engineOn
    <2>1. engine = None
      BY <1>1, FinishStep
    <2>2. task[r].kind # "shutdown"
      BY <1>1 DEF Starting
    <2>3. QED
      BY <1>1, <1>2, <2>1, <2>2 DEF RequestWhole, ClearWhole, StartWhole
  <1>5. Busy' \subseteq {r} /\ r \notin Busy'
    <2>1. Advances(r)
      BY <1>1, <1>3, DoneFollows
    <2>2. QED
      BY <1>1, <1>2, <1>3, <2>1, AdvancesTasks, AfterDone
  <1>6. PreparedWhole' /\ EngineWhole'
    BY <1>1, <1>3, <1>4 DEF PreparedWhole, EngineWhole, resources
  <1>7. (Open \cup Busy \subseteq 0 .. requests)'
    BY <1>1, <1>2, <1>5 DEF IdsFresh, Open, resources
  <1>8. Open' \subseteq {pending'} \cup SessionOf' \cup leaked'
    BY <1>1, <1>2, <1>4 DEF Open, resources, SessionOf
  <1>9. QED
    BY <1>1, <1>2, <1>5, <1>6, <1>7, <1>8, AloneKeeps

\* A start has failed: what it opened stays open, and is leaked.
LEMMA RejectsWhole ==
    ASSUME SessionsInv, SessionsInv', WholeInv, ~overlapped', NEW r \in Handle, Rejects(r)
    PROVE  WholeInv'
  <1>1. /\ r \in Busy /\ ~overlapped /\ Starting(r) /\ task[r].kind # "shutdown"
        /\ task[r].pc \in {"open", "manifest", "resolve", "persist", "ready", "start"}
        /\ leaked' = leaked \cup ({task[r].session} \cap storeOpen)
        /\ UNCHANGED <<resources, pending, requests, host, life>>
    <2>1. r \in Busy /\ Starting(r) /\ task[r].kind # "shutdown"
      BY DEF Rejects, StartRejects, Starting, At, Busy
    <2>2. QED
      BY <2>1 DEF Rejects, StartRejects, At, history, counts
  <1>2. /\ Busy = {r} /\ life = "up" /\ IdsFresh /\ PreparedWhole /\ RequestWhole(r)
        /\ Open \subseteq {task[r].session, pending} \cup SessionOf \cup leaked
    BY <1>1, AloneHas
  <1>3. TaskTypes /\ None \notin Open /\ None \notin engineOn
    BY NoneIsNoHandle DEF SessionsInv, ManagerTypes, Open
  <1>4. engine = None /\ engine' = None
    <2>1. engine = None
      BY <1>1 DEF SessionsInv, OneAtATime
    <2>2. QED
      BY <1>1, <2>1, RejectsStep
  <1>5. pending = None /\ StartWhole(r, task[r])
    BY <1>1, <1>2 DEF RequestWhole, ClearWhole
  <1>6. Busy' = {}
    <2>1. Done(r)
      BY <1>5 DEF Rejects, ClearThenAnswer
    <2>2. Advances(r)
      BY <1>1, <1>3, <2>1, DoneFollows
    <2>3. QED
      BY <1>1, <1>2, <1>3, <2>1, <2>2, AdvancesTasks, AfterDone
  <1>7. task[r].session \in Open => task[r].session \in storeOpen
    BY <1>1, <1>5 DEF StartWhole
  <1>8. Open' \subseteq leaked'
    <2>1. Open \subseteq {task[r].session} \cup leaked
      BY <1>2, <1>3, <1>4, <1>5 DEF SessionOf
    <2>2. Open' = Open
      BY <1>1 DEF Open, resources
    <2>3. QED
      BY <1>1, <1>7, <2>1, <2>2
  <1>9. PreparedWhole' /\ EngineWhole'
    BY <1>1, <1>3, <1>4, <1>5 DEF PreparedWhole, EngineWhole, resources
  <1>10. (Open \cup Busy \subseteq 0 .. requests)'
    BY <1>1, <1>2, <1>6 DEF IdsFresh, Open, resources
  <1>11. QED
    BY <1>1, <1>2, <1>6, <1>8, <1>9, <1>10, AloneKeeps

-----------------------------------------------------------------------------
(***************************************************************************)
(* A request that arrives alone has a number that nothing open has.        *)
(***************************************************************************)
LEMMA ArrivalWhole ==
    ASSUME SessionsInv, SessionsInv', WholeInv, ~overlapped', NEW r \in Request, Arrives(r),
           UNCHANGED <<resources, leaked, engine>>, NEW t, Begin(r, t)
    PROVE  /\ Busy = {} /\ Busy' \subseteq {r} /\ task'[r] = t /\ r \in Handle /\ ~overlapped
           /\ life = "up" /\ life' = "up" /\ host' = host /\ r \notin Open /\ Open' = Open
           /\ None \notin Open
           /\ PreparedWhole /\ EngineWhole /\ (Open \cup Busy \subseteq 0 .. requests)'
           /\ Open \subseteq {pending} \cup SessionOf \cup leaked
           /\ pending # None => pending \in storeOpen \cap manifestOpen
           /\ SessionOf' = SessionOf
  <1>1. ~overlapped /\ Busy = {}
    BY DEF Arrives, SessionsInv, ProcessTypes
  <1>2. life = "up" /\ life' = "up" /\ host' = host /\ r \in Handle /\ task'[r] = t
    BY Handles, AfterBegin DEF Arrives, Serving, SessionsInv
  <1>3. Busy' \subseteq {r}
    BY <1>1, <1>2 DEF Busy, Begin, SessionsInv, TaskTypes
  <1>4. Open' = Open /\ SessionOf' = SessionOf /\ None \notin Open
    BY NoneIsNoHandle DEF Open, SessionOf, resources, SessionsInv, ManagerTypes
  <1>5. IdsFresh /\ PreparedWhole /\ EngineWhole /\ NothingOrphaned
    BY <1>1 DEF WholeInv
  <1>6. requests \in Nat /\ r = requests + 1 /\ requests' = r
    BY RequestAssumption DEF Arrives, SessionsInv, ProcessTypes
  <1>7. r \notin Open /\ (Open \cup Busy \subseteq 0 .. requests)'
    <2>1. Open \subseteq 0 .. requests
      BY <1>5 DEF IdsFresh
    <2>2. r \notin 0 .. requests /\ 0 .. requests \subseteq 0 .. requests' /\ r \in 0 .. requests'
      BY <1>6
    <2>3. QED
      BY <1>3, <1>4, <2>1, <2>2
  <1>8. Open \subseteq {pending} \cup SessionOf \cup leaked
    <2>1. Owned = {pending} \cup SessionOf
      BY <1>1, <1>2 DEF Owned, SessionOf
    <2>2. QED
      BY <1>1, <1>5, <2>1 DEF NothingOrphaned, Open
  <1>9. pending # None => pending \in storeOpen \cap manifestOpen
    BY <1>1, <1>5 DEF PreparedWhole
  <1>10. QED
    BY <1>1, <1>2, <1>3, <1>4, <1>5, <1>7, <1>8, <1>9

\* A setup or a preview with a session of its own.
LEMMA FreshWhole ==
    ASSUME SessionsInv, SessionsInv', WholeInv, ~overlapped', NEW r \in Request, Arrives(r),
           UNCHANGED <<resources, leaked, engine, pending>>, engine = None,
           NEW kind \in {"setup", "preview"}, kind = "preview" => host = "web",
           NEW folder, NEW join, NEW policy, NEW pc,
           pc = IF pending = None THEN "open" ELSE "clear",
           Begin(r, Task(kind, folder, join, policy, r, pc, "open"))
    PROVE  WholeInv'
  <1> DEFINE t == Task(kind, folder, join, policy, r, pc, "open")
  <1>1. t.kind = kind /\ t.session = r /\ t.pc = pc /\ t.next = "open"
    BY DEF Task
  <1> HIDE DEF t
  <1>2. /\ Busy' \subseteq {r} /\ task'[r] = t
        /\ life' = "up" /\ host' = host /\ r \notin Open /\ Open' = Open
        /\ None \notin Open
        /\ PreparedWhole /\ (Open \cup Busy \subseteq 0 .. requests)'
        /\ Open \subseteq {pending} \cup SessionOf \cup leaked
        /\ pending # None => pending \in storeOpen \cap manifestOpen
        /\ SessionOf' = SessionOf
    BY ArrivalWhole DEF t
  <1>3. RequestWhole(r)'
    BY <1>1, <1>2 DEF RequestWhole, ClearWhole, StartWhole
  <1>4. PreparedWhole' /\ EngineWhole'
    BY <1>2 DEF PreparedWhole, EngineWhole, resources
  <1>5. QED
    BY <1>2, <1>3, <1>4, AloneKeeps

LEMMA SetupWhole ==
    ASSUME SessionsInv, SessionsInv', WholeInv, ~overlapped', NEW r \in Request,
           NEW folder \in Folder, NEW join \in BOOLEAN, NEW policy \in Policy \cup {None},
           Setup(r, folder, join, policy)
    PROVE  WholeInv'
  <1>1. /\ Arrives(r) /\ engine = None
        /\ UNCHANGED <<resources, leaked, engine>>
    BY DEF Setup, Configured
  <1>2. CASE host = "web" /\ TakePrepared(r, folder, policy)
    <2> DEFINE t == Task("setup", folder, TRUE, policy, pending, "resolve", "open")
    <2>1. t.kind = "setup" /\ t.session = pending /\ t.pc = "resolve"
      BY DEF Task
    <2>2. Begin(r, t) /\ pending # None /\ pending' = None
      BY <1>2 DEF TakePrepared
    <2> HIDE DEF t
    <2>3. /\ Busy' \subseteq {r} /\ task'[r] = t /\ r \in Handle
          /\ life' = "up" /\ host' = host /\ Open' = Open
          /\ None \notin Open
          /\ PreparedWhole /\ (Open \cup Busy \subseteq 0 .. requests)'
          /\ Open \subseteq {pending} \cup SessionOf \cup leaked
          /\ pending \in storeOpen \cap manifestOpen
          /\ SessionOf' = SessionOf
      BY <1>1, <2>2, ArrivalWhole
    <2>4. RequestWhole(r)'
      BY <1>1, <2>1, <2>2, <2>3 DEF RequestWhole, ClearWhole, StartWhole, resources
    <2>5. None \notin engineOn'
      BY <1>1, <2>3 DEF Open, resources
    <2>6. PreparedWhole' /\ EngineWhole'
      BY <1>1, <2>2, <2>5 DEF PreparedWhole, EngineWhole
    <2>7. r \in Busy'
      BY <2>1, <2>3 DEF Busy
    <2>8. QED
      BY <1>1, <2>1, <2>3, <2>4, <2>6, <2>7, AloneKeeps
  <1>3. CASE pending' = pending /\ \E pc :
                /\ pc = IF pending = None THEN "open" ELSE "clear"
                /\ Begin(r, Task("setup", folder, join, policy, r, pc, "open"))
    BY <1>1, <1>3, FreshWhole
  <1>4. CASE host = "pear" /\ pending' = pending
                /\ Begin(r, Task("setup", folder, join, policy, r, "open", "open"))
    <2>1. ~overlapped
      BY DEF Arrives, Setup, SessionsInv, ProcessTypes
    <2>2. pending = None
      BY <1>4, <2>1 DEF WholeInv, PreparedWhole
    <2>3. QED
      BY <1>1, <1>4, <2>2, FreshWhole
  <1>5. QED
    BY <1>2, <1>3, <1>4 DEF Setup, Clearing

LEMMA PreviewBeginsWhole ==
    ASSUME SessionsInv, SessionsInv', WholeInv, ~overlapped', NEW r \in Request,
           NEW folder \in Folder, Preview(r, folder)
    PROVE  WholeInv'
  BY FreshWhole DEF Preview, Configured, Clearing

LEMMA ShutdownBeginsWhole ==
    ASSUME SessionsInv, SessionsInv', WholeInv, ~overlapped', NEW r \in Request, Shutdown(r)
    PROVE  WholeInv'
  <1> DEFINE pc == IF host = "web" /\ pending # None THEN "clear" ELSE "stop"
             t == Task("shutdown", None, FALSE, None, None, pc, "stop")
  <1>1. /\ Arrives(r) /\ Begin(r, t) /\ UNCHANGED <<resources, leaked, engine, pending>>
    BY DEF Shutdown
  <1>2. t.kind = "shutdown" /\ t.session = None /\ t.pc = pc /\ t.next = "stop"
    BY DEF Task
  <1>3. pc \in {"clear", "stop"} /\ (pc = "stop" => host = "pear" \/ pending = None)
    BY DEF SessionsInv, ProcessTypes
  <1> HIDE DEF t, pc
  <1>4. /\ Busy' \subseteq {r} /\ task'[r] = t /\ r \in Handle
        /\ life' = "up" /\ host' = host /\ Open' = Open /\ None \notin Open
        /\ PreparedWhole /\ (Open \cup Busy \subseteq 0 .. requests)'
        /\ Open \subseteq {pending} \cup SessionOf \cup leaked
        /\ pending # None => pending \in storeOpen \cap manifestOpen
        /\ SessionOf' = SessionOf
    BY <1>1, ArrivalWhole
  <1>5. r \in Busy'
    BY <1>2, <1>3, <1>4 DEF Busy
  <1>6. pc = "stop" => pending = None
    BY <1>3, <1>4 DEF PreparedWhole
  <1>7. RequestWhole(r)'
    BY <1>1, <1>2, <1>3, <1>4, <1>6 DEF RequestWhole, ClearWhole, ShutdownWhole
  <1>8. EngineWhole'
    BY <1>2, <1>4, <1>5 DEF EngineWhole, ShuttingDown
  <1>9. PreparedWhole'
    BY <1>1, <1>4 DEF PreparedWhole, resources
  <1>10. QED
    BY <1>1, <1>4, <1>5, <1>7, <1>8, <1>9, AloneKeeps

-----------------------------------------------------------------------------
LEMMA ExitWhole ==
    ASSUME SessionsInv, SessionsInv', WholeInv, ~overlapped', Exit
    PROVE  WholeInv'
  <1>1. Busy' = {}
    BY IdleTask DEF Exit, Busy
  <1>2. Open' = {} /\ pending' = None /\ engine' = None /\ None \notin engineOn' /\ life' = "exited"
    BY DEF Exit, Open
  <1>3. IdsFresh' /\ PreparedWhole' /\ EngineWhole' /\ NothingOrphaned'
    BY <1>1, <1>2 DEF IdsFresh, PreparedWhole, EngineWhole, NothingOrphaned, Open
  <1>4. QED
    BY <1>1, <1>3 DEF WholeInv

LEMMA StartWholeAgain ==
    ASSUME SessionsInv, SessionsInv', WholeInv, ~overlapped', Start
    PROVE  WholeInv'
  <1>1. /\ life = "exited" /\ life' = "up" /\ ~overlapped /\ Busy = {} /\ engine = None
        /\ UNCHANGED <<resources, leaked, engine, pending, requests, host>>
    BY DEF Start, SessionsInv, HoldsNothing, history
  <1>2. Open = {} /\ pending = None /\ Open' = {} /\ engineOn' = {}
    <2>1. Open = {} /\ pending = None
      BY <1>1 DEF WholeInv, IdsFresh
    <2>2. QED
      BY <1>1, <2>1 DEF Open, resources
  <1>3. /\ Busy' \subseteq {Boot}
        /\ Boot \in Busy' => /\ task'[Boot].kind = "boot" /\ task'[Boot].pc = "open"
                             /\ task'[Boot].session = Boot
    BY <1>1, Handles DEF Start, Begin, Task, Busy, SessionsInv, TaskTypes
  <1>4. Boot \in Busy' => RequestWhole(Boot)'
    BY <1>1, <1>2, <1>3 DEF RequestWhole, ClearWhole, StartWhole
  <1>5. PreparedWhole' /\ EngineWhole'
    BY <1>1, <1>2 DEF PreparedWhole, EngineWhole
  <1>6. (Open \cup Busy \subseteq 0 .. requests)'
    <2>1. requests' \in Nat /\ Boot = 0
      BY <1>1, RequestAssumption DEF SessionsInv, ProcessTypes, Boot
    <2>2. QED
      BY <1>2, <1>3, <2>1
  <1>7. QED
    BY <1>1, <1>2, <1>3, <1>4, <1>5, <1>6, AloneKeeps

LEMMA UnchangedWhole ==
    ASSUME WholeInv,
           UNCHANGED <<task, resources, leaked, engine, pending, host, requests, overlapped, life>>
    PROVE  WholeInv'
  BY DEF WholeInv, IdsFresh, PreparedWhole, EngineWhole, ShuttingDown, RequestWhole, ClearWhole,
         StartWhole, ShutdownWhole, NothingOrphaned, Owned, Open, Busy, resources

LEMMA WholeNext ==
    ASSUME SessionsInv, SessionsInv', WholeInv, [Next]_vars
    PROVE  WholeInv'
  <1> SUFFICES ASSUME ~overlapped'
               PROVE  WholeInv'
    BY DEF WholeInv
  <1>1. CASE UNCHANGED vars
    BY <1>1, UnchangedWhole DEF vars, managerVars, closure, counts, history
  <1>2. ASSUME NEW f \in Folder, PeerStep(f)
        PROVE  WholeInv'
    BY <1>2, UnchangedWhole DEF PeerStep, PeerPersists, closure, counts, history
  <1>3. ASSUME NEW r \in Request, NEW folder \in Folder, NEW join \in BOOLEAN,
               NEW policy \in Policy \cup {None}, Setup(r, folder, join, policy)
        PROVE  WholeInv'
    BY <1>3, SetupWhole
  <1>4. ASSUME NEW r \in Request, NEW folder \in Folder, Preview(r, folder)
        PROVE  WholeInv'
    BY <1>4, PreviewBeginsWhole
  <1>5. ASSUME NEW r \in Request, Shutdown(r)
        PROVE  WholeInv'
    BY <1>5, ShutdownBeginsWhole
  <1>6. ASSUME NEW r \in Handle, ManagerStep(r)
        PROVE  WholeInv'
    BY <1>6, ManagerWhole
  <1>7. ASSUME NEW r \in Handle, ClearStep(r) \/ Previewed(r) \/ PreviewFails(r)
        PROVE  WholeInv'
    BY <1>7, ClearingWhole, PreviewWhole DEF ClearStep
  <1>8. ASSUME NEW r \in Handle, StopEngine(r) \/ CloseManifest(r) \/ CloseStore(r)
        PROVE  WholeInv'
    BY <1>8, ShutdownWholeStep
  <1>9. ASSUME NEW r \in Handle, Finish(r) \/ Rejects(r) \/ CloseServer(r)
        PROVE  WholeInv'
    BY <1>9, FinishWhole, RejectsWhole, CloseServerWhole
  <1>10. CASE Exit
    BY <1>10, ExitWhole
  <1>11. CASE Start
    BY <1>11, StartWholeAgain
  <1>12. QED
    BY <1>1, <1>2, <1>3, <1>4, <1>5, <1>6, <1>7, <1>8, <1>9, <1>10, <1>11
       DEF Next, ShutdownStep, PearExit, ShutdownThrows

LEMMA WholeInvHolds == Spec => []WholeInv
  <1>1. Init => WholeInv
    <2> SUFFICES ASSUME Init
                 PROVE  WholeInv
      OBVIOUS
    <2>1. Busy = {} /\ Open = {} /\ engine = None /\ pending = None /\ engineOn = {}
      BY IdleTask DEF Init, ManagerInit, Busy, Open
    <2>2. IdsFresh /\ PreparedWhole /\ EngineWhole /\ NothingOrphaned
      BY <2>1 DEF IdsFresh, PreparedWhole, EngineWhole, NothingOrphaned, Open
    <2>3. QED
      BY <2>1, <2>2 DEF WholeInv
  <1>2. SessionsInv /\ SessionsInv' /\ WholeInv /\ [Next]_vars => WholeInv'
    BY WholeNext
  <1>3. QED
    BY <1>1, <1>2, SessionsInvHolds, PTL DEF Spec

(***************************************************************************)
(* The session that runs keeps its engine, manifest and store until it is  *)
(* shut down, and a prepared one its manifest and store until it is used   *)
(* or replaced (web-server.ts, index.js).                                  *)
(***************************************************************************)
THEOREM SessionIsWhole == Spec => []SessionsWhole
  <1>1. WholeInv => SessionsWhole
    <2> SUFFICES ASSUME WholeInv, ~overlapped
                 PROVE  /\ engine # None /\ ~ShuttingDown =>
                            engine.session \in storeOpen \cap manifestOpen \cap engineOn
                        /\ pending # None /\ Busy = {} /\ life = "up" =>
                            pending \in storeOpen \cap manifestOpen
      BY DEF SessionsWhole
    <2>1. PreparedWhole /\ EngineWhole
      BY DEF WholeInv
    <2>2. QED
      BY <2>1 DEF PreparedWhole, EngineWhole
  <1>2. QED
    BY <1>1, WholeInvHolds, PTL

(***************************************************************************)
(* What is open belongs to the session, the prepared one or a request      *)
(* under way, or a start that failed left it (startEngine closes nothing). *)
(***************************************************************************)
THEOREM OpenIsOwned == Spec => []NothingOrphaned
  <1>1. WholeInv => NothingOrphaned
    BY DEF WholeInv, NothingOrphaned
  <1>2. QED
    BY <1>1, WholeInvHolds, PTL

(***************************************************************************)
(* The web server closes a store after the engine and the manifest that    *)
(* use it: in a shutdown, in clearPendingJoinPreview, and in the catch of  *)
(* prepareJoinPreview.                                                     *)
(***************************************************************************)
StoreLast == (storeOpen \ storeOpen') \cap (manifestOpen' \cup engineOn') = {}

LEMMA ClosesLast ==
    ASSUME SessionsInv, SessionsInv', WholeInv, host = "web", ~overlapped, [Next]_vars,
           life' # "exited"
    PROVE  StoreLast
  <1>1. CASE storeOpen \subseteq storeOpen'
    BY <1>1 DEF StoreLast
  <1>2. ASSUME NEW r \in Handle, ClearStore(r)
        PROVE  StoreLast
    <2>1. r \in Busy
      BY <1>2, IsBusy DEF ClearStore, StartPlace
    <2>2. PreparedWhole /\ ClearWhole(task[r])
      BY <2>1, AloneHas DEF RequestWhole
    <2>3. pending \notin manifestOpen \cup engineOn
      BY <1>2, <2>2 DEF ClearStore, At, ClearWhole, PreparedWhole
    <2>4. QED
      BY <1>2, <2>3 DEF ClearStore, StoreLast
  <1>3. ASSUME NEW r \in Handle, CloseStore(r)
        PROVE  StoreLast
    <2>1. r \in Busy /\ task[r].pc = "closeStore"
      BY <1>3, IsBusy DEF CloseStore, At, ShutdownPlace
    <2>2. task[r].kind = "shutdown"
      BY <2>1, BusyShape DEF SessionsInv, StartPlace
    <2>3. ShutdownWhole(task[r])
      BY <2>1, <2>2, AloneHas DEF RequestWhole
    <2>4. engine # None => engine.session \notin manifestOpen \cup engineOn
      BY <2>1, <2>3 DEF ShutdownWhole
    <2>5. QED
      BY <1>3, <2>4 DEF CloseStore, Configured, StoreLast
  <1>4. ASSUME NEW r \in Handle, PreviewFails(r)
        PROVE  StoreLast
    <2>1. r \in Busy /\ task[r].kind = "preview" /\ task[r].pc \in {"open", "manifest", "list"}
      BY <1>4 DEF PreviewFails, PreviewRejects, At, Busy
    <2>2. StartWhole(r, task[r])
      BY <2>1, AloneHas DEF RequestWhole
    <2>3. r \notin engineOn
      BY <2>1, <2>2 DEF StartWhole, Open
    <2>4. QED
      BY <1>4, <2>3 DEF PreviewFails, PreviewRejects, StoreLast
  <1>5. ASSUME NEW r \in Handle,
               \/ ClearManifest(r) \/ ClearThrows(r) \/ Cleared(r) \/ ManagerStep(r)
               \/ Finish(r) \/ Rejects(r) \/ Previewed(r)
               \/ StopEngine(r) \/ CloseManifest(r) \/ CloseServer(r)
        PROVE  storeOpen \subseteq storeOpen'
    BY <1>5 DEF ClearManifest, ClearThrows, Cleared, ManagerStep, OpenStore, OpenManifest,
                ResolvePolicy, PersistConfig, ReadyEngine, Finish, Rejects, StartRejects, Previewed,
                StopEngine, CloseManifest, CloseServer, resources
  <1>6. ASSUME \/ \E r \in Request, folder \in Folder :
                    \/ \E join \in BOOLEAN, policy \in Policy \cup {None} :
                            Setup(r, folder, join, policy)
                    \/ Preview(r, folder)
               \/ \E r \in Request : Shutdown(r)
               \/ \E f \in Folder : PeerStep(f)
               \/ Start \/ UNCHANGED vars
        PROVE  storeOpen \subseteq storeOpen'
    BY <1>6 DEF Setup, Preview, Shutdown, PeerStep, PeerPersists, Start, vars, managerVars, resources
  <1>7. ~Exit
    BY DEF Exit
  <1>8. QED
    BY <1>1, <1>2, <1>3, <1>4, <1>5, <1>6, <1>7
       DEF Next, ClearStep, ShutdownStep, PearExit, ShutdownThrows

THEOREM StoreIsLast == Spec => StoreClosedLast
  <1>1. SessionsInv /\ SessionsInv' /\ WholeInv /\ [Next]_vars =>
            [host = "web" /\ ~overlapped /\ life' # "exited" =>
                (storeOpen \ storeOpen') \cap (manifestOpen' \cup engineOn') = {}]_vars
    BY ClosesLast DEF StoreLast
  <1>2. QED
    BY <1>1, SessionsInvHolds, WholeInvHolds, PTL DEF Spec, StoreClosedLast
=============================================================================
