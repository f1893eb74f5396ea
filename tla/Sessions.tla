------------------------------ MODULE Sessions ------------------------------
(***************************************************************************)
(* The process that hosts a session: the web server (web-server.ts) or the *)
(* Pear worker (index.js).  Its module variables engine, bridge,           *)
(* resolvedFolder and pendingJoinPreview are read and written by every     *)
(* request, with awaits in between; the process ends and starts again,     *)
(* and the folder saved last is started by itself.                         *)
(***************************************************************************)
EXTENDS EngineManager

CONSTANTS
    MaxBoots,       \* bound: starts of the process
    MaxBusy         \* bound: requests under way at once

ASSUME BootsAssumption == MaxBoots \in Nat

VARIABLES
    host,           \* "web" or "pear"
    life,           \* the process: exited, up, or down (it no longer listens)
    engine,         \* [session, folder, policy], or None
    bridge,         \* what its status says: [session, folder, policy], or None
    resolvedFolder, \* the folder of the request that came last
    pending,        \* pendingJoinPreview: a session, or None
    shutdownCalled,
    saved,          \* last-folder-config: the folder on disk
    requests, boots,\* counts
    ran,            \* the folders whose session started (history)
    overlapped      \* a request came while another was under way (history)

closure == <<engine, bridge, resolvedFolder, pending, shutdownCalled>>
counts == <<host, requests, boots>>
history == <<ran, overlapped>>
vars == <<managerVars, closure, counts, history, life, saved>>

Init ==
    /\ ManagerInit
    /\ host \in {"web", "pear"} /\ life = "exited"
    /\ engine = None /\ bridge = None /\ resolvedFolder = None
    /\ pending = None /\ shutdownCalled = FALSE
    /\ saved = None /\ requests = 0 /\ boots = 0
    /\ ran = {} /\ overlapped = FALSE

-----------------------------------------------------------------------------
(***************************************************************************)
(* Requests arrive.  The web server listens when the automatic start has   *)
(* ended; the worker reads its pipe all the while.                         *)
(***************************************************************************)
Serving ==
    /\ life = "up" /\ (host = "pear" \/ Boot \notin Busy)
    /\ Cardinality(Busy) < MaxBusy

Arrives(r) ==
    /\ Serving /\ r = requests + 1
    /\ requests' = r
    /\ overlapped' = (overlapped \/ Busy # {})
    /\ UNCHANGED <<host, boots, ran, life, saved>>

Begin(r, t) == task' = [task EXCEPT ![r] = t]

\* clearPendingJoinPreview first, if there is one.
Clearing == IF pending = None THEN "open" ELSE "clear"

\* A setup with the folder and the invite of the preview uses its session.
TakePrepared(r, folder, policy) ==
    /\ pending # None /\ task[pending].folder = folder
    /\ Begin(r, Task("setup", folder, TRUE, policy, pending, "resolve", "open"))
    /\ pending' = None

\* Mutant of Configured: a session that has started does not count.
ConfiguredNot == FALSE

\* A second setup is refused: "Already configured".
Configured == engine # None

Setup(r, folder, join, policy) ==
    /\ Arrives(r) /\ ~Configured
    /\ resolvedFolder' = folder
    /\ \/ host = "web" /\ join /\ TakePrepared(r, folder, policy)
       \/ /\ host = "web"
          /\ Begin(r, Task("setup", folder, join, policy, r, Clearing, "open"))
          /\ UNCHANGED pending
       \/ /\ host = "pear"
          /\ Begin(r, Task("setup", folder, join, policy, r, "open", "open"))
          /\ UNCHANGED pending
    /\ UNCHANGED <<policies, resources, leaked, engine, bridge, shutdownCalled>>

Preview(r, folder) ==
    /\ host = "web" /\ Arrives(r) /\ ~Configured
    /\ resolvedFolder' = folder
    /\ Begin(r, Task("preview", folder, TRUE, None, r, Clearing, "open"))
    /\ UNCHANGED <<policies, resources, leaked, engine, bridge, pending, shutdownCalled>>

\* By a request or a signal; only the web server remembers that it was called.
Shutdown(r) ==
    /\ Arrives(r) /\ ~shutdownCalled
    /\ shutdownCalled' = (host = "web")
    /\ Begin(r, Task("shutdown", None, FALSE, None, None,
                     IF host = "web" /\ pending # None THEN "clear" ELSE "stop", "stop"))
    /\ UNCHANGED <<policies, resources, leaked, engine, bridge, resolvedFolder, pending>>

-----------------------------------------------------------------------------
(***************************************************************************)
(* clearPendingJoinPreview: it reads pendingJoinPreview again after each   *)
(* await, and throws if another call has reset it.                         *)
(***************************************************************************)
sameProcess == <<engine, bridge, resolvedFolder, shutdownCalled, counts, history, life, saved>>

GoOn(r) == IF task[r].next = "done" THEN Done(r) ELSE Goto(r, task[r].next)

ClearManifest(r) ==
    /\ At(r, "clear")
    /\ manifestOpen' = manifestOpen \ {pending}
    /\ IF pending = None THEN GoOn(r) ELSE Goto(r, "clearStore")
    /\ UNCHANGED <<policies, storeOpen, engineOn, leaked, pending, sameProcess>>

ClearStore(r) ==
    /\ At(r, "clearStore") /\ pending # None
    /\ storeOpen' = storeOpen \ {pending}
    /\ Goto(r, "cleared")
    /\ UNCHANGED <<policies, manifestOpen, engineOn, leaked, pending, sameProcess>>

ClearThrows(r) ==
    /\ At(r, "clearStore") /\ pending = None /\ task[r].kind # "shutdown"
    /\ Done(r)
    /\ UNCHANGED <<policies, resources, leaked, pending, sameProcess>>

\* Mutant of Cleared: pendingJoinPreview is not reset.
ClearedKeeping(r) ==
    /\ At(r, "cleared")
    /\ GoOn(r)
    /\ UNCHANGED <<policies, resources, leaked, pending, sameProcess>>

Cleared(r) ==
    /\ At(r, "cleared")
    /\ pending' = None
    /\ GoOn(r)
    /\ UNCHANGED <<policies, resources, leaked, sameProcess>>

-----------------------------------------------------------------------------
\* A step of the engine manager leaves the process' variables alone.
ManagerStep(r) ==
    /\ \/ OpenStore(r) \/ OpenManifest(r) \/ ResolvePolicy(r)
       \/ PersistConfig(r) \/ ReadyEngine(r)
    /\ UNCHANGED <<closure, counts, history, life, saved>>

PeerStep(f) ==
    /\ life = "up" /\ PeerPersists(f)
    /\ UNCHANGED <<closure, counts, history, life, saved>>

\* saveLastFolder: a session that was started by itself is saved already.
SaveLastFolder(r) ==
    saved' = IF task[r].kind = "setup" THEN resolvedFolder ELSE saved

\* Mutant of Finish: the bridge is told the policy asked for, not the one resolved.
FinishAsked(r) ==
    /\ At(r, "start") /\ Starting(r)
    /\ LET session == task[r].session IN
        /\ engine' = [session |-> session, folder |-> task[r].folder, policy |-> task[r].policy]
        /\ bridge' = [session |-> session, folder |-> resolvedFolder, policy |-> task[r].asked]
    /\ SaveLastFolder(r)
    /\ ran' = ran \cup {task[r].folder}
    /\ Done(r)
    /\ UNCHANGED <<policies, resources, leaked, resolvedFolder, pending, shutdownCalled,
                   counts, overlapped, life>>

\* The engine has started: the session becomes the process' own.
Finish(r) ==
    /\ At(r, "start") /\ Starting(r)
    /\ LET session == task[r].session IN
        /\ engine' = [session |-> session, folder |-> task[r].folder, policy |-> task[r].policy]
        /\ bridge' = [session |-> session, folder |-> resolvedFolder, policy |-> task[r].policy]
    /\ SaveLastFolder(r)
    /\ ran' = ran \cup {task[r].folder}
    /\ Done(r)
    /\ UNCHANGED <<policies, resources, leaked, resolvedFolder, pending, shutdownCalled,
                   counts, overlapped, life>>

ClearThenAnswer(r) ==
    IF pending = None THEN Done(r)
    ELSE task' = [task EXCEPT ![r].pc = "clear", ![r].next = "done"]

\* Mutant of Rejects: the folder of a failed setup is saved too.
RejectsSaving(r) ==
    /\ StartRejects(r)
    /\ IF task[r].kind = "boot"
       THEN engine' = None /\ bridge' = None /\ resolvedFolder' = None
       ELSE UNCHANGED <<engine, bridge, resolvedFolder>>
    /\ IF host = "web" /\ task[r].kind = "setup" THEN ClearThenAnswer(r) ELSE Done(r)
    /\ SaveLastFolder(r)
    /\ UNCHANGED <<pending, shutdownCalled, counts, history, life>>

\* The catch of a setup clears the pending preview; that of the automatic
\* start resets the process' variables.
Rejects(r) ==
    /\ StartRejects(r)
    /\ IF task[r].kind = "boot"
       THEN engine' = None /\ bridge' = None /\ resolvedFolder' = None
       ELSE UNCHANGED <<engine, bridge, resolvedFolder>>
    /\ IF host = "web" /\ task[r].kind = "setup" THEN ClearThenAnswer(r) ELSE Done(r)
    /\ UNCHANGED <<pending, shutdownCalled, counts, history, life, saved>>

\* The listing of folder and manifest is left to JoinPreview.
Previewed(r) ==
    /\ At(r, "list")
    /\ pending' = r
    /\ Done(r)
    /\ UNCHANGED <<policies, resources, leaked, sameProcess>>

PreviewFails(r) ==
    /\ PreviewRejects(r)
    /\ ClearThenAnswer(r)
    /\ UNCHANGED <<pending, sameProcess>>

-----------------------------------------------------------------------------
(***************************************************************************)
(* Shutdown: the engine, then its manifest (the web server only), then the *)
(* store; the worker ends the process with it.                             *)
(***************************************************************************)
StopEngine(r) ==
    /\ At(r, "stop")
    /\ engineOn' = IF Configured THEN engineOn \ {engine.session} ELSE engineOn
    /\ task' = [task EXCEPT ![r].session = IF Configured THEN engine.session ELSE None,
                            ![r].pc = IF host = "web" THEN "closeManifest" ELSE "closeStore"]
    /\ UNCHANGED <<policies, storeOpen, manifestOpen, leaked, pending, sameProcess>>

\* Mutant of CloseManifest: the manifest is left to the process' end.
CloseManifestNot(r) ==
    /\ At(r, "closeManifest") /\ Goto(r, "closeStore")
    /\ UNCHANGED <<policies, resources, leaked, pending, sameProcess>>

CloseManifest(r) ==
    /\ At(r, "closeManifest")
    /\ manifestOpen' = manifestOpen \ {task[r].session}
    /\ Goto(r, "closeStore")
    /\ UNCHANGED <<policies, storeOpen, engineOn, leaked, pending, sameProcess>>

CloseStore(r) ==
    /\ At(r, "closeStore")
    /\ storeOpen' = IF Configured THEN storeOpen \ {engine.session} ELSE storeOpen
    /\ Goto(r, "closeServer")
    /\ UNCHANGED <<policies, manifestOpen, engineOn, leaked, pending, sameProcess>>

CloseServer(r) ==
    /\ At(r, "closeServer") /\ host = "web"
    /\ life' = "down"
    /\ Done(r)
    /\ UNCHANGED <<policies, resources, leaked, closure, counts, history, saved>>

\* The process ends, by itself or not: what it held is released.
Exit ==
    /\ life # "exited" /\ life' = "exited"
    /\ task' = [r \in Handle |-> Idle]
    /\ storeOpen' = {} /\ manifestOpen' = {} /\ engineOn' = {} /\ leaked' = {}
    /\ engine' = None /\ bridge' = None /\ resolvedFolder' = None
    /\ pending' = None /\ shutdownCalled' = FALSE
    /\ UNCHANGED <<policies, counts, history, saved>>

PearExit(r) == At(r, "closeServer") /\ host = "pear" /\ Exit

\* A rejection that nobody handles ends the process.
ShutdownThrows(r) ==
    At(r, "clearStore") /\ pending = None /\ task[r].kind = "shutdown" /\ Exit

\* The folder saved last, or None.
LoadLastFolder == saved

\* createServer or the worker starts, with --folder (the server only), with
\* the folder saved last, or with the setup screen.
Start ==
    /\ life = "exited" /\ boots < MaxBoots
    /\ life' = "up" /\ boots' = boots + 1
    /\ \E folder \in {LoadLastFolder} \cup (IF host = "web" THEN Folder ELSE {}) :
        /\ resolvedFolder' = folder
        /\ IF folder = None THEN UNCHANGED task
           ELSE Begin(Boot, Task("boot", folder, FALSE, None, Boot, "open", "open"))
    /\ UNCHANGED <<policies, resources, leaked, engine, bridge, pending, shutdownCalled,
                   host, requests, history, saved>>

-----------------------------------------------------------------------------
ShutdownStep(r) ==
    \/ StopEngine(r) \/ CloseManifest(r) \/ CloseStore(r) \/ CloseServer(r)
    \/ PearExit(r) \/ ShutdownThrows(r)

ClearStep(r) == ClearManifest(r) \/ ClearStore(r) \/ ClearThrows(r) \/ Cleared(r)

Next ==
    \/ \E r \in Request, folder \in Folder :
        \/ \E join \in BOOLEAN, policy \in Policy \cup {None} :
            Setup(r, folder, join, policy)
        \/ Preview(r, folder)
    \/ \E r \in Request : Shutdown(r)
    \/ \E r \in Handle :
        \/ ClearStep(r) \/ ManagerStep(r) \/ Finish(r) \/ Rejects(r)
        \/ Previewed(r) \/ PreviewFails(r) \/ ShutdownStep(r)
    \/ \E f \in Folder : PeerStep(f)
    \/ Exit \/ Start

Spec == Init /\ [][Next]_vars

-----------------------------------------------------------------------------
(***************************************************************************)
(* The variables have their types.                                         *)
(***************************************************************************)
Choice == Policy \cup {None}
Place == {"idle", "clear", "clearStore", "cleared", "open", "manifest", "resolve",
          "persist", "ready", "start", "list", "stop", "closeManifest", "closeStore",
          "closeServer", "done"}

TaskType ==
    [kind : {"none", "boot", "setup", "preview", "shutdown"},
     folder : Folder \cup {None}, join : BOOLEAN, asked : Choice, policy : Choice,
     session : Handle \cup {None}, pc : Place, next : {"idle", "open", "stop", "done"}]

SessionType == [session : Handle, folder : Folder \cup {None}, policy : Choice]

ASSUME SessionAssumption == None \notin SessionType

SessionsTypeOK ==
    /\ task \in [Handle -> TaskType]
    /\ config \in [Folder -> Choice] /\ chosen \in [Folder -> Choice]
    /\ storeOpen \subseteq Handle /\ manifestOpen \subseteq Handle
    /\ engineOn \subseteq Handle /\ leaked \subseteq Handle
    /\ host \in {"web", "pear"} /\ life \in {"exited", "up", "down"}
    /\ engine \in SessionType \cup {None} /\ bridge \in SessionType \cup {None}
    /\ resolvedFolder \in Folder \cup {None} /\ saved \in Folder \cup {None}
    /\ pending \in Handle \cup {None} /\ shutdownCalled \in BOOLEAN
    /\ requests \in 0 .. MaxRequests /\ boots \in 0 .. MaxBoots
    /\ ran \subseteq Folder /\ overlapped \in BOOLEAN

(***************************************************************************)
(* What the status says is the session there is: its folder and policy are *)
(* those the engine runs with, whatever requests came, failed and were     *)
(* refused before, as long as no two were under way at once.               *)
(***************************************************************************)
BridgeAgrees == ~overlapped => bridge = engine

(***************************************************************************)
(* The folder that is started by itself is one whose session has started   *)
(* before: no setup that failed and no preview is remembered.              *)
(***************************************************************************)
SavedHasRun == ~overlapped => saved \in ran \cup {None}

(***************************************************************************)
(* README: the config "remembers the last sync folder".  Whatever requests *)
(* overlap, a folder nobody has synced is not saved as that.               *)
(***************************************************************************)
OnlySyncedSaved == saved \in ran \cup {None}

(***************************************************************************)
(* The running session has its engine, manifest and store until it is shut *)
(* down, and the session of a preview keeps its manifest and store until   *)
(* it is used or replaced.                                                 *)
(***************************************************************************)
ShuttingDown == life = "down" \/ \E r \in Handle : task[r].kind = "shutdown"

SessionsWhole ==
    ~overlapped =>
        /\ engine # None /\ ~ShuttingDown =>
            engine.session \in storeOpen \cap manifestOpen \cap engineOn
        /\ pending # None /\ Busy = {} /\ life = "up" =>
            pending \in storeOpen \cap manifestOpen

(***************************************************************************)
(* What is open belongs to somebody: to the running session, the prepared  *)
(* one, or a request under way; else its start has failed.  When the web   *)
(* server has shut down, only the latter is left.                          *)
(***************************************************************************)
Owned ==
    {task[r].session : r \in Busy}
        \cup IF life = "up" THEN {pending} \cup IF engine = None THEN {} ELSE {engine.session}
             ELSE {}

NothingOrphaned ==
    ~overlapped => storeOpen \cup manifestOpen \cup engineOn \subseteq Owned \cup leaked

(***************************************************************************)
(* The policy a user chose for a folder is the one its sessions run with,  *)
(* across restarts, failed starts, and other policies found in a manifest  *)
(* that is joined, until a peer sets another.                              *)
(***************************************************************************)
ChosenPolicyRuns ==
    ~overlapped /\ engine # None /\ chosen[engine.folder] # None =>
        engine.policy = chosen[engine.folder]

(***************************************************************************)
(* The web server closes a store only after the engine and the manifest    *)
(* that use it.                                                            *)
(***************************************************************************)
StoreClosedLast ==
    [][host = "web" /\ ~overlapped /\ life' # "exited" =>
        (storeOpen \ storeOpen') \cap (manifestOpen' \cup engineOn') = {}]_vars

(***************************************************************************)
(* A session that has started is the process' only one until its end.      *)
(***************************************************************************)
EngineKept ==
    [][engine # None /\ ~overlapped' /\ life' # "exited" => engine' = engine]_vars
=============================================================================
