---------------------------- MODULE EngineManager ----------------------------
(***************************************************************************)
(* Starting a session (engine-manager.ts): open the store kept in the      *)
(* folder, create or pair the manifest, settle the conflict policy with    *)
(* the shared __config entry, make the engine ready and start it; and the  *)
(* join preview, which stops after the manifest.  A step is what happens   *)
(* between two awaits; several of these functions may be under way.        *)
(* A store is known by the request that opened it.  The store's lock       *)
(* (Corestore, external) lets a folder be open only once at a time.        *)
(***************************************************************************)
EXTENDS Naturals, FiniteSets

CONSTANTS
    Folder,         \* the folders a user may choose
    Policy,         \* startupConflictPolicies
    None,           \* null: no folder, no policy, no session
    MaxRequests     \* bound: requests in a behaviour

ASSUME NoneAssumption == None \notin Folder \cup Policy /\ None \notin Nat
ASSUME RequestAssumption == MaxRequests \in Nat

Request == 1 .. MaxRequests
Boot == 0                       \* the start of the process is a request too
Handle == Request \cup {Boot}

VARIABLES
    task,           \* what each request is at
    config,         \* the policy in the __config entry of each folder's manifest
    storeOpen,      \* the stores that are open
    manifestOpen,   \* the manifests that are open
    engineOn,       \* the engines that are ready and not closed
    leaked,         \* the sessions whose start failed (history)
    chosen          \* the policy chosen for each folder and not set by a peer since (history)

resources == <<storeOpen, manifestOpen, engineOn>>
policies == <<config, chosen>>
managerVars == <<task, resources, policies, leaked>>

\* asked, policy: the policy of the request, and the one resolved;
\* session: the request whose store and manifest it uses;
\* next: where to go on when the prepared session has been closed.
Task(kind, folder, join, asked, session, pc, next) ==
    [kind |-> kind, folder |-> folder, join |-> join, asked |-> asked, policy |-> None,
     session |-> session, pc |-> pc, next |-> next]

Idle == Task("none", None, FALSE, None, None, "idle", "idle")

ManagerInit ==
    /\ task = [r \in Handle |-> Idle]
    /\ config = [f \in Folder |-> None]
    /\ chosen = [f \in Folder |-> None]
    /\ storeOpen = {} /\ manifestOpen = {} /\ engineOn = {} /\ leaked = {}

At(r, pc) == task[r].pc = pc
Goto(r, pc) == task' = [task EXCEPT ![r].pc = pc]
\* A request that has been answered leaves the folder its store is in.
Done(r) ==
    task' = [task EXCEPT ![r] = Task("none", task[r].folder, FALSE, None, None, "done", "idle")]
Busy == {r \in Handle : task[r].pc \notin {"idle", "done"}}
Starting(r) == task[r].kind \in {"boot", "setup"}

\* What is closed serves no call.
Usable(r) == task[r].session \in storeOpen \cap manifestOpen

Locked(folder) == \E h \in storeOpen : task[h].folder = folder

\* new Corestore, and the lock taken when it is first used.
OpenStore(r) ==
    /\ At(r, "open") /\ ~Locked(task[r].folder)
    /\ storeOpen' = storeOpen \cup {r}
    /\ Goto(r, "manifest")
    /\ UNCHANGED <<policies, manifestOpen, engineOn, leaked>>

SetByOthers(folder, policy) ==
    /\ config' = [config EXCEPT ![folder] = policy]
    /\ chosen' = [chosen EXCEPT ![folder] = None]

\* ManifestStore.pair or create, and ready; a network that is joined brings
\* the __config entry of its peers.
OpenManifest(r) ==
    /\ At(r, "manifest")
    /\ manifestOpen' = manifestOpen \cup {r}
    /\ IF task[r].join
       THEN \E p \in Policy \cup {None} : SetByOthers(task[r].folder, p)
       ELSE UNCHANGED policies
    /\ Goto(r, IF Starting(r) THEN "resolve" ELSE "list")
    /\ UNCHANGED <<storeOpen, engineOn, leaked>>

\* Mutant of ResolvePolicy: no policy at all is undefined, not null.
ResolveUndefined(r) ==
    /\ At(r, "resolve") /\ Usable(r)
    /\ LET asked == task[r].asked
           persisted == config[task[r].folder] IN
        task' = [task EXCEPT ![r].pc = "persist",
                             ![r].policy = IF asked # None THEN asked
                                           ELSE IF persisted # None THEN persisted
                                           ELSE "undefined"]
    /\ UNCHANGED <<policies, resources, leaked>>

\* Mutant of ResolvePolicy: the persisted policy comes first.
ResolvePersisted(r) ==
    /\ At(r, "resolve") /\ Usable(r)
    /\ LET persisted == config[task[r].folder] IN
        task' = [task EXCEPT ![r].pc = "persist",
                             ![r].policy = IF persisted = None THEN task[r].asked ELSE persisted]
    /\ UNCHANGED <<policies, resources, leaked>>

\* resolvePolicyState: the policy asked for, else the persisted one.
ResolvePolicy(r) ==
    /\ At(r, "resolve") /\ Usable(r)
    /\ LET asked == task[r].asked IN
        task' = [task EXCEPT ![r].pc = "persist",
                             ![r].policy = IF asked = None THEN config[task[r].folder] ELSE asked]
    /\ UNCHANGED <<policies, resources, leaked>>

\* persistConfig: the settings read before, with the policy resolved.
PersistConfig(r) ==
    /\ At(r, "persist") /\ Usable(r)
    /\ LET folder == task[r].folder IN
        /\ config' = [config EXCEPT ![folder] = task[r].policy]
        /\ chosen' = [chosen EXCEPT ![folder] =
                            IF task[r].asked = None THEN @ ELSE task[r].asked]
    /\ Goto(r, "ready")
    /\ UNCHANGED <<resources, leaked>>

ReadyEngine(r) ==
    /\ At(r, "ready") /\ Usable(r)
    /\ engineOn' = engineOn \cup {task[r].session}
    /\ Goto(r, "start")
    /\ UNCHANGED <<policies, storeOpen, manifestOpen, leaked>>

\* One of the awaits of startEngine rejects, among them the mkdir before the
\* store and the opening of a store that is locked: nothing it opened is closed.
StartRejects(r) ==
    /\ Starting(r)
    /\ task[r].pc \in {"open", "manifest", "resolve", "persist", "ready", "start"}
    /\ leaked' = leaked \cup ({task[r].session} \cap storeOpen)
    /\ UNCHANGED <<policies, resources>>

\* Mutant of PreviewRejects: the catch closes the manifest only.
PreviewRejectsOpen(r) ==
    /\ task[r].kind = "preview"
    /\ task[r].pc \in {"open", "manifest", "list"}
    /\ manifestOpen' = manifestOpen \ {r}
    /\ UNCHANGED <<policies, storeOpen, engineOn, leaked>>

\* The catch of prepareJoinPreview closes what it opened.
PreviewRejects(r) ==
    /\ task[r].kind = "preview"
    /\ task[r].pc \in {"open", "manifest", "list"}
    /\ storeOpen' = storeOpen \ {r} /\ manifestOpen' = manifestOpen \ {r}
    /\ UNCHANGED <<policies, engineOn, leaked>>

\* Another peer of the folder's network starts a session with a policy of its own.
PeerPersists(f) ==
    /\ \E h \in manifestOpen : task[h].folder = f
    /\ \E p \in Policy : SetByOthers(f, p)
    /\ UNCHANGED <<task, resources, leaked>>
=============================================================================
