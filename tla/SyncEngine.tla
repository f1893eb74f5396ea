----------------------------- MODULE SyncEngine -----------------------------
(***************************************************************************)
(* The sync engines of all peers (src/src/lib/sync-engine.ts), the folders *)
(* they keep in step, the watcher of each folder, and the users.           *)
(*                                                                         *)
(* An engine runs two promise queues: one takes the watcher's events, one  *)
(* compares the manifest with the folder.  Within a queue one handler runs *)
(* to its end before the next starts; between the queues, and against the  *)
(* user and replication, a handler may be overtaken wherever it awaits.    *)
(* Each queue is a frame with a program counter, and one action is what    *)
(* runs between two awaits.                                                *)
(***************************************************************************)
EXTENDS Manifest, Sequences

CONSTANTS
    Policy,         \* startup conflict policies a session may be started with
    Joining,        \* peers that have yet to join, with a folder of their own
    Seed,           \* content in sync everywhere at the start, or None
    SeedWriter,     \* who uploaded it
    Editors,        \* peers whose user edits the folder
    Restarting,     \* peers that may stop, crash or fail to fetch
    Calm,           \* TRUE: users act only while everything is at rest
    SteadyStart,    \* TRUE: a start finds the others at rest and its view
                    \*       caught up, and no entry comes before it is live
    \* bounds on user edits, stops, crashes, failed fetches while live and in
    \* start(), unrelated updates, and events waiting in a queue
    MaxEdits, MaxStops, MaxCrashes, MaxFaults, MaxAborts, MaxUpdates, MaxQueue

Policies == {"remote-wins", "local-wins", "keep-both"}

ASSUME ConstantsAssumption ==
    /\ Policy \subseteq Policies /\ Policy # {}
    /\ Joining \subseteq Peer
    /\ Seed \in Content \cup {None}
    /\ SeedWriter \in Peer \ Joining
    /\ Editors \subseteq Peer /\ Restarting \subseteq Peer
    /\ Calm \in BOOLEAN /\ SteadyStart \in BOOLEAN
    /\ {MaxEdits, MaxStops, MaxCrashes, MaxFaults, MaxAborts, MaxUpdates, MaxQueue}
            \subseteq Nat

VARIABLES
    disk,       \* disk[p][x]: what the file at x holds in p's folder
    dirty,      \* dirty[p]: paths that changed since the watcher looked
    known,      \* known[p]: paths the watcher has seen to exist
    tracked,    \* tracked[p][x]: lastSyncedHash of the local state store
    suppressed, \* suppressed[p]: suppressedPaths
    queue,      \* queue[p]: watcher events not yet handled
    local,      \* local[p]: the frame of the local change queue
    owed,       \* owed[p]: a scan is waiting in the remote update queue
    remote,     \* remote[p]: the frame of the remote update queue
    phase,      \* phase[p]: where the engine is between ready() and close()
    listing,    \* listing[p]: paths initialSync has yet to visit
    policy,     \* policy[p]: startupConflictPolicy of p's session
    used        \* how much of each bound has been used

folderVars == <<disk, dirty, known>>
localVars == <<queue, local>>
remoteVars == <<owed, remote>>
startVars == <<phase, listing, policy>>
vars == <<manifestVars, folderVars, tracked, suppressed, localVars, remoteVars,
          startVars, used>>

(***************************************************************************)
(* lastSyncedHash and lastManifestHash are always written together and     *)
(* equal (316-322, 242-247, 473-478, 577-582, 608-613), so one hash stands *)
(* for both.  localState.set also awaits the write of state.json; a crash  *)
(* during that await is modelled as one just before the set, and the store *)
(* itself is the subject of LocalStateStore.                               *)
(***************************************************************************)
Event == [type : {"update", "delete"}, path : AllPath]

IdleLocal == [pc |-> "idle", path |-> None, data |-> None, base |-> None]

LocalFrame ==
    [pc : {"idle", "read", "lookup", "publish", "record", "find", "entomb", "forget"},
     path : AllPath \cup {None},
     data : Content \cup {None},    \* what drive.get returned
     base : Content \cup {None}]    \* baseHash of the entry to publish

IdleRemote == [pc |-> "idle", snap |-> {}, item |-> None, tr |-> None, seen |-> None]

RemoteFrame ==
    [pc : {"idle", "pick", "read", "await", "copy", "fetch", "record", "delete", "forget"},
     snap : SUBSET ManifestEntry,           \* entries still to be compared
     item : ManifestEntry \cup {None},      \* the entry being compared
     tr : Content \cup {None},              \* tracked, read before the await
     seen : Content \cup {None}]            \* localData

DefaultPolicy == "remote-wins"

Phases == {"down", "ready", "reconcile", "listing", "live", "stopping"}

NoFiles == [x \in AllPath |-> None]
OnDisk(p) == {x \in AllPath : disk[p][x] # None}

-----------------------------------------------------------------------------
(***************************************************************************)
(* Initial states: the peers that have joined share the seeded files and   *)
(* are live; a joining peer has a folder of its own and an empty manifest. *)
(***************************************************************************)
Seeded == [x \in AllPath |-> IF x \in Path THEN Seed ELSE None]
SeedEntry(x) ==
    IF x \in Path /\ Seed # None THEN File(Seed, None, SeedWriter, 2) ELSE None

Folders == {f \in [AllPath -> Content \cup {None}] : \A x \in Copies : f[x] = None}

Init ==
    /\ log = [x \in AllPath |-> {SeedEntry(x)} \ {None}]
    /\ view = [p \in Peer |->
                IF p \in Joining THEN NoFiles ELSE [x \in AllPath |-> SeedEntry(x)]]
    /\ disk \in {d \in [Peer -> Folders] : \A p \in Peer \ Joining : d[p] = Seeded}
    /\ tracked = [p \in Peer |-> IF p \in Joining THEN NoFiles ELSE Seeded]
    /\ dirty = [p \in Peer |-> {}]
    /\ known = [p \in Peer |-> IF p \in Joining THEN {} ELSE OnDisk(p)]
    /\ suppressed = [p \in Peer |-> {}]
    /\ queue = [p \in Peer |-> <<>>]
    /\ local = [p \in Peer |-> IdleLocal]
    /\ owed = [p \in Peer |-> FALSE]
    /\ remote = [p \in Peer |-> IdleRemote]
    /\ phase = [p \in Peer |-> IF p \in Joining THEN "down" ELSE "live"]
    /\ listing = [p \in Peer |-> {}]
    /\ policy = [p \in Peer |-> DefaultPolicy]
    /\ used = [edits |-> 0, stops |-> 0, crashes |-> 0, faults |-> 0, aborts |-> 0,
               updates |-> 0]

Spend(budget, limit) ==
    /\ used[budget] < limit
    /\ used' = [used EXCEPT ![budget] = @ + 1]

-----------------------------------------------------------------------------
(***************************************************************************)
(* The folder, the user and the watcher.  watch-drive and localwatch are   *)
(* external: they notice that a path changed, at some later time look at   *)
(* it once however often it changed, and report it as it is then.  Files   *)
(* present when the watcher opens give no event.                           *)
(***************************************************************************)
Touch(p, x, c) ==
    /\ disk' = [disk EXCEPT ![p][x] = c]
    /\ dirty' = [dirty EXCEPT ![p] = IF phase[p] = "live" THEN @ \cup {x} ELSE @]
    /\ UNCHANGED known

QueuesIdle(p) ==
    /\ queue[p] = <<>> /\ local[p].pc = "idle"
    /\ ~owed[p] /\ remote[p].pc = "idle"

Quiet(p) == phase[p] = "live" /\ dirty[p] = {} /\ QueuesIdle(p)

Running == {p \in Peer : phase[p] # "down"}

CaughtUp(p) == \A q \in Running : view[q] = view[p]

\* Nothing is under way at the peers that run, and they have the same manifest.
AtRest == \A p \in Running : Quiet(p) /\ CaughtUp(p)

UserEdit(p, x, c) ==
    /\ p \in Editors /\ disk[p][x] # c
    /\ Calm => AtRest
    /\ Spend("edits", MaxEdits)
    /\ Touch(p, x, c)
    /\ UNCHANGED <<manifestVars, tracked, suppressed, localVars, remoteVars, startVars>>

\* The user saves, creates or deletes a file.
UserWrite(p) == \E x \in Path, c \in Content : UserEdit(p, x, c)
UserDelete(p) == \E x \in Path : UserEdit(p, x, None)

Emit(p, x, type) ==
    /\ phase[p] = "live" /\ x \in dirty[p] /\ Len(queue[p]) < MaxQueue
    /\ dirty' = [dirty EXCEPT ![p] = @ \ {x}]
    /\ queue' = [queue EXCEPT ![p] = Append(@, [type |-> type, path |-> x])]
    /\ UNCHANGED <<manifestVars, disk, tracked, suppressed, local, remoteVars,
                   startVars, used>>

WatchUpdate(p, x) ==
    /\ disk[p][x] # None
    /\ known' = [known EXCEPT ![p] = @ \cup {x}]
    /\ Emit(p, x, "update")

WatchDelete(p, x) ==
    /\ disk[p][x] = None /\ x \in known[p]
    /\ known' = [known EXCEPT ![p] = @ \ {x}]
    /\ Emit(p, x, "delete")

\* Created and deleted again between two looks.
WatchNothing(p, x) ==
    /\ phase[p] = "live" /\ x \in dirty[p]
    /\ disk[p][x] = None /\ x \notin known[p]
    /\ dirty' = [dirty EXCEPT ![p] = @ \ {x}]
    /\ UNCHANGED <<manifestVars, disk, known, tracked, suppressed, localVars,
                   remoteVars, startVars, used>>

Watch(p) ==
    \E x \in dirty[p] : WatchUpdate(p, x) \/ WatchDelete(p, x) \/ WatchNothing(p, x)

-----------------------------------------------------------------------------
(***************************************************************************)
(* The local change queue: handleLocalChange (190-270).  While initialSync *)
(* lists the folder (567-620) the same frame carries its uploads.          *)
(***************************************************************************)
EventReady(p) == phase[p] # "down" /\ local[p].pc = "idle" /\ queue[p] # <<>>

\* Watcher feedback: the event is dropped, and so is the mark (194-197).
SuppressEvent(p) ==
    /\ EventReady(p) /\ Head(queue[p]).path \in suppressed[p]
    /\ suppressed' = [suppressed EXCEPT ![p] = @ \ {Head(queue[p]).path}]
    /\ queue' = [queue EXCEPT ![p] = Tail(@)]
    /\ UNCHANGED <<manifestVars, folderVars, tracked, local, remoteVars, startVars, used>>

TakeEvent(p) ==
    /\ EventReady(p) /\ Head(queue[p]).path \notin suppressed[p]
    /\ local' = [local EXCEPT ![p] =
                    [IdleLocal EXCEPT
                        !.pc = IF Head(queue[p]).type = "update" THEN "read" ELSE "find",
                        !.path = Head(queue[p]).path]]
    /\ queue' = [queue EXCEPT ![p] = Tail(@)]
    /\ UNCHANGED <<manifestVars, folderVars, tracked, suppressed, remoteVars,
                   startVars, used>>

\* A step of the local frame of p at pc that goes on to next.
At(p, pc) == local[p].pc = pc

Becomes(p, next) == local' = [local EXCEPT ![p] = next]

ReadLocalFile(p) ==
    LET c == disk[p][local[p].path] IN
    /\ At(p, "read")
    /\ Becomes(p, IF c = None THEN IdleLocal
                  ELSE [local[p] EXCEPT !.pc = "lookup", !.data = c])
    /\ UNCHANGED <<manifestVars, folderVars, tracked, suppressed, queue, remoteVars,
                   startVars, used>>

LookedUp(p) == view[p][local[p].path]

SameAsManifest(p) == IsFile(LookedUp(p)) /\ LookedUp(p).hash = local[p].data

\* The manifest has this content: the listing notes it, an event is dropped.
SkipUnchanged(p) ==
    /\ At(p, "lookup") /\ SameAsManifest(p)
    /\ tracked' = IF phase[p] = "listing"
                  THEN [tracked EXCEPT ![p][local[p].path] = local[p].data]
                  ELSE tracked
    /\ Becomes(p, IdleLocal)
    /\ UNCHANGED <<manifestVars, folderVars, suppressed, queue, remoteVars, startVars, used>>

\* Mutant of BaseOnManifest: the local state is updated before the manifest.
BaseOnManifestEarly(p) ==
    /\ At(p, "lookup") /\ ~SameAsManifest(p)
    /\ tracked' = [tracked EXCEPT ![p][local[p].path] = local[p].data]
    /\ Becomes(p, [local[p] EXCEPT !.pc = "publish", !.base = NextBase(LookedUp(p))])
    /\ UNCHANGED <<manifestVars, folderVars, suppressed, queue, remoteVars,
                   startVars, used>>

BaseOnManifest(p) ==
    /\ At(p, "lookup") /\ ~SameAsManifest(p)
    /\ Becomes(p, [local[p] EXCEPT !.pc = "publish", !.base = NextBase(LookedUp(p))])
    /\ UNCHANGED <<manifestVars, folderVars, tracked, suppressed, queue, remoteVars,
                   startVars, used>>

\* An append of one's own is an update of the view, and may be announced.
Announce(p) ==
    \E b \in BOOLEAN : owed' = [owed EXCEPT ![p] = @ \/ (b /\ phase[p] = "live")]

PublishFile(p) ==
    /\ At(p, "publish")
    /\ \E n \in FreshPos(p, local[p].path) :
            Put(p, local[p].path, File(local[p].data, local[p].base, p, n))
    /\ Announce(p)
    /\ Becomes(p, [local[p] EXCEPT !.pc = "record"])
    /\ UNCHANGED <<folderVars, tracked, suppressed, queue, remote, startVars, used>>

RecordUpload(p) ==
    /\ At(p, "record")
    /\ tracked' = [tracked EXCEPT ![p][local[p].path] = local[p].data]
    /\ Becomes(p, IdleLocal)
    /\ UNCHANGED <<manifestVars, folderVars, suppressed, queue, remoteVars, startVars, used>>

\* A deletion is published only over a file entry (254-256).
FindDeleted(p) ==
    /\ At(p, "find")
    /\ Becomes(p, IF IsFile(LookedUp(p))
                  THEN [local[p] EXCEPT !.pc = "entomb", !.base = LookedUp(p).hash]
                  ELSE IdleLocal)
    /\ UNCHANGED <<manifestVars, folderVars, tracked, suppressed, queue, remoteVars,
                   startVars, used>>

PublishTombstone(p) ==
    /\ At(p, "entomb")
    /\ \E n \in FreshPos(p, local[p].path) :
            Put(p, local[p].path, Tombstone(local[p].base, p, n))
    /\ Announce(p)
    /\ Becomes(p, [local[p] EXCEPT !.pc = "forget"])
    /\ UNCHANGED <<folderVars, tracked, suppressed, queue, remote, startVars, used>>

ForgetDeleted(p) ==
    /\ At(p, "forget")
    /\ tracked' = [tracked EXCEPT ![p][local[p].path] = None]
    /\ Becomes(p, IdleLocal)
    /\ UNCHANGED <<manifestVars, folderVars, suppressed, queue, remoteVars, startVars, used>>

LocalStep(p) ==
    \/ SuppressEvent(p) \/ TakeEvent(p)
    \/ ReadLocalFile(p) \/ SkipUnchanged(p) \/ BaseOnManifest(p)
    \/ PublishFile(p) \/ RecordUpload(p)
    \/ FindDeleted(p) \/ PublishTombstone(p) \/ ForgetDeleted(p)

-----------------------------------------------------------------------------
(***************************************************************************)
(* The remote update queue: handleRemoteChanges (278-296) and what it      *)
(* calls.  The list is read once, then compared entry by entry.            *)
(***************************************************************************)
Begun(p) == [IdleRemote EXCEPT !.pc = "pick", !.snap = List(p)]

\* The frame when it is done with the current entry.
NextEntry(p) == [IdleRemote EXCEPT !.pc = "pick", !.snap = remote[p].snap]

Turns(p, next) == remote' = [remote EXCEPT ![p] = next]

\* Mutant of ScanBegin: the scan stays in the queue.
ScanBeginAgain(p) ==
    /\ phase[p] \in {"live", "stopping"} /\ owed[p] /\ remote[p].pc = "idle"
    /\ Turns(p, Begun(p))
    /\ UNCHANGED <<manifestVars, folderVars, tracked, suppressed, localVars, owed,
                   startVars, used>>

ScanBegin(p) ==
    /\ phase[p] \in {"live", "stopping"} /\ owed[p] /\ remote[p].pc = "idle"
    /\ owed' = [owed EXCEPT ![p] = FALSE]
    /\ Turns(p, Begun(p))
    /\ UNCHANGED <<manifestVars, folderVars, tracked, suppressed, localVars,
                   startVars, used>>

\* Mutant of JoinPolicy: the option is not passed on to the engine.
JoinPolicyIgnored(p) == "remote-wins"

\* The policy for a file with no tracking state (327-339, 415-418).
JoinPolicy(p) == IF phase[p] = "reconcile" THEN policy[p] ELSE "remote-wins"

\* handleRemoteDeletion returns before it reads the file (415, 438, 440).
DeletionIgnored(p, item) ==
    LET t == tracked[p][item.path] IN
    /\ item.metadata.kind = "tombstone"
    /\ IF t = None THEN JoinPolicy(p) = "remote-wins" ELSE item.metadata.baseHash # t

PickEntry(p) ==
    /\ remote[p].pc = "pick"
    /\ \E item \in remote[p].snap :
        LET rest == [NextEntry(p) EXCEPT !.snap = @ \ {item}] IN
        Turns(p, IF DeletionIgnored(p, item) THEN rest
                 ELSE [rest EXCEPT !.pc = "read", !.item = item,
                                   !.tr = tracked[p][item.path]])
    /\ UNCHANGED <<manifestVars, folderVars, tracked, suppressed, localVars, owed,
                   startVars, used>>

\* The entry being compared, its path, and drive.get of that path.
Doing(p, pc) == remote[p].pc = pc
M(p) == remote[p].item.metadata
X(p) == remote[p].item.path
C(p) == disk[p][X(p)]

Comparing(p, kind) == Doing(p, "read") /\ M(p).kind = kind

\* The file exists and differs from the remote one.
Differs(p) == Comparing(p, "file") /\ C(p) \notin {None, M(p).hash}

RemoteChanged(p) == remote[p].tr # None /\ M(p).hash # remote[p].tr
LocalChanged(p) == C(p) # remote[p].tr
\* Mutant of FastForward: compares with the synced content, not the file's.
FastForwardTracked(p) == M(p).baseHash = remote[p].tr

FastForward(p) == M(p).baseHash = C(p)

\* Case 2 (315-324).
AlreadyInSync(p) ==
    /\ Comparing(p, "file") /\ C(p) = M(p).hash
    /\ tracked' = [tracked EXCEPT ![p][X(p)] = C(p)]
    /\ Turns(p, NextEntry(p))
    /\ UNCHANGED <<manifestVars, folderVars, suppressed, localVars, owed, startVars, used>>

\* 350-351.
NothingNew(p) ==
    /\ Differs(p) /\ remote[p].tr = M(p).hash
    /\ Turns(p, NextEntry(p))
    /\ UNCHANGED <<manifestVars, folderVars, tracked, suppressed, localVars, owed,
                   startVars, used>>

\* Missing (303), untracked (341), unmodified (354), or fast-forward (365).
StartDownload(p) ==
    /\ \/ Comparing(p, "file") /\ C(p) = None
       \/ Differs(p) /\ remote[p].tr = None /\ JoinPolicy(p) = "remote-wins"
       \/ Differs(p) /\ RemoteChanged(p) /\ (LocalChanged(p) => FastForward(p))
    /\ Turns(p, [remote[p] EXCEPT !.pc = "fetch", !.seen = C(p)])
    /\ UNCHANGED <<manifestVars, folderVars, tracked, suppressed, localVars, owed,
                   startVars, used>>

\* local-wins: handleLocalChange runs inside the scan (331-334).
YieldToLocal(p) ==
    /\ Differs(p) /\ remote[p].tr = None /\ JoinPolicy(p) = "local-wins"
    /\ queue' = [queue EXCEPT ![p] = Append(@, [type |-> "update", path |-> X(p)])]
    /\ Turns(p, [remote[p] EXCEPT !.pc = "await"])
    /\ UNCHANGED <<manifestVars, folderVars, tracked, suppressed, local, owed,
                   startVars, used>>

LocalYielded(p) ==
    /\ Doing(p, "await") /\ queue[p] = <<>> /\ local[p].pc = "idle"
    /\ Turns(p, NextEntry(p))
    /\ UNCHANGED <<manifestVars, folderVars, tracked, suppressed, localVars, owed,
                   startVars, used>>

\* keep-both (335-338), or divergence (375-376).
StartConflict(p) ==
    /\ Differs(p) /\ X(p) \in Path
    /\ \/ remote[p].tr = None /\ JoinPolicy(p) = "keep-both"
       \/ RemoteChanged(p) /\ LocalChanged(p) /\ ~FastForward(p)
    /\ Turns(p, [remote[p] EXCEPT !.pc = "copy", !.seen = C(p)])
    /\ UNCHANGED <<manifestVars, folderVars, tracked, suppressed, localVars, owed,
                   startVars, used>>

\* A joining peer's own file at a deleted path is kept as a copy (419-428).
StartPreserve(p) ==
    /\ Comparing(p, "tombstone") /\ remote[p].tr = None
    /\ C(p) # None /\ X(p) \in Path
    /\ Turns(p, [remote[p] EXCEPT !.pc = "copy", !.seen = C(p)])
    /\ UNCHANGED <<manifestVars, folderVars, tracked, suppressed, localVars, owed,
                   startVars, used>>

\* Edit wins over delete (446-449), or nothing to preserve (420).
DeletionVoid(p) ==
    /\ Comparing(p, "tombstone")
    /\ IF remote[p].tr = None THEN C(p) = None ELSE C(p) \notin {None, remote[p].tr}
    /\ Turns(p, NextEntry(p))
    /\ UNCHANGED <<manifestVars, folderVars, tracked, suppressed, localVars, owed,
                   startVars, used>>

\* Unmodified: safe to delete (452-455).
StartDelete(p) ==
    /\ Comparing(p, "tombstone") /\ remote[p].tr # None /\ C(p) = remote[p].tr
    /\ Turns(p, [remote[p] EXCEPT !.pc = "delete", !.seen = C(p)])
    /\ UNCHANGED <<manifestVars, folderVars, tracked, suppressed, localVars, owed,
                   startVars, used>>

\* Already gone: only the local state is left to remove (457).
AlreadyDeleted(p) ==
    /\ Comparing(p, "tombstone") /\ remote[p].tr # None /\ C(p) = None
    /\ tracked' = [tracked EXCEPT ![p][X(p)] = None]
    /\ Turns(p, NextEntry(p))
    /\ UNCHANGED <<manifestVars, folderVars, suppressed, localVars, owed, startVars, used>>

SaveConflictCopy(p) ==
    LET deleted == M(p).kind = "tombstone"
        y == CopyPath(X(p), p, IF deleted THEN "tombstone" ELSE "conflict")
    IN
    /\ Doing(p, "copy")
    /\ suppressed' = [suppressed EXCEPT ![p] = @ \cup {y}]
    /\ Touch(p, y, remote[p].seen)
    /\ Turns(p, [remote[p] EXCEPT !.pc = IF deleted THEN "delete" ELSE "fetch"])
    /\ UNCHANGED <<manifestVars, tracked, localVars, owed, startVars, used>>

\* downloadFile once the blocks are here (467-470).
ApplyRemote(p) ==
    /\ Doing(p, "fetch")
    /\ suppressed' = [suppressed EXCEPT ![p] = @ \cup {X(p)}]
    /\ Touch(p, X(p), M(p).hash)
    /\ Turns(p, [remote[p] EXCEPT !.pc = "record"])
    /\ UNCHANGED <<manifestVars, tracked, localVars, owed, startVars, used>>

\* Mutant of RecordDownload: the local state is not updated.
RecordDownloadNot(p) ==
    /\ Doing(p, "record")
    /\ Turns(p, NextEntry(p))
    /\ UNCHANGED <<manifestVars, folderVars, tracked, suppressed, localVars, owed,
                   startVars, used>>

\* Mutant of RecordDownload: the metadata is stored where its hash belongs.
RecordDownloadWhole(p) ==
    /\ Doing(p, "record")
    /\ tracked' = [tracked EXCEPT ![p][X(p)] = M(p)]
    /\ Turns(p, NextEntry(p))
    /\ UNCHANGED <<manifestVars, folderVars, suppressed, localVars, owed, startVars, used>>

RecordDownload(p) ==
    /\ Doing(p, "record")
    /\ tracked' = [tracked EXCEPT ![p][X(p)] = M(p).hash]
    /\ Turns(p, NextEntry(p))
    /\ UNCHANGED <<manifestVars, folderVars, suppressed, localVars, owed, startVars, used>>

DeleteLocal(p) ==
    /\ Doing(p, "delete")
    /\ suppressed' = [suppressed EXCEPT ![p] = @ \cup {X(p)}]
    /\ Touch(p, X(p), None)
    /\ Turns(p, IF remote[p].tr = None THEN NextEntry(p)
                ELSE [remote[p] EXCEPT !.pc = "forget"])
    /\ UNCHANGED <<manifestVars, tracked, localVars, owed, startVars, used>>

ForgetRemote(p) ==
    /\ Doing(p, "forget")
    /\ tracked' = [tracked EXCEPT ![p][X(p)] = None]
    /\ Turns(p, NextEntry(p))
    /\ UNCHANGED <<manifestVars, folderVars, suppressed, localVars, owed, startVars, used>>

ScanEnd(p) ==
    /\ Doing(p, "pick") /\ remote[p].snap = {} /\ phase[p] # "reconcile"
    /\ Turns(p, IdleRemote)
    /\ UNCHANGED <<manifestVars, folderVars, tracked, suppressed, localVars, owed,
                   startVars, used>>

RemoteStep(p) ==
    \/ ScanBegin(p) \/ PickEntry(p)
    \/ AlreadyInSync(p) \/ NothingNew(p) \/ StartDownload(p)
    \/ YieldToLocal(p) \/ LocalYielded(p) \/ StartConflict(p)
    \/ StartPreserve(p) \/ DeletionVoid(p) \/ StartDelete(p) \/ AlreadyDeleted(p)
    \/ SaveConflictCopy(p) \/ ApplyRemote(p) \/ RecordDownload(p)
    \/ DeleteLocal(p) \/ ForgetRemote(p) \/ ScanEnd(p)

-----------------------------------------------------------------------------
(***************************************************************************)
(* ready(), start(), stop() and the end of the process.  EngineManager     *)
(* makes a new engine for every session, so a session starts with nothing  *)
(* suppressed and with the local state that state.json holds.              *)
(***************************************************************************)
Reset(p) ==
    /\ phase' = [phase EXCEPT ![p] = "down"]
    /\ listing' = [listing EXCEPT ![p] = {}]
    /\ policy' = [policy EXCEPT ![p] = DefaultPolicy]
    /\ dirty' = [dirty EXCEPT ![p] = {}]
    /\ known' = [known EXCEPT ![p] = {}]
    /\ suppressed' = [suppressed EXCEPT ![p] = {}]
    /\ queue' = [queue EXCEPT ![p] = <<>>]
    /\ local' = [local EXCEPT ![p] = IdleLocal]
    /\ owed' = [owed EXCEPT ![p] = FALSE]
    /\ remote' = [remote EXCEPT ![p] = IdleRemote]
    /\ UNCHANGED <<manifestVars, disk, tracked>>

Enter(p, from, to) ==
    /\ phase[p] = from
    /\ phase' = [phase EXCEPT ![p] = to]

\* A new engine under the policy of this session; after ready() the manifest
\* replicates.  EngineManager resolves the policy from the user's choice, or
\* from __config, where any peer's session may have left another.
Ready(p) ==
    /\ Enter(p, "down", "ready")
    /\ \E choice \in Policy : policy' = [policy EXCEPT ![p] = choice]
    /\ UNCHANGED <<manifestVars, folderVars, tracked, suppressed, localVars, remoteVars,
                   listing, used>>

\* Mutant of Start: uploads first, as if the peer could not be stale.
StartUploading(p) ==
    /\ SteadyStart => CaughtUp(p) /\ \A q \in Running \ {p} : Quiet(q)
    /\ Enter(p, "ready", "listing")
    /\ listing' = [listing EXCEPT ![p] = OnDisk(p)]
    /\ UNCHANGED <<manifestVars, folderVars, tracked, suppressed, localVars, remoteVars,
                   policy, used>>

\* start() begins with the scan of initialSync (552-555).
Start(p) ==
    /\ SteadyStart => CaughtUp(p) /\ \A q \in Running \ {p} : Quiet(q)
    /\ Enter(p, "ready", "reconcile")
    /\ Turns(p, Begun(p))
    /\ UNCHANGED <<manifestVars, folderVars, tracked, suppressed, localVars, owed,
                   listing, policy, used>>

BeginListing(p) ==
    /\ Doing(p, "pick") /\ remote[p].snap = {}
    /\ Enter(p, "reconcile", "listing")
    /\ listing' = [listing EXCEPT ![p] = OnDisk(p)]
    /\ Turns(p, IdleRemote)
    /\ UNCHANGED <<manifestVars, folderVars, tracked, suppressed, localVars, owed,
                   policy, used>>

ListPick(p) ==
    /\ phase[p] = "listing" /\ local[p].pc = "idle"
    /\ \E x \in listing[p] :
        /\ listing' = [listing EXCEPT ![p] = @ \ {x}]
        /\ Becomes(p, [IdleLocal EXCEPT !.pc = "read", !.path = x])
    /\ UNCHANGED <<manifestVars, folderVars, tracked, suppressed, queue, remoteVars,
                   phase, policy, used>>

\* The watcher is primed, then one scan is owed for what came meanwhile (125-142).
OpenWatcher(p) ==
    /\ listing[p] = {} /\ local[p].pc = "idle"
    /\ Enter(p, "listing", "live")
    /\ known' = [known EXCEPT ![p] = OnDisk(p)]
    /\ owed' = [owed EXCEPT ![p] = TRUE]
    /\ UNCHANGED <<manifestVars, disk, dirty, tracked, suppressed, localVars, remote,
                   listing, policy, used>>

\* stop(): no more events, then both queues run dry (156-166).
Stop(p) ==
    /\ p \in Restarting /\ Enter(p, "live", "stopping")
    /\ Spend("stops", MaxStops)
    /\ dirty' = [dirty EXCEPT ![p] = {}]
    /\ known' = [known EXCEPT ![p] = {}]
    /\ UNCHANGED <<manifestVars, disk, tracked, suppressed, localVars, remoteVars,
                   listing, policy>>

Stopped(p) ==
    /\ phase[p] = "stopping" /\ QueuesIdle(p)
    /\ Reset(p)
    /\ UNCHANGED used

Crash(p) ==
    /\ p \in Restarting /\ phase[p] # "down"
    /\ Spend("crashes", MaxCrashes)
    /\ Reset(p)

\* The blocks cannot be read.  The scan is given up (the loop of 282 has no
\* try), and nothing repeats it before the next update event.
ScanFails(p) ==
    /\ p \in Restarting /\ Doing(p, "fetch") /\ phase[p] # "reconcile"
    /\ Spend("faults", MaxFaults)
    /\ Turns(p, IdleRemote)
    /\ UNCHANGED <<manifestVars, folderVars, tracked, suppressed, localVars, owed, startVars>>

\* In initialSync the same failure rejects start().
StartFails(p) ==
    /\ p \in Restarting /\ Doing(p, "fetch") /\ phase[p] = "reconcile"
    /\ Spend("aborts", MaxAborts)
    /\ Reset(p)

SessionStep(p) ==
    Start(p) \/ BeginListing(p) \/ ListPick(p) \/ OpenWatcher(p) \/ Stopped(p)

-----------------------------------------------------------------------------
(***************************************************************************)
(* Replication.  Merging whole views loses no order of arrival: a peer     *)
(* that has only part of what another has written is one that replicated   *)
(* before the rest was written.                                            *)
(***************************************************************************)
Replicate(p, q) ==
    /\ {p, q} \subseteq Running /\ MergedView(p, q) # view[p]
    /\ SteadyStart => phase[p] \notin {"reconcile", "listing"}
    /\ view' = [view EXCEPT ![p] = MergedView(p, q)]
    /\ owed' = [owed EXCEPT ![p] = @ \/ phase[p] = "live"]
    /\ UNCHANGED <<log, folderVars, tracked, suppressed, localVars, remote, startVars, used>>

\* An update event that brings nothing for the paths modelled.
UnrelatedUpdate(p) ==
    /\ phase[p] = "live" /\ ~owed[p]
    /\ Spend("updates", MaxUpdates)
    /\ owed' = [owed EXCEPT ![p] = TRUE]
    /\ UNCHANGED <<manifestVars, folderVars, tracked, suppressed, localVars, remote, startVars>>

Next ==
    \/ \E p \in Peer :
        \/ UserWrite(p) \/ UserDelete(p) \/ Watch(p)
        \/ LocalStep(p) \/ RemoteStep(p) \/ SessionStep(p)
        \/ Ready(p) \/ Stop(p) \/ Crash(p) \/ ScanFails(p) \/ StartFails(p) \/ UnrelatedUpdate(p)
    \/ \E p, q \in Peer : Replicate(p, q)

Spec == Init /\ [][Next]_vars

(***************************************************************************)
(* Each promise queue runs while it has work, the watcher looks at a       *)
(* changed path in the end, replication goes on between running peers, and *)
(* a session that has begun to start or stop goes on.  Nothing obliges a   *)
(* user, a fault, a shutdown or the launch of the program.                 *)
(***************************************************************************)
Fairness ==
    /\ \A p \in Peer :
        /\ WF_vars(LocalStep(p)) /\ WF_vars(RemoteStep(p))
        /\ WF_vars(SessionStep(p)) /\ WF_vars(Watch(p))
    /\ \A p, q \in Peer : WF_vars(Replicate(p, q))

FairSpec == Spec /\ Fairness
=============================================================================
