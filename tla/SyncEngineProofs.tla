-------------------------- MODULE SyncEngineProofs --------------------------
(***************************************************************************)
(* Safety of the sync engine for any peers, paths, contents, policies and  *)
(* bounds.                                                                 *)
(***************************************************************************)
EXTENDS SyncProperties, TLAPS

(***************************************************************************)
(* The frames a queue may really have: what its program counter implies.   *)
(***************************************************************************)
LocalFrames ==
    {f \in LocalFrame :
        /\ f.pc # "idle" => f.path \in AllPath
        /\ f.pc \in {"lookup", "publish", "record"} => f.data \in Content}

RemoteFrames ==
    {f \in RemoteFrame :
        /\ f.pc \notin {"idle", "pick"} => f.item \in ManifestEntry
        /\ f.pc \in {"fetch", "record"} => f.item.metadata \in FileMetadata
        /\ f.pc = "copy" => f.item.path \in Path}

TypeInv ==
    /\ TypeOK
    /\ local \in [Peer -> LocalFrames]
    /\ remote \in [Peer -> RemoteFrames]

\* TypeOK in parts.
FolderTypeOK ==
    /\ disk \in [Peer -> [AllPath -> Content \cup {None}]]
    /\ dirty \in [Peer -> SUBSET AllPath]
    /\ known \in [Peer -> SUBSET AllPath]
    /\ suppressed \in [Peer -> SUBSET AllPath]

SessionTypeOK ==
    /\ owed \in [Peer -> BOOLEAN]
    /\ phase \in [Peer -> Phases]
    /\ listing \in [Peer -> SUBSET AllPath]
    /\ policy \in [Peer -> Policies]
    /\ used \in [edits : Nat, stops : Nat, crashes : Nat, faults : Nat, aborts : Nat,
                updates : Nat]

-----------------------------------------------------------------------------
(***************************************************************************)
(* Entries and positions.                                                  *)
(***************************************************************************)
LEMMA FreshPositive ==
    ASSUME ManifestTypeOK, NEW p \in Peer, NEW x \in AllPath, NEW n \in FreshPos(p, x)
    PROVE  n \in Position
<1>1. Pos(view[p][x]) \in Nat
    BY NoneAssumption DEF ManifestTypeOK, Pos, UserManifestValue, FileMetadata,
        TombstoneMetadata, Position
<1> QED
    BY <1>1 DEF FreshPos, Position

LEMMA ListTypes ==
    ASSUME ManifestTypeOK, NEW p \in Peer
    PROVE  List(p) \in SUBSET ManifestEntry
BY DEF ManifestTypeOK, List, ManifestEntry

LEMMA FileEntry ==
    ASSUME NEW e \in ManifestEntry, e.metadata.kind = "file"
    PROVE  e.metadata \in FileMetadata
BY DEF ManifestEntry, UserManifestValue, TombstoneMetadata

-----------------------------------------------------------------------------
(***************************************************************************)
(* Which operations write which part of the state.                         *)
(***************************************************************************)
USE DEF manifestVars, folderVars, localVars, remoteVars, startVars

LEMMA WhoWritesManifest ==
    ASSUME Next, ~UNCHANGED manifestVars
    PROVE  \/ \E p \in Peer :
              \/ PublishFile(p) \/ PublishTombstone(p)
           \/ \E p, q \in Peer : Replicate(p, q)
<1>1. ASSUME NEW p \in Peer, LocalStep(p),
            ~PublishFile(p), ~PublishTombstone(p)
     PROVE  UNCHANGED manifestVars
    BY <1>1
    DEF LocalStep, SuppressEvent, TakeEvent, ReadLocalFile, SkipUnchanged,
        BaseOnManifest, RecordUpload, FindDeleted, ForgetDeleted
<1>2. ASSUME NEW p \in Peer, RemoteStep(p)
     PROVE  UNCHANGED manifestVars
    BY <1>2
    DEF RemoteStep, ScanBegin, PickEntry, AlreadyInSync, NothingNew,
        StartDownload, YieldToLocal, LocalYielded, StartConflict,
        StartPreserve, DeletionVoid, StartDelete, AlreadyDeleted,
        SaveConflictCopy, ApplyRemote, RecordDownload, DeleteLocal,
        ForgetRemote, ScanEnd
<1>3. ASSUME NEW p \in Peer, SessionStep(p)
     PROVE  UNCHANGED manifestVars
    BY <1>3
    DEF SessionStep, Reset, Start, BeginListing, ListPick, OpenWatcher,
        Stopped
<1>4. ASSUME NEW p \in Peer,
            UserWrite(p) \/ UserDelete(p) \/ Watch(p) \/ Ready(p) \/
            Stop(p) \/ Crash(p) \/ ScanFails(p) \/ StartFails(p) \/
            UnrelatedUpdate(p)
     PROVE  UNCHANGED manifestVars
    BY <1>4
    DEF UserWrite, UserDelete, UserEdit, Watch, WatchUpdate, WatchDelete,
        WatchNothing, Emit, Reset, Ready, Stop, Crash, ScanFails, StartFails,
        UnrelatedUpdate
<1> QED
    BY <1>1, <1>2, <1>3, <1>4 DEF Next

LEMMA WhoWritesFolder ==
    ASSUME Next, ~UNCHANGED <<folderVars, suppressed>>
    PROVE  \/ \E p \in Peer :
              \/ UserWrite(p) \/ UserDelete(p) \/ Watch(p)
              \/ SuppressEvent(p) \/ SaveConflictCopy(p) \/ ApplyRemote(p)
              \/ DeleteLocal(p) \/ OpenWatcher(p) \/ Stopped(p) \/ Stop(p)
              \/ Crash(p) \/ StartFails(p)
<1>1. ASSUME NEW p \in Peer, LocalStep(p),
            ~SuppressEvent(p)
     PROVE  UNCHANGED <<folderVars, suppressed>>
    BY <1>1
    DEF LocalStep, TakeEvent, ReadLocalFile, SkipUnchanged, BaseOnManifest,
        PublishFile, RecordUpload, FindDeleted, PublishTombstone,
        ForgetDeleted
<1>2. ASSUME NEW p \in Peer, RemoteStep(p),
            ~SaveConflictCopy(p), ~ApplyRemote(p), ~DeleteLocal(p)
     PROVE  UNCHANGED <<folderVars, suppressed>>
    BY <1>2
    DEF RemoteStep, ScanBegin, PickEntry, AlreadyInSync, NothingNew,
        StartDownload, YieldToLocal, LocalYielded, StartConflict,
        StartPreserve, DeletionVoid, StartDelete, AlreadyDeleted,
        RecordDownload, ForgetRemote, ScanEnd
<1>3. ASSUME NEW p \in Peer, SessionStep(p),
            ~OpenWatcher(p), ~Stopped(p)
     PROVE  UNCHANGED <<folderVars, suppressed>>
    BY <1>3
    DEF SessionStep, Start, BeginListing, ListPick
<1>4. ASSUME NEW p \in Peer,
            Ready(p) \/ ScanFails(p) \/ UnrelatedUpdate(p)
     PROVE  UNCHANGED <<folderVars, suppressed>>
    BY <1>4
    DEF Ready, ScanFails, UnrelatedUpdate
<1>5. ASSUME NEW p \in Peer, NEW q \in Peer, Replicate(p, q)
     PROVE  UNCHANGED <<folderVars, suppressed>>
    BY <1>5 DEF Replicate
<1> QED
    BY <1>1, <1>2, <1>3, <1>4, <1>5 DEF Next

LEMMA WhoWritesTracked ==
    ASSUME Next, ~UNCHANGED tracked
    PROVE  \/ \E p \in Peer :
              \/ SkipUnchanged(p) \/ RecordUpload(p) \/ ForgetDeleted(p)
              \/ AlreadyInSync(p) \/ AlreadyDeleted(p) \/ RecordDownload(p)
              \/ ForgetRemote(p)
<1>1. ASSUME NEW p \in Peer, LocalStep(p),
            ~SkipUnchanged(p), ~RecordUpload(p), ~ForgetDeleted(p)
     PROVE  UNCHANGED tracked
    BY <1>1
    DEF LocalStep, SuppressEvent, TakeEvent, ReadLocalFile, BaseOnManifest,
        PublishFile, FindDeleted, PublishTombstone
<1>2. ASSUME NEW p \in Peer, RemoteStep(p),
            ~AlreadyInSync(p), ~AlreadyDeleted(p), ~RecordDownload(p),
            ~ForgetRemote(p)
     PROVE  UNCHANGED tracked
    BY <1>2
    DEF RemoteStep, ScanBegin, PickEntry, NothingNew, StartDownload,
        YieldToLocal, LocalYielded, StartConflict, StartPreserve,
        DeletionVoid, StartDelete, SaveConflictCopy, ApplyRemote,
        DeleteLocal, ScanEnd
<1>3. ASSUME NEW p \in Peer, SessionStep(p)
     PROVE  UNCHANGED tracked
    BY <1>3
    DEF SessionStep, Reset, Start, BeginListing, ListPick, OpenWatcher,
        Stopped
<1>4. ASSUME NEW p \in Peer,
            UserWrite(p) \/ UserDelete(p) \/ Watch(p) \/ Ready(p) \/
            Stop(p) \/ Crash(p) \/ ScanFails(p) \/ StartFails(p) \/
            UnrelatedUpdate(p)
     PROVE  UNCHANGED tracked
    BY <1>4
    DEF UserWrite, UserDelete, UserEdit, Watch, WatchUpdate, WatchDelete,
        WatchNothing, Emit, Reset, Ready, Stop, Crash, ScanFails, StartFails,
        UnrelatedUpdate
<1>5. ASSUME NEW p \in Peer, NEW q \in Peer, Replicate(p, q)
     PROVE  UNCHANGED tracked
    BY <1>5 DEF Replicate
<1> QED
    BY <1>1, <1>2, <1>3, <1>4, <1>5 DEF Next

LEMMA WhoWritesLocal ==
    ASSUME Next, ~UNCHANGED localVars
    PROVE  \/ \E p \in Peer :
              \/ Watch(p) \/ SuppressEvent(p) \/ TakeEvent(p)
              \/ ReadLocalFile(p) \/ SkipUnchanged(p) \/ BaseOnManifest(p)
              \/ PublishFile(p) \/ RecordUpload(p) \/ FindDeleted(p)
              \/ PublishTombstone(p) \/ ForgetDeleted(p) \/ YieldToLocal(p)
              \/ ListPick(p) \/ Stopped(p) \/ Crash(p) \/ StartFails(p)
<1>2. ASSUME NEW p \in Peer, RemoteStep(p),
            ~YieldToLocal(p)
     PROVE  UNCHANGED localVars
    BY <1>2
    DEF RemoteStep, ScanBegin, PickEntry, AlreadyInSync, NothingNew,
        StartDownload, LocalYielded, StartConflict, StartPreserve,
        DeletionVoid, StartDelete, AlreadyDeleted, SaveConflictCopy,
        ApplyRemote, RecordDownload, DeleteLocal, ForgetRemote, ScanEnd
<1>3. ASSUME NEW p \in Peer, SessionStep(p),
            ~ListPick(p), ~Stopped(p)
     PROVE  UNCHANGED localVars
    BY <1>3
    DEF SessionStep, Start, BeginListing, OpenWatcher
<1>4. ASSUME NEW p \in Peer,
            UserWrite(p) \/ UserDelete(p) \/ Ready(p) \/ Stop(p) \/
            ScanFails(p) \/ UnrelatedUpdate(p)
     PROVE  UNCHANGED localVars
    BY <1>4
    DEF UserWrite, UserDelete, UserEdit, Ready, Stop, ScanFails,
        UnrelatedUpdate
<1>5. ASSUME NEW p \in Peer, NEW q \in Peer, Replicate(p, q)
     PROVE  UNCHANGED localVars
    BY <1>5 DEF Replicate
<1> QED
    BY <1>2, <1>3, <1>4, <1>5 DEF Next, LocalStep

LEMMA WhoWritesRemote ==
    ASSUME Next, ~UNCHANGED remote
    PROVE  \/ \E p \in Peer :
              \/ ScanBegin(p) \/ PickEntry(p) \/ AlreadyInSync(p)
              \/ NothingNew(p) \/ StartDownload(p) \/ YieldToLocal(p)
              \/ LocalYielded(p) \/ StartConflict(p) \/ StartPreserve(p)
              \/ DeletionVoid(p) \/ StartDelete(p) \/ AlreadyDeleted(p)
              \/ SaveConflictCopy(p) \/ ApplyRemote(p) \/ RecordDownload(p)
              \/ DeleteLocal(p) \/ ForgetRemote(p) \/ ScanEnd(p)
              \/ Start(p) \/ BeginListing(p) \/ Stopped(p) \/ Crash(p)
              \/ ScanFails(p) \/ StartFails(p)
<1>1. ASSUME NEW p \in Peer, LocalStep(p)
     PROVE  UNCHANGED remote
    BY <1>1
    DEF LocalStep, SuppressEvent, TakeEvent, ReadLocalFile, SkipUnchanged,
        BaseOnManifest, PublishFile, RecordUpload, FindDeleted,
        PublishTombstone, ForgetDeleted
<1>3. ASSUME NEW p \in Peer, SessionStep(p),
            ~Start(p), ~BeginListing(p), ~Stopped(p)
     PROVE  UNCHANGED remote
    BY <1>3
    DEF SessionStep, ListPick, OpenWatcher
<1>4. ASSUME NEW p \in Peer,
            UserWrite(p) \/ UserDelete(p) \/ Watch(p) \/ Ready(p) \/
            Stop(p) \/ UnrelatedUpdate(p)
     PROVE  UNCHANGED remote
    BY <1>4
    DEF UserWrite, UserDelete, UserEdit, Watch, WatchUpdate, WatchDelete,
        WatchNothing, Emit, Ready, Stop, UnrelatedUpdate
<1>5. ASSUME NEW p \in Peer, NEW q \in Peer, Replicate(p, q)
     PROVE  UNCHANGED remote
    BY <1>5 DEF Replicate
<1> QED
    BY <1>1, <1>3, <1>4, <1>5 DEF Next, RemoteStep

LEMMA WhoWritesSession ==
    ASSUME Next, ~UNCHANGED <<owed, startVars, used>>
    PROVE  \/ \E p \in Peer :
              \/ UserWrite(p) \/ UserDelete(p) \/ PublishFile(p)
              \/ PublishTombstone(p) \/ ScanBegin(p) \/ Start(p)
              \/ BeginListing(p) \/ ListPick(p) \/ OpenWatcher(p)
              \/ Stopped(p) \/ Ready(p) \/ Stop(p) \/ Crash(p)
              \/ ScanFails(p) \/ StartFails(p) \/ UnrelatedUpdate(p)
           \/ \E p, q \in Peer : Replicate(p, q)
<1>1. ASSUME NEW p \in Peer, LocalStep(p),
            ~PublishFile(p), ~PublishTombstone(p)
     PROVE  UNCHANGED <<owed, startVars, used>>
    BY <1>1
    DEF LocalStep, SuppressEvent, TakeEvent, ReadLocalFile, SkipUnchanged,
        BaseOnManifest, RecordUpload, FindDeleted, ForgetDeleted
<1>2. ASSUME NEW p \in Peer, RemoteStep(p),
            ~ScanBegin(p)
     PROVE  UNCHANGED <<owed, startVars, used>>
    BY <1>2
    DEF RemoteStep, PickEntry, AlreadyInSync, NothingNew, StartDownload,
        YieldToLocal, LocalYielded, StartConflict, StartPreserve,
        DeletionVoid, StartDelete, AlreadyDeleted, SaveConflictCopy,
        ApplyRemote, RecordDownload, DeleteLocal, ForgetRemote, ScanEnd
<1>4. ASSUME NEW p \in Peer,
            Watch(p)
     PROVE  UNCHANGED <<owed, startVars, used>>
    BY <1>4
    DEF Watch, WatchUpdate, WatchDelete, WatchNothing, Emit
<1> QED
    BY <1>1, <1>2, <1>4 DEF Next, SessionStep

-----------------------------------------------------------------------------
(***************************************************************************)
(* Every step keeps the types, one lemma for each part of the state.       *)
(***************************************************************************)
LEMMA ManifestTypes ==
    ASSUME TypeInv, Next
    PROVE  ManifestTypeOK'
<1> USE DEF TypeInv, TypeOK, ManifestTypeOK
<1>1. ASSUME NEW p \in Peer, PublishFile(p)
     PROVE  ManifestTypeOK'
  <2>1. local[p].path \in AllPath /\ local[p].data \in Content /\ local[p] \in LocalFrame
    BY <1>1 DEF PublishFile, At, LocalFrames
  <2> QED
    BY <1>1, <2>1, FreshPositive
    DEF PublishFile, Put, File, LocalFrame, UserManifestValue, FileMetadata
<1>2. ASSUME NEW p \in Peer, PublishTombstone(p)
     PROVE  ManifestTypeOK'
  <2>1. local[p].path \in AllPath /\ local[p] \in LocalFrame
    BY <1>2 DEF PublishTombstone, At, LocalFrames
  <2> QED
    BY <1>2, <2>1, FreshPositive
    DEF PublishTombstone, Put, Tombstone, LocalFrame, UserManifestValue, TombstoneMetadata
<1>3. ASSUME NEW p \in Peer, NEW q \in Peer, Replicate(p, q)
     PROVE  ManifestTypeOK'
    BY <1>3 DEF Replicate, MergedView, Later
<1> QED
    BY <1>1, <1>2, <1>3, WhoWritesManifest

LEMMA TouchTypes ==
    ASSUME FolderTypeOK, NEW p \in Peer, NEW x \in AllPath, NEW c \in Content \cup {None},
           Touch(p, x, c),
           suppressed' \in [Peer -> SUBSET AllPath]
    PROVE  FolderTypeOK'
BY DEF FolderTypeOK, Touch

LEMMA FolderTypes ==
    ASSUME TypeInv, Next
    PROVE  FolderTypeOK'
<1>0. FolderTypeOK /\ remote \in [Peer -> RemoteFrames]
    BY DEF FolderTypeOK, TypeInv, TypeOK
<1>1. CASE UNCHANGED <<folderVars, suppressed>>
    BY <1>0, <1>1 DEF FolderTypeOK
<1>2. ASSUME NEW p \in Peer, UserWrite(p) \/ UserDelete(p)
     PROVE  FolderTypeOK'
    BY <1>0, <1>2, TouchTypes DEF UserWrite, UserDelete, UserEdit, AllPath, FolderTypeOK
<1>3. ASSUME NEW p \in Peer, Watch(p)
     PROVE  FolderTypeOK'
  <2>1. PICK x \in dirty[p] : WatchUpdate(p, x) \/ WatchDelete(p, x) \/ WatchNothing(p, x)
    BY <1>3 DEF Watch
  <2>2. x \in AllPath
    BY <1>0 DEF FolderTypeOK
  <2>3. /\ UNCHANGED <<disk, suppressed>>
        /\ dirty' = [dirty EXCEPT ![p] = @ \ {x}]
        /\ \/ known' = [known EXCEPT ![p] = @ \cup {x}]
           \/ known' = [known EXCEPT ![p] = @ \ {x}]
           \/ known' = known
    BY <2>1 DEF WatchUpdate, WatchDelete, WatchNothing, Emit
  <2>4. dirty' \in [Peer -> SUBSET AllPath]
    BY <1>0, <2>3 DEF FolderTypeOK
  <2>5. known' \in [Peer -> SUBSET AllPath]
    <3>0. known \in [Peer -> SUBSET AllPath]
        BY <1>0 DEF FolderTypeOK
    <3>1. CASE known' = [known EXCEPT ![p] = @ \cup {x}]
        BY <2>2, <3>0, <3>1
    <3>2. CASE known' = [known EXCEPT ![p] = @ \ {x}]
        BY <3>0, <3>2
    <3> QED
        BY <2>3, <3>0, <3>1, <3>2
  <2> QED
    BY <1>0, <2>3, <2>4, <2>5 DEF FolderTypeOK
<1>4. ASSUME NEW p \in Peer, SuppressEvent(p)
     PROVE  FolderTypeOK'
    BY <1>0, <1>4 DEF FolderTypeOK, SuppressEvent
<1>5. ASSUME NEW p \in Peer, SaveConflictCopy(p)
     PROVE  FolderTypeOK'
  <2> DEFINE y == CopyPath(X(p), p, IF M(p).kind = "tombstone" THEN "tombstone" ELSE "conflict")
  <2>1. remote[p].seen \in Content \cup {None} /\ X(p) \in Path
    BY <1>0, <1>5 DEF SaveConflictCopy, Doing, RemoteFrames, RemoteFrame, X
  <2>2. y \in AllPath
    BY <2>1 DEF CopyPath, Copies, AllPath
  <2> HIDE DEF y
  <2>3. suppressed' = [suppressed EXCEPT ![p] = @ \cup {y}] /\ Touch(p, y, remote[p].seen)
    BY <1>5 DEF SaveConflictCopy, y
  <2> QED
    BY <1>0, <2>1, <2>2, <2>3, TouchTypes DEF FolderTypeOK
<1>6. ASSUME NEW p \in Peer, ApplyRemote(p) \/ DeleteLocal(p)
     PROVE  FolderTypeOK'
  <2>1. X(p) \in AllPath
    BY <1>0, <1>6 DEF ApplyRemote, DeleteLocal, Doing, RemoteFrames, ManifestEntry, X
  <2>2. ApplyRemote(p) => M(p).hash \in Content
    BY <1>0, <1>6 DEF ApplyRemote, Doing, RemoteFrames, FileMetadata, M
  <2>3. suppressed' \in [Peer -> SUBSET AllPath]
    BY <1>0, <1>6, <2>1 DEF ApplyRemote, DeleteLocal, FolderTypeOK
  <2>4. ApplyRemote(p) => FolderTypeOK'
    BY <1>0, <2>1, <2>2, <2>3, TouchTypes DEF ApplyRemote
  <2>5. DeleteLocal(p) => FolderTypeOK'
    BY <1>0, <2>1, <2>3, TouchTypes DEF DeleteLocal
  <2> QED
    BY <1>6, <2>4, <2>5
<1>7. ASSUME NEW p \in Peer, OpenWatcher(p)
     PROVE  FolderTypeOK'
    BY <1>0, <1>7 DEF FolderTypeOK, OpenWatcher, OnDisk
<1>8. ASSUME NEW p \in Peer, Stop(p)
     PROVE  FolderTypeOK'
    BY <1>0, <1>8 DEF FolderTypeOK, Stop
<1>9. ASSUME NEW p \in Peer, Stopped(p) \/ Crash(p) \/ StartFails(p)
     PROVE  FolderTypeOK'
    BY <1>0, <1>9 DEF FolderTypeOK, Stopped, Crash, StartFails, Reset
<1> QED
    BY <1>1, <1>2, <1>3, <1>4, <1>5, <1>6, <1>7, <1>8, <1>9, WhoWritesFolder

LEMMA TrackedTypes ==
    ASSUME TypeInv, Next
    PROVE  tracked' \in [Peer -> [AllPath -> Content \cup {None}]]
<1>0. /\ tracked \in [Peer -> [AllPath -> Content \cup {None}]]
      /\ disk \in [Peer -> [AllPath -> Content \cup {None}]]
      /\ local \in [Peer -> LocalFrames] /\ remote \in [Peer -> RemoteFrames]
    BY DEF TypeInv, TypeOK
<1>1. ASSUME NEW p \in Peer, SkipUnchanged(p) \/ RecordUpload(p) \/ ForgetDeleted(p)
     PROVE  tracked' \in [Peer -> [AllPath -> Content \cup {None}]]
  <2>1. local[p].data \in Content \cup {None}
    BY <1>0 DEF LocalFrames, LocalFrame
  <2>2. \/ tracked' = tracked
        \/ tracked' = [tracked EXCEPT ![p][local[p].path] = local[p].data]
        \/ tracked' = [tracked EXCEPT ![p][local[p].path] = None]
    BY <1>1 DEF SkipUnchanged, RecordUpload, ForgetDeleted
  <2> QED
    BY <1>0, <2>1, <2>2
<1>2. ASSUME NEW p \in Peer, AlreadyInSync(p) \/ AlreadyDeleted(p) \/ ForgetRemote(p)
     PROVE  tracked' \in [Peer -> [AllPath -> Content \cup {None}]]
  <2>1. X(p) \in AllPath
    BY <1>0, <1>2 DEF AlreadyInSync, AlreadyDeleted, ForgetRemote, Comparing, Doing,
        RemoteFrames, ManifestEntry, X
  <2>2. C(p) \in Content \cup {None}
    BY <1>0, <2>1 DEF C
  <2>3. PICK c \in Content \cup {None} : tracked' = [tracked EXCEPT ![p][X(p)] = c]
    BY <1>2, <2>2 DEF AlreadyInSync, AlreadyDeleted, ForgetRemote
  <2> QED
    BY <1>0, <2>1, <2>3
<1>3. ASSUME NEW p \in Peer, RecordDownload(p)
     PROVE  tracked' \in [Peer -> [AllPath -> Content \cup {None}]]
  <2>1. M(p).hash \in Content
    BY <1>0, <1>3 DEF RecordDownload, Doing, RemoteFrames, FileMetadata, M
  <2> QED
    BY <1>0, <1>3, <2>1 DEF RecordDownload
<1> QED
    BY <1>0, <1>1, <1>2, <1>3, WhoWritesTracked

LEMMA IdleLocalOK == IdleLocal \in LocalFrames
BY DEF IdleLocal, LocalFrames, LocalFrame

LEMMA EmitTypes ==
    ASSUME TypeInv, NEW p \in Peer, NEW x, NEW t \in {"update", "delete"},
           x \in AllPath,
           queue' = [queue EXCEPT ![p] = Append(@, [type |-> t, path |-> x])]
    PROVE  queue' \in [Peer -> Seq(Event)]
<1>1. [type |-> t, path |-> x] \in Event
    BY DEF Event
<1> QED
    BY <1>1 DEF TypeInv, TypeOK

LEMMA LocalTypes ==
    ASSUME TypeInv, Next
    PROVE  queue' \in [Peer -> Seq(Event)] /\ local' \in [Peer -> LocalFrames]
<1> DEFINE Goal == queue' \in [Peer -> Seq(Event)] /\ local' \in [Peer -> LocalFrames]
<1>0. /\ queue \in [Peer -> Seq(Event)] /\ local \in [Peer -> LocalFrames]
      /\ dirty \in [Peer -> SUBSET AllPath] /\ listing \in [Peer -> SUBSET AllPath]
      /\ disk \in [Peer -> [AllPath -> Content \cup {None}]]
      /\ view \in [Peer -> [AllPath -> UserManifestValue \cup {None}]]
    BY DEF TypeInv, TypeOK, ManifestTypeOK
<1>1. CASE UNCHANGED localVars
    BY <1>0, <1>1
<1>2. ASSUME NEW p \in Peer, Watch(p)
     PROVE  Goal
    BY <1>0, <1>2, EmitTypes DEF Watch, WatchUpdate, WatchDelete, WatchNothing, Emit
<1>3. ASSUME NEW p \in Peer, SuppressEvent(p)
     PROVE  Goal
    BY <1>0, <1>3 DEF SuppressEvent, EventReady
<1>4. ASSUME NEW p \in Peer, TakeEvent(p)
     PROVE  Goal
  <2> DEFINE e == Head(queue[p])
             f == [IdleLocal EXCEPT !.pc = IF e.type = "update" THEN "read" ELSE "find",
                                    !.path = e.path]
  <2>1. e \in Event /\ queue' \in [Peer -> Seq(Event)]
    BY <1>0, <1>4 DEF TakeEvent, EventReady
  <2>2. f \in LocalFrames
    BY <2>1 DEF Event, IdleLocal, LocalFrames, LocalFrame
  <2> QED
    BY <1>0, <1>4, <2>1, <2>2 DEF TakeEvent, Becomes
<1>5. ASSUME NEW p \in Peer, ReadLocalFile(p)
     PROVE  Goal
  <2> DEFINE c == disk[p][local[p].path]
             f == [local[p] EXCEPT !.pc = "lookup", !.data = c]
  <2>1. local[p] \in LocalFrame /\ local[p].path \in AllPath
    BY <1>0, <1>5 DEF ReadLocalFile, At, LocalFrames
  <2>2. c \in Content \cup {None}
    BY <1>0, <2>1
  <2>3. c # None => f \in LocalFrames
    BY <2>1, <2>2 DEF LocalFrames, LocalFrame
  <2>4. UNCHANGED queue /\ local' = [local EXCEPT ![p] = IF c = None THEN IdleLocal ELSE f]
    BY <1>5 DEF ReadLocalFile, Becomes
  <2> QED
    BY <1>0, <2>3, <2>4, IdleLocalOK
<1>6. ASSUME NEW p \in Peer, SkipUnchanged(p) \/ RecordUpload(p) \/ ForgetDeleted(p)
     PROVE  Goal
    BY <1>0, <1>6, IdleLocalOK DEF SkipUnchanged, RecordUpload, ForgetDeleted, Becomes
<1>7. ASSUME NEW p \in Peer, BaseOnManifest(p)
     PROVE  Goal
  <2> DEFINE b == NextBase(LookedUp(p))
             f == [local[p] EXCEPT !.pc = "publish", !.base = b]
  <2>1. /\ local[p] \in LocalFrame
        /\ local[p].path \in AllPath /\ local[p].data \in Content
    BY <1>0, <1>7 DEF BaseOnManifest, At, LocalFrames
  <2>2. LookedUp(p) \in UserManifestValue \cup {None}
    BY <1>0, <2>1 DEF LookedUp
  <2>3. b \in Content \cup {None}
    BY <2>2 DEF NextBase, UserManifestValue, FileMetadata, TombstoneMetadata
  <2> HIDE DEF b
  <2>4. f \in LocalFrames
    BY <2>1, <2>3 DEF LocalFrames, LocalFrame
  <2> QED
    BY <1>0, <1>7, <2>4 DEF BaseOnManifest, Becomes, b
<1>8. ASSUME NEW p \in Peer, PublishFile(p) \/ PublishTombstone(p)
     PROVE  Goal
  <2>1. /\ local[p] \in LocalFrame /\ local[p].path \in AllPath
        /\ PublishFile(p) => local[p].data \in Content
    BY <1>0, <1>8 DEF PublishFile, PublishTombstone, At, LocalFrames
  <2>2. /\ PublishFile(p) => [local[p] EXCEPT !.pc = "record"] \in LocalFrames
        /\ [local[p] EXCEPT !.pc = "forget"] \in LocalFrames
    BY <2>1 DEF LocalFrames, LocalFrame
  <2> QED
    BY <1>0, <1>8, <2>2 DEF PublishFile, PublishTombstone, Becomes
<1>9. ASSUME NEW p \in Peer, FindDeleted(p)
     PROVE  Goal
  <2> DEFINE e == LookedUp(p)
             f == [local[p] EXCEPT !.pc = "entomb", !.base = e.hash]
  <2>1. local[p] \in LocalFrame /\ local[p].path \in AllPath
    BY <1>0, <1>9 DEF FindDeleted, At, LocalFrames
  <2>2. e \in UserManifestValue \cup {None}
    BY <1>0, <2>1 DEF LookedUp
  <2>3. IsFile(e) => e.hash \in Content
    BY <2>2 DEF IsFile, UserManifestValue, FileMetadata, TombstoneMetadata
  <2>4. IsFile(e) => f \in LocalFrames
    BY <2>1, <2>3 DEF LocalFrames, LocalFrame
  <2> QED
    BY <1>0, <1>9, <2>4, IdleLocalOK DEF FindDeleted, Becomes
<1>10. ASSUME NEW p \in Peer, ListPick(p)
     PROVE  Goal
  <2> SUFFICES ASSUME NEW x \in listing[p],
                      Becomes(p, [IdleLocal EXCEPT !.pc = "read", !.path = x])
               PROVE  Goal
    BY <1>10 DEF ListPick
  <2>1. [IdleLocal EXCEPT !.pc = "read", !.path = x] \in LocalFrames
    BY <1>0 DEF IdleLocal, LocalFrames, LocalFrame
  <2> QED
    BY <1>0, <1>10, <2>1 DEF Becomes, ListPick
<1>11. ASSUME NEW p \in Peer, YieldToLocal(p)
     PROVE  Goal
  <2>1. X(p) \in AllPath
    BY <1>11 DEF YieldToLocal, Differs, Comparing, Doing, TypeInv, RemoteFrames,
        ManifestEntry, X
  <2> QED
    BY <1>0, <1>11, <2>1, EmitTypes DEF YieldToLocal
<1>12. ASSUME NEW p \in Peer, Stopped(p) \/ Crash(p) \/ StartFails(p)
     PROVE  Goal
  <2>1. /\ queue' = [queue EXCEPT ![p] = <<>>]
        /\ local' = [local EXCEPT ![p] = IdleLocal]
    BY <1>12 DEF Stopped, Crash, StartFails, Reset
  <2> QED
    BY <1>0, <2>1, IdleLocalOK
<1> QED
    BY <1>1, <1>2, <1>3, <1>4, <1>5, <1>6, <1>7, <1>8, <1>9, <1>10, <1>11, <1>12,
        WhoWritesLocal

LEMMA IdleRemoteOK ==
    /\ IdleRemote \in RemoteFrames
    /\ \A s \in SUBSET ManifestEntry :
        [IdleRemote EXCEPT !.pc = "pick", !.snap = s] \in RemoteFrames
BY DEF IdleRemote, RemoteFrames, RemoteFrame

LEMMA RemoteTypes ==
    ASSUME TypeInv, Next
    PROVE  remote' \in [Peer -> RemoteFrames]
<1> DEFINE Goal == remote' \in [Peer -> RemoteFrames]
<1>0. /\ remote \in [Peer -> RemoteFrames] /\ ManifestTypeOK
      /\ disk \in [Peer -> [AllPath -> Content \cup {None}]]
      /\ tracked \in [Peer -> [AllPath -> Content \cup {None}]]
    BY DEF TypeInv, TypeOK
<1>1. \A p \in Peer : remote[p].snap \in SUBSET ManifestEntry
    BY <1>0 DEF RemoteFrames, RemoteFrame
<1>2. \A p \in Peer : NextEntry(p) \in RemoteFrames
    BY <1>1, IdleRemoteOK DEF NextEntry
<1>3. \A p \in Peer : remote[p].pc \notin {"idle", "pick"} =>
            remote[p] \in RemoteFrame /\ remote[p].item \in ManifestEntry /\ C(p) \in Content \cup {None}
    BY <1>0 DEF RemoteFrames, ManifestEntry, C, X
<1>4. ASSUME NEW p \in Peer, ScanBegin(p) \/ Start(p)
     PROVE  Goal
  <2>1. Begun(p) \in RemoteFrames
    BY <1>0, ListTypes, IdleRemoteOK DEF Begun
  <2>2. remote' = [remote EXCEPT ![p] = Begun(p)]
    BY <1>4 DEF ScanBegin, Start, Turns
  <2> QED
    BY <1>0, <2>1, <2>2
<1>5. ASSUME NEW p \in Peer, PickEntry(p)
     PROVE  Goal
  <2> DEFINE rest(i) == [NextEntry(p) EXCEPT !.snap = @ \ {i}]
             f(i) == [rest(i) EXCEPT !.pc = "read", !.item = i, !.tr = tracked[p][i.path]]
  <2>1. PICK i \in remote[p].snap : Turns(p, IF DeletionIgnored(p, i) THEN rest(i) ELSE f(i))
    BY <1>5 DEF PickEntry
  <2>2. i \in ManifestEntry /\ tracked[p][i.path] \in Content \cup {None}
    BY <1>0, <1>1 DEF ManifestEntry
  <2>3. rest(i) \in RemoteFrames /\ f(i) \in RemoteFrames
    BY <1>1, <2>2 DEF NextEntry, IdleRemote, RemoteFrames, RemoteFrame
  <2> QED
    BY <1>0, <2>1, <2>3 DEF Turns
<1>6. ASSUME NEW p \in Peer,
            \/ AlreadyInSync(p) \/ NothingNew(p) \/ LocalYielded(p) \/ DeletionVoid(p)
            \/ AlreadyDeleted(p) \/ RecordDownload(p) \/ ForgetRemote(p)
     PROVE  Goal
    BY <1>0, <1>2, <1>6
    DEF AlreadyInSync, NothingNew, LocalYielded, DeletionVoid, AlreadyDeleted,
        RecordDownload, ForgetRemote, Turns
<1>7. ASSUME NEW p \in Peer, StartDownload(p)
     PROVE  Goal
  <2>1. remote[p].pc = "read" /\ M(p).kind = "file"
    BY <1>7 DEF StartDownload, Differs, Comparing, Doing
  <2>2. M(p) \in FileMetadata
    BY <1>3, <2>1, FileEntry DEF M
  <2>3. [remote[p] EXCEPT !.pc = "fetch", !.seen = C(p)] \in RemoteFrames
    BY <1>3, <2>1, <2>2 DEF RemoteFrames, RemoteFrame, M
  <2> QED
    BY <1>0, <1>7, <2>3 DEF StartDownload, Turns
<1>8. ASSUME NEW p \in Peer, YieldToLocal(p)
     PROVE  Goal
  <2>1. remote[p].pc = "read"
    BY <1>8 DEF YieldToLocal, Differs, Comparing, Doing
  <2>2. [remote[p] EXCEPT !.pc = "await"] \in RemoteFrames
    BY <1>3, <2>1 DEF RemoteFrames, RemoteFrame
  <2> QED
    BY <1>0, <1>8, <2>2 DEF YieldToLocal, Turns
<1>9. ASSUME NEW p \in Peer, StartConflict(p) \/ StartPreserve(p)
     PROVE  Goal
  <2>1. remote[p].pc = "read" /\ X(p) \in Path
    BY <1>9 DEF StartConflict, StartPreserve, Differs, Comparing, Doing
  <2>2. [remote[p] EXCEPT !.pc = "copy", !.seen = C(p)] \in RemoteFrames
    BY <1>3, <2>1 DEF RemoteFrames, RemoteFrame, X
  <2> QED
    BY <1>0, <1>9, <2>2 DEF StartConflict, StartPreserve, Turns
<1>10. ASSUME NEW p \in Peer, StartDelete(p)
     PROVE  Goal
  <2>1. remote[p].pc = "read"
    BY <1>10 DEF StartDelete, Comparing, Doing
  <2>2. [remote[p] EXCEPT !.pc = "delete", !.seen = C(p)] \in RemoteFrames
    BY <1>3, <2>1 DEF RemoteFrames, RemoteFrame
  <2> QED
    BY <1>0, <1>10, <2>2 DEF StartDelete, Turns
<1>11. ASSUME NEW p \in Peer, SaveConflictCopy(p)
     PROVE  Goal
  <2>1. remote[p].pc = "copy"
    BY <1>11 DEF SaveConflictCopy, Doing
  <2>2. M(p).kind # "tombstone" => M(p) \in FileMetadata
    BY <1>3, <2>1 DEF M, ManifestEntry, UserManifestValue, TombstoneMetadata
  <2>3. /\ M(p).kind # "tombstone" => [remote[p] EXCEPT !.pc = "fetch"] \in RemoteFrames
        /\ [remote[p] EXCEPT !.pc = "delete"] \in RemoteFrames
    BY <1>3, <2>1, <2>2 DEF RemoteFrames, RemoteFrame, M
  <2> QED
    BY <1>0, <1>11, <2>3 DEF SaveConflictCopy, Turns
<1>12. ASSUME NEW p \in Peer, ApplyRemote(p)
     PROVE  Goal
  <2>1. remote[p].pc = "fetch" /\ remote[p].item.metadata \in FileMetadata
    BY <1>0, <1>12 DEF ApplyRemote, Doing, RemoteFrames
  <2>2. [remote[p] EXCEPT !.pc = "record"] \in RemoteFrames
    BY <1>3, <2>1 DEF RemoteFrames, RemoteFrame
  <2> QED
    BY <1>0, <1>12, <2>2 DEF ApplyRemote, Turns
<1>13. ASSUME NEW p \in Peer, DeleteLocal(p)
     PROVE  Goal
  <2>1. remote[p].pc = "delete"
    BY <1>13 DEF DeleteLocal, Doing
  <2>2. [remote[p] EXCEPT !.pc = "forget"] \in RemoteFrames
    BY <1>3, <2>1 DEF RemoteFrames, RemoteFrame
  <2> QED
    BY <1>0, <1>2, <1>13, <2>2 DEF DeleteLocal, Turns
<1>14. ASSUME NEW p \in Peer,
            \/ ScanEnd(p) \/ BeginListing(p) \/ ScanFails(p)
            \/ Stopped(p) \/ Crash(p) \/ StartFails(p)
     PROVE  Goal
    BY <1>0, <1>14, IdleRemoteOK
    DEF ScanEnd, BeginListing, ScanFails, Stopped, Crash, StartFails, Reset, Turns
<1> QED
    BY <1>0, <1>4, <1>5, <1>6, <1>7, <1>8, <1>9, <1>10, <1>11, <1>12, <1>13, <1>14,
        WhoWritesRemote

Budgets ==
    [edits : Nat, stops : Nat, crashes : Nat, faults : Nat, aborts : Nat, updates : Nat]

LEMMA SpendTypes ==
    ASSUME used \in Budgets, NEW n,
           NEW b \in {"edits", "stops", "crashes", "faults", "aborts", "updates"}, Spend(b, n)
    PROVE  used' \in Budgets
BY DEF Spend, Budgets

LEMMA SessionTypes ==
    ASSUME TypeInv, Next
    PROVE  SessionTypeOK'
<1>0. SessionTypeOK /\ used \in Budgets
    BY DEF TypeInv, TypeOK, SessionTypeOK, Budgets
<1> USE DEF SessionTypeOK
<1>1. CASE UNCHANGED <<owed, startVars, used>>
    BY <1>0, <1>1
<1>2. ASSUME NEW p \in Peer, UserWrite(p) \/ UserDelete(p)
     PROVE  SessionTypeOK'
  <2>1. used' \in Budgets
    BY <1>0, <1>2, SpendTypes DEF UserWrite, UserDelete, UserEdit
  <2> QED
    BY <1>0, <1>2, <2>1 DEF UserWrite, UserDelete, UserEdit, Budgets
<1>3. ASSUME NEW p \in Peer, PublishFile(p) \/ PublishTombstone(p)
     PROVE  SessionTypeOK'
    BY <1>0, <1>3 DEF PublishFile, PublishTombstone, Announce
<1>4. ASSUME NEW p \in Peer, ScanBegin(p) \/ ListPick(p)
     PROVE  SessionTypeOK'
    BY <1>0, <1>4 DEF ScanBegin, ListPick
<1>5. ASSUME NEW p \in Peer, Ready(p) \/ Start(p)
     PROVE  SessionTypeOK'
    BY <1>0, <1>5, ConstantsAssumption DEF Ready, Start, Enter, Phases
<1>6. ASSUME NEW p \in Peer, BeginListing(p) \/ OpenWatcher(p)
     PROVE  SessionTypeOK'
    BY <1>0, <1>6 DEF BeginListing, OpenWatcher, Enter, Phases, OnDisk
<1>7. ASSUME NEW p \in Peer, Stop(p)
     PROVE  SessionTypeOK'
  <2>1. used' \in Budgets
    BY <1>0, <1>7, SpendTypes DEF Stop
  <2> QED
    BY <1>0, <1>7, <2>1 DEF Stop, Enter, Phases, Budgets
<1>8. ASSUME NEW p \in Peer, Stopped(p) \/ Crash(p) \/ StartFails(p)
     PROVE  SessionTypeOK'
  <2>1. used' \in Budgets
    BY <1>0, <1>8, SpendTypes DEF Stopped, Crash, StartFails
  <2> QED
    BY <1>0, <1>8, <2>1 DEF Stopped, Crash, StartFails, Reset, Phases, Budgets,
           DefaultPolicy, Policies
<1>9. ASSUME NEW p \in Peer, ScanFails(p) \/ UnrelatedUpdate(p)
     PROVE  SessionTypeOK'
  <2>1. used' \in Budgets
    BY <1>0, <1>9, SpendTypes DEF ScanFails, UnrelatedUpdate
  <2> QED
    BY <1>0, <1>9, <2>1 DEF ScanFails, UnrelatedUpdate, Budgets
<1>10. ASSUME NEW p \in Peer, NEW q \in Peer, Replicate(p, q)
     PROVE  SessionTypeOK'
    BY <1>0, <1>10 DEF Replicate
<1> QED
    BY <1>1, <1>2, <1>3, <1>4, <1>5, <1>6, <1>7, <1>8, <1>9, <1>10, WhoWritesSession

LEMMA InitTypeInv == Init => TypeInv
<1> SUFFICES ASSUME Init PROVE TypeInv
    OBVIOUS
<1> USE DEF Init
<1>1. \A x \in AllPath : SeedEntry(x) \in UserManifestValue \cup {None}
    BY ConstantsAssumption, NoneAssumption
    DEF SeedEntry, File, UserManifestValue, FileMetadata, Position
<1>2. ManifestTypeOK
    BY <1>1 DEF ManifestTypeOK, NoFiles
<1>3. /\ disk \in [Peer -> [AllPath -> Content \cup {None}]]
      /\ dirty \in [Peer -> SUBSET AllPath]
      /\ known \in [Peer -> SUBSET AllPath]
    BY ConstantsAssumption DEF Folders, OnDisk
<1>4. tracked \in [Peer -> [AllPath -> Content \cup {None}]]
    BY ConstantsAssumption DEF Seeded, NoFiles
<1>5. queue \in [Peer -> Seq(Event)]
    OBVIOUS
<1>6. local \in [Peer -> LocalFrames] /\ remote \in [Peer -> RemoteFrames]
    BY IdleLocalOK, IdleRemoteOK
<1>7. local \in [Peer -> LocalFrame] /\ remote \in [Peer -> RemoteFrame]
    BY <1>6 DEF LocalFrames, RemoteFrames
<1>8. used \in [edits : Nat, stops : Nat, crashes : Nat, faults : Nat, aborts : Nat,
                updates : Nat]
    OBVIOUS
<1>9. /\ suppressed \in [Peer -> SUBSET AllPath] /\ owed \in [Peer -> BOOLEAN]
      /\ phase \in [Peer -> Phases] /\ listing \in [Peer -> SUBSET AllPath]
      /\ policy \in [Peer -> Policies]
    BY DEF Phases, Policies, DefaultPolicy
<1> QED
    BY <1>2, <1>3, <1>4, <1>5, <1>6, <1>7, <1>8, <1>9 DEF TypeInv, TypeOK

LEMMA TypeInvKept ==
    ASSUME TypeInv, [Next]_vars
    PROVE  TypeInv'
<1>1. CASE Next
  <2>1. local' \in [Peer -> LocalFrame] /\ remote' \in [Peer -> RemoteFrame]
    BY <1>1, LocalTypes, RemoteTypes DEF LocalFrames, RemoteFrames
  <2> QED
    BY <1>1, <2>1, ManifestTypes, FolderTypes, TrackedTypes, LocalTypes, RemoteTypes,
        SessionTypes
    DEF TypeInv, TypeOK, FolderTypeOK, SessionTypeOK
<1>2. CASE UNCHANGED vars
  <2>1. ManifestTypeOK'
    BY <1>2 DEF vars, TypeInv, TypeOK, ManifestTypeOK
  <2>2. FolderTypeOK'
    BY <1>2 DEF vars, TypeInv, TypeOK, FolderTypeOK
  <2>3. SessionTypeOK'
    BY <1>2 DEF vars, TypeInv, TypeOK, SessionTypeOK
  <2>4. UNCHANGED <<localVars, remote, tracked>>
    BY <1>2 DEF vars
  <2> QED
    BY <2>1, <2>2, <2>3, <2>4 DEF TypeInv, TypeOK, FolderTypeOK, SessionTypeOK
<1> QED
    BY <1>1, <1>2

(***************************************************************************)
(* The variables have their types in every reachable state.                *)
(***************************************************************************)
THEOREM TypeCorrect == Spec => []TypeOK
<1>1. Init => TypeInv
    BY InitTypeInv
<1>2. TypeInv /\ [Next]_vars => TypeInv'
    BY TypeInvKept
<1>3. TypeInv => TypeOK
    BY DEF TypeInv
<1> QED
    BY <1>1, <1>2, <1>3, PTL DEF Spec

-----------------------------------------------------------------------------
(***************************************************************************)
(* The inductive invariant behind TrackedPublished and                     *)
(* UnpublishedEditsSurvive.  Every content an engine treats as known to    *)
(* others - what it tracks, a base hash, an entry it is about to apply -   *)
(* has been published, and from the comparison to the overwrite the        *)
(* content it is about to destroy stays saved.                             *)
(***************************************************************************)
\* The contents others can fetch, path by path.
Shared == [x \in AllPath |-> Published(x)]

ViewLogged ==
    \A p \in Peer, x \in AllPath : view[p][x] # None => view[p][x] \in log[x]

BasesShared ==
    \A x \in AllPath : \A e \in log[x] : e.baseHash # None => e.baseHash \in Shared[x]

TrackedShared ==
    \A p \in Peer, x \in AllPath : tracked[p][x] # None => tracked[p][x] \in Shared[x]

LocalFrameSound(f) ==
    /\ f.pc = "record" => f.data \in Shared[f.path]
    /\ f.pc \in {"publish", "entomb"} /\ f.base # None => f.base \in Shared[f.path]

SeenSaved(p, f) ==
    \/ f.seen = None
    \/ f.seen \in Shared[f.item.path]
    \/ /\ f.item.path \in Path
       /\ \E k \in {"conflict", "tombstone"} : disk[p][CopyPath(f.item.path, p, k)] = f.seen
    \/ f.tr = None /\ JoinPolicy(p) = "remote-wins"

RemoteFrameSound(p, f) ==
    /\ \A e \in f.snap : e.metadata \in log[e.path]
    /\ f.pc \notin {"idle", "pick"} =>
        /\ f.item.metadata \in log[f.item.path]
        /\ f.tr # None => f.tr \in Shared[f.item.path]
    /\ f.pc \in {"fetch", "delete"} => SeenSaved(p, f)

LocalSound == \A p \in Peer : LocalFrameSound(local[p])
RemoteSound == \A p \in Peer : RemoteFrameSound(p, remote[p])

Sound == ViewLogged /\ BasesShared /\ TrackedShared /\ LocalSound /\ RemoteSound

LEMMA SharedHashes ==
    /\ \A x \in AllPath : \A e \in log[x] : e.kind = "file" => e.hash \in Shared[x]
    /\ (\A x \in AllPath : \A e \in log[x] : e.kind = "file" => e.hash \in Shared[x])'
BY DEF Shared, Published

LEMMA SharedGrows ==
    ASSUME TypeInv, Next
    PROVE  \A x \in AllPath : log[x] \subseteq log'[x] /\ Shared[x] \subseteq Shared'[x]
<1>0. ManifestTypeOK
    BY DEF TypeInv, TypeOK
<1>1. \A x \in AllPath : log[x] \subseteq log'[x]
  <2>1. ASSUME NEW p \in Peer, PublishFile(p) \/ PublishTombstone(p)
       PROVE  \A x \in AllPath : log[x] \subseteq log'[x]
    <3>1. PICK e : Put(p, local[p].path, e)
        BY <2>1 DEF PublishFile, PublishTombstone
    <3> QED
        BY <1>0, <3>1 DEF Put, ManifestTypeOK
  <2>2. ASSUME NEW p \in Peer, NEW q \in Peer, Replicate(p, q)
       PROVE  \A x \in AllPath : log[x] \subseteq log'[x]
    BY <2>2 DEF Replicate
  <2> QED
    BY <2>1, <2>2, WhoWritesManifest
<1> QED
    BY <1>1 DEF Shared, Published

(***************************************************************************)
(* What is published and what a view shows.                                *)
(***************************************************************************)
LEMMA PublishedEntry ==
    ASSUME TypeInv, Sound, NEW p \in Peer, PublishFile(p) \/ PublishTombstone(p)
    PROVE  LET x == local[p].path IN
           \E e : /\ x \in AllPath
                  /\ log' = [log EXCEPT ![x] = @ \cup {e}]
                  /\ view' = [view EXCEPT ![p][x] = e]
                  /\ e.baseHash # None => e.baseHash \in Shared[x]
                  /\ PublishFile(p) => e.kind = "file" /\ e.hash = local[p].data
<1>1. local[p].path \in AllPath /\ local[p].pc \in {"publish", "entomb"}
    BY DEF PublishFile, PublishTombstone, At, TypeInv, LocalFrames
<1>2. local[p].base # None => local[p].base \in Shared[local[p].path]
    BY <1>1 DEF Sound, LocalSound, LocalFrameSound
<1>3. CASE PublishFile(p)
  <2>1. PICK n : Put(p, local[p].path, File(local[p].data, local[p].base, p, n))
    BY <1>3 DEF PublishFile
  <2> DEFINE e == File(local[p].data, local[p].base, p, n)
  <2>2. e.baseHash = local[p].base /\ e.kind = "file" /\ e.hash = local[p].data
    BY DEF File
  <2> HIDE DEF e
  <2>3. /\ log' = [log EXCEPT ![local[p].path] = @ \cup {e}]
        /\ view' = [view EXCEPT ![p][local[p].path] = e]
    BY <2>1 DEF Put, e
  <2> QED
    BY <1>1, <1>2, <2>2, <2>3
<1>4. CASE PublishTombstone(p) /\ ~PublishFile(p)
    BY <1>1, <1>2, <1>4 DEF PublishTombstone, Put, Tombstone
<1> QED
    BY <1>3, <1>4

LEMMA ViewsSound ==
    ASSUME TypeInv, Sound, Next
    PROVE  ViewLogged' /\ BasesShared'
<1>0. /\ ViewLogged /\ BasesShared
      /\ log \in [AllPath -> SUBSET UserManifestValue]
      /\ view \in [Peer -> [AllPath -> UserManifestValue \cup {None}]]
    BY DEF Sound, TypeInv, TypeOK, ManifestTypeOK
<1>1. CASE UNCHANGED manifestVars
  <2>1. Shared' = Shared
    BY <1>1 DEF Shared, Published
  <2> QED
    BY <1>0, <1>1, <2>1 DEF ViewLogged, BasesShared
<1>2. ASSUME NEW p \in Peer, PublishFile(p) \/ PublishTombstone(p)
     PROVE  ViewLogged' /\ BasesShared'
  <2> DEFINE y == local[p].path
  <2>1. PICK e : /\ y \in AllPath
                 /\ log' = [log EXCEPT ![y] = @ \cup {e}]
                 /\ view' = [view EXCEPT ![p][y] = e]
                 /\ e.baseHash # None => e.baseHash \in Shared[y]
    BY <1>2, PublishedEntry
  <2> HIDE DEF y
  <2>2. ViewLogged'
    BY <1>0, <2>1 DEF ViewLogged
  <2>3. ASSUME NEW x \in AllPath, NEW f \in log'[x], f.baseHash # None
       PROVE  f.baseHash \in Shared'[x]
    <3>1. CASE f \in log[x]
        BY <1>0, <2>3, <3>1, SharedGrows DEF BasesShared
    <3>2. CASE f \notin log[x]
        <4>1. x = y /\ f = e
            BY <1>0, <2>1, <2>3, <3>2
        <4> QED
            BY <2>1, <2>3, <4>1, SharedGrows
    <3> QED
        BY <3>1, <3>2
  <2> QED
    BY <2>2, <2>3 DEF BasesShared
<1>3. ASSUME NEW p \in Peer, NEW q \in Peer, Replicate(p, q)
     PROVE  ViewLogged' /\ BasesShared'
  <2>1. log' = log /\ view' = [view EXCEPT ![p] = MergedView(p, q)]
    BY <1>3 DEF Replicate
  <2>2. Shared' = Shared
    BY <2>1 DEF Shared, Published
  <2>3. \A x \in AllPath : MergedView(p, q)[x] \in {view[p][x], view[q][x]}
    BY DEF MergedView, Later
  <2>4. ViewLogged'
    BY <1>0, <2>1, <2>3 DEF ViewLogged
  <2> QED
    BY <1>0, <2>1, <2>2, <2>4 DEF BasesShared
<1> QED
    BY <1>1, <1>2, <1>3, WhoWritesManifest

(***************************************************************************)
(* What is tracked.                                                        *)
(***************************************************************************)
LEMMA TrackedSound ==
    ASSUME TypeInv, Sound, Next
    PROVE  TrackedShared'
<1>0. /\ tracked \in [Peer -> [AllPath -> Content \cup {None}]]
      /\ local \in [Peer -> LocalFrames] /\ remote \in [Peer -> RemoteFrames]
      /\ TrackedShared /\ LocalSound /\ RemoteSound
    BY DEF Sound, TypeInv, TypeOK
<1>1. CASE UNCHANGED tracked
    BY <1>0, <1>1, SharedGrows DEF TrackedShared
<1>2. ASSUME NEW p \in Peer, NEW y \in AllPath, NEW c,
            c # None => c \in Shared[y],
            tracked' = [tracked EXCEPT ![p][y] = c]
     PROVE  TrackedShared'
    BY <1>0, <1>2, SharedGrows DEF TrackedShared
<1>3. ASSUME NEW p \in Peer, SkipUnchanged(p)
     PROVE  TrackedShared'
  <2>1. local[p].path \in AllPath
    BY <1>0, <1>3 DEF SkipUnchanged, At, LocalFrames
  <2>2. LookedUp(p) \in log[local[p].path] /\ IsFile(LookedUp(p))
    BY <1>3, <2>1 DEF SkipUnchanged, SameAsManifest, LookedUp, IsFile, Sound, ViewLogged
  <2>3. local[p].data \in Shared[local[p].path]
    BY <1>3, <2>1, <2>2, SharedHashes DEF SkipUnchanged, SameAsManifest, IsFile
  <2>4. CASE phase[p] = "listing"
    <3>1. tracked' = [tracked EXCEPT ![p][local[p].path] = local[p].data]
        BY <1>3, <2>4 DEF SkipUnchanged
    <3> QED
        BY <1>2, <2>1, <2>3, <3>1
  <2> QED
    BY <1>1, <1>3, <2>4 DEF SkipUnchanged
<1>4. ASSUME NEW p \in Peer, RecordUpload(p)
     PROVE  TrackedShared'
  <2>1. local[p].path \in AllPath /\ local[p].data \in Shared[local[p].path]
    BY <1>0, <1>4 DEF RecordUpload, At, LocalFrames, LocalSound, LocalFrameSound
  <2>2. tracked' = [tracked EXCEPT ![p][local[p].path] = local[p].data]
    BY <1>4 DEF RecordUpload
  <2> QED
    BY <1>2, <2>1, <2>2
<1>5. ASSUME NEW p \in Peer, ForgetDeleted(p)
     PROVE  TrackedShared'
  <2>1. local[p].path \in AllPath
    BY <1>0, <1>5 DEF ForgetDeleted, At, LocalFrames
  <2>2. tracked' = [tracked EXCEPT ![p][local[p].path] = None]
    BY <1>5 DEF ForgetDeleted
  <2> QED
    BY <1>2, <2>1, <2>2
<1>6. ASSUME NEW p \in Peer, AlreadyDeleted(p) \/ ForgetRemote(p)
     PROVE  TrackedShared'
  <2>1. X(p) \in AllPath
    BY <1>0, <1>6 DEF AlreadyDeleted, ForgetRemote, Comparing, Doing, RemoteFrames,
        ManifestEntry, X
  <2>2. tracked' = [tracked EXCEPT ![p][X(p)] = None]
    BY <1>6 DEF AlreadyDeleted, ForgetRemote
  <2> QED
    BY <1>2, <2>1, <2>2
<1>7. ASSUME NEW p \in Peer, AlreadyInSync(p) \/ RecordDownload(p)
     PROVE  TrackedShared'
  <2>1. remote[p].pc \in {"read", "record"} /\ X(p) \in AllPath /\ M(p).kind = "file"
    BY <1>0, <1>7 DEF AlreadyInSync, RecordDownload, Comparing, Doing, RemoteFrames,
        ManifestEntry, FileMetadata, M, X
  <2>2. M(p) \in log[X(p)]
    BY <1>0, <2>1 DEF RemoteSound, RemoteFrameSound, M, X
  <2>3. M(p).hash \in Shared[X(p)]
    BY <2>1, <2>2, SharedHashes
  <2>4. tracked' = [tracked EXCEPT ![p][X(p)] = M(p).hash]
    BY <1>7 DEF AlreadyInSync, RecordDownload
  <2> QED
    BY <1>2, <2>1, <2>3, <2>4
<1> QED
    BY <1>1, <1>3, <1>4, <1>5, <1>6, <1>7, WhoWritesTracked

(***************************************************************************)
(* What the local change queue takes for published.                        *)
(***************************************************************************)
LEMMA LocalFramesSound ==
    ASSUME TypeInv, Sound, Next
    PROVE  LocalSound'
<1>0. /\ local \in [Peer -> LocalFrames] /\ LocalSound
    BY DEF Sound, TypeInv, TypeOK
<1>1. \A p \in Peer : local'[p] = local[p] => LocalFrameSound(local[p])'
  <2> SUFFICES ASSUME NEW p \in Peer, local'[p] = local[p]
               PROVE  LocalFrameSound(local[p])'
    OBVIOUS
  <2>1. LocalFrameSound(local[p])
    BY <1>0 DEF LocalSound
  <2>2. local[p].pc # "idle" => local[p].path \in AllPath
    BY <1>0 DEF LocalFrames
  <2> QED
    BY <2>1, <2>2, SharedGrows DEF LocalFrameSound
<1>2. ASSUME NEW p \in Peer, NEW f, local' = [local EXCEPT ![p] = f],
            f.pc \notin {"publish", "entomb", "record"}
     PROVE  LocalSound'
  <2>1. LocalFrameSound(local[p])'
    BY <1>0, <1>2 DEF LocalFrameSound
  <2> QED
    BY <1>0, <1>1, <1>2, <2>1 DEF LocalSound
<1>3. CASE UNCHANGED localVars
    BY <1>1, <1>3 DEF LocalSound
<1>4. ASSUME NEW p \in Peer, Watch(p) \/ SuppressEvent(p) \/ YieldToLocal(p)
     PROVE  LocalSound'
  <2>1. local' = local
    BY <1>4 DEF Watch, WatchUpdate, WatchDelete, WatchNothing, Emit, SuppressEvent,
        YieldToLocal
  <2> QED
    BY <1>1, <2>1 DEF LocalSound
<1>5. ASSUME NEW p \in Peer,
            \/ TakeEvent(p) \/ ReadLocalFile(p) \/ SkipUnchanged(p) \/ RecordUpload(p)
            \/ PublishTombstone(p) \/ ForgetDeleted(p) \/ ListPick(p)
            \/ Stopped(p) \/ Crash(p) \/ StartFails(p)
     PROVE  LocalSound'
  <2>1. local[p] \in LocalFrame
    BY <1>0 DEF LocalFrames
  <2>2. TakeEvent(p) => LocalSound'
    BY <1>2 DEF TakeEvent, IdleLocal
  <2>3. ReadLocalFile(p) => LocalSound'
    BY <1>2, <2>1 DEF ReadLocalFile, Becomes, IdleLocal, LocalFrame
  <2>4. PublishTombstone(p) => LocalSound'
    BY <1>2, <2>1 DEF PublishTombstone, Becomes, LocalFrame
  <2>5. ListPick(p) => LocalSound'
    BY <1>2 DEF ListPick, Becomes, IdleLocal
  <2>6. ASSUME local' = [local EXCEPT ![p] = IdleLocal]
       PROVE  LocalSound'
    BY <1>2, <2>6 DEF IdleLocal
  <2> QED
    BY <1>5, <2>2, <2>3, <2>4, <2>5, <2>6
    DEF SkipUnchanged, RecordUpload, ForgetDeleted, Stopped, Crash, StartFails, Reset, Becomes
<1>6. ASSUME NEW p \in Peer, BaseOnManifest(p)
     PROVE  LocalSound'
  <2> DEFINE y == local[p].path
             b == NextBase(LookedUp(p))
             f == [local[p] EXCEPT !.pc = "publish", !.base = b]
  <2>1. y \in AllPath /\ local[p] \in LocalFrame
    BY <1>0, <1>6 DEF BaseOnManifest, At, LocalFrames
  <2>2. LookedUp(p) # None => LookedUp(p) \in log[y]
    BY <2>1 DEF LookedUp, Sound, ViewLogged
  <2>3. b # None => b \in Shared[y]
    BY <2>1, <2>2, SharedHashes DEF NextBase, Sound, BasesShared
  <2>4. f.pc = "publish" /\ f.base = b /\ f.path = y
    BY <2>1 DEF LocalFrame
  <2>5. local' = [local EXCEPT ![p] = f]
    BY <1>6 DEF BaseOnManifest, Becomes
  <2> HIDE DEF y, b, f
  <2>6. LocalFrameSound(local[p])'
    BY <1>0, <2>1, <2>3, <2>4, <2>5, SharedGrows DEF LocalFrameSound
  <2> QED
    BY <1>0, <1>1, <2>5, <2>6 DEF LocalSound
<1>7. ASSUME NEW p \in Peer, FindDeleted(p)
     PROVE  LocalSound'
  <2> DEFINE y == local[p].path
             b == LookedUp(p).hash
             f == [local[p] EXCEPT !.pc = "entomb", !.base = b]
  <2>0. CASE ~IsFile(LookedUp(p))
    BY <1>2, <1>7, <2>0 DEF FindDeleted, Becomes, IdleLocal
  <2>1. CASE IsFile(LookedUp(p))
    <3>1. y \in AllPath /\ local[p] \in LocalFrame
        BY <1>0, <1>7 DEF FindDeleted, At, LocalFrames
    <3>2. LookedUp(p) \in log[y]
        BY <2>1, <3>1 DEF LookedUp, IsFile, Sound, ViewLogged
    <3>3. b \in Shared[y]
        BY <2>1, <3>1, <3>2, SharedHashes DEF IsFile
    <3>4. f.pc = "entomb" /\ f.base = b /\ f.path = y
        BY <3>1 DEF LocalFrame
    <3>5. local' = [local EXCEPT ![p] = f]
        BY <1>7, <2>1 DEF FindDeleted, Becomes
    <3> HIDE DEF y, b, f
    <3>6. LocalFrameSound(local[p])'
        BY <1>0, <3>1, <3>3, <3>4, <3>5, SharedGrows DEF LocalFrameSound
    <3> QED
        BY <1>0, <1>1, <3>5, <3>6 DEF LocalSound
  <2> QED
    BY <2>0, <2>1
<1>8. ASSUME NEW p \in Peer, PublishFile(p)
     PROVE  LocalSound'
  <2> DEFINE y == local[p].path
             f == [local[p] EXCEPT !.pc = "record"]
  <2>1. y \in AllPath /\ local[p] \in LocalFrame
    BY <1>0, <1>8 DEF PublishFile, At, LocalFrames
  <2>2. PICK e : /\ log' = [log EXCEPT ![y] = @ \cup {e}]
                 /\ e.kind = "file" /\ e.hash = local[p].data
    BY <1>8, PublishedEntry
  <2>3. e \in log'[y]
    BY <2>1, <2>2 DEF TypeInv, TypeOK, ManifestTypeOK
  <2>4. local[p].data \in Shared'[y]
    BY <2>1, <2>2, <2>3, SharedHashes
  <2>5. f.pc = "record" /\ f.data = local[p].data /\ f.path = y
    BY <2>1 DEF LocalFrame
  <2>6. local' = [local EXCEPT ![p] = f]
    BY <1>8 DEF PublishFile, Becomes
  <2> HIDE DEF y, f
  <2>7. LocalFrameSound(local[p])'
    BY <1>0, <2>4, <2>5, <2>6 DEF LocalFrameSound
  <2> QED
    BY <1>0, <1>1, <2>6, <2>7 DEF LocalSound
<1> QED
    BY <1>3, <1>4, <1>5, <1>6, <1>7, <1>8, WhoWritesLocal

(***************************************************************************)
(* What the remote update queue takes for published or saved.  While a     *)
(* frame waits between its comparison and its write, others only add to    *)
(* what is published, nobody but its own engine touches its conflict       *)
(* copies, and the policy that applied to it applies to the end.           *)
(***************************************************************************)
LEMMA CopiesKept ==
    ASSUME TypeInv, Next, NEW p \in Peer, NEW y \in Copies,
           remote[p].pc \in {"fetch", "delete"}, remote'[p] = remote[p]
    PROVE  disk'[p][y] = disk[p][y]
<1>0. /\ disk \in [Peer -> [AllPath -> Content \cup {None}]]
      /\ remote \in [Peer -> RemoteFrames]
      /\ y \in AllPath /\ y \notin Path
    BY PathAssumption DEF TypeInv, TypeOK, AllPath
<1>1. CASE UNCHANGED <<folderVars, suppressed>>
    BY <1>1
<1>2. ASSUME NEW q \in Peer, UserWrite(q) \/ UserDelete(q)
     PROVE  disk'[p][y] = disk[p][y]
    BY <1>0, <1>2 DEF UserWrite, UserDelete, UserEdit, Touch
<1>3. ASSUME NEW q \in Peer, Watch(q)
     PROVE  disk'[p][y] = disk[p][y]
    BY <1>3 DEF Watch, WatchUpdate, WatchDelete, WatchNothing, Emit
<1>4. ASSUME NEW q \in Peer,
            \/ SuppressEvent(q) \/ OpenWatcher(q) \/ Stop(q)
            \/ Stopped(q) \/ Crash(q) \/ StartFails(q)
     PROVE  disk'[p][y] = disk[p][y]
    BY <1>4 DEF SuppressEvent, OpenWatcher, Stop, Stopped, Crash, StartFails, Reset
<1>5. ASSUME NEW q \in Peer, SaveConflictCopy(q) \/ ApplyRemote(q) \/ DeleteLocal(q)
     PROVE  disk'[p][y] = disk[p][y]
  <2>1. remote[q] \in RemoteFrame
    BY <1>0 DEF RemoteFrames
  <2>2. remote'[q].pc # remote[q].pc
    <3>1. SaveConflictCopy(q) => remote'[q].pc # remote[q].pc
        BY <1>0, <2>1 DEF SaveConflictCopy, Doing, Turns, RemoteFrame
    <3>2. ApplyRemote(q) => remote'[q].pc # remote[q].pc
        BY <1>0, <2>1 DEF ApplyRemote, Doing, Turns, RemoteFrame
    <3>3. DeleteLocal(q) => remote'[q].pc # remote[q].pc
        BY <1>0, <2>1 DEF DeleteLocal, Doing, Turns, NextEntry, IdleRemote, RemoteFrame
    <3> QED
        BY <1>5, <3>1, <3>2, <3>3
  <2>3. q # p
    BY <2>2
  <2>4. \E z, c : disk' = [disk EXCEPT ![q][z] = c]
    <3>1. \E z, c : Touch(q, z, c)
        BY <1>5 DEF SaveConflictCopy, ApplyRemote, DeleteLocal
    <3> QED
        BY <3>1 DEF Touch
  <2> QED
    BY <1>0, <2>3, <2>4
<1> QED
    BY <1>1, <1>2, <1>3, <1>4, <1>5, WhoWritesFolder

LEMMA PolicyChosen ==
    ASSUME TypeInv, Next, NEW p \in Peer,
           phase[p] = "reconcile", phase'[p] = "reconcile"
    PROVE  policy'[p] = policy[p]
<1>0. phase \in [Peer -> Phases] /\ policy \in [Peer -> Policies]
    BY DEF TypeInv, TypeOK
<1>1. ASSUME NEW q \in Peer, Ready(q)
     PROVE  policy'[p] = policy[p]
    BY <1>0, <1>1 DEF Ready, Enter
<1>2. ASSUME NEW q \in Peer, Stopped(q) \/ Crash(q) \/ StartFails(q)
     PROVE  policy'[p] = policy[p]
    BY <1>0, <1>2 DEF Stopped, Crash, StartFails, Reset
<1>3. ASSUME NEW q \in Peer,
            \/ UserWrite(q) \/ UserDelete(q) \/ PublishFile(q) \/ PublishTombstone(q)
            \/ ScanBegin(q) \/ Start(q) \/ BeginListing(q) \/ ListPick(q)
            \/ OpenWatcher(q) \/ Stop(q) \/ ScanFails(q) \/ UnrelatedUpdate(q)
            \/ \E r \in Peer : Replicate(q, r)
     PROVE  policy'[p] = policy[p]
    BY <1>3
    DEF UserWrite, UserDelete, UserEdit, PublishFile, PublishTombstone, ScanBegin,
        Start, BeginListing, ListPick, OpenWatcher, Stop, ScanFails, UnrelatedUpdate,
        Replicate
<1> QED
    BY <1>1, <1>2, <1>3, WhoWritesSession

LEMMA PolicyKept ==
    ASSUME TypeInv, Next, NEW p \in Peer,
           remote[p].pc \in {"fetch", "delete"}, remote'[p] = remote[p],
           JoinPolicy(p) = "remote-wins"
    PROVE  JoinPolicy(p)' = "remote-wins"
<1>0. /\ phase \in [Peer -> Phases] /\ remote \in [Peer -> RemoteFrames]
    BY DEF TypeInv, TypeOK
<1>1. CASE (phase'[p] = phase[p] /\ policy'[p] = policy[p]) \/ phase'[p] # "reconcile"
    BY <1>1 DEF JoinPolicy
<1>2. ASSUME NEW q \in Peer, Start(q), phase'[p] # phase[p]
     PROVE  FALSE
  <2>1. q = p
    BY <1>0, <1>2 DEF Start, Enter
  <2> QED
    BY <1>0, <1>2, <2>1 DEF Start, Turns, Begun, IdleRemote
<1>3. ASSUME NEW q \in Peer, phase'[p] = "reconcile", phase[p] # "reconcile",
            \/ UserWrite(q) \/ UserDelete(q) \/ PublishFile(q) \/ PublishTombstone(q)
            \/ ScanBegin(q) \/ BeginListing(q) \/ ListPick(q) \/ OpenWatcher(q)
     PROVE  FALSE
    BY <1>0, <1>3
    DEF UserWrite, UserDelete, UserEdit, PublishFile, PublishTombstone, ScanBegin,
        BeginListing, ListPick, OpenWatcher, Enter
<1>4. ASSUME NEW q \in Peer, phase'[p] = "reconcile", phase[p] # "reconcile",
            \/ Stopped(q) \/ Ready(q) \/ Stop(q) \/ Crash(q) \/ ScanFails(q)
            \/ StartFails(q) \/ UnrelatedUpdate(q) \/ \E r \in Peer : Replicate(q, r)
     PROVE  FALSE
    BY <1>0, <1>4
    DEF Stopped, Ready, Stop, Crash, ScanFails, StartFails, UnrelatedUpdate, Replicate,
        Reset, Enter
<1>5. CASE UNCHANGED <<owed, startVars, used>>
    BY <1>1, <1>5
\* Only Ready and Reset choose a policy, and neither leaves p reconciling.
<1>6. ASSUME phase[p] = "reconcile", phase'[p] = "reconcile"
     PROVE  policy'[p] = policy[p]
    BY <1>0, <1>6, PolicyChosen
<1> QED
    BY <1>1, <1>2, <1>3, <1>4, <1>5, <1>6, WhoWritesSession

LEMMA RemoteFrameKept ==
    ASSUME TypeInv, Sound, Next, NEW p \in Peer, remote'[p] = remote[p]
    PROVE  RemoteFrameSound(p, remote[p])'
<1> DEFINE f == remote[p]
<1>1. /\ RemoteFrameSound(p, f) /\ f \in RemoteFrames
    BY DEF Sound, RemoteSound, TypeInv
<1>2. /\ f.snap \subseteq ManifestEntry
      /\ f.pc \notin {"idle", "pick"} => f.item.path \in AllPath
    BY <1>1 DEF RemoteFrames, RemoteFrame, ManifestEntry
<1>3. \A e \in f.snap : e.metadata \in log'[e.path]
    BY <1>1, <1>2, SharedGrows DEF RemoteFrameSound, ManifestEntry
<1>4. f.pc \notin {"idle", "pick"} =>
        /\ f.item.metadata \in log'[f.item.path]
        /\ f.tr # None => f.tr \in Shared'[f.item.path]
    BY <1>1, <1>2, SharedGrows DEF RemoteFrameSound
<1>5. ASSUME f.pc \in {"fetch", "delete"}
     PROVE  SeenSaved(p, remote[p])'
  <2>1. SeenSaved(p, f) /\ f.item.path \in AllPath
    BY <1>1, <1>2, <1>5 DEF RemoteFrameSound
  <2>2. f.seen \in Shared[f.item.path] => f.seen \in Shared'[f.item.path]
    BY <2>1, SharedGrows
  <2>3. ASSUME f.item.path \in Path, NEW k \in {"conflict", "tombstone"}
       PROVE  disk'[p][CopyPath(f.item.path, p, k)] = disk[p][CopyPath(f.item.path, p, k)]
    <3>1. CopyPath(f.item.path, p, k) \in Copies
        BY <2>3 DEF CopyPath, Copies
    <3> QED
        BY <1>5, <3>1, CopiesKept
  <2>4. JoinPolicy(p) = "remote-wins" => JoinPolicy(p)' = "remote-wins"
    BY <1>5, PolicyKept
  <2> QED
    BY <2>1, <2>2, <2>3, <2>4 DEF SeenSaved
<1> QED
    BY <1>3, <1>4, <1>5 DEF RemoteFrameSound

LEMMA RemoteFramesSound ==
    ASSUME TypeInv, Sound, Next
    PROVE  RemoteSound'
<1>0. /\ remote \in [Peer -> RemoteFrames] /\ RemoteSound
      /\ disk \in [Peer -> [AllPath -> Content \cup {None}]]
      /\ tracked \in [Peer -> [AllPath -> Content \cup {None}]]
    BY DEF Sound, TypeInv, TypeOK
<1>1. CASE UNCHANGED remote
    BY <1>1, RemoteFrameKept DEF RemoteSound
<1>2. ASSUME NEW p \in Peer, NEW f, remote' = [remote EXCEPT ![p] = f],
            RemoteFrameSound(p, remote[p])'
     PROVE  RemoteSound'
    BY <1>0, <1>2, RemoteFrameKept DEF RemoteSound
\* A frame of a kind that is about to overwrite nothing.
<1>3. ASSUME NEW p \in Peer, NEW f, remote' = [remote EXCEPT ![p] = f],
            f.pc \in {"idle", "pick"},
            \A e \in f.snap : e \in ManifestEntry /\ e.metadata \in log[e.path]
     PROVE  RemoteSound'
  <2>1. remote'[p] = f
    BY <1>0, <1>3
  <2>2. \A e \in f.snap : e.metadata \in log'[e.path]
    BY <1>3, SharedGrows DEF ManifestEntry
  <2>3. RemoteFrameSound(p, remote[p])'
    BY <1>3, <2>1, <2>2 DEF RemoteFrameSound
  <2> QED
    BY <1>2, <1>3, <2>3
\* The same entry at another step.
<1>4. ASSUME NEW p \in Peer, NEW f, remote' = [remote EXCEPT ![p] = f],
            remote[p].pc \notin {"idle", "pick"},
            f.snap = remote[p].snap, f.item = remote[p].item, f.tr = remote[p].tr,
            f.pc \in {"fetch", "delete"} => SeenSaved(p, remote[p])'
     PROVE  RemoteSound'
  <2>1. RemoteFrameSound(p, remote[p]) /\ remote[p] \in RemoteFrames /\ remote'[p] = f
    BY <1>0, <1>4 DEF RemoteSound
  <2>2. /\ f.snap \subseteq ManifestEntry /\ f.item.path \in AllPath
    BY <1>4, <2>1 DEF RemoteFrames, RemoteFrame, ManifestEntry
  <2>3. \A e \in f.snap : e.metadata \in log'[e.path]
    BY <1>4, <2>1, <2>2, SharedGrows DEF RemoteFrameSound, ManifestEntry
  <2>4. /\ f.item.metadata \in log'[f.item.path]
        /\ f.tr # None => f.tr \in Shared'[f.item.path]
    BY <1>4, <2>1, <2>2, SharedGrows DEF RemoteFrameSound
  <2>5. RemoteFrameSound(p, remote[p])'
    BY <1>4, <2>1, <2>3, <2>4 DEF RemoteFrameSound
  <2> QED
    BY <1>2, <1>4, <2>5
<1>5. \A p \in Peer : \A e \in remote[p].snap : e \in ManifestEntry /\ e.metadata \in log[e.path]
    BY <1>0 DEF RemoteSound, RemoteFrameSound, RemoteFrames, RemoteFrame
<1>6. \A p \in Peer : remote[p].pc \notin {"idle", "pick"} =>
        /\ remote[p] \in RemoteFrame /\ X(p) \in AllPath /\ M(p) \in log[X(p)]
        /\ remote[p].tr # None => remote[p].tr \in Shared[X(p)]
    BY <1>0 DEF RemoteSound, RemoteFrameSound, RemoteFrames, ManifestEntry, X, M
<1>7. ASSUME NEW p \in Peer, ScanBegin(p) \/ Start(p)
     PROVE  RemoteSound'
  <2>1. /\ Begun(p).pc = "pick" /\ Begun(p).snap = List(p)
    BY DEF Begun, IdleRemote
  <2>2. \A e \in List(p) : e.metadata \in log[e.path]
    BY DEF List, Sound, ViewLogged
  <2>3. List(p) \subseteq ManifestEntry
    BY ListTypes DEF TypeInv, TypeOK
  <2>4. remote' = [remote EXCEPT ![p] = Begun(p)]
    BY <1>7 DEF ScanBegin, Start, Turns
  <2> QED
    BY <1>3, <2>1, <2>2, <2>3, <2>4
<1>8. ASSUME NEW p \in Peer, remote' = [remote EXCEPT ![p] = NextEntry(p)]
     PROVE  RemoteSound'
  <2>1. NextEntry(p).pc = "pick" /\ NextEntry(p).snap = remote[p].snap
    BY DEF NextEntry, IdleRemote
  <2> QED
    BY <1>3, <1>5, <1>8, <2>1
<1>9. ASSUME NEW p \in Peer, remote' = [remote EXCEPT ![p] = IdleRemote]
     PROVE  RemoteSound'
  <2>1. IdleRemote.pc = "idle" /\ IdleRemote.snap = {}
    BY DEF IdleRemote
  <2> QED
    BY <1>3, <1>9, <2>1
<1>10. ASSUME NEW p \in Peer, PickEntry(p)
     PROVE  RemoteSound'
  <2> DEFINE rest(i) == [NextEntry(p) EXCEPT !.snap = @ \ {i}]
             f(i) == [rest(i) EXCEPT !.pc = "read", !.item = i, !.tr = tracked[p][i.path]]
  <2>1. PICK i \in remote[p].snap : Turns(p, IF DeletionIgnored(p, i) THEN rest(i) ELSE f(i))
    BY <1>10 DEF PickEntry
  <2>2. /\ rest(i).pc = "pick" /\ rest(i).snap = remote[p].snap \ {i}
        /\ f(i).pc = "read" /\ f(i).snap = remote[p].snap \ {i}
        /\ f(i).item = i /\ f(i).tr = tracked[p][i.path]
    BY DEF NextEntry, IdleRemote
  <2> HIDE DEF rest, f
  <2>3. CASE DeletionIgnored(p, i)
    BY <1>3, <1>5, <2>1, <2>2, <2>3 DEF Turns
  <2>4. CASE ~DeletionIgnored(p, i)
    <3>1. remote' = [remote EXCEPT ![p] = f(i)] /\ remote'[p] = f(i)
        BY <1>0, <2>1, <2>4 DEF Turns
    <3>2. \A e \in f(i).snap : e.metadata \in log'[e.path]
        BY <1>5, <2>2, SharedGrows DEF ManifestEntry
    <3>3. i.path \in AllPath /\ i.metadata \in log'[i.path]
        BY <1>5, <2>1, SharedGrows DEF ManifestEntry
    <3>4. tracked[p][i.path] # None => tracked[p][i.path] \in Shared'[i.path]
        BY <3>3, SharedGrows DEF Sound, TrackedShared
    <3>5. RemoteFrameSound(p, remote[p])'
        BY <2>2, <3>1, <3>2, <3>3, <3>4 DEF RemoteFrameSound
    <3> QED
        BY <1>2, <3>1, <3>5
  <2> QED
    BY <2>3, <2>4
<1>11. ASSUME NEW p \in Peer,
            \/ AlreadyInSync(p) \/ NothingNew(p) \/ LocalYielded(p) \/ DeletionVoid(p)
            \/ AlreadyDeleted(p) \/ RecordDownload(p) \/ ForgetRemote(p)
     PROVE  RemoteSound'
    BY <1>8, <1>11
    DEF AlreadyInSync, NothingNew, LocalYielded, DeletionVoid, AlreadyDeleted,
        RecordDownload, ForgetRemote, Turns
<1>12. ASSUME NEW p \in Peer,
            \/ ScanEnd(p) \/ BeginListing(p) \/ ScanFails(p)
            \/ Stopped(p) \/ Crash(p) \/ StartFails(p)
     PROVE  RemoteSound'
    BY <1>9, <1>12
    DEF ScanEnd, BeginListing, ScanFails, Stopped, Crash, StartFails, Reset, Turns
\* What the comparison has seen is saved, or may go.
<1>13. ASSUME NEW p \in Peer, StartDownload(p) \/ StartDelete(p)
     PROVE  RemoteSound'
  <2> DEFINE pc == IF StartDownload(p) THEN "fetch" ELSE "delete"
             f == [remote[p] EXCEPT !.pc = pc, !.seen = C(p)]
  <2>1. remote[p].pc = "read"
    BY <1>13 DEF StartDownload, StartDelete, Differs, Comparing, Doing
  <2>2. remote' = [remote EXCEPT ![p] = f] /\ UNCHANGED startVars
    BY <1>13 DEF StartDownload, StartDelete, Turns
  <2>3. /\ f.snap = remote[p].snap /\ f.item = remote[p].item /\ f.tr = remote[p].tr
        /\ f.seen = C(p)
    BY <1>6, <2>1 DEF RemoteFrame
  <2>4. \/ C(p) = None
        \/ remote[p].tr = None /\ JoinPolicy(p) = "remote-wins"
        \/ remote[p].tr # None /\ C(p) = remote[p].tr
        \/ C(p) = M(p).baseHash
    BY <1>13 DEF StartDownload, StartDelete, RemoteChanged, LocalChanged, FastForward
  <2>5. C(p) = M(p).baseHash /\ C(p) # None => C(p) \in Shared[X(p)]
    BY <1>6, <2>1 DEF Sound, BasesShared
  <2>6. \/ C(p) = None \/ C(p) \in Shared'[X(p)]
        \/ remote[p].tr = None /\ JoinPolicy(p)' = "remote-wins"
    BY <1>6, <2>1, <2>2, <2>4, <2>5, SharedGrows DEF JoinPolicy
  <2> HIDE DEF f
  <2>7. remote'[p] = f
    BY <1>0, <2>2
  <2>8. SeenSaved(p, remote[p])'
    BY <2>3, <2>6, <2>7 DEF SeenSaved, X
  <2> QED
    BY <1>4, <2>1, <2>2, <2>3, <2>8
<1>14. ASSUME NEW p \in Peer, YieldToLocal(p) \/ StartConflict(p) \/ StartPreserve(p)
     PROVE  RemoteSound'
  <2>1. remote[p].pc = "read"
    BY <1>14 DEF YieldToLocal, StartConflict, StartPreserve, Differs, Comparing, Doing
  <2> DEFINE f == IF YieldToLocal(p) THEN [remote[p] EXCEPT !.pc = "await"]
                  ELSE [remote[p] EXCEPT !.pc = "copy", !.seen = C(p)]
  <2>2. remote' = [remote EXCEPT ![p] = f]
    BY <1>14 DEF YieldToLocal, StartConflict, StartPreserve, Turns
  <2>3. /\ f.pc \in {"await", "copy"}
        /\ f.snap = remote[p].snap /\ f.item = remote[p].item /\ f.tr = remote[p].tr
    BY <1>6, <2>1 DEF RemoteFrame
  <2> HIDE DEF f
  <2> QED
    BY <1>4, <2>1, <2>2, <2>3
<1>15. ASSUME NEW p \in Peer, ApplyRemote(p) \/ DeleteLocal(p)
     PROVE  RemoteSound'
  <2>1. CASE remote' = [remote EXCEPT ![p] = NextEntry(p)]
    BY <1>8, <2>1
  <2>2. CASE remote' # [remote EXCEPT ![p] = NextEntry(p)]
    <3>1. remote[p].pc \in {"fetch", "delete"}
        BY <1>15 DEF ApplyRemote, DeleteLocal, Doing
    <3>2. PICK f : /\ remote' = [remote EXCEPT ![p] = f] /\ f.pc \in {"record", "forget"}
                   /\ f.snap = remote[p].snap /\ f.item = remote[p].item
                   /\ f.tr = remote[p].tr
        BY <1>6, <1>15, <2>2, <3>1 DEF ApplyRemote, DeleteLocal, Turns, RemoteFrame
    <3> QED
        BY <1>4, <3>1, <3>2
  <2> QED
    BY <2>1, <2>2
<1>16. ASSUME NEW p \in Peer, SaveConflictCopy(p)
     PROVE  RemoteSound'
  <2> DEFINE k == IF M(p).kind = "tombstone" THEN "tombstone" ELSE "conflict"
             y == CopyPath(X(p), p, k)
             f == [remote[p] EXCEPT
                    !.pc = IF M(p).kind = "tombstone" THEN "delete" ELSE "fetch"]
  <2>1. remote[p].pc = "copy" /\ X(p) \in Path
    BY <1>0, <1>16 DEF SaveConflictCopy, Doing, RemoteFrames, X
  <2>2. remote' = [remote EXCEPT ![p] = f]
    BY <1>16 DEF SaveConflictCopy, Turns
  <2>3. /\ f.snap = remote[p].snap /\ f.item = remote[p].item /\ f.tr = remote[p].tr
        /\ f.seen = remote[p].seen
    BY <1>6, <2>1 DEF RemoteFrame
  <2>4. y \in AllPath /\ k \in {"conflict", "tombstone"}
    BY <2>1 DEF CopyPath, Copies, AllPath
  <2>5. disk' = [disk EXCEPT ![p][y] = remote[p].seen]
    BY <1>16 DEF SaveConflictCopy, Touch
  <2> HIDE DEF f, k
  <2>6. disk'[p][CopyPath(X(p), p, k)] = remote[p].seen
    BY <1>0, <2>4, <2>5
  <2>7. remote'[p] = f
    BY <1>0, <2>2
  <2>8. SeenSaved(p, remote[p])'
    BY <2>1, <2>3, <2>4, <2>6, <2>7 DEF SeenSaved, X
  <2> QED
    BY <1>4, <2>1, <2>2, <2>3, <2>8
<1> QED
    BY <1>1, <1>7, <1>10, <1>11, <1>12, <1>13, <1>14, <1>15, <1>16, WhoWritesRemote

LEMMA InitSound == Init => Sound
<1> SUFFICES ASSUME Init PROVE Sound
    OBVIOUS
<1>1. ViewLogged
    BY DEF Init, ViewLogged, NoFiles
<1>2. \A x \in AllPath : \A e \in log[x] :
        e = SeedEntry(x) /\ e # None /\ x \in Path /\ Seed # None
    BY DEF Init, SeedEntry
<1>3. \A x \in AllPath : \A e \in log[x] : e.baseHash = None
    BY <1>2 DEF SeedEntry, File
<1>4. BasesShared
    BY <1>3 DEF BasesShared
<1>5. ASSUME NEW x \in Path, Seed # None
     PROVE  Seed \in Shared[x]
  <2>1. x \in AllPath /\ SeedEntry(x) # None
    BY <1>5, EntryAssumption, ConstantsAssumption
    DEF SeedEntry, File, AllPath, UserManifestValue, FileMetadata, Position
  <2>2. SeedEntry(x) \in log[x]
    BY <2>1 DEF Init
  <2>3. SeedEntry(x).kind = "file" /\ SeedEntry(x).hash = Seed
    BY <1>5 DEF SeedEntry, File
  <2> QED
    BY <2>1, <2>2, <2>3, SharedHashes
<1>6. TrackedShared
    BY <1>5 DEF Init, TrackedShared, NoFiles, Seeded
<1>7. LocalSound
    BY DEF Init, LocalSound, LocalFrameSound, IdleLocal
<1>8. RemoteSound
    BY DEF Init, RemoteSound, RemoteFrameSound, IdleRemote
<1> QED
    BY <1>1, <1>4, <1>6, <1>7, <1>8 DEF Sound

LEMMA SoundKept ==
    ASSUME TypeInv, Sound, [Next]_vars
    PROVE  Sound'
<1>1. CASE Next
    BY <1>1, ViewsSound, TrackedSound, LocalFramesSound, RemoteFramesSound DEF Sound
<1>2. CASE UNCHANGED vars
  <2>1. UNCHANGED <<log, view, disk, tracked, local, remote, phase, policy>>
    BY <1>2 DEF vars
  <2>2. Shared' = Shared
    BY <2>1 DEF Shared, Published
  <2>3. ViewLogged' /\ BasesShared' /\ TrackedShared'
    BY <2>1, <2>2 DEF Sound, ViewLogged, BasesShared, TrackedShared
  <2>4. LocalSound'
    BY <2>1, <2>2 DEF Sound, LocalSound, LocalFrameSound
  <2>5. RemoteSound'
    BY <2>1, <2>2 DEF Sound, RemoteSound, RemoteFrameSound, SeenSaved, JoinPolicy
  <2> QED
    BY <2>3, <2>4, <2>5 DEF Sound
<1> QED
    BY <1>1, <1>2

LEMMA Invariance == Spec => [](TypeInv /\ Sound)
<1>1. Init => TypeInv /\ Sound
    BY InitTypeInv, InitSound
<1>2. TypeInv /\ Sound /\ [Next]_vars => (TypeInv /\ Sound)'
    BY TypeInvKept, SoundKept
<1> QED
    BY <1>1, <1>2, PTL DEF Spec

(***************************************************************************)
(* The local state never claims a content was synced that the manifest has *)
(* not named (localState.set at 242, 316, 473, 577 and 608).               *)
(***************************************************************************)
THEOREM TrackedIsPublished == Spec => []TrackedPublished
<1>1. Sound => TrackedPublished
    BY DEF Sound, TrackedShared, TrackedPublished, Shared
<1> QED
    BY <1>1, Invariance, PTL

(***************************************************************************)
(* Who overwrites or deletes a file it has compared destroys no content    *)
(* that exists nowhere else (drive.put at 470, drive.del at 428 and 455).  *)
(***************************************************************************)
LEMMA DestroyedIsSaved ==
    ASSUME TypeInv, Sound, Next, NEW p \in Peer, NEW x \in AllPath, Destroys(p, x)
    PROVE  Saved(p, x, disk[p][x])
<1>0. /\ disk \in [Peer -> [AllPath -> Content \cup {None}]]
      /\ remote[p].pc \in {"fetch", "delete"} /\ remote'[p] # remote[p]
      /\ disk[p][x] # None /\ disk[p][x] = remote[p].seen
      /\ disk'[p][x] # disk[p][x]
    BY DEF TypeInv, TypeOK, Destroys
<1>1. ASSUME NEW q \in Peer,
            \/ UserWrite(q) \/ UserDelete(q) \/ Watch(q) \/ SuppressEvent(q)
            \/ OpenWatcher(q) \/ Stop(q)
     PROVE  remote' = remote
    BY <1>1
    DEF UserWrite, UserDelete, UserEdit, Watch, WatchUpdate, WatchDelete, WatchNothing,
        Emit, SuppressEvent, OpenWatcher, Stop
<1>2. ASSUME NEW q \in Peer, Stopped(q) \/ Crash(q) \/ StartFails(q)
     PROVE  disk' = disk
    BY <1>2 DEF Stopped, Crash, StartFails, Reset
<1>3. PICK q \in Peer : SaveConflictCopy(q) \/ ApplyRemote(q) \/ DeleteLocal(q)
  <2>1. ~UNCHANGED <<folderVars, suppressed>>
    BY <1>0
  <2> QED
    BY <1>0, <1>1, <1>2, <2>1, WhoWritesFolder
<1>4. q = p
  <2>1. \E z, c : disk' = [disk EXCEPT ![q][z] = c]
    <3>1. \E z, c : Touch(q, z, c)
        BY <1>3 DEF SaveConflictCopy, ApplyRemote, DeleteLocal
    <3> QED
        BY <3>1 DEF Touch
  <2> QED
    BY <1>0, <2>1
<1>5. x = X(p)
  <2>1. \E c : disk' = [disk EXCEPT ![p][X(p)] = c]
    BY <1>0, <1>3, <1>4 DEF SaveConflictCopy, ApplyRemote, DeleteLocal, Doing, Touch
  <2> QED
    BY <1>0, <2>1
<1>6. SeenSaved(p, remote[p])
    BY <1>0 DEF Sound, RemoteSound, RemoteFrameSound
<1> QED
    BY <1>0, <1>5, <1>6 DEF SeenSaved, Saved, Shared, X

THEOREM EditsSurvive == Spec => UnpublishedEditsSurvive
<1> DEFINE Kept == \A p \in Peer : \A x \in AllPath :
                        Destroys(p, x) => Saved(p, x, disk[p][x])
<1>1. TypeInv /\ Sound /\ [Next]_vars => [Kept]_vars
    BY DestroyedIsSaved
<1> QED
    BY <1>1, Invariance, PTL DEF Spec, UnpublishedEditsSurvive

-----------------------------------------------------------------------------
(***************************************************************************)
(* One peer moves at a time, and the others' part of the state rests.      *)
(***************************************************************************)
Rests(q) ==
    /\ view'[q] = view[q] /\ disk'[q] = disk[q] /\ dirty'[q] = dirty[q]
    /\ known'[q] = known[q] /\ tracked'[q] = tracked[q]
    /\ suppressed'[q] = suppressed[q] /\ queue'[q] = queue[q]
    /\ local'[q] = local[q] /\ owed'[q] = owed[q] /\ remote'[q] = remote[q]
    /\ phase'[q] = phase[q] /\ listing'[q] = listing[q] /\ policy'[q] = policy[q]

\* What can happen at a peer when nothing stops, fails or is updated for no reason.
Moves(p) ==
    \/ UserWrite(p) \/ UserDelete(p) \/ Watch(p)
    \/ LocalStep(p) \/ RemoteStep(p) \/ SessionStep(p) \/ Ready(p)
    \/ \E q \in Peer : Replicate(p, q)

Disturbs(p) ==
    Stop(p) \/ Crash(p) \/ ScanFails(p) \/ StartFails(p) \/ UnrelatedUpdate(p)

OnlyMover(p) == \A q \in Peer \ {p} : Rests(q)

LEMMA NextMover ==
    ASSUME Next
    PROVE  \E p \in Peer : Moves(p) \/ Disturbs(p)
BY DEF Next, Moves, Disturbs

LEMMA OthersRest ==
    ASSUME TypeInv, NEW p \in Peer, Moves(p) \/ Disturbs(p)
    PROVE  OnlyMover(p)
<1> SUFFICES ASSUME NEW q \in Peer \ {p}
             PROVE  Rests(q)
    BY DEF OnlyMover
<1>0. \* the state is made of functions of the peers
      /\ view \in [Peer -> [AllPath -> UserManifestValue \cup {None}]]
      /\ disk \in [Peer -> [AllPath -> Content \cup {None}]]
      /\ dirty \in [Peer -> SUBSET AllPath] /\ known \in [Peer -> SUBSET AllPath]
      /\ tracked \in [Peer -> [AllPath -> Content \cup {None}]]
      /\ suppressed \in [Peer -> SUBSET AllPath] /\ queue \in [Peer -> Seq(Event)]
      /\ local \in [Peer -> LocalFrame] /\ owed \in [Peer -> BOOLEAN]
      /\ remote \in [Peer -> RemoteFrame] /\ phase \in [Peer -> Phases]
      /\ listing \in [Peer -> SUBSET AllPath] /\ policy \in [Peer -> Policies]
    BY DEF TypeInv, TypeOK, ManifestTypeOK
<1>1. CASE UserWrite(p) \/ UserDelete(p)
    BY <1>0, <1>1 DEF UserWrite, UserDelete, UserEdit, Touch, Rests
<1>2. CASE Watch(p)
    BY <1>0, <1>2 DEF Watch, WatchUpdate, WatchDelete, WatchNothing, Emit, Rests
<1>3. CASE LocalStep(p)
  <2>1. CASE SuppressEvent(p) \/ TakeEvent(p) \/ ReadLocalFile(p) \/ BaseOnManifest(p)
             \/ FindDeleted(p)
    BY <1>0, <2>1 DEF SuppressEvent, TakeEvent, ReadLocalFile, BaseOnManifest, FindDeleted,
        Becomes, Rests
  <2>2. CASE SkipUnchanged(p) \/ RecordUpload(p) \/ ForgetDeleted(p)
    BY <1>0, <2>2 DEF SkipUnchanged, RecordUpload, ForgetDeleted, Becomes, Rests
  <2>3. CASE PublishFile(p) \/ PublishTombstone(p)
    BY <1>0, <2>3 DEF PublishFile, PublishTombstone, Put, Announce, Becomes, Rests
  <2> QED
    BY <1>3, <2>1, <2>2, <2>3 DEF LocalStep
<1>4. CASE RemoteStep(p)
  <2>1. CASE ScanBegin(p) \/ PickEntry(p) \/ NothingNew(p) \/ StartDownload(p)
             \/ LocalYielded(p) \/ StartConflict(p) \/ StartPreserve(p) \/ DeletionVoid(p)
             \/ StartDelete(p) \/ ScanEnd(p)
    BY <1>0, <2>1 DEF ScanBegin, PickEntry, NothingNew, StartDownload, LocalYielded,
        StartConflict, StartPreserve, DeletionVoid, StartDelete, ScanEnd, Turns, Rests
  <2>2. CASE AlreadyInSync(p) \/ AlreadyDeleted(p) \/ RecordDownload(p) \/ ForgetRemote(p)
             \/ YieldToLocal(p)
    BY <1>0, <2>2 DEF AlreadyInSync, AlreadyDeleted, RecordDownload, ForgetRemote,
        YieldToLocal, Turns, Rests
  <2>3. CASE SaveConflictCopy(p) \/ ApplyRemote(p) \/ DeleteLocal(p)
    BY <1>0, <2>3 DEF SaveConflictCopy, ApplyRemote, DeleteLocal, Touch, Turns, Rests
  <2> QED
    BY <1>4, <2>1, <2>2, <2>3 DEF RemoteStep
<1>5. CASE SessionStep(p)
    BY <1>0, <1>5 DEF SessionStep, Start, BeginListing, ListPick, OpenWatcher, Stopped, Reset,
        Enter, Turns, Becomes, Rests
<1>6. CASE Ready(p)
    BY <1>0, <1>6 DEF Ready, Enter, Rests
<1>7. CASE \E r \in Peer : Replicate(p, r)
    BY <1>0, <1>7 DEF Replicate, Rests
<1>8. CASE Disturbs(p)
    BY <1>0, <1>8 DEF Disturbs, Stop, Crash, ScanFails, StartFails, UnrelatedUpdate, Reset,
        Enter, Turns, Rests
<1> QED
    BY <1>1, <1>2, <1>3, <1>4, <1>5, <1>6, <1>7, <1>8 DEF Moves

-----------------------------------------------------------------------------
(***************************************************************************)
(* Nobody but its maker has to do with a conflict copy before it is        *)
(* published.                                                              *)
(***************************************************************************)
NothingAt(q, y) ==
    /\ disk[q][y] = None /\ y \notin dirty[q] /\ y \notin listing[q]
    /\ local[q].pc # "idle" => local[q].path # y
    /\ \A i \in 1 .. Len(queue[q]) : queue[q][i].path # y

CopiesPrivate ==
    \A q \in Peer, y \in Copies : log[y] = {} /\ y.by # q => NothingAt(q, y)

LEMMA QueuePaths ==
    ASSUME NEW s \in Seq(Event), NEW y, \A i \in 1 .. Len(s) : s[i].path # y
    PROVE  /\ \A e \in Event : e.path # y =>
                \A i \in 1 .. Len(Append(s, e)) : Append(s, e)[i].path # y
           /\ s # <<>> =>
                /\ Head(s).path # y
                /\ \A i \in 1 .. Len(Tail(s)) : Tail(s)[i].path # y
<1>1. ASSUME NEW e \in Event, e.path # y, NEW i \in 1 .. Len(Append(s, e))
      PROVE  Append(s, e)[i].path # y
  <2>1. Len(Append(s, e)) = Len(s) + 1
    OBVIOUS
  <2>2. i \in 1 .. Len(s) \/ i = Len(s) + 1
    BY <2>1
  <2> QED
    BY <1>1, <2>2
<1>2. ASSUME s # <<>>
      PROVE  Head(s).path # y /\ \A i \in 1 .. Len(Tail(s)) : Tail(s)[i].path # y
  <2>1. /\ Len(s) \in Nat /\ Len(s) > 0 /\ Head(s) = s[1] /\ Len(Tail(s)) = Len(s) - 1
        /\ \A i \in 1 .. Len(s) - 1 : Tail(s)[i] = s[i + 1]
    BY <1>2
  <2> QED
    BY <2>1
<1> QED
    BY <1>1, <1>2

LEMMA CopiesStayPrivate ==
    ASSUME TypeInv, Sound, CopiesPrivate, Next
    PROVE  CopiesPrivate'
<1> SUFFICES ASSUME NEW q \in Peer, NEW y \in Copies, log'[y] = {}, y.by # q
             PROVE  NothingAt(q, y)'
    BY DEF CopiesPrivate
<1>1. log[y] = {} /\ NothingAt(q, y) /\ y \in AllPath /\ y \notin Path
    BY SharedGrows, PathAssumption DEF CopiesPrivate, AllPath
<1>2. /\ disk \in [Peer -> [AllPath -> Content \cup {None}]]
      /\ dirty \in [Peer -> SUBSET AllPath] /\ listing \in [Peer -> SUBSET AllPath]
      /\ queue \in [Peer -> Seq(Event)] /\ local \in [Peer -> LocalFrame]
      /\ \A p \in Peer : local[p].pc # "idle" => local[p].path \in AllPath
      /\ \A p \in Peer : remote[p].pc \notin {"idle", "pick"} => X(p) \in AllPath
      /\ \A p \in Peer : remote[p].pc = "copy" => X(p) \in Path
    BY DEF TypeInv, TypeOK, LocalFrames, RemoteFrames, ManifestEntry, X
<1>3. \* y is not under comparison
      remote[q].pc \notin {"idle", "pick"} => X(q) # y
    BY <1>1 DEF Sound, RemoteSound, RemoteFrameSound, X
<1>4. PICK p \in Peer : Moves(p) \/ Disturbs(p)
    BY NextMover
<1>5. CASE p # q
  <2>1. Rests(q)
    BY <1>4, <1>5, OthersRest DEF OnlyMover
  <2> QED
    BY <1>1, <2>1 DEF Rests, NothingAt
<1>6. CASE UserWrite(q) \/ UserDelete(q)
    BY <1>1, <1>2, <1>6 DEF UserWrite, UserDelete, UserEdit, Touch, NothingAt
<1>7. CASE Watch(q)
  <2>1. PICK x \in dirty[q] : WatchUpdate(q, x) \/ WatchDelete(q, x) \/ WatchNothing(q, x)
    BY <1>7 DEF Watch
  <2>2. /\ disk' = disk /\ local' = local /\ listing' = listing
        /\ dirty'[q] = dirty[q] \ {x}
    BY <1>2, <2>1 DEF WatchUpdate, WatchDelete, WatchNothing, Emit
  <2>3. CASE WatchNothing(q, x)
    BY <1>1, <2>2, <2>3 DEF WatchNothing, NothingAt
  <2>4. CASE WatchUpdate(q, x) \/ WatchDelete(q, x)
    <3>1. PICK type \in {"update", "delete"} :
                queue'[q] = Append(queue[q], [type |-> type, path |-> x])
        BY <1>2, <2>4 DEF WatchUpdate, WatchDelete, Emit
    <3>2. [type |-> type, path |-> x] \in Event /\ x # y
        BY <1>1, <1>2 DEF Event, NothingAt
    <3>3. \A i \in 1 .. Len(queue'[q]) : queue'[q][i].path # y
        BY <1>1, <1>2, <3>1, <3>2, QueuePaths DEF NothingAt
    <3> QED
        BY <1>1, <2>2, <3>3 DEF NothingAt
  <2> QED
    BY <2>1, <2>3, <2>4
<1>8. CASE LocalStep(q)
  <2>1. /\ disk' = disk /\ dirty' = dirty /\ listing' = listing
    BY <1>8 DEF LocalStep, SuppressEvent, TakeEvent, ReadLocalFile, SkipUnchanged,
        BaseOnManifest, PublishFile, RecordUpload, FindDeleted, PublishTombstone,
        ForgetDeleted
  <2>2. CASE SuppressEvent(q) \/ TakeEvent(q)
    <3>1. /\ queue[q] # <<>> /\ queue'[q] = Tail(queue[q])
          /\ local'[q] = local[q] \/ local'[q].path = Head(queue[q]).path
        BY <1>2, <2>2 DEF SuppressEvent, TakeEvent, EventReady, IdleLocal
    <3>2. Head(queue[q]).path # y /\ \A i \in 1 .. Len(queue'[q]) : queue'[q][i].path # y
        BY <1>1, <1>2, <3>1, QueuePaths DEF NothingAt
    <3> QED
        BY <1>1, <2>1, <3>1, <3>2 DEF NothingAt
  <2>3. CASE ~SuppressEvent(q) /\ ~TakeEvent(q)
    <3>1. queue' = queue /\ local[q] \in LocalFrame
        BY <1>2, <1>8, <2>3 DEF LocalStep, ReadLocalFile, SkipUnchanged, BaseOnManifest,
            PublishFile, RecordUpload, FindDeleted, PublishTombstone, ForgetDeleted
    <3>2. ASSUME SkipUnchanged(q) \/ RecordUpload(q) \/ ForgetDeleted(q)
          PROVE  local'[q].pc = "idle"
        BY <1>2, <3>2 DEF SkipUnchanged, RecordUpload, ForgetDeleted, Becomes, IdleLocal
    <3>3. ASSUME ReadLocalFile(q) \/ FindDeleted(q) \/ BaseOnManifest(q)
                 \/ PublishFile(q) \/ PublishTombstone(q)
          PROVE  local'[q].pc = "idle" \/ local'[q].path = local[q].path
      <4>1. CASE ReadLocalFile(q)
        <5>1. PICK c : \/ local'[q] = IdleLocal
                       \/ local'[q] = [local[q] EXCEPT !.pc = "lookup", !.data = c]
            BY <1>2, <4>1 DEF ReadLocalFile, Becomes
        <5>2. [local[q] EXCEPT !.pc = "lookup", !.data = c].path = local[q].path
            BY <3>1 DEF LocalFrame
        <5>3. IdleLocal.pc = "idle"
            BY DEF IdleLocal
        <5> QED
            BY <5>1, <5>2, <5>3, Zenon
      <4>2. CASE FindDeleted(q)
        <5>1. PICK c : \/ local'[q] = IdleLocal
                       \/ local'[q] = [local[q] EXCEPT !.pc = "entomb", !.base = c]
            BY <1>2, <4>2 DEF FindDeleted, Becomes
        <5>2. [local[q] EXCEPT !.pc = "entomb", !.base = c].path = local[q].path
            BY <3>1 DEF LocalFrame
        <5>3. IdleLocal.pc = "idle"
            BY DEF IdleLocal
        <5> QED
            BY <5>1, <5>2, <5>3, Zenon
      <4>3. CASE BaseOnManifest(q) \/ PublishFile(q) \/ PublishTombstone(q)
        <5>1. \/ \E pc : local'[q] = [local[q] EXCEPT !.pc = pc]
              \/ \E c : local'[q] = [local[q] EXCEPT !.pc = "publish", !.base = c]
            BY <1>2, <4>3 DEF BaseOnManifest, PublishFile, PublishTombstone, Becomes
        <5>2. \A c : /\ [local[q] EXCEPT !.pc = c].path = local[q].path
                     /\ [local[q] EXCEPT !.pc = "publish", !.base = c].path = local[q].path
            BY <3>1 DEF LocalFrame
        <5> QED
            BY <5>1, <5>2
      <4> QED
        BY <3>3, <4>1, <4>2, <4>3
    <3>4. local[q].pc # "idle"
        BY <1>8, <2>3 DEF LocalStep, ReadLocalFile, SkipUnchanged, BaseOnManifest,
            PublishFile, RecordUpload, FindDeleted, PublishTombstone, ForgetDeleted, At
    <3> QED
        BY <1>1, <1>8, <2>1, <2>3, <3>1, <3>2, <3>3, <3>4 DEF LocalStep, NothingAt
  <2> QED
    BY <2>2, <2>3
<1>9. CASE RemoteStep(q)
  <2>1. listing' = listing /\ local' = local
    BY <1>9 DEF RemoteStep, ScanBegin, PickEntry, AlreadyInSync, NothingNew, StartDownload,
        YieldToLocal, LocalYielded, StartConflict, StartPreserve, DeletionVoid, StartDelete,
        AlreadyDeleted, SaveConflictCopy, ApplyRemote, RecordDownload, DeleteLocal,
        ForgetRemote, ScanEnd
  <2>2. CASE YieldToLocal(q)
    <3>1. /\ queue'[q] = Append(queue[q], [type |-> "update", path |-> X(q)])
          /\ X(q) \in AllPath /\ X(q) # y
        BY <1>2, <1>3, <2>2 DEF YieldToLocal, Differs, Comparing, Doing
    <3>2. [type |-> "update", path |-> X(q)] \in Event
        BY <3>1 DEF Event
    <3>3. \A i \in 1 .. Len(queue'[q]) : queue'[q][i].path # y
        BY <1>1, <1>2, <3>1, <3>2, QueuePaths DEF NothingAt
    <3> QED
        BY <1>1, <2>1, <2>2, <3>3 DEF YieldToLocal, NothingAt
  <2>3. CASE SaveConflictCopy(q) \/ ApplyRemote(q) \/ DeleteLocal(q)
    <3>1. PICK z, c : Touch(q, z, c) /\ z # y
      <4>1. \A k : CopyPath(X(q), q, k) # y
        BY <1>1 DEF CopyPath
      <4> QED
        BY <1>3, <2>3, <4>1 DEF SaveConflictCopy, ApplyRemote, DeleteLocal, Doing
    <3>2. /\ disk' = [disk EXCEPT ![q][z] = c]
          /\ dirty'[q] \subseteq dirty[q] \cup {z}
        BY <1>2, <3>1 DEF Touch
    <3>3. queue' = queue
        BY <2>3 DEF SaveConflictCopy, ApplyRemote, DeleteLocal
    <3>4. disk'[q][y] = None /\ y \notin dirty'[q]
        BY <1>1, <1>2, <3>1, <3>2 DEF NothingAt
    <3> QED
        BY <1>1, <2>1, <3>3, <3>4 DEF NothingAt
  <2>4. CASE ~YieldToLocal(q) /\ ~SaveConflictCopy(q) /\ ~ApplyRemote(q) /\ ~DeleteLocal(q)
    <3>1. disk' = disk /\ dirty' = dirty /\ queue' = queue
        BY <1>9, <2>4 DEF RemoteStep, ScanBegin, PickEntry, AlreadyInSync, NothingNew,
            StartDownload, LocalYielded, StartConflict, StartPreserve, DeletionVoid,
            StartDelete, AlreadyDeleted, RecordDownload, ForgetRemote, ScanEnd
    <3> QED
        BY <1>1, <2>1, <3>1 DEF NothingAt
  <2> QED
    BY <2>2, <2>3, <2>4
<1>10. CASE Stopped(q) \/ Crash(q) \/ StartFails(q)
    BY <1>1, <1>2, <1>10 DEF Stopped, Crash, StartFails, Reset, IdleLocal, NothingAt
<1>11. CASE Start(q) \/ BeginListing(q) \/ ListPick(q) \/ OpenWatcher(q) \/ Ready(q)
  <2>1. /\ disk' = disk /\ dirty' = dirty /\ queue' = queue
        /\ listing'[q] \subseteq listing[q] \cup OnDisk(q)
        /\ local'[q] = local[q] \/ local'[q].path \in listing[q]
    BY <1>2, <1>11 DEF Start, BeginListing, ListPick, OpenWatcher, Ready, Enter, Becomes,
        IdleLocal
  <2> QED
    BY <1>1, <2>1 DEF NothingAt, OnDisk
<1>12. CASE Stop(q) \/ ScanFails(q) \/ UnrelatedUpdate(q) \/ \E r \in Peer : Replicate(q, r)
  <2>1. /\ disk' = disk /\ queue' = queue /\ listing' = listing /\ local' = local
        /\ dirty'[q] \subseteq dirty[q]
    BY <1>2, <1>12 DEF Stop, ScanFails, UnrelatedUpdate, Replicate
  <2> QED
    BY <1>1, <2>1 DEF NothingAt
<1> QED
    BY <1>4, <1>5, <1>6, <1>7, <1>8, <1>9, <1>10, <1>11, <1>12
    DEF Moves, Disturbs, SessionStep

-----------------------------------------------------------------------------
(***************************************************************************)
(* A peer that has not gone live, and whose user keeps away: what its two  *)
(* queues have read is what the folder and the local state still hold.     *)
(***************************************************************************)
JoinFrames(p) ==
    /\ phase[p] \in {"down", "ready", "reconcile", "listing"}
    /\ phase[p] # "reconcile" => remote[p].pc = "idle"
    /\ queue[p] # <<>> => remote[p].pc = "await"
    /\ local[p].pc # "idle" => phase[p] = "listing" \/ remote[p].pc = "await"
    /\ queue[p] # <<>> => Head(queue[p]).type = "update" /\ Tail(queue[p]) = <<>>
    /\ local[p].pc \in {"idle", "read", "lookup", "publish", "record"}
    /\ local[p].pc \in {"lookup", "publish", "record"} =>
        local[p].data = disk[p][local[p].path]
    /\ remote[p].pc = "read" => remote[p].tr = tracked[p][X(p)]
    /\ remote[p].pc \in {"copy", "fetch", "delete"} => remote[p].seen = C(p)
    /\ remote[p].pc = "record" => C(p) = M(p).hash
    /\ remote[p].pc = "forget" => C(p) = None

LEMMA JoinTypes ==
    ASSUME TypeInv, NEW p \in Peer
    PROVE  /\ local[p] \in LocalFrame /\ remote[p] \in RemoteFrame
           /\ local[p].pc # "idle" => local[p].path \in AllPath
           /\ local[p].pc \in {"lookup", "publish", "record"} => local[p].data \in Content
           /\ remote[p].pc \notin {"idle", "pick"} => X(p) \in AllPath
           /\ remote[p].pc = "copy" => X(p) \in Path
           /\ queue[p] \in Seq(Event)
           /\ phase[p] \in Phases
           /\ disk[p] \in [AllPath -> Content \cup {None}]
           /\ tracked[p] \in [AllPath -> Content \cup {None}]
BY DEF TypeInv, TypeOK, LocalFrames, RemoteFrames, ManifestEntry, X

LEMMA JoinPeers ==
    ASSUME TypeInv
    PROVE  /\ local \in [Peer -> LocalFrame] /\ remote \in [Peer -> RemoteFrame]
           /\ queue \in [Peer -> Seq(Event)] /\ phase \in [Peer -> Phases]
           /\ disk \in [Peer -> [AllPath -> Content \cup {None}]]
           /\ tracked \in [Peer -> [AllPath -> Content \cup {None}]]
           /\ listing \in [Peer -> SUBSET AllPath]
           /\ view \in [Peer -> [AllPath -> UserManifestValue \cup {None}]]
BY DEF TypeInv, TypeOK, ManifestTypeOK

LEMMA JoinLocal ==
    ASSUME TypeInv, NEW p \in Peer, JoinFrames(p), LocalStep(p)
    PROVE  /\ JoinFrames(p)' /\ remote' = remote /\ disk' = disk
           /\ \/ UNCHANGED tracked
              \/ /\ local[p].pc \in {"lookup", "record"}
                 /\ tracked' = [tracked EXCEPT ![p][local[p].path] = disk[p][local[p].path]]
<1>0. ~FindDeleted(p) /\ ~PublishTombstone(p) /\ ~ForgetDeleted(p)
    BY DEF JoinFrames, FindDeleted, PublishTombstone, ForgetDeleted, At
<1>1. /\ remote' = remote /\ disk' = disk /\ phase' = phase
      /\ X(p)' = X(p) /\ C(p)' = C(p) /\ M(p)' = M(p)
    BY DEF LocalStep, SuppressEvent, TakeEvent, ReadLocalFile, SkipUnchanged,
        BaseOnManifest, PublishFile, RecordUpload, FindDeleted, PublishTombstone,
        ForgetDeleted, X, C, M
<1>2. CASE SuppressEvent(p) \/ TakeEvent(p)
  <2>1. queue[p] # <<>> /\ remote[p].pc = "await" /\ Head(queue[p]).type = "update"
    BY <1>2 DEF SuppressEvent, TakeEvent, EventReady, JoinFrames
  <2>2. /\ queue'[p] = <<>> /\ tracked' = tracked
        /\ local'[p] = local[p] \/ local'[p].pc = "read"
    BY <1>2, <2>1, JoinPeers DEF SuppressEvent, TakeEvent, JoinFrames, Becomes, IdleLocal
  <2> QED
    BY <1>1, <2>1, <2>2 DEF JoinFrames
<1>3. CASE ReadLocalFile(p)
  <2>1. /\ queue' = queue /\ tracked' = tracked /\ local[p].pc = "read"
        /\ local[p] \in LocalFrame
    BY <1>3, JoinTypes DEF ReadLocalFile, At
  <2>2. CASE local'[p] = IdleLocal
    BY <1>1, <2>1, <2>2 DEF JoinFrames, IdleLocal
  <2>3. CASE local'[p] = [local[p] EXCEPT !.pc = "lookup", !.data = disk[p][local[p].path]]
    <3>1. /\ local'[p].pc = "lookup" /\ local'[p].path = local[p].path
          /\ local'[p].data = disk[p][local[p].path]
        BY <2>1, <2>3 DEF LocalFrame
    <3> QED
        BY <1>1, <2>1, <3>1 DEF JoinFrames
  <2> QED
    BY <1>3, <2>2, <2>3, JoinPeers DEF ReadLocalFile, Becomes
<1>4. CASE SkipUnchanged(p) \/ RecordUpload(p)
  <2>1. /\ queue' = queue /\ local'[p] = IdleLocal /\ local[p].pc \in {"lookup", "record"}
        /\ \/ tracked' = tracked
           \/ tracked' = [tracked EXCEPT ![p][local[p].path] = local[p].data]
    BY <1>4, JoinPeers DEF SkipUnchanged, RecordUpload, Becomes, At
  <2>2. /\ local[p].data = disk[p][local[p].path]
        /\ remote[p].pc # "read"
    BY <2>1 DEF JoinFrames
  <2> QED
    BY <1>1, <2>1, <2>2 DEF JoinFrames, IdleLocal
<1>5. CASE BaseOnManifest(p) \/ PublishFile(p)
  <2>1. /\ queue' = queue /\ tracked' = tracked /\ local[p].pc \in {"lookup", "publish"}
        /\ local[p] \in LocalFrame
    BY <1>5, JoinTypes DEF BaseOnManifest, PublishFile, At
  <2>2. local'[p].pc \in {"publish", "record"} /\ local'[p].path = local[p].path
        /\ local'[p].data = local[p].data
    <3>1. CASE BaseOnManifest(p)
      <4>1. PICK b : local'[p] = [local[p] EXCEPT !.pc = "publish", !.base = b]
        BY <3>1, JoinPeers DEF BaseOnManifest, Becomes
      <4> QED
        BY <2>1, <4>1 DEF LocalFrame
    <3>2. CASE PublishFile(p)
      <4>1. local'[p] = [local[p] EXCEPT !.pc = "record"]
        BY <3>2, JoinPeers DEF PublishFile, Becomes
      <4> QED
        BY <2>1, <4>1 DEF LocalFrame
    <3> QED
        BY <1>5, <3>1, <3>2
  <2> QED
    BY <1>1, <2>1, <2>2 DEF JoinFrames
<1> QED
    BY <1>0, <1>1, <1>2, <1>3, <1>4, <1>5 DEF LocalStep

CopiesOf(p, x) == {CopyPath(x, p, "conflict"), CopyPath(x, p, "tombstone")}

LEMMA CopyPlaces ==
    ASSUME NEW p \in Peer, NEW x \in Path, NEW y \in CopiesOf(p, x)
    PROVE  y \in Copies /\ y \in AllPath /\ y \notin Path /\ y # x /\ y.by = p /\ y.of = x
BY PathAssumption DEF CopiesOf, CopyPath, Copies, AllPath

\* What the scan of initialSync does at such a peer, up to its writes.
Compares(p) ==
    \/ PickEntry(p) \/ AlreadyInSync(p) \/ NothingNew(p) \/ StartDownload(p)
    \/ YieldToLocal(p) \/ LocalYielded(p) \/ StartConflict(p) \/ StartPreserve(p)
    \/ DeletionVoid(p) \/ StartDelete(p) \/ AlreadyDeleted(p) \/ RecordDownload(p)
    \/ ForgetRemote(p)

\* How it leaves the frame: an entry is picked, is done with, or will be written.
Picks(p) ==
    /\ remote[p].pc = "pick" /\ queue' = queue /\ tracked' = tracked
    /\ \E i \in remote[p].snap :
        /\ remote'[p].snap = remote[p].snap \ {i}
        /\ \/ DeletionIgnored(p, i) /\ remote'[p].pc = "pick"
           \/ /\ ~DeletionIgnored(p, i) /\ remote'[p].pc = "read"
              /\ remote'[p].item = i /\ remote'[p].tr = tracked[p][i.path]

GoesOn(p) ==
    /\ remote[p].pc \in {"read", "await", "record", "forget"} /\ queue' = queue
    /\ remote'[p].pc = "pick" /\ remote'[p].snap = remote[p].snap
    /\ remote[p].pc = "await" => queue[p] = <<>> /\ local[p].pc = "idle"
    /\ \/ tracked' = tracked /\ remote[p].pc \in {"read", "await"}
       \/ tracked' = [tracked EXCEPT ![p][X(p)] = C(p)] /\ remote[p].pc # "await"

Decides(p) ==
    /\ remote[p].pc = "read" /\ tracked' = tracked
    /\ remote'[p].snap = remote[p].snap /\ remote'[p].item = remote[p].item
    /\ remote'[p].tr = remote[p].tr
    /\ \/ /\ remote'[p].pc = "await"
          /\ queue'[p] = Append(queue[p], [type |-> "update", path |-> X(p)])
       \/ /\ remote'[p].pc \in {"fetch", "copy", "delete"} /\ remote'[p].seen = C(p)
          /\ remote'[p].pc = "copy" => C(p) \notin {None, remote[p].tr}
          /\ queue' = queue

LEMMA ScanShape ==
    ASSUME TypeInv, NEW p \in Peer, JoinFrames(p), Compares(p)
    PROVE  /\ UNCHANGED <<manifestVars, folderVars, suppressed, local, owed, startVars>>
           /\ phase[p] = "reconcile"
           /\ Picks(p) \/ GoesOn(p) \/ Decides(p)
<1>1. UNCHANGED <<manifestVars, folderVars, suppressed, local, owed, startVars>>
    BY DEF Compares, PickEntry, AlreadyInSync, NothingNew, StartDownload, YieldToLocal,
        LocalYielded, StartConflict, StartPreserve, DeletionVoid, StartDelete,
        AlreadyDeleted, RecordDownload, ForgetRemote
<1>2. remote[p].pc # "idle"
    BY DEF Compares, PickEntry, AlreadyInSync, NothingNew, StartDownload, YieldToLocal,
        LocalYielded, StartConflict, StartPreserve, DeletionVoid, StartDelete,
        AlreadyDeleted, RecordDownload, ForgetRemote, Comparing, Differs, Doing
<1>3. phase[p] = "reconcile"
    BY <1>2 DEF JoinFrames
<1>4. CASE PickEntry(p)
  <2>1. PICK i \in remote[p].snap :
            LET rest == [NextEntry(p) EXCEPT !.snap = @ \ {i}] IN
            remote'[p] = IF DeletionIgnored(p, i) THEN rest
                         ELSE [rest EXCEPT !.pc = "read", !.item = i,
                                           !.tr = tracked[p][i.path]]
    BY <1>4, JoinPeers DEF PickEntry, Turns
  <2>2. /\ remote'[p].snap = remote[p].snap \ {i}
        /\ \/ DeletionIgnored(p, i) /\ remote'[p].pc = "pick"
           \/ /\ ~DeletionIgnored(p, i) /\ remote'[p].pc = "read"
              /\ remote'[p].item = i /\ remote'[p].tr = tracked[p][i.path]
    BY <2>1 DEF NextEntry, IdleRemote
  <2> QED
    BY <1>1, <1>3, <1>4, <2>2 DEF PickEntry, Picks
<1>5. CASE \/ AlreadyInSync(p) \/ NothingNew(p) \/ LocalYielded(p) \/ DeletionVoid(p)
           \/ AlreadyDeleted(p) \/ RecordDownload(p) \/ ForgetRemote(p)
  <2>1. queue' = queue /\ remote'[p] = NextEntry(p)
    BY <1>5, JoinPeers DEF AlreadyInSync, NothingNew, LocalYielded, DeletionVoid,
        AlreadyDeleted, RecordDownload, ForgetRemote, Turns
  <2>2. remote'[p].pc = "pick" /\ remote'[p].snap = remote[p].snap
    BY <2>1 DEF NextEntry, IdleRemote
  <2>3. /\ remote[p].pc \in {"read", "await", "record", "forget"}
        /\ remote[p].pc = "await" => queue[p] = <<>> /\ local[p].pc = "idle"
        /\ \/ tracked' = tracked /\ remote[p].pc \in {"read", "await"}
           \/ tracked' = [tracked EXCEPT ![p][X(p)] = C(p)] /\ remote[p].pc # "await"
    BY <1>5 DEF AlreadyInSync, NothingNew, LocalYielded, DeletionVoid, AlreadyDeleted,
        RecordDownload, ForgetRemote, Comparing, Differs, Doing, JoinFrames
  <2> QED
    BY <1>1, <1>3, <2>1, <2>2, <2>3 DEF GoesOn
<1>6. CASE StartDownload(p) \/ YieldToLocal(p) \/ StartConflict(p) \/ StartPreserve(p)
           \/ StartDelete(p)
  <2>1. tracked' = tracked /\ remote[p].pc = "read" /\ remote[p] \in RemoteFrame
    BY <1>6, JoinTypes DEF StartDownload, YieldToLocal, StartConflict, StartPreserve,
        StartDelete, Comparing, Differs, Doing
  <2>2. CASE YieldToLocal(p)
    <3>1. /\ remote'[p] = [remote[p] EXCEPT !.pc = "await"]
          /\ queue'[p] = Append(queue[p], [type |-> "update", path |-> X(p)])
        BY <2>2, JoinPeers DEF YieldToLocal, Turns
    <3> QED
        BY <1>1, <1>3, <2>1, <3>1 DEF Decides, RemoteFrame
  <2>3. CASE ~YieldToLocal(p)
    <3>1. /\ queue' = queue
          /\ \E pc \in {"fetch", "copy", "delete"} :
                /\ remote'[p] = [remote[p] EXCEPT !.pc = pc, !.seen = C(p)]
                /\ pc = "copy" => C(p) \notin {None, remote[p].tr}
        BY <1>6, <2>3, JoinPeers DEF StartDownload, StartConflict, StartPreserve, StartDelete,
            Turns, Differs, LocalChanged
    <3> QED
        BY <1>1, <1>3, <2>1, <3>1 DEF Decides, RemoteFrame
  <2> QED
    BY <2>2, <2>3
<1> QED
    BY <1>4, <1>5, <1>6 DEF Compares

\* What it does to the folder.
Writes(p) == SaveConflictCopy(p) \/ ApplyRemote(p) \/ DeleteLocal(p)

\* What a step of the scan writes, and where.
Saves(p) ==
    /\ remote[p].pc = "copy" /\ X(p) \in Path
    /\ \E y \in CopiesOf(p, X(p)) :
        /\ y.kind = IF M(p).kind = "tombstone" THEN "tombstone" ELSE "conflict"
        /\ disk' = [disk EXCEPT ![p][y] = C(p)]
        /\ suppressed' = [suppressed EXCEPT ![p] = @ \cup {y}]
    /\ remote'[p].pc = IF M(p).kind = "tombstone" THEN "delete" ELSE "fetch"
    /\ remote'[p].item = remote[p].item /\ remote'[p].seen = remote[p].seen

Applies(p) ==
    /\ suppressed' = [suppressed EXCEPT ![p] = @ \cup {X(p)}]
    /\ \/ /\ remote[p].pc = "fetch" /\ remote'[p].pc = "record"
          /\ remote'[p].item = remote[p].item
          /\ disk' = [disk EXCEPT ![p][X(p)] = M(p).hash]
       \/ /\ remote[p].pc = "delete"
          /\ IF remote[p].tr = None THEN remote'[p].pc = "pick"
             ELSE remote'[p].pc = "forget" /\ remote'[p].item = remote[p].item
          /\ disk' = [disk EXCEPT ![p][X(p)] = None]

LEMMA WriteShape ==
    ASSUME TypeInv, NEW p \in Peer, JoinFrames(p), Writes(p)
    PROVE  /\ UNCHANGED <<manifestVars, tracked, localVars, owed, startVars>>
           /\ phase[p] = "reconcile" /\ X(p) \in AllPath
           /\ remote'[p].snap = remote[p].snap
           /\ remote'[p].pc # "pick" => remote'[p].tr = remote[p].tr
           /\ Saves(p) \/ Applies(p)
<1>1. /\ UNCHANGED <<manifestVars, tracked, localVars, owed, startVars>>
      /\ remote[p].pc \in {"copy", "fetch", "delete"} /\ remote[p] \in RemoteFrame
      /\ X(p) \in AllPath /\ phase[p] = "reconcile" /\ remote[p].seen = C(p)
    BY JoinTypes DEF Writes, SaveConflictCopy, ApplyRemote, DeleteLocal, Doing, JoinFrames
<1>2. CASE SaveConflictCopy(p)
  <2> DEFINE deleted == M(p).kind = "tombstone"
             y == CopyPath(X(p), p, IF deleted THEN "tombstone" ELSE "conflict")
  <2>1. X(p) \in Path /\ remote[p].pc = "copy"
    BY <1>2, JoinTypes DEF SaveConflictCopy, Doing
  <2>2. remote'[p] = [remote[p] EXCEPT !.pc = IF deleted THEN "delete" ELSE "fetch"]
    BY <1>2, JoinPeers DEF SaveConflictCopy, Turns
  <2>3. y \in CopiesOf(p, X(p)) /\ y.kind = IF deleted THEN "tombstone" ELSE "conflict"
    BY DEF CopiesOf, CopyPath
  <2>4. /\ disk' = [disk EXCEPT ![p][y] = C(p)]
        /\ suppressed' = [suppressed EXCEPT ![p] = @ \cup {y}]
    BY <1>1, <1>2 DEF SaveConflictCopy, Touch
  <2> HIDE DEF y
  <2> QED
    BY <1>1, <2>1, <2>2, <2>3, <2>4 DEF Saves, RemoteFrame
<1>3. CASE ApplyRemote(p)
  <2>1. remote'[p] = [remote[p] EXCEPT !.pc = "record"] /\ remote[p].pc = "fetch"
    BY <1>3, JoinPeers DEF ApplyRemote, Turns, Doing
  <2> QED
    BY <1>1, <1>3, <2>1 DEF ApplyRemote, Touch, Applies, RemoteFrame
<1>4. CASE DeleteLocal(p)
  <2>1. /\ remote[p].pc = "delete"
        /\ remote'[p] = IF remote[p].tr = None THEN NextEntry(p)
                        ELSE [remote[p] EXCEPT !.pc = "forget"]
    BY <1>4, JoinPeers DEF DeleteLocal, Turns, Doing
  <2>2. NextEntry(p).pc = "pick" /\ NextEntry(p).snap = remote[p].snap
    BY DEF NextEntry, IdleRemote
  <2> QED
    BY <1>1, <1>4, <2>1, <2>2 DEF DeleteLocal, Touch, Applies, RemoteFrame
<1> QED
    BY <1>2, <1>3, <1>4 DEF Writes

\* How a session goes on, or fails.
Advances(p) ==
    \/ Ready(p) \/ Start(p) \/ BeginListing(p) \/ ListPick(p) \/ StartFails(p)
    \/ \E q \in Peer : Replicate(p, q)

LEMMA JoinFramesKept ==
    ASSUME TypeInv, NEW p \in Peer, JoinFrames(p), Compares(p) \/ Writes(p) \/ Advances(p)
    PROVE  JoinFrames(p)'
<1>1. CASE Compares(p)
  <2>1. /\ disk' = disk /\ phase' = phase /\ local' = local /\ phase[p] = "reconcile"
        /\ Picks(p) \/ GoesOn(p) \/ Decides(p)
    BY <1>1, ScanShape
  <2>2. CASE Picks(p)
    BY <2>1, <2>2 DEF Picks, JoinFrames, X
  <2>3. CASE GoesOn(p)
    BY <2>1, <2>3 DEF GoesOn, JoinFrames
  <2>4. CASE Decides(p)
    <3>1. queue[p] = <<>> /\ local[p].pc = "idle" /\ X(p) \in AllPath
        BY <2>4, JoinTypes DEF Decides, JoinFrames
    <3>2. X(p)' = X(p) /\ C(p)' = C(p)
        BY <2>1, <2>4 DEF Decides, X, C
    <3>3. CASE remote'[p].pc = "await"
      <4>1. /\ [type |-> "update", path |-> X(p)] \in Event
            /\ [type |-> "update", path |-> X(p)].type = "update"
        BY <3>1 DEF Event
      <4>2. queue'[p] = Append(<<>>, [type |-> "update", path |-> X(p)])
        BY <2>4, <3>1, <3>3 DEF Decides
      <4>3. Head(queue'[p]).type = "update" /\ Tail(queue'[p]) = <<>>
        BY <4>1, <4>2
      <4> QED
        BY <2>1, <3>1, <3>3, <4>3 DEF JoinFrames
    <3>4. CASE remote'[p].pc # "await"
        BY <2>1, <2>4, <3>1, <3>2, <3>4 DEF JoinFrames, Decides
    <3> QED
        BY <3>3, <3>4
  <2> QED
    BY <2>1, <2>2, <2>3, <2>4
<1>2. CASE Writes(p)
  <2>1. /\ UNCHANGED <<queue, local, phase>> /\ X(p) \in AllPath /\ phase[p] = "reconcile"
        /\ Saves(p) \/ Applies(p)
    BY <1>2, WriteShape
  <2>2. queue[p] = <<>> /\ local[p].pc = "idle"
    BY <2>1 DEF JoinFrames, Saves, Applies
  <2>3. CASE Saves(p)
    <3>1. PICK y \in CopiesOf(p, X(p)) : disk' = [disk EXCEPT ![p][y] = C(p)]
        BY <2>3 DEF Saves
    <3>2. y # X(p) /\ y \in AllPath
        BY <2>3, CopyPlaces DEF Saves
    <3>3. X(p)' = X(p) /\ C(p)' = C(p)
        BY <2>1, <2>3, <3>1, <3>2, JoinPeers DEF Saves, X, C
    <3> QED
        BY <2>1, <2>2, <2>3, <3>3 DEF JoinFrames, Saves
  <2>4. CASE Applies(p)
    <3>1. PICK d : disk' = [disk EXCEPT ![p][X(p)] = d]
        BY <2>4 DEF Applies
    <3>2. disk'[p][X(p)] = d
        BY <2>1, <3>1, JoinPeers
    <3>3. /\ remote[p].pc = "fetch" => disk'[p][X(p)] = M(p).hash
          /\ remote[p].pc = "delete" => disk'[p][X(p)] = None
        BY <2>1, <2>4, JoinPeers DEF Applies
    <3>4. remote'[p].pc # "pick" => X(p)' = X(p) /\ C(p)' = disk'[p][X(p)] /\ M(p)' = M(p)
        BY <2>4 DEF Applies, X, C, M
    <3> QED
        BY <2>1, <2>2, <2>4, <3>3, <3>4 DEF JoinFrames, Applies
  <2> QED
    BY <2>1, <2>3, <2>4
<1>3. CASE Ready(p) \/ StartFails(p)
  <2>1. /\ phase'[p] \in {"down", "ready"} /\ remote'[p].pc = "idle" /\ queue'[p] = <<>>
        /\ local'[p].pc = "idle"
    BY <1>3, JoinPeers DEF Ready, StartFails, Reset, Enter, JoinFrames, IdleRemote, IdleLocal
  <2> QED
    BY <2>1 DEF JoinFrames
<1>4. CASE Start(p)
  <2>1. /\ phase'[p] = "reconcile" /\ remote'[p].pc = "pick" /\ queue' = queue
        /\ local' = local /\ phase[p] = "ready"
    BY <1>4, JoinPeers DEF Start, Enter, Turns, Begun, IdleRemote
  <2>2. queue[p] = <<>> /\ local[p].pc = "idle"
    BY <2>1 DEF JoinFrames
  <2> QED
    BY <2>1, <2>2 DEF JoinFrames
<1>5. CASE BeginListing(p)
  <2>1. /\ phase'[p] = "listing" /\ remote'[p].pc = "idle" /\ queue' = queue
        /\ local' = local /\ remote[p].pc = "pick" /\ phase[p] = "reconcile"
    BY <1>5, JoinPeers DEF BeginListing, Enter, Turns, IdleRemote, Doing
  <2>2. queue[p] = <<>> /\ local[p].pc = "idle"
    BY <2>1 DEF JoinFrames
  <2> QED
    BY <2>1, <2>2 DEF JoinFrames
<1>6. CASE ListPick(p)
  <2>1. /\ phase' = phase /\ remote' = remote /\ queue' = queue /\ disk' = disk
        /\ tracked' = tracked /\ phase[p] = "listing" /\ local'[p].pc = "read"
    BY <1>6, JoinPeers DEF ListPick, Becomes, IdleLocal
  <2> QED
    BY <2>1 DEF JoinFrames, X, C, M
<1>7. CASE \E q \in Peer : Replicate(p, q)
    BY <1>7 DEF Replicate, JoinFrames, X, C, M
<1> QED
    BY <1>1, <1>2, <1>3, <1>4, <1>5, <1>6, <1>7 DEF Advances

(***************************************************************************)
(* A file brought along, of content c, at x: it is still there, or a copy  *)
(* of it is, and initialSync will list what is there.                      *)
(***************************************************************************)
Places(p, x) == {x} \cup CopiesOf(p, x)

\* x is still to be uploaded by the listing.
ToList(p, y) ==
    \/ y \in listing[p]
    \/ local[p].path = y /\ local[p].pc \in {"read", "lookup", "publish"}

Carried(p, x, c) ==
    /\ \A y \in CopiesOf(p, x) : log[y] = {} /\ disk[p][y] \in {None, c}
    /\ \E y \in Places(p, x) : disk[p][y] = c
    /\ disk[p][x] \in {c, None, tracked[p][x]} \/ (remote[p].pc = "record" /\ X(p) = x)
    /\ remote[p].pc = "copy" /\ X(p) = x => disk[p][x] = c
    /\ phase[p] = "listing" => \A y \in Places(p, x) : disk[p][y] = c => ToList(p, y)

Waiting(p, x, c) == JoinFrames(p) /\ Carried(p, x, c)

LEMMA RescuedAt ==
    ASSUME NEW p \in Peer, NEW x \in Path, NEW c, NEW y \in Places(p, x), c \in Published(y)
    PROVE  Rescued(x, p, c)
BY DEF Places, CopiesOf, Rescued

LEMMA RescuedStays ==
    ASSUME TypeInv, [Next]_vars, NEW p \in Peer, NEW x \in Path, NEW c, Rescued(x, p, c)
    PROVE  Rescued(x, p, c)'
<1>1. \A y \in AllPath : Published(y) \subseteq Published(y)'
  <2>1. CASE Next
    BY <2>1, SharedGrows DEF Shared
  <2>2. CASE UNCHANGED vars
    BY <2>2 DEF vars, Published
  <2> QED
    BY <2>1, <2>2
<1>2. /\ x \in AllPath
      /\ \A k \in {"conflict", "tombstone"} : CopyPath(x, p, k) \in AllPath
    BY DEF AllPath, Copies, CopyPath
<1> QED
    BY <1>1, <1>2 DEF Rescued

\* What the scan compares is in the manifest, so it is none of the copies.
LEMMA ComparedElsewhere ==
    ASSUME Sound, NEW p \in Peer, NEW x \in Path, NEW c, Carried(p, x, c),
           remote[p].pc \notin {"idle", "pick"}
    PROVE  X(p) \notin CopiesOf(p, x)
BY DEF Sound, RemoteSound, RemoteFrameSound, Carried, X

\* A step of the scan that writes no file.
LEMMA ScanCarried ==
    ASSUME TypeInv, NEW p \in Peer, NEW x \in Path, NEW c, Carried(p, x, c),
           log' = log, disk' = disk, phase' = phase, listing' = listing, local' = local,
           \/ tracked' = tracked
           \/ X(p) \in AllPath /\ tracked' = [tracked EXCEPT ![p][X(p)] = disk[p][X(p)]],
           remote[p].pc = "record" =>
                X(p) \in AllPath /\ tracked' = [tracked EXCEPT ![p][X(p)] = disk[p][X(p)]],
           (remote[p].pc = "copy" /\ X(p) = x)' => disk[p][x] = c
    PROVE  Carried(p, x, c)'
<1>1. x \in AllPath
    BY DEF AllPath
<1>2. disk[p][x] \in {c, None, tracked[p][x]} => disk'[p][x] \in {c, None, tracked'[p][x]}
    BY <1>1, JoinPeers
<1>3. disk'[p][x] \in {c, None, tracked'[p][x]}
    BY <1>1, <1>2, JoinPeers DEF Carried
<1>4. \A y \in Places(p, x) : ToList(p, y)' <=> ToList(p, y)
    BY DEF ToList
<1> QED
    BY <1>3, <1>4 DEF Carried

LEMMA JoinCompares ==
    ASSUME TypeInv, NEW p \in Peer, JoinFrames(p), NEW x \in Path, NEW c \in Content,
           Carried(p, x, c), Compares(p)
    PROVE  Carried(p, x, c)'
<1>1. /\ UNCHANGED <<manifestVars, folderVars, suppressed, local, owed, startVars>>
      /\ Picks(p) \/ GoesOn(p) \/ Decides(p)
    BY ScanShape
<1>2. remote[p].pc \notin {"idle", "pick"} => X(p) \in AllPath
    BY JoinTypes
<1>3. /\ \/ tracked' = tracked
         \/ X(p) \in AllPath /\ tracked' = [tracked EXCEPT ![p][X(p)] = disk[p][X(p)]]
      /\ remote[p].pc = "record" =>
            X(p) \in AllPath /\ tracked' = [tracked EXCEPT ![p][X(p)] = disk[p][X(p)]]
    BY <1>1, <1>2 DEF Picks, GoesOn, Decides, C
<1>4. ASSUME (remote[p].pc = "copy" /\ X(p) = x)'
      PROVE  disk[p][x] = c
  <2>1. Decides(p) /\ X(p) = x /\ C(p) \notin {None, remote[p].tr}
    BY <1>1, <1>4 DEF Picks, GoesOn, Decides, X
  <2>2. remote[p].tr = tracked[p][x] /\ remote[p].pc # "record"
    BY <2>1 DEF Decides, JoinFrames
  <2> QED
    BY <2>1, <2>2 DEF Carried, C
<1> QED
    BY <1>1, <1>3, <1>4, ScanCarried

LEMMA JoinWrites ==
    ASSUME TypeInv, Sound, NEW p \in Peer, JoinFrames(p), NEW x \in Path, NEW c \in Content,
           Carried(p, x, c), ~RemoteWinsAt(p), Writes(p)
    PROVE  Rescued(x, p, c) \/ Carried(p, x, c)'
<1>1. /\ UNCHANGED <<manifestVars, tracked, localVars, startVars>>
      /\ X(p) \in AllPath /\ phase[p] = "reconcile"
      /\ Saves(p) \/ Applies(p)
    BY WriteShape
<1>2. X(p) \notin CopiesOf(p, x)
    BY <1>1, ComparedElsewhere DEF Saves, Applies
<1>3. x \in AllPath /\ \A y \in CopiesOf(p, x) : y \in AllPath /\ y \notin Path /\ y # x
    BY CopyPlaces DEF AllPath
<1>4. CASE Saves(p)
  <2>1. PICK y \in CopiesOf(p, X(p)) : disk' = [disk EXCEPT ![p][y] = C(p)]
    BY <1>4 DEF Saves
  <2>2. X(p) \in Path /\ remote[p].pc = "copy" /\ remote'[p].pc \in {"fetch", "delete"}
    BY <1>4 DEF Saves
  <2>3. y \in AllPath /\ y \notin Path /\ y.of = X(p)
    BY <2>1, <2>2, CopyPlaces
  <2>4. \A z \in AllPath \ {y} : disk'[p][z] = disk[p][z]
    BY <2>1, JoinPeers
  <2>5. disk'[p][y] = C(p)
    BY <2>1, <2>3, JoinPeers
  <2>6. ASSUME NEW z \in CopiesOf(p, x)
        PROVE  disk'[p][z] = disk[p][z] \/ disk'[p][z] = c
    <3>1. CASE z # y
        BY <1>3, <2>4, <3>1
    <3>2. CASE z = y
      <4>1. X(p) = x
        BY <2>3, <3>2, CopyPlaces
      <4>2. C(p) = c
        BY <2>2, <4>1 DEF Carried, C
      <4> QED
        BY <2>5, <3>2, <4>2
    <3> QED
        BY <3>1, <3>2
  <2>7. disk'[p][x] = disk[p][x]
    BY <1>3, <2>3, <2>4
  <2> QED
    BY <1>1, <2>2, <2>6, <2>7 DEF Carried, Places
<1>5. CASE Applies(p)
  <2>1. PICK d : /\ disk' = [disk EXCEPT ![p][X(p)] = d]
                 /\ \/ d = None /\ remote'[p].pc \in {"pick", "forget"}
                    \/ remote'[p].pc = "record" /\ remote'[p].item = remote[p].item
    BY <1>5 DEF Applies
  <2>2. disk'[p][X(p)] = d /\ \A z \in AllPath \ {X(p)} : disk'[p][z] = disk[p][z]
    BY <1>1, <2>1, JoinPeers
  <2>3. remote[p].pc \in {"fetch", "delete"} /\ remote[p].seen = C(p)
    BY <1>5 DEF Applies, JoinFrames
  <2>4. disk'[p][x] = disk[p][x] \/ (X(p) = x /\ disk'[p][x] = d)
    BY <1>3, <2>2
  <2>5. disk'[p][x] \in {c, None, tracked[p][x]} \/ (remote'[p].pc = "record" /\ X(p)' = x)
    BY <2>1, <2>3, <2>4 DEF Carried, X
  <2>6. \A y \in CopiesOf(p, x) : disk'[p][y] = disk[p][y]
    BY <1>2, <1>3, <2>2
  <2>7. CASE \E y \in Places(p, x) : disk'[p][y] = c
    BY <1>1, <2>1, <2>5, <2>6, <2>7 DEF Carried
  <2>8. CASE \A y \in Places(p, x) : disk'[p][y] # c
    <3>1. /\ X(p) = x /\ disk[p][x] = c
          /\ \A y \in CopiesOf(p, x) : disk[p][y] # c
        BY <2>4, <2>6, <2>8 DEF Carried, Places
    <3>2. remote[p].seen = c /\ c # None
        BY <2>3, <3>1, NoneAssumption DEF C
    <3>3. ~(remote[p].tr = None /\ JoinPolicy(p) = "remote-wins")
        BY <1>1 DEF JoinPolicy, RemoteWinsAt, Running
    <3>4. SeenSaved(p, remote[p])
        BY <2>3 DEF Sound, RemoteSound, RemoteFrameSound
    <3>5. c \in Shared[x]
        BY <3>1, <3>2, <3>3, <3>4 DEF SeenSaved, X, CopiesOf
    <3> QED
        BY <1>3, <3>5 DEF Shared, Rescued
  <2> QED
    BY <2>7, <2>8
<1> QED
    BY <1>1, <1>4, <1>5

\* What the queue of local changes does, under local-wins or for the listing.
LEMMA JoinUploads ==
    ASSUME TypeInv, Sound, NEW p \in Peer, JoinFrames(p), NEW x \in Path, NEW c \in Content,
           Carried(p, x, c), LocalStep(p)
    PROVE  Rescued(x, p, c)' \/ Waiting(p, x, c)'
<1>0. PICK z : z = local[p].path
    OBVIOUS
<1> USE <1>0
<1>1. /\ JoinFrames(p)' /\ remote' = remote /\ disk' = disk
      /\ \/ UNCHANGED tracked
         \/ /\ local[p].pc \in {"lookup", "record"}
            /\ tracked' = [tracked EXCEPT ![p][z] = disk[p][z]]
    BY JoinLocal
<1>2. phase' = phase /\ listing' = listing
    BY DEF LocalStep, SuppressEvent, TakeEvent, ReadLocalFile, SkipUnchanged,
        BaseOnManifest, PublishFile, RecordUpload, FindDeleted, PublishTombstone,
        ForgetDeleted
<1>3. x \in AllPath /\ \A y \in CopiesOf(p, x) : y \in AllPath
    BY CopyPlaces DEF AllPath
<1>4. c # None
    BY NoneAssumption
<1>5. X(p)' = X(p)
    BY <1>1 DEF X
<1>6. disk'[p][x] \in {c, None, tracked'[p][x]} \/ (remote'[p].pc = "record" /\ X(p)' = x)
  <2>1. tracked'[p][x] = tracked[p][x] \/ tracked'[p][x] = disk[p][x]
    BY <1>1, <1>3, JoinPeers, JoinTypes
  <2> QED
    BY <1>1, <1>5, <2>1 DEF Carried
<1>7. ASSUME log' = log,
             phase[p] = "listing" =>
                \A y \in Places(p, x) : disk[p][y] = c => ToList(p, y)'
      PROVE  Waiting(p, x, c)'
    BY <1>1, <1>2, <1>5, <1>6, <1>7 DEF Carried, Waiting
<1>8. CASE PublishFile(p)
  <2>1. /\ local[p].pc = "publish" /\ z \in AllPath /\ local[p].data = disk[p][z]
        /\ local[p].data \in Content
    BY <1>8, JoinTypes DEF PublishFile, At, JoinFrames
  <2>2. PICK e : /\ log' = [log EXCEPT ![z] = @ \cup {e}]
                 /\ e.kind = "file" /\ e.hash = local[p].data
    BY <1>8, PublishedEntry
  <2>3. e \in log'[z]
    BY <2>1, <2>2 DEF TypeInv, TypeOK, ManifestTypeOK
  <2>4. disk[p][z] \in Published(z)'
    BY <2>1, <2>2, <2>3 DEF Published
  <2>5. CASE z \in Places(p, x) /\ disk[p][z] = c
    <3>1. \/ z = x
          \/ z = CopyPath(x, p, "conflict")
          \/ z = CopyPath(x, p, "tombstone")
        BY <2>5 DEF Places, CopiesOf
    <3> QED
        BY <2>4, <2>5, <3>1 DEF Rescued
  <2>6. CASE ~(z \in Places(p, x) /\ disk[p][z] = c)
    <3>1. z \notin CopiesOf(p, x)
        BY <2>1, <2>6, NoneAssumption DEF Carried, Places
    <3>2. \A y \in CopiesOf(p, x) : log'[y] = log[y]
        BY <1>3, <2>2, <3>1 DEF TypeInv, TypeOK, ManifestTypeOK
    <3>3. phase[p] = "listing" => \A y \in Places(p, x) : disk[p][y] = c => ToList(p, y)'
        BY <1>2, <2>6 DEF Carried, ToList
    <3> QED
        BY <1>1, <1>2, <1>5, <1>6, <3>2, <3>3 DEF Carried, Waiting
  <2> QED
    BY <2>5, <2>6
<1>9. CASE SuppressEvent(p) \/ TakeEvent(p)
  <2>1. log' = log /\ phase[p] # "listing"
    BY <1>9 DEF SuppressEvent, TakeEvent, EventReady, JoinFrames
  <2> QED
    BY <1>7, <2>1
<1>10. CASE ReadLocalFile(p)
  <2>1. log' = log /\ local[p] \in LocalFrame /\ local[p].pc = "read"
    BY <1>10, JoinTypes DEF ReadLocalFile, At
  <2>2. ASSUME disk[p][z] = c
        PROVE  local'[p].pc = "lookup" /\ local'[p].path = z
    <3>1. local'[p] = [local[p] EXCEPT !.pc = "lookup", !.data = disk[p][z]]
        BY <1>4, <1>10, <2>2, JoinPeers DEF ReadLocalFile, Becomes
    <3> QED
        BY <2>1, <3>1 DEF LocalFrame
  <2>3. \A y \in Places(p, x) : disk[p][y] = c /\ ToList(p, y) => ToList(p, y)'
    BY <1>2, <2>2 DEF ToList
  <2> QED
    BY <1>7, <2>1, <2>3 DEF Carried
<1>11. CASE BaseOnManifest(p)
  <2>1. log' = log /\ local[p] \in LocalFrame
    BY <1>11, JoinTypes DEF BaseOnManifest
  <2>2. local'[p].pc = "publish" /\ local'[p].path = z
    <3>1. PICK b : local'[p] = [local[p] EXCEPT !.pc = "publish", !.base = b]
        BY <1>11, JoinPeers DEF BaseOnManifest, Becomes
    <3> QED
        BY <2>1, <3>1 DEF LocalFrame
  <2>3. \A y \in Places(p, x) : ToList(p, y) => ToList(p, y)'
    BY <1>2, <2>2 DEF ToList
  <2> QED
    BY <1>7, <2>1, <2>3 DEF Carried
<1>12. CASE SkipUnchanged(p)
  <2>1. /\ log' = log /\ local[p].pc = "lookup" /\ z \in AllPath
        /\ local[p].data = disk[p][z] /\ IsFile(view[p][z]) /\ view[p][z].hash = disk[p][z]
    BY <1>12, JoinTypes DEF SkipUnchanged, At, SameAsManifest, LookedUp, JoinFrames
  <2>2. disk[p][z] \in Published(z)
    BY <2>1 DEF Sound, ViewLogged, IsFile, Published
  <2>3. CASE z \in Places(p, x) /\ disk[p][z] = c
    <3>1. Published(z)' = Published(z)
        BY <2>1 DEF Published
    <3>2. \/ z = x
          \/ z = CopyPath(x, p, "conflict")
          \/ z = CopyPath(x, p, "tombstone")
        BY <2>3 DEF Places, CopiesOf
    <3> QED
        BY <2>2, <2>3, <3>1, <3>2 DEF Rescued
  <2>4. CASE ~(z \in Places(p, x) /\ disk[p][z] = c)
    <3>1. \A y \in Places(p, x) : disk[p][y] = c /\ ToList(p, y) => ToList(p, y)'
        BY <1>2, <2>4 DEF ToList
    <3> QED
        BY <1>7, <2>1, <3>1 DEF Carried
  <2> QED
    BY <2>3, <2>4
<1>13. CASE RecordUpload(p)
  <2>1. log' = log /\ local[p].pc = "record"
    BY <1>13 DEF RecordUpload, At
  <2>2. \A y \in Places(p, x) : ToList(p, y) => ToList(p, y)'
    BY <1>2, <2>1 DEF ToList
  <2> QED
    BY <1>7, <2>1, <2>2 DEF Carried
<1>14. ~FindDeleted(p) /\ ~PublishTombstone(p) /\ ~ForgetDeleted(p)
    BY DEF JoinFrames, FindDeleted, PublishTombstone, ForgetDeleted, At
<1> QED
    BY <1>8, <1>9, <1>10, <1>11, <1>12, <1>13, <1>14 DEF LocalStep

LEMMA JoinAdvances ==
    ASSUME TypeInv, NEW p \in Peer, JoinFrames(p), NEW x \in Path, NEW c \in Content,
           Carried(p, x, c), Advances(p)
    PROVE  Carried(p, x, c)'
<1>1. log' = log /\ disk' = disk /\ tracked' = tracked
    BY DEF Advances, Ready, Start, BeginListing, ListPick, StartFails, Reset, Replicate
<1>2. CASE Ready(p) \/ StartFails(p) \/ Start(p)
  <2>1. CASE Ready(p) \/ Start(p)
    <3>1. phase'[p] # "listing" /\ phase[p] \in {"down", "ready"}
        BY <2>1, JoinPeers DEF Ready, Start, Enter
    <3>2. remote[p].pc = "idle"
        BY <3>1 DEF JoinFrames
    <3>3. remote'[p].pc \in {"idle", "pick"}
        BY <2>1, <3>2, JoinPeers DEF Ready, Start, Turns, Begun, IdleRemote
    <3> QED
        BY <1>1, <3>1, <3>2, <3>3 DEF Carried
  <2>2. CASE StartFails(p)
    <3>1. phase'[p] = "down" /\ remote'[p].pc = "idle" /\ remote[p].pc = "fetch"
        BY <2>2, JoinPeers DEF StartFails, Reset, IdleRemote, Doing
    <3> QED
        BY <1>1, <3>1 DEF Carried
  <2> QED
    BY <1>2, <2>1, <2>2
<1>3. CASE BeginListing(p)
  <2>1. /\ remote'[p].pc = "idle" /\ listing'[p] = OnDisk(p) /\ remote[p].pc = "pick"
    BY <1>3, JoinPeers DEF BeginListing, Enter, Turns, IdleRemote, Doing
  <2>2. \A y \in Places(p, x) : y \in AllPath
    BY CopyPlaces DEF AllPath, Places
  <2>3. \A y \in Places(p, x) : disk[p][y] = c => ToList(p, y)'
    BY <2>1, <2>2, NoneAssumption DEF ToList, OnDisk
  <2> QED
    BY <1>1, <2>1, <2>3 DEF Carried
<1>4. CASE ListPick(p)
  <2>1. PICK y \in listing[p] :
            /\ listing' = [listing EXCEPT ![p] = @ \ {y}]
            /\ local'[p] = [IdleLocal EXCEPT !.pc = "read", !.path = y]
    BY <1>4, JoinPeers DEF ListPick, Becomes
  <2>2. /\ phase' = phase /\ remote' = remote /\ local[p].pc = "idle"
        /\ local'[p].pc = "read" /\ local'[p].path = y
        /\ listing'[p] = listing[p] \ {y}
    BY <1>4, <2>1, JoinPeers DEF ListPick, IdleLocal
  <2>3. \A z \in Places(p, x) : ToList(p, z) => ToList(p, z)'
    BY <2>2 DEF ToList
  <2> QED
    BY <1>1, <2>2, <2>3 DEF Carried, X
<1>5. CASE \E q \in Peer : Replicate(p, q)
  <2>1. /\ phase' = phase /\ remote' = remote /\ local' = local /\ listing' = listing
    BY <1>5 DEF Replicate
  <2> QED
    BY <1>1, <2>1 DEF Carried, ToList, X
<1> QED
    BY <1>2, <1>3, <1>4, <1>5 DEF Advances

\* A peer that goes live has uploaded all it brought.
LEMMA NotYetLive ==
    ASSUME TypeInv, NEW p \in Peer, NEW x \in Path, NEW c \in Content, Waiting(p, x, c)
    PROVE  ~OpenWatcher(p)
BY DEF OpenWatcher, Enter, Waiting, Carried, ToList

\* Nothing else happens at such a peer, when its user keeps away and it does not crash.
LEMMA JoinerMoves ==
    ASSUME TypeInv, NEW p \in Joining, p \notin Editors, MaxCrashes = 0, JoinFrames(p),
           Moves(p) \/ Disturbs(p)
    PROVE  LocalStep(p) \/ Compares(p) \/ Writes(p) \/ Advances(p) \/ OpenWatcher(p)
<1>1. phase[p] \in {"down", "ready", "reconcile", "listing"}
    BY DEF JoinFrames
<1>2. ~UserWrite(p) /\ ~UserDelete(p)
    BY DEF UserWrite, UserDelete, UserEdit
<1>3. ~Watch(p) /\ ~ScanBegin(p) /\ ~Stopped(p) /\ ~Stop(p) /\ ~UnrelatedUpdate(p)
    BY <1>1 DEF Watch, WatchUpdate, WatchDelete, WatchNothing, Emit, ScanBegin, Stopped, Stop,
        Enter, UnrelatedUpdate
<1>4. ~Crash(p)
  <2>1. used.crashes \in Nat
    BY DEF TypeInv, TypeOK
  <2> QED
    BY <2>1 DEF Crash, Spend
<1>5. ~ScanEnd(p) /\ ~ScanFails(p)
    BY DEF ScanEnd, ScanFails, Doing, JoinFrames
<1> QED
    BY <1>2, <1>3, <1>4, <1>5 DEF Moves, Disturbs, SessionStep, RemoteStep, Compares, Writes,
        Advances

\* No other peer publishes at a copy's path before its maker does.
LEMMA CopyUnpublished ==
    ASSUME TypeInv, Sound, CopiesPrivate, Next, NEW p \in Peer, Rests(p),
           NEW y \in Copies, y.by = p, log[y] = {}
    PROVE  log'[y] = {}
<1>1. y \in AllPath
    BY DEF AllPath
<1>2. CASE UNCHANGED manifestVars
    BY <1>2
<1>3. CASE \E r, s \in Peer : Replicate(r, s)
    BY <1>3 DEF Replicate
<1>4. CASE \E r \in Peer : PublishFile(r) \/ PublishTombstone(r)
  <2>1. PICK r \in Peer : PublishFile(r) \/ PublishTombstone(r)
    BY <1>4
  <2>2. r # p
    <3>1. local[r].pc \in {"publish", "entomb"}
        BY <2>1 DEF PublishFile, PublishTombstone, At
    <3>2. local'[r].pc \in {"record", "forget"}
        BY <2>1, JoinPeers DEF PublishFile, PublishTombstone, Becomes, LocalFrame
    <3> QED
        BY <3>1, <3>2 DEF Rests
  <2>3. local[r].pc # "idle" /\ local[r].path # y
    BY <2>1, <2>2 DEF CopiesPrivate, NothingAt, PublishFile, PublishTombstone, At
  <2>4. PICK e : log' = [log EXCEPT ![local[r].path] = @ \cup {e}]
    BY <2>1, PublishedEntry
  <2> QED
    BY <1>1, <2>3, <2>4 DEF TypeInv, TypeOK, ManifestTypeOK
<1> QED
    BY <1>2, <1>3, <1>4, WhoWritesManifest

LEMMA BroughtFileKept ==
    ASSUME TypeInv, Sound, CopiesPrivate, Next, MaxCrashes = 0,
           NEW p \in Joining, p \notin Editors, ~RemoteWinsAt(p),
           NEW x \in Path, NEW c \in Content, Waiting(p, x, c)
    PROVE  Rescued(x, p, c)' \/ Waiting(p, x, c)'
<1>0. p \in Peer /\ JoinFrames(p) /\ Carried(p, x, c)
    BY ConstantsAssumption DEF Waiting
<1>1. PICK q \in Peer : Moves(q) \/ Disturbs(q)
    BY NextMover
<1>2. CASE q = p
  <2>1. Rescued(x, p, c) => Rescued(x, p, c)'
    BY <1>0, RescuedStays
  <2> QED
    BY <1>0, <1>1, <1>2, <2>1, JoinerMoves, JoinUploads, JoinCompares, JoinWrites,
       JoinAdvances, JoinFramesKept, NotYetLive DEF Waiting
<1>3. CASE q # p
  <2>1. Rests(p)
    BY <1>0, <1>1, <1>3, OthersRest DEF OnlyMover
  <2>2. JoinFrames(p)'
    BY <1>0, <2>1 DEF Rests, JoinFrames, X, C, M
  <2>3. ASSUME NEW y \in CopiesOf(p, x)
        PROVE  log'[y] = {}
    <3>1. y \in Copies /\ y.by = p /\ log[y] = {}
        BY <1>0, <2>3, CopyPlaces DEF Carried
    <3> QED
        BY <1>0, <2>1, <3>1, CopyUnpublished
  <2>4. Carried(p, x, c)'
    BY <1>0, <2>1, <2>3 DEF Rests, Carried, ToList, X
  <2> QED
    BY <2>2, <2>4 DEF Waiting
<1> QED
    BY <1>2, <1>3

LEMMA InitCopies == Init => CopiesPrivate
<1> SUFFICES ASSUME Init, NEW q \in Peer, NEW y \in Copies
             PROVE  NothingAt(q, y)
    BY DEF CopiesPrivate
<1>1. y \in AllPath /\ y \notin Path
    BY PathAssumption DEF AllPath
<1>2. disk[q][y] = None
  <2>1. PICK d \in [Peer -> Folders] : disk = d /\ \A p \in Peer \ Joining : d[p] = Seeded
    BY DEF Init
  <2> QED
    BY <1>1, <2>1 DEF Folders
<1>3. /\ dirty[q] = {} /\ listing[q] = {} /\ queue[q] = <<>> /\ local[q].pc = "idle"
    BY DEF Init, IdleLocal
<1> QED
    BY <1>2, <1>3 DEF NothingAt

LEMMA InitBrought ==
    ASSUME Init, NEW p \in Joining, NEW x \in Path, NEW c \in Content, disk[p][x] = c
    PROVE  Waiting(p, x, c)
<1>1. /\ p \in Peer /\ x \in AllPath
      /\ \A y \in CopiesOf(p, x) : y \in Copies /\ y \in AllPath /\ y \notin Path
    BY ConstantsAssumption, CopyPlaces DEF AllPath
<1>2. \A y \in CopiesOf(p, x) : disk[p][y] = None /\ log[y] = {}
  <2>1. PICK d \in [Peer -> Folders] : disk = d
    BY DEF Init
  <2>2. \A y \in Copies : disk[p][y] = None
    BY <1>1, <2>1 DEF Folders
  <2> QED
    BY <1>1, <2>2 DEF Init, SeedEntry
<1>3. /\ phase[p] = "down" /\ remote[p].pc = "idle" /\ queue[p] = <<>> /\ local[p].pc = "idle"
    BY <1>1 DEF Init, IdleRemote, IdleLocal
<1> QED
    BY <1>2, <1>3 DEF Waiting, JoinFrames, Carried, Places

(***************************************************************************)
(* As long as no session of a joining peer runs under remote-wins, what it *)
(* brings reaches the manifest before it is live, at its path or as a      *)
(* conflict copy (331-338 and 419-428, then the uploads at 583-613): also  *)
(* if start() fails and is repeated, while the others edit, restart or     *)
(* replicate at any time.  It must not crash, though: a download that was  *)
(* not recorded before the crash is later taken for a file of the user,    *)
(* and its conflict copy overwrites the one made earlier that day.         *)
(***************************************************************************)
THEOREM BroughtFilesReachManifest ==
    ASSUME Joining \cap Editors = {}, MaxCrashes = 0
    PROVE  Spec => BroughtFilesSurvive
<1> SUFFICES ASSUME NEW p \in Joining, NEW x \in Path, NEW c \in Content
             PROVE  Spec => (disk[p][x] = c /\ []~RemoteWinsAt(p) =>
                                [](AtRest /\ p \in Running => Rescued(x, p, c)))
    BY DEF BroughtFilesSurvive
<1> DEFINE Safe == Rescued(x, p, c) \/ Waiting(p, x, c)
<1>1. Init => CopiesPrivate /\ (disk[p][x] = c => Safe)
    BY InitCopies, InitBrought
<1>2. TypeInv /\ Sound /\ CopiesPrivate /\ [Next]_vars => CopiesPrivate'
  <2>1. ASSUME CopiesPrivate, UNCHANGED vars
        PROVE  CopiesPrivate'
    BY <2>1 DEF vars, CopiesPrivate, NothingAt
  <2> QED
    BY <2>1, CopiesStayPrivate
<1>3. TypeInv /\ Sound /\ CopiesPrivate /\ Safe /\ ~RemoteWinsAt(p) /\ [Next]_vars => Safe'
  <2>1. p \in Peer
    BY ConstantsAssumption
  <2>2. ASSUME TypeInv, Sound, CopiesPrivate, Waiting(p, x, c), ~RemoteWinsAt(p), Next
        PROVE  Safe'
    BY <2>2, BroughtFileKept
  <2>3. ASSUME Waiting(p, x, c), UNCHANGED vars
        PROVE  Waiting(p, x, c)'
    BY <2>3 DEF vars, Waiting, JoinFrames, Carried, ToList, X, C, M
  <2>4. ASSUME TypeInv, Rescued(x, p, c), [Next]_vars
        PROVE  Rescued(x, p, c)'
    BY <2>1, <2>4, RescuedStays
  <2> QED
    BY <2>2, <2>3, <2>4
<1>4. Safe /\ AtRest /\ p \in Running => Rescued(x, p, c)
    BY DEF Waiting, JoinFrames, AtRest, Quiet, Running
<1> HIDE DEF Safe
<1> QED
    BY <1>1, <1>2, <1>3, <1>4, Invariance, PTL DEF Spec
=============================================================================
