------------------------- MODULE JoinPreviewProofs -------------------------
(***************************************************************************)
(* What a join preview announces is what joining does: for any peers,      *)
(* paths, contents and policies, and any number of abandoned starts.       *)
(***************************************************************************)
EXTENDS JoinPreview, SyncEngineProofs, FiniteSetTheorems

USE DEF manifestVars, folderVars, localVars, remoteVars, startVars

(***************************************************************************)
(* A peer whose user leaves its folder alone, from launch to going live.   *)
(* Whatever is tracked is in the folder; a conflict copy holds what is at  *)
(* the path it is a copy of, as long as anything untracked is there; and   *)
(* an entry of its own is tracked once it is recorded.                     *)
(***************************************************************************)
Own(p, x) == view[p][x] # None /\ view[p][x].writerKey = p
OwnCopy(p, x) == x \in Copies /\ x.by = p

\* Entries still to be compared, and the one being compared.
Waits(p, x) == \E i \in remote[p].snap : i.path = x
Held(p, x) == remote[p].pc \notin {"idle", "pick"} /\ X(p) = x
Recording(p, x) == remote[p].pc \in {"record", "forget"} /\ X(p) = x

\* A peer has what it has published, or something later.
OwnSeen ==
    \A p \in Peer, x \in AllPath : \A e \in log[x] :
        e.writerKey = p => e.pos <= Pos(view[p][x])

FolderKept(p) ==
    /\ \A x \in AllPath :
        tracked[p][x] # None => disk[p][x] = tracked[p][x] \/ Recording(p, x)
    /\ \A y \in Copies :
        y.by # p /\ disk[p][y] # None => tracked[p][y] # None \/ Recording(p, y)
    /\ \A x \in Path : \A y \in CopiesOf(p, x) :
        disk[p][y] # None =>
            disk[p][x] \in {disk[p][y], None, tracked[p][x]} \/ Recording(p, x)

OwnTracked(p) ==
    \A x \in AllPath :
        Own(p, x) => tracked[p][x] # None \/ (local[p].pc = "record" /\ local[p].path = x)

ScanKept(p) ==
    /\ phase[p] # "reconcile" => remote[p] = IdleRemote
    /\ phase[p] = "reconcile" => remote[p].pc # "idle"
    /\ \A i \in remote[p].snap :
        i.metadata = view[p][i.path] /\ ~Own(p, i.path) /\ ~Held(p, i.path)
    /\ remote[p].pc \notin {"idle", "pick", "await"} => M(p) = view[p][X(p)] /\ ~Own(p, X(p))
    /\ remote[p].pc \in {"read", "copy", "fetch", "delete"} => remote[p].tr = tracked[p][X(p)]
    /\ remote[p].pc = "copy" => remote[p].tr = None
    /\ remote[p].pc = "await" =>
        /\ queue[p] # <<>> => Head(queue[p]).path = X(p)
        /\ local[p].pc # "idle" => local[p].path = X(p)

CopiesUnpublished(p) ==
    phase[p] # "listing" => \A y \in Copies : y.by = p => log[y] = {}

NotYetJoined(p) ==
    /\ JoinFrames(p) /\ FolderKept(p) /\ OwnTracked(p) /\ ScanKept(p) /\ CopiesUnpublished(p)
    /\ phase[p] \in {"down", "ready"} => suppressed[p] = {}

-----------------------------------------------------------------------------
LEMMA MorePeers ==
    ASSUME TypeInv
    PROVE  /\ suppressed \in [Peer -> SUBSET AllPath] /\ policy \in [Peer -> Policies]
           /\ log \in [AllPath -> SUBSET UserManifestValue]
BY DEF TypeInv, TypeOK, ManifestTypeOK

LEMMA SnapTypes ==
    ASSUME TypeInv, NEW p \in Peer, NEW i \in remote[p].snap
    PROVE  /\ i.path \in AllPath /\ i.metadata \in UserManifestValue
           /\ i.metadata # None
           /\ i = [path |-> i.path, metadata |-> i.metadata]
<1>1. i \in ManifestEntry
    BY DEF TypeInv, TypeOK, RemoteFrame
<1> QED
    BY <1>1, EntryAssumption DEF ManifestEntry

\* One entry of each path is compared.
LEMMA OneOfPath ==
    ASSUME TypeInv, NEW p \in Peer, ScanKept(p), NEW i \in remote[p].snap,
           NEW j \in remote[p].snap, i.path = j.path
    PROVE  i = j
BY SnapTypes DEF ScanKept

\* What a scan has at hand was published, so it is no copy of the peer's own.
LEMMA HeldIsPublished ==
    ASSUME TypeInv, Sound, NEW p \in Peer, CopiesUnpublished(p), phase[p] # "listing",
           remote[p].pc \notin {"idle", "pick"}
    PROVE  X(p) \in AllPath /\ ~OwnCopy(p, X(p))
<1>1. M(p) \in log[X(p)]
    BY DEF Sound, RemoteSound, RemoteFrameSound, M, X
<1> QED
    BY <1>1, JoinTypes DEF CopiesUnpublished, OwnCopy

LEMMA CopiesUntracked ==
    ASSUME TypeInv, Sound, NEW p \in Peer, NEW y \in AllPath, log[y] = {}
    PROVE  tracked[p][y] = None
BY DEF Sound, TrackedShared, Shared, Published

LEMMA EntryPos ==
    ASSUME TypeInv, NEW p \in Peer, NEW x \in AllPath
    PROVE  Pos(view[p][x]) \in Nat /\ \A e \in log[x] : e.pos \in Nat
BY NoneAssumption DEF TypeInv, TypeOK, ManifestTypeOK, Pos, UserManifestValue, FileMetadata,
    TombstoneMetadata, Position

\* Who publishes does so after what it has seen.
LEMMA PublishesLater ==
    ASSUME TypeInv, NEW p \in Peer, PublishFile(p) \/ PublishTombstone(p)
    PROVE  LET x == local[p].path IN
           \E e : /\ x \in AllPath
                  /\ log' = [log EXCEPT ![x] = @ \cup {e}]
                  /\ view' = [view EXCEPT ![p][x] = e]
                  /\ e.writerKey = p /\ e # None
                  /\ e.pos \in Nat /\ Pos(e) = e.pos /\ e.pos > Pos(view[p][x])
                  /\ PublishFile(p) => e.kind = "file" /\ e.hash = local[p].data
<1> DEFINE x == local[p].path
<1>1. x \in AllPath /\ ManifestTypeOK
    BY JoinTypes DEF PublishFile, PublishTombstone, At, TypeInv, TypeOK
<1>2. \A n \in FreshPos(p, x) : n \in Position /\ n > Pos(view[p][x])
    BY <1>1, FreshPositive, EntryPos DEF FreshPos
<1>3. CASE PublishFile(p)
  <2>1. PICK n \in FreshPos(p, x) : Put(p, x, File(local[p].data, local[p].base, p, n))
    BY <1>3 DEF PublishFile
  <2> DEFINE e == File(local[p].data, local[p].base, p, n)
  <2>2. /\ e.writerKey = p /\ e.pos = n /\ e.kind = "file" /\ e.hash = local[p].data
    BY DEF File
  <2>3. e # None
    <3>1. /\ local[p].data \in Content /\ local[p].base \in Content \cup {None}
        BY <1>3, JoinTypes DEF PublishFile, At, LocalFrame
    <3>2. e \in UserManifestValue
        BY <1>2, <3>1 DEF File, UserManifestValue, FileMetadata
    <3> QED
        BY <3>2, EntryAssumption
  <2> HIDE DEF e
  <2>4. Pos(e) = e.pos
    BY <2>3 DEF Pos
  <2>5. log' = [log EXCEPT ![x] = @ \cup {e}] /\ view' = [view EXCEPT ![p][x] = e]
    BY <2>1 DEF Put, e
  <2>6. e.pos \in Nat /\ e.pos > Pos(view[p][x])
    BY <1>2, <2>2 DEF Position
  <2> QED
    BY <1>1, <2>2, <2>3, <2>4, <2>5, <2>6
<1>4. CASE PublishTombstone(p) /\ ~PublishFile(p)
  <2>1. PICK n \in FreshPos(p, x) : Put(p, x, Tombstone(local[p].base, p, n))
    BY <1>4 DEF PublishTombstone
  <2> DEFINE e == Tombstone(local[p].base, p, n)
  <2>2. /\ e.writerKey = p /\ e.pos = n
    BY DEF Tombstone
  <2>3. e # None
    <3>1. local[p].base \in Content \cup {None}
        BY JoinTypes DEF LocalFrame
    <3>2. e \in UserManifestValue
        BY <1>2, <3>1 DEF Tombstone, UserManifestValue, TombstoneMetadata
    <3> QED
        BY <3>2, EntryAssumption
  <2> HIDE DEF e
  <2>4. Pos(e) = e.pos
    BY <2>3 DEF Pos
  <2>5. log' = [log EXCEPT ![x] = @ \cup {e}] /\ view' = [view EXCEPT ![p][x] = e]
    BY <2>1 DEF Put, e
  <2>6. e.pos \in Nat /\ e.pos > Pos(view[p][x])
    BY <1>2, <2>2 DEF Position
  <2> QED
    BY <1>1, <1>4, <2>2, <2>3, <2>4, <2>5, <2>6
<1> QED
    BY <1>3, <1>4

LEMMA OwnSeenKept ==
    ASSUME TypeInv, OwnSeen, Next
    PROVE  OwnSeen'
<1> SUFFICES ASSUME NEW p \in Peer, NEW x \in AllPath, NEW e \in log'[x], e.writerKey = p
             PROVE  e.pos <= Pos(view'[p][x])
    BY DEF OwnSeen
<1>1. CASE UNCHANGED manifestVars
    BY <1>1 DEF OwnSeen
<1>2. CASE \E q \in Peer : PublishFile(q) \/ PublishTombstone(q)
  <2>1. PICK q \in Peer : PublishFile(q) \/ PublishTombstone(q)
    BY <1>2
  <2>2. PICK z, f :
            /\ z \in AllPath
            /\ log' = [log EXCEPT ![z] = @ \cup {f}]
            /\ view' = [view EXCEPT ![q][z] = f]
            /\ f.writerKey = q /\ f.pos \in Nat /\ Pos(f) = f.pos
            /\ f.pos > Pos(view[q][z])
    BY <2>1, PublishesLater
  <2>3. CASE q = p /\ z = x
    <3>1. view'[p][x] = f /\ (e = f \/ e \in log[x])
        BY <2>2, <2>3, JoinPeers, MorePeers
    <3>2. e \in log[x] => e.pos <= Pos(view[p][x]) /\ e.pos \in Nat
        BY EntryPos DEF OwnSeen
    <3>3. Pos(view[p][x]) \in Nat
        BY EntryPos
    <3> QED
        BY <2>2, <2>3, <3>1, <3>2, <3>3
  <2>4. CASE ~(q = p /\ z = x)
    <3>1. view'[p][x] = view[p][x] /\ e \in log[x]
        BY <2>2, <2>4, JoinPeers, MorePeers
    <3> QED
        BY <3>1 DEF OwnSeen
  <2> QED
    BY <2>3, <2>4
<1>3. CASE \E q, r \in Peer : Replicate(q, r)
  <2>1. PICK q \in Peer, r \in Peer : Replicate(q, r)
    BY <1>3
  <2>2. log' = log /\ view' = [view EXCEPT ![q] = MergedView(q, r)]
    BY <2>1 DEF Replicate
  <2>3. CASE q = p
    <3>1. view'[p][x] = Later(view[p][x], view[r][x])
        BY <2>2, <2>3, JoinPeers DEF MergedView
    <3>2. Pos(view'[p][x]) >= Pos(view[p][x])
        BY <3>1, EntryPos DEF Later
    <3>3. e.pos <= Pos(view[p][x]) /\ e.pos \in Nat /\ Pos(view[p][x]) \in Nat
        BY <2>2, EntryPos DEF OwnSeen
    <3>4. Pos(view'[p][x]) \in Nat
        BY <3>1, EntryPos DEF Later
    <3> QED
        BY <3>2, <3>3, <3>4
  <2>4. CASE q # p
    BY <2>2, <2>4, JoinPeers DEF OwnSeen
  <2> QED
    BY <2>3, <2>4
<1> QED
    BY <1>1, <1>2, <1>3, WhoWritesManifest

\* A peer never gains an entry of its own from another.
LEMMA OwnNotGained ==
    ASSUME TypeInv, Sound, OwnSeen, NEW p \in Peer, NEW q \in Peer, Replicate(p, q),
           NEW x \in AllPath, Own(p, x)'
    PROVE  view'[p][x] = view[p][x]
<1>1. view'[p][x] = Later(view[p][x], view[q][x])
    BY JoinPeers DEF Replicate, MergedView
<1>2. CASE view'[p][x] = view[q][x] /\ ~(Pos(view[p][x]) >= Pos(view[q][x]))
  <2>1. view[q][x] # None /\ view[q][x].writerKey = p /\ view[q][x] \in log[x]
    BY <1>2 DEF Own, Sound, ViewLogged
  <2>2. view[q][x].pos <= Pos(view[p][x]) /\ Pos(view[q][x]) = view[q][x].pos
    BY <2>1 DEF OwnSeen, Pos
  <2> QED
    BY <1>2, <2>2, EntryPos
<1> QED
    BY <1>1, <1>2 DEF Later

-----------------------------------------------------------------------------
(***************************************************************************)
(* Steps of the peer itself: its queue of local changes, its scan, and the *)
(* session.                                                                *)
(***************************************************************************)
\* What the local queue writes, and when.
LEMMA LocalShape ==
    ASSUME TypeInv, NEW p \in Peer, JoinFrames(p), LocalStep(p)
    PROVE  /\ UNCHANGED <<folderVars, remote, startVars>>
           /\ local[p].pc # "idle" \/ queue[p] # <<>>
           /\ phase[p] = "listing" \/ remote[p].pc = "await"
           /\ \/ UNCHANGED manifestVars /\ ~PublishFile(p)
              \/ PublishFile(p) /\ tracked' = tracked /\ local[p].pc = "publish"
                  /\ local'[p].pc = "record" /\ local'[p].path = local[p].path
<1>1. ~FindDeleted(p) /\ ~PublishTombstone(p) /\ ~ForgetDeleted(p)
    BY DEF JoinFrames, FindDeleted, PublishTombstone, ForgetDeleted, At
<1>2. /\ UNCHANGED <<folderVars, remote, startVars>>
      /\ local[p].pc # "idle" \/ queue[p] # <<>>
      /\ ~PublishFile(p) => UNCHANGED manifestVars
    BY <1>1 DEF LocalStep, SuppressEvent, TakeEvent, EventReady, ReadLocalFile, SkipUnchanged,
        BaseOnManifest, PublishFile, RecordUpload, At
<1>3. phase[p] = "listing" \/ remote[p].pc = "await"
    BY <1>2 DEF JoinFrames
<1>4. ASSUME PublishFile(p)
      PROVE  /\ tracked' = tracked /\ local[p].pc = "publish"
             /\ local'[p].pc = "record" /\ local'[p].path = local[p].path
  <2>1. /\ tracked' = tracked /\ local[p].pc = "publish"
        /\ local'[p] = [local[p] EXCEPT !.pc = "record"]
    BY <1>4, JoinPeers DEF PublishFile, At, Becomes
  <2> QED
    BY <2>1, JoinTypes DEF LocalFrame
<1> QED
    BY <1>2, <1>3, <1>4

LEMMA FolderStays ==
    ASSUME TypeInv, Sound, NEW p \in Peer, NotYetJoined(p),
           LocalStep(p) \/ Compares(p) \/ Writes(p) \/ Advances(p)
    PROVE  FolderKept(p)'
<1>0. JoinFrames(p) /\ FolderKept(p) /\ ScanKept(p) /\ CopiesUnpublished(p)
    BY DEF NotYetJoined
<1>a. \A x \in Path : x \in AllPath
    BY DEF AllPath
<1>b. \A y \in Copies : y \in AllPath
    BY DEF AllPath
<1>1. ASSUME disk' = disk,
             \A x \in AllPath : Recording(p, x) =>
                Recording(p, x)' \/ tracked'[p][x] = disk[p][x],
             \A x \in AllPath : tracked'[p][x] = tracked[p][x] \/ tracked'[p][x] = disk[p][x]
      PROVE  FolderKept(p)'
  <2>1. \A x \in AllPath :
            tracked'[p][x] # None => disk'[p][x] = tracked'[p][x] \/ Recording(p, x)'
    BY <1>0, <1>1 DEF FolderKept
  <2>2. \A y \in Copies :
            y.by # p /\ disk'[p][y] # None => tracked'[p][y] # None \/ Recording(p, y)'
    BY <1>0, <1>b, <1>1 DEF FolderKept
  <2>3. \A x \in Path : \A y \in CopiesOf(p, x) :
            disk'[p][y] # None =>
                disk'[p][x] \in {disk'[p][y], None, tracked'[p][x]} \/ Recording(p, x)'
    BY <1>0, <1>a, <1>1 DEF FolderKept
  <2> QED
    BY <2>1, <2>2, <2>3 DEF FolderKept
<1>2. CASE LocalStep(p)
  <2>1. /\ disk' = disk /\ remote' = remote
        /\ \/ UNCHANGED tracked
           \/ /\ local[p].pc \in {"lookup", "record"}
              /\ tracked' = [tracked EXCEPT ![p][local[p].path] = disk[p][local[p].path]]
    BY <1>0, <1>2, JoinLocal
  <2> QED
    BY <1>1, <2>1, JoinPeers, JoinTypes DEF Recording, X
<1>3. CASE Compares(p)
  <2>1. disk' = disk /\ (Picks(p) \/ GoesOn(p) \/ Decides(p))
    BY <1>0, <1>3, ScanShape
  <2>2. remote[p].pc \notin {"idle", "pick"} => X(p) \in AllPath
    BY JoinTypes
  <2>3. \/ tracked' = tracked /\ remote[p].pc \notin {"record", "forget"}
        \/ /\ tracked' = [tracked EXCEPT ![p][X(p)] = disk[p][X(p)]]
           /\ X(p) \in AllPath
    BY <2>1, <2>2 DEF Picks, GoesOn, Decides, C
  <2> QED
    BY <1>1, <2>1, <2>3, JoinPeers DEF Recording
<1>4. CASE Advances(p)
  <2>1. disk' = disk /\ tracked' = tracked
    BY <1>4 DEF Advances, Ready, Start, BeginListing, ListPick, StartFails, Reset, Replicate
  <2>2. remote'[p] = remote[p] \/ remote[p].pc \notin {"record", "forget"}
    BY <1>0, <1>4 DEF Advances, Ready, Start, BeginListing, ListPick, StartFails, Replicate,
        Doing, Enter, JoinFrames
  <2> QED
    BY <1>1, <2>1, <2>2 DEF Recording, X
<1>5. CASE Writes(p)
  <2>1. /\ tracked' = tracked /\ X(p) \in AllPath /\ phase[p] = "reconcile"
        /\ Saves(p) \/ Applies(p)
    BY <1>0, <1>5, WriteShape
  <2>2. CASE Saves(p)
    <3>1. PICK y \in CopiesOf(p, X(p)) : disk' = [disk EXCEPT ![p][y] = C(p)]
        BY <2>2 DEF Saves
    <3>2. X(p) \in Path /\ remote[p].pc = "copy" /\ tracked[p][X(p)] = None
        BY <1>0, <2>2 DEF Saves, ScanKept
    <3>3. y \in Copies /\ y \in AllPath /\ y \notin Path /\ y.by = p /\ y.of = X(p)
        BY <3>1, <3>2, CopyPlaces
    <3>4. disk'[p][y] = disk[p][X(p)] /\ \A z \in AllPath \ {y} : disk'[p][z] = disk[p][z]
        BY <3>1, <3>3, JoinPeers DEF C
    <3>5. tracked[p][y] = None
        BY <1>0, <2>1, <3>3, CopiesUntracked DEF CopiesUnpublished
    <3>6. \A x \in AllPath : ~Recording(p, x)
        BY <3>2 DEF Recording
    <3>7. ASSUME NEW x \in Path, NEW z \in CopiesOf(p, x), disk'[p][z] # None
          PROVE  disk'[p][x] \in {disk'[p][z], None, tracked'[p][x]}
      <4>1. disk'[p][x] = disk[p][x]
        BY <1>a, <3>3, <3>4
      <4>2. CASE z = y
        BY <3>3, <3>4, <3>7, <4>1, <4>2, CopyPlaces
      <4>3. CASE z # y
        <5>1. disk'[p][z] = disk[p][z]
            BY <3>4, <3>7, <4>3, CopyPlaces
        <5> QED
            BY <1>0, <2>1, <3>6, <3>7, <4>1, <5>1, <1>a DEF FolderKept
      <4> QED
        BY <4>2, <4>3
    <3>8. \A x \in AllPath : tracked'[p][x] # None => disk'[p][x] = tracked'[p][x]
        BY <1>0, <2>1, <3>4, <3>5, <3>6 DEF FolderKept
    <3>9. \A z \in Copies : z.by # p /\ disk'[p][z] # None => tracked'[p][z] # None
        BY <1>0, <1>b, <2>1, <3>3, <3>4, <3>6 DEF FolderKept
    <3> QED
        BY <3>7, <3>8, <3>9 DEF FolderKept
  <2>3. CASE Applies(p)
    <3>0. PICK z \in AllPath : z = X(p)
        BY <2>1
    <3>1. PICK d : disk' = [disk EXCEPT ![p][z] = d]
        BY <2>3, <3>0 DEF Applies
    <3>2. disk'[p][z] = d /\ \A x \in AllPath \ {z} : disk'[p][x] = disk[p][x]
        BY <3>1, JoinPeers
    <3>3. /\ remote[p].pc \in {"fetch", "delete"}
          /\ remote[p].tr = tracked[p][z] /\ ~OwnCopy(p, z)
        BY <1>0, <2>1, <2>3, <3>0, HeldIsPublished DEF Applies, ScanKept
    <3>4. \/ Recording(p, z)' /\ (remote[p].pc = "delete" => d = None)
          \/ tracked[p][z] = None /\ d = None
        BY <2>3, <3>0, <3>2, <3>3, JoinPeers DEF Applies, Recording, X
    <3>5. \A x \in AllPath : ~Recording(p, x)
        BY <3>3 DEF Recording
    <3>6. ASSUME NEW x \in Path, NEW y \in CopiesOf(p, x), disk'[p][y] # None
          PROVE  disk'[p][x] \in {disk'[p][y], None, tracked'[p][x]} \/ Recording(p, x)'
      <4>1. y # z /\ y \in AllPath
        BY <3>3, <3>6, CopyPlaces DEF OwnCopy
      <4>2. disk'[p][y] = disk[p][y]
        BY <3>2, <4>1
      <4>3. CASE x = z
        BY <3>2, <3>4, <4>3
      <4>4. CASE x # z
        BY <1>0, <1>a, <2>1, <3>2, <3>5, <3>6, <4>2, <4>4 DEF FolderKept
      <4> QED
        BY <4>3, <4>4
    <3>7. \A x \in AllPath :
            tracked'[p][x] # None => disk'[p][x] = tracked'[p][x] \/ Recording(p, x)'
        BY <1>0, <2>1, <3>2, <3>4, <3>5 DEF FolderKept
    <3>8. \A y \in Copies :
            y.by # p /\ disk'[p][y] # None => tracked'[p][y] # None \/ Recording(p, y)'
        BY <1>0, <1>b, <2>1, <3>2, <3>4, <3>5 DEF FolderKept
    <3> QED
        BY <3>6, <3>7, <3>8 DEF FolderKept
  <2> QED
    BY <2>1, <2>2, <2>3
<1> QED
    BY <1>2, <1>3, <1>4, <1>5

LEMMA OwnStays ==
    ASSUME TypeInv, Sound, OwnSeen, NEW p \in Peer, NotYetJoined(p),
           LocalStep(p) \/ Compares(p) \/ Writes(p) \/ Advances(p)
    PROVE  OwnTracked(p)'
<1>0. JoinFrames(p) /\ OwnTracked(p) /\ ScanKept(p)
    BY DEF NotYetJoined
<1>1. CASE LocalStep(p)
  <2>1. CASE PublishFile(p)
    <3>1. PICK e : view' = [view EXCEPT ![p][local[p].path] = e]
        BY <2>1, PublishesLater
    <3>2. /\ tracked' = tracked /\ local[p].pc = "publish"
          /\ local'[p].pc = "record" /\ local'[p].path = local[p].path
        BY <1>0, <1>1, <2>1, LocalShape
    <3>3. \A x \in AllPath \ {local[p].path} : view'[p][x] = view[p][x]
        BY <3>1, JoinPeers
    <3> QED
        BY <1>0, <3>2, <3>3 DEF OwnTracked, Own
  <2>2. CASE ~PublishFile(p)
    <3>1. view' = view
        BY <1>0, <1>1, <2>2, LocalShape
    <3>2. CASE RecordUpload(p)
      <4>1. /\ tracked' = [tracked EXCEPT ![p][local[p].path] = local[p].data]
            /\ local[p].data \in Content
        BY <3>2, JoinTypes DEF RecordUpload, At
      <4>2. \A x \in AllPath : IF x = local[p].path THEN tracked'[p][x] # None
                                ELSE tracked'[p][x] = tracked[p][x]
        BY <4>1, JoinPeers, NoneAssumption
      <4> QED
        BY <1>0, <3>1, <4>2 DEF OwnTracked, Own
    <3>3. CASE ~RecordUpload(p)
      <4>1. local[p].pc # "record"
        BY <1>0, <1>1, <2>2, <3>3
        DEF LocalStep, SuppressEvent, TakeEvent, EventReady, ReadLocalFile, SkipUnchanged,
            BaseOnManifest, FindDeleted, PublishTombstone, ForgetDeleted, At
      <4>2. \/ tracked' = tracked
            \/ /\ local[p].data \in Content
               /\ tracked' = [tracked EXCEPT ![p][local[p].path] = local[p].data]
        <5>1. ~FindDeleted(p) /\ ~PublishTombstone(p) /\ ~ForgetDeleted(p)
            BY <1>0 DEF JoinFrames, FindDeleted, PublishTombstone, ForgetDeleted, At
        <5> QED
            BY <1>1, <2>2, <3>3, <5>1, JoinTypes
            DEF LocalStep, SuppressEvent, TakeEvent, ReadLocalFile, SkipUnchanged,
                BaseOnManifest, At
      <4>3. \A x \in AllPath : tracked[p][x] # None => tracked'[p][x] # None
        BY <4>2, JoinPeers, NoneAssumption
      <4> QED
        BY <1>0, <3>1, <4>1, <4>3 DEF OwnTracked, Own
    <3> QED
        BY <3>2, <3>3
  <2> QED
    BY <2>1, <2>2
<1>2. CASE Compares(p)
  <2>1. /\ view' = view /\ local' = local
        /\ Picks(p) \/ GoesOn(p) \/ Decides(p)
    BY <1>0, <1>2, ScanShape
  <2>2. \/ tracked' = tracked
        \/ /\ tracked' = [tracked EXCEPT ![p][X(p)] = C(p)]
           /\ ~Own(p, X(p))
    BY <1>0, <2>1 DEF Picks, GoesOn, Decides, ScanKept
  <2> QED
    BY <1>0, <2>1, <2>2, JoinPeers DEF OwnTracked, Own
<1>3. CASE Writes(p)
  <2>1. view' = view /\ local' = local /\ tracked' = tracked
    BY <1>0, <1>3, WriteShape
  <2> QED
    BY <1>0, <2>1 DEF OwnTracked, Own
<1>4. CASE Advances(p)
  <2>1. tracked' = tracked
    BY <1>4 DEF Advances, Ready, Start, BeginListing, ListPick, StartFails, Reset, Replicate
  <2>2. \A x \in AllPath : Own(p, x)' => Own(p, x)
    <3>1. CASE \E q \in Peer : Replicate(p, q)
        BY <3>1, OwnNotGained DEF Own
    <3>2. CASE ~ \E q \in Peer : Replicate(p, q)
      <4>1. view' = view
        BY <1>4, <3>2 DEF Advances, Ready, Start, BeginListing, ListPick, StartFails, Reset
      <4> QED
        BY <4>1 DEF Own
    <3> QED
        BY <3>1, <3>2
  <2>3. local' = local \/ local[p].pc # "record"
    <3>1. StartFails(p) => local[p].pc # "record"
        BY <1>0 DEF StartFails, Doing, JoinFrames
    <3> QED
        BY <1>4, <3>1 DEF Advances, Ready, Start, BeginListing, ListPick, Replicate
  <2> QED
    BY <1>0, <2>1, <2>2, <2>3 DEF OwnTracked
<1> QED
    BY <1>1, <1>2, <1>3, <1>4

\* Where the local queue is next.
LEMMA LocalPath ==
    ASSUME TypeInv, NEW p \in Peer, JoinFrames(p), LocalStep(p)
    PROVE  /\ queue'[p] # <<>> => queue'[p] = queue[p]
           /\ local'[p].pc # "idle" =>
                \/ local[p].pc # "idle" /\ local'[p].path = local[p].path
                \/ queue[p] # <<>> /\ local'[p].path = Head(queue[p]).path
<1>0. ~FindDeleted(p) /\ ~PublishTombstone(p) /\ ~ForgetDeleted(p)
    BY DEF JoinFrames, FindDeleted, PublishTombstone, ForgetDeleted, At
<1>1. CASE SuppressEvent(p) \/ TakeEvent(p)
  <2>1. /\ queue[p] # <<>> /\ queue' = [queue EXCEPT ![p] = Tail(@)]
        /\ local[p].pc = "idle"
    BY <1>1 DEF SuppressEvent, TakeEvent, EventReady
  <2>2. queue'[p] = <<>>
    BY <2>1, JoinPeers DEF JoinFrames
  <2>3. local'[p] = local[p] \/ local'[p].path = Head(queue[p]).path
    BY <1>1, JoinPeers DEF SuppressEvent, TakeEvent, Becomes, IdleLocal
  <2> QED
    BY <2>1, <2>2, <2>3
<1>2. CASE ReadLocalFile(p) \/ SkipUnchanged(p) \/ BaseOnManifest(p)
           \/ PublishFile(p) \/ RecordUpload(p)
  <2>1. /\ queue' = queue /\ local[p] \in LocalFrame
        /\ local[p].pc # "idle"
    BY <1>2, JoinTypes DEF ReadLocalFile, SkipUnchanged, BaseOnManifest, PublishFile,
        RecordUpload, At
  <2>2. \/ local'[p] = IdleLocal
        \/ \E c : local'[p] = [local[p] EXCEPT !.pc = "lookup", !.data = c]
        \/ \E b : local'[p] = [local[p] EXCEPT !.pc = "publish", !.base = b]
        \/ local'[p] = [local[p] EXCEPT !.pc = "record"]
    BY <1>2, JoinPeers DEF ReadLocalFile, SkipUnchanged, BaseOnManifest, PublishFile,
        RecordUpload, Becomes
  <2>3. local'[p].pc = "idle" \/ local'[p].path = local[p].path
    <3>1. IdleLocal.pc = "idle"
        BY DEF IdleLocal
    <3>2. \A b : [local[p] EXCEPT !.pc = "publish", !.base = b].path = local[p].path
        BY <2>1 DEF LocalFrame
    <3>3. \A c : [local[p] EXCEPT !.pc = "lookup", !.data = c].path = local[p].path
        BY <2>1 DEF LocalFrame
    <3>4. [local[p] EXCEPT !.pc = "record"].path = local[p].path
        BY <2>1 DEF LocalFrame
    <3> QED
        BY <2>2, <3>1, <3>2, <3>3, <3>4
  <2> QED
    BY <2>1, <2>3
<1> QED
    BY <1>0, <1>1, <1>2 DEF LocalStep

LEMMA ScanStays ==
    ASSUME TypeInv, Sound, SteadyStart, NEW p \in Peer, NotYetJoined(p),
           LocalStep(p) \/ Compares(p) \/ Writes(p) \/ Advances(p)
    PROVE  ScanKept(p)'
<1>0. JoinFrames(p) /\ FolderKept(p) /\ ScanKept(p)
    BY DEF NotYetJoined
<1>1. CASE LocalStep(p)
  <2>1. /\ remote' = remote /\ phase' = phase
        /\ phase[p] = "listing" \/ remote[p].pc = "await"
    BY <1>0, <1>1, LocalShape
  <2>2. CASE phase[p] = "listing"
    <3>1. remote'[p] = IdleRemote /\ phase'[p] = "listing"
        BY <1>0, <2>1, <2>2 DEF ScanKept
    <3> QED
        BY <3>1 DEF ScanKept, IdleRemote
  <2>3. CASE remote[p].pc = "await"
    <3>1. /\ local[p].pc # "idle" => local[p].path = X(p)
          /\ queue[p] # <<>> => Head(queue[p]).path = X(p)
        BY <1>0, <2>3 DEF ScanKept
    <3>2. /\ queue'[p] # <<>> => Head(queue'[p]).path = X(p)
          /\ local'[p].pc # "idle" => local'[p].path = X(p)
        BY <1>0, <1>1, <3>1, LocalPath
    <3>3. \A x \in AllPath \ {X(p)} : view'[p][x] = view[p][x]
      <4>1. CASE PublishFile(p)
        <5>1. local[p].path = X(p)
            BY <1>0, <1>1, <3>1, <4>1, LocalShape
        <5>2. PICK e : view' = [view EXCEPT ![p][X(p)] = e]
            BY <4>1, <5>1, PublishesLater
        <5> QED
            BY <5>2, JoinPeers
      <4>2. CASE ~PublishFile(p)
        BY <1>0, <1>1, <4>2, LocalShape
      <4> QED
        BY <4>1, <4>2
    <3>4. ASSUME NEW i \in remote[p].snap
          PROVE  i.metadata = view'[p][i.path] /\ ~Own(p, i.path)' /\ ~Held(p, i.path)'
      <4>1. i.path \in AllPath /\ i.path # X(p)
        BY <1>0, <2>3, SnapTypes DEF ScanKept, Held
      <4> QED
        BY <1>0, <2>1, <3>3, <4>1 DEF ScanKept, Own, Held, X
    <3>5. X(p)' = X(p) /\ phase[p] = "reconcile"
        BY <1>0, <2>1, <2>3 DEF X, JoinFrames
    <3> QED
        BY <2>1, <2>3, <3>2, <3>4, <3>5 DEF ScanKept
  <2> QED
    BY <2>1, <2>2, <2>3
<1>2. CASE Compares(p)
  <2>1. /\ view' = view /\ local' = local /\ phase' = phase /\ disk' = disk
        /\ phase[p] = "reconcile"
        /\ Picks(p) \/ GoesOn(p) \/ Decides(p)
    BY <1>0, <1>2, ScanShape
  <2>2. \A x : Own(p, x)' <=> Own(p, x)
    BY <2>1 DEF Own
  <2>3. CASE Picks(p)
    <3>1. PICK i \in remote[p].snap :
            /\ remote'[p].snap = remote[p].snap \ {i}
            /\ \/ remote'[p].pc = "pick"
               \/ /\ remote'[p].pc = "read"
                  /\ remote'[p].item = i /\ remote'[p].tr = tracked[p][i.path]
        BY <2>3 DEF Picks
    <3>2. \A j \in remote'[p].snap : j \in remote[p].snap /\ j.path # i.path
        BY <1>0, <3>1, OneOfPath
    <3>3. \A j \in remote'[p].snap :
            j.metadata = view'[p][j.path] /\ ~Own(p, j.path)' /\ ~Held(p, j.path)'
        BY <1>0, <2>1, <2>2, <3>1, <3>2 DEF ScanKept, Held, X
    <3>4. i.metadata = view[p][i.path] /\ ~Own(p, i.path)
        BY <1>0 DEF ScanKept
    <3>5. remote'[p].pc = "read" =>
            M(p)' = view'[p][X(p)'] /\ ~Own(p, X(p))' /\ remote'[p].tr = tracked'[p][X(p)']
        BY <2>1, <2>3, <3>1, <3>4 DEF Picks, M, X, Own
    <3> QED
        BY <2>1, <3>1, <3>3, <3>5 DEF ScanKept
  <2>4. CASE GoesOn(p)
    BY <1>0, <2>1, <2>2, <2>4 DEF ScanKept, GoesOn, Held
  <2>5. CASE Decides(p)
    <3>1. /\ X(p)' = X(p) /\ M(p)' = M(p) /\ queue[p] = <<>> /\ local[p].pc = "idle"
          /\ X(p) \in AllPath
        BY <1>0, <2>5, JoinTypes DEF Decides, X, M, JoinFrames
    <3>2. \A j \in remote'[p].snap :
            j.metadata = view'[p][j.path] /\ ~Own(p, j.path)' /\ ~Held(p, j.path)'
        BY <1>0, <2>1, <2>2, <2>5, <3>1 DEF ScanKept, Held, Decides
    <3>3. M(p) = view[p][X(p)] /\ ~Own(p, X(p)) /\ remote[p].tr = tracked[p][X(p)]
        BY <1>0, <2>5 DEF ScanKept, Decides
    <3>4. CASE remote'[p].pc = "await"
      <4>1. queue'[p] = Append(<<>>, [type |-> "update", path |-> X(p)])
        BY <2>5, <3>1, <3>4 DEF Decides
      <4>2. Head(queue'[p]).path = X(p)
        BY <3>1, <4>1 DEF Event
      <4> QED
        BY <2>1, <3>1, <3>2, <3>4, <4>2 DEF ScanKept
    <3>5. CASE remote'[p].pc # "await"
      <4>1. /\ remote'[p].pc \in {"fetch", "copy", "delete"}
            /\ remote'[p].tr = tracked'[p][X(p)']
            /\ remote'[p].pc = "copy" => C(p) \notin {None, remote[p].tr}
        BY <2>5, <3>1, <3>3, <3>5 DEF Decides
      <4>2. remote'[p].pc = "copy" => remote'[p].tr = None
        BY <1>0, <2>5, <3>1, <3>3, <4>1 DEF FolderKept, Recording, C, Decides
      <4>3. M(p)' = view'[p][X(p)'] /\ ~Own(p, X(p))'
        BY <2>1, <3>1, <3>3 DEF Own
      <4> QED
        BY <2>1, <3>2, <4>1, <4>2, <4>3 DEF ScanKept
    <3> QED
        BY <3>4, <3>5
  <2> QED
    BY <2>1, <2>3, <2>4, <2>5
<1>3. CASE Writes(p)
  <2>1. /\ UNCHANGED <<view, local, phase, tracked>> /\ phase[p] = "reconcile"
        /\ remote'[p].snap = remote[p].snap
        /\ remote'[p].pc # "pick" => remote'[p].tr = remote[p].tr
        /\ Saves(p) \/ Applies(p)
    BY <1>0, <1>3, WriteShape
  <2>2. /\ remote[p].pc \in {"copy", "fetch", "delete"}
        /\ remote'[p].pc \in {"pick", "fetch", "delete", "record", "forget"}
        /\ remote'[p].pc # "pick" => remote'[p].item = remote[p].item
    BY <2>1 DEF Saves, Applies
  <2>3. /\ \A x : Own(p, x)' <=> Own(p, x)
        /\ remote'[p].pc # "pick" => X(p)' = X(p) /\ M(p)' = M(p)
    BY <2>1, <2>2 DEF Own, X, M
  <2>4. \A j \in remote'[p].snap :
            j.metadata = view'[p][j.path] /\ ~Own(p, j.path)' /\ ~Held(p, j.path)'
    BY <1>0, <2>1, <2>2, <2>3 DEF ScanKept, Held
  <2>5. remote'[p].pc # "pick" =>
            M(p)' = view'[p][X(p)'] /\ ~Own(p, X(p))' /\ remote'[p].tr = tracked'[p][X(p)']
    BY <1>0, <2>1, <2>2, <2>3 DEF ScanKept, Own
  <2> QED
    BY <2>1, <2>2, <2>4, <2>5 DEF ScanKept
<1>4. CASE Start(p)
  <2>1. remote'[p] = Begun(p) /\ phase'[p] = "reconcile" /\ view' = view
    BY <1>4, JoinPeers DEF Start, Enter, Turns
  <2>2. remote'[p].pc = "pick" /\ remote'[p].snap = List(p)
    BY <2>1 DEF Begun, IdleRemote
  <2>3. \A j \in List(p) : j.metadata = view[p][j.path] /\ ~Own(p, j.path)
    BY DEF List, Own
  <2> QED
    BY <2>1, <2>2, <2>3 DEF ScanKept, Own, Held
<1>5. CASE Ready(p) \/ BeginListing(p) \/ ListPick(p) \/ StartFails(p)
           \/ \E q \in Peer : Replicate(p, q)
  <2>1. remote'[p] = IdleRemote /\ phase'[p] # "reconcile"
    BY <1>0, <1>5, JoinPeers DEF Ready, BeginListing, ListPick, StartFails, Reset, Replicate,
        Enter, Turns, ScanKept, JoinFrames
  <2> QED
    BY <2>1 DEF ScanKept, IdleRemote
<1> QED
    BY <1>1, <1>2, <1>3, <1>4, <1>5 DEF Advances

LEMMA UnpublishedStays ==
    ASSUME TypeInv, Sound, SteadyStart, NEW p \in Peer, NotYetJoined(p),
           LocalStep(p) \/ Compares(p) \/ Writes(p) \/ Advances(p)
    PROVE  /\ CopiesUnpublished(p)'
           /\ phase'[p] \in {"down", "ready"} => suppressed'[p] = {}
<1>0. JoinFrames(p) /\ ScanKept(p) /\ CopiesUnpublished(p)
    BY DEF NotYetJoined
<1>1. CASE LocalStep(p)
  <2>1. phase' = phase /\ (phase[p] = "listing" \/ remote[p].pc = "await")
    BY <1>0, <1>1, LocalShape
  <2>2. phase[p] \in {"listing", "reconcile"}
    BY <1>0, <2>1 DEF JoinFrames
  <2>3. CASE ~PublishFile(p) \/ phase[p] = "listing"
    <3>1. phase[p] # "listing" => log' = log
        BY <1>0, <1>1, <2>3, LocalShape
    <3> QED
        BY <1>0, <2>1, <2>2, <3>1 DEF CopiesUnpublished
  <2>4. CASE PublishFile(p) /\ phase[p] # "listing"
    <3>1. local[p].pc = "publish" /\ remote[p].pc = "await"
        BY <1>0, <1>1, <2>1, <2>4, LocalShape
    <3>2. local[p].path = X(p) /\ ~OwnCopy(p, X(p))
        BY <1>0, <2>4, <3>1, HeldIsPublished DEF ScanKept
    <3>3. PICK e : log' = [log EXCEPT ![local[p].path] = @ \cup {e}]
        BY <2>4, PublishedEntry
    <3>4. \A y \in Copies : y.by = p => log'[y] = log[y]
        BY <3>2, <3>3, MorePeers DEF OwnCopy, AllPath
    <3> QED
        BY <1>0, <2>1, <2>2, <2>4, <3>4 DEF CopiesUnpublished
  <2> QED
    BY <2>3, <2>4
<1>2. CASE Compares(p) \/ Writes(p)
  <2>1. log' = log /\ phase' = phase /\ phase[p] = "reconcile"
    BY <1>0, <1>2, ScanShape, WriteShape
  <2> QED
    BY <1>0, <2>1 DEF CopiesUnpublished
<1>3. CASE Advances(p)
  <2>1. log' = log
    BY <1>3 DEF Advances, Ready, Start, BeginListing, ListPick, StartFails, Reset, Replicate
  <2>2. phase'[p] # "listing" => phase[p] # "listing"
    BY <1>3, JoinPeers DEF Advances, Ready, Start, BeginListing, ListPick, StartFails, Reset,
        Replicate, Enter
  <2>3. \/ suppressed'[p] = {}
        \/ suppressed' = suppressed /\ phase[p] \in {"down", "ready"}
        \/ phase'[p] \in {"reconcile", "listing"}
    BY <1>0, <1>3, JoinPeers, MorePeers DEF Advances, Ready, Start, BeginListing, ListPick, StartFails,
        Reset, Replicate, Enter, JoinFrames
  <2>4. suppressed' = suppressed /\ phase[p] \in {"down", "ready"} => suppressed'[p] = {}
    BY DEF NotYetJoined
  <2> QED
    BY <1>0, <2>1, <2>2, <2>3, <2>4 DEF CopiesUnpublished
<1> QED
    BY <1>1, <1>2, <1>3

\* Nothing else of it is disturbed by the other peers.
LEMMA OthersLeaveIt ==
    ASSUME TypeInv, Sound, CopiesPrivate, Next, NEW p \in Peer, Rests(p), NotYetJoined(p)
    PROVE  NotYetJoined(p)'
<1>1. JoinFrames(p)' /\ FolderKept(p)'
    BY DEF NotYetJoined, Rests, JoinFrames, FolderKept, Recording, X, C, M
<1>2. OwnTracked(p)' /\ ScanKept(p)'
    BY DEF NotYetJoined, Rests, OwnTracked, ScanKept, Own, Held, X, M
<1>3. CopiesUnpublished(p)'
    BY CopyUnpublished DEF NotYetJoined, CopiesUnpublished, Rests
<1> QED
    BY <1>1, <1>2, <1>3 DEF NotYetJoined, Rests

LEMMA NotYetJoinedKept ==
    ASSUME TypeInv, Sound, OwnSeen, CopiesPrivate, SteadyStart, Next, NEW p \in Peer,
           NotYetJoined(p),
           Rests(p) \/ LocalStep(p) \/ Compares(p) \/ Writes(p) \/ Advances(p)
    PROVE  NotYetJoined(p)'
<1>1. CASE Rests(p)
    BY <1>1, OthersLeaveIt
<1>2. CASE LocalStep(p) \/ Compares(p) \/ Writes(p) \/ Advances(p)
  <2>1. JoinFrames(p)'
    BY <1>2, JoinLocal, JoinFramesKept DEF NotYetJoined
  <2> QED
    BY <1>2, <2>1, FolderStays, OwnStays, ScanStays, UnpublishedStays DEF NotYetJoined
<1> QED
    BY <1>1, <1>2

LEMMA InitNotYetJoined ==
    ASSUME Init
    PROVE  OwnSeen /\ \A p \in Joining : NotYetJoined(p)
<1>1. OwnSeen
  <2> SUFFICES ASSUME NEW p \in Peer, NEW x \in AllPath, NEW e \in log[x], e.writerKey = p
               PROVE  e.pos <= Pos(view[p][x])
    BY DEF OwnSeen
  <2>1. e = SeedEntry(x) /\ e # None /\ e = File(Seed, None, SeedWriter, 2)
    BY DEF Init, SeedEntry
  <2>2. p \notin Joining
    BY <2>1, ConstantsAssumption DEF File
  <2>3. view[p][x] = e
    BY <2>1, <2>2 DEF Init
  <2>4. Pos(e) = 2 /\ e.pos = 2
    BY <2>1 DEF Pos, File
  <2> QED
    BY <2>3, <2>4
<1>2. ASSUME NEW p \in Joining
      PROVE  NotYetJoined(p)
  <2>1. /\ p \in Peer /\ phase[p] = "down" /\ remote[p] = IdleRemote /\ queue[p] = <<>>
        /\ local[p].pc = "idle" /\ tracked[p] = NoFiles /\ view[p] = NoFiles
        /\ suppressed[p] = {}
    BY ConstantsAssumption DEF Init, IdleLocal
  <2>2. \A y \in Copies : y \in AllPath /\ y \notin Path
    BY PathAssumption DEF AllPath
  <2>3. \A y \in Copies : disk[p][y] = None /\ log[y] = {}
    <3>1. PICK d \in [Peer -> Folders] : disk = d
        BY DEF Init
    <3>2. \A y \in Copies : disk[p][y] = None
        BY <2>1, <3>1 DEF Folders
    <3> QED
        BY <2>2, <3>2 DEF Init, SeedEntry
  <2>4. JoinFrames(p)
    BY <2>1 DEF JoinFrames, IdleRemote
  <2>5. FolderKept(p)
    BY <2>1, <2>3, CopyPlaces DEF FolderKept, NoFiles
  <2>6. OwnTracked(p) /\ ScanKept(p) /\ CopiesUnpublished(p)
    BY <2>1, <2>3 DEF OwnTracked, Own, NoFiles, ScanKept, IdleRemote, CopiesUnpublished
  <2> QED
    BY <2>1, <2>4, <2>5, <2>6 DEF NotYetJoined
<1> QED
    BY <1>1, <1>2

-----------------------------------------------------------------------------
(***************************************************************************)
(* What a preview tells of each path, while initialSync carries it out.    *)
(***************************************************************************)
FileThen(p, x) == preview[p].hashes[x]
EntryThen(p, x) == preview[p].entries[x]

Clashes(p, x) ==
    IsFile(EntryThen(p, x)) /\ FileThen(p, x) \notin {None, EntryThen(p, x).hash}
Deleted(p, x) == IsTombstone(EntryThen(p, x)) /\ FileThen(p, x) # None
Yields(p, x) == Clashes(p, x) /\ policy[p] = "local-wins"
Uploaded(p, x, c) == IsFile(view[p][x]) /\ Own(p, x) /\ view[p][x].hash = c

\* What the scan leaves to the listing: no entry, or one that remote-wins does not carry out.
ToPublish(p, x) ==
    EntryThen(p, x) = None \/ (IsTombstone(EntryThen(p, x)) /\ policy[p] = "remote-wins")

\* What the file at x will be, and whether y will be made as a copy.
Outcome(p, x) ==
    IF IsFile(EntryThen(p, x)) /\ ~Yields(p, x) THEN EntryThen(p, x).hash
    ELSE IF IsTombstone(EntryThen(p, x)) /\ policy[p] # "remote-wins" THEN None
    ELSE FileThen(p, x)

ToCopy(p, y) ==
    \/ y.kind = "conflict" /\ policy[p] = "keep-both" /\ Clashes(p, y.of)
    \/ y.kind = "tombstone" /\ policy[p] # "remote-wins" /\ Deleted(p, y.of)

\* How far the scan has come with x.
Uncompared(p, x) == Waits(p, x) \/ (Held(p, x) /\ remote[p].pc = "read")
Uncopied(p, x) == Uncompared(p, x) \/ (Held(p, x) /\ remote[p].pc = "copy")
Unwritten(p, x) == Waits(p, x) \/ (Held(p, x) /\ remote[p].pc # "record")

\* The preview of a peer that has not joined yet.
Asked(p) ==
    /\ \A x \in AllPath :
        /\ FileThen(p, x) \in Content \cup {None}
        /\ EntryThen(p, x) \in UserManifestValue \cup {None}
        /\ EntryThen(p, x) # None => EntryThen(p, x).writerKey # p
    /\ \A y \in Copies :
        IF y.by = p THEN EntryThen(p, y) = None ELSE FileThen(p, y) = None
    /\ \A x \in Path : \A y \in CopiesOf(p, x) :
        FileThen(p, y) # None => FileThen(p, x) \in {FileThen(p, y), None}

FileTold(p, x) ==
    disk[p][x] = IF Unwritten(p, x) THEN FileThen(p, x) ELSE Outcome(p, x)

CopyTold(p, y) ==
    disk[p][y] = IF ToCopy(p, y) /\ ~Uncopied(p, y.of) THEN FileThen(p, y.of)
                 ELSE FileThen(p, y)

FolderTold(p) ==
    /\ \A x \in AllPath : ~OwnCopy(p, x) => FileTold(p, x)
    /\ \A y \in Copies : y.by = p => CopyTold(p, y)

ViewTold(p) ==
    \A x \in AllPath :
        IF Yields(p, x)
        THEN \/ view[p][x] = EntryThen(p, x) /\ Unwritten(p, x)
             \/ Uploaded(p, x, FileThen(p, x))
        ELSE IsFile(EntryThen(p, x)) \/ phase[p] = "reconcile" =>
                view[p][x] = EntryThen(p, x)

\* The scan meets what the preview has seen.
FrameTold(p) ==
    /\ \A x \in AllPath : Unwritten(p, x) => x \notin suppressed[p]
    /\ \A i \in remote[p].snap :
        tracked[p][i.path] = None /\ i.metadata = EntryThen(p, i.path)
    /\ remote[p].pc \notin {"idle", "pick"} =>
        /\ M(p) = EntryThen(p, X(p)) /\ remote[p].tr = None
        /\ remote[p].pc # "await" => tracked[p][X(p)] = None
    /\ remote[p].pc = "read" /\ M(p).kind = "tombstone" => policy[p] # "remote-wins"
    /\ remote[p].pc = "copy" =>
        ToCopy(p, CopyPath(X(p), p, IF M(p).kind = "tombstone" THEN "tombstone" ELSE "conflict"))
    /\ remote[p].pc \in {"fetch", "record"} =>
        IsFile(EntryThen(p, X(p))) /\ ~Yields(p, X(p))
    /\ remote[p].pc = "delete" => Deleted(p, X(p)) /\ policy[p] # "remote-wins"
    /\ remote[p].pc = "await" =>
        /\ Yields(p, X(p))
        /\ \/ queue[p] # <<>> \/ local[p].pc \in {"read", "lookup", "publish"}
           \/ Uploaded(p, X(p), FileThen(p, X(p)))
    /\ remote[p].pc # "forget"

\* What is left to the listing is listed, and uploaded.
ListTold(p) ==
    /\ \A x \in AllPath : ToPublish(p, x) =>
        /\ view[p][x] = EntryThen(p, x) \/ Uploaded(p, x, disk[p][x])
        /\ phase[p] = "listing" /\ disk[p][x] # None =>
            ToList(p, x) \/ Uploaded(p, x, disk[p][x])
    /\ phase[p] = "listing" /\ local[p].pc = "publish" =>
        ~IsFile(EntryThen(p, local[p].path))

Affected(p) ==
    FileConflicts(preview[p]) \cup
        IF policy[p] = "remote-wins" THEN {} ELSE TombstoneConflicts(preview[p])

Counted(p) ==
    IsFiniteSet(Path) =>
        affected[p] = Cardinality({x \in Affected(p) : ~Uncompared(p, x)})

Told(p) ==
    /\ Asked(p) /\ FolderTold(p) /\ ViewTold(p) /\ FrameTold(p) /\ ListTold(p) /\ Counted(p)

-----------------------------------------------------------------------------
LEMMA EntryKinds ==
    ASSUME NEW e \in UserManifestValue
    PROVE  \/ e.kind = "file" /\ e.hash \in Content /\ IsFile(e) /\ ~IsTombstone(e)
           \/ e.kind = "tombstone" /\ IsTombstone(e) /\ ~IsFile(e)
BY EntryAssumption DEF UserManifestValue, FileMetadata, TombstoneMetadata, IsFile, IsTombstone

LEMMA AffectedPaths ==
    ASSUME NEW p \in Peer, Asked(p)
    PROVE  /\ Affected(p) \subseteq Path
           /\ \A x \in AllPath :
                x \in Affected(p) <=>
                    Clashes(p, x) \/ (Deleted(p, x) /\ policy[p] # "remote-wins")
<1>1. \A x \in AllPath :
        x \in Affected(p) <=>
            Clashes(p, x) \/ (Deleted(p, x) /\ policy[p] # "remote-wins")
    BY DEF Affected, FileConflicts, TombstoneConflicts, LocalFiles, Clashes, Deleted, FileThen,
        EntryThen
<1>2. Affected(p) \subseteq AllPath
    BY DEF Affected, FileConflicts, TombstoneConflicts, LocalFiles
<1>3. ASSUME NEW y \in Copies
      PROVE  y \notin Affected(p)
  <2>1. EntryThen(p, y) = None \/ FileThen(p, y) = None
    BY DEF Asked
  <2> QED
    BY <1>1, <1>2, <2>1 DEF Clashes, Deleted, IsFile, IsTombstone
<1> QED
    BY <1>1, <1>2, <1>3 DEF AllPath

\* How a step of the scan moves on one path, and on no other.
OnlyAt(p, z) ==
    \A x \in AllPath \ {z} :
        /\ Uncompared(p, x)' <=> Uncompared(p, x)
        /\ Uncopied(p, x)' <=> Uncopied(p, x)
        /\ Unwritten(p, x)' <=> Unwritten(p, x)

LEMMA PickStages ==
    ASSUME TypeInv, NEW p \in Peer, ScanKept(p), NEW i \in remote[p].snap,
           remote[p].pc = "pick", remote'[p].snap = remote[p].snap \ {i},
           remote'[p].pc = "pick" \/ (remote'[p].pc = "read" /\ remote'[p].item = i)
    PROVE  /\ OnlyAt(p, i.path) /\ i.path \in AllPath
           /\ Uncompared(p, i.path) /\ Uncopied(p, i.path) /\ Unwritten(p, i.path)
           /\ Uncompared(p, i.path)' <=> remote'[p].pc = "read"
           /\ Uncopied(p, i.path)' <=> remote'[p].pc = "read"
           /\ Unwritten(p, i.path)' <=> remote'[p].pc = "read"
<1>1. \A j \in remote[p].snap : j.path = i.path => j = i
    BY OneOfPath
<1>2. Waits(p, i.path) /\ ~Waits(p, i.path)'
    BY <1>1 DEF Waits
<1>3. \A x : x # i.path => (Waits(p, x)' <=> Waits(p, x))
    BY DEF Waits
<1>4. /\ \A x : ~Held(p, x)
      /\ \A x : Held(p, x)' <=> remote'[p].pc = "read" /\ x = i.path
    BY DEF Held, X
<1> QED
    BY <1>2, <1>3, <1>4, SnapTypes DEF OnlyAt, Uncompared, Uncopied, Unwritten

LEMMA HeldStages ==
    ASSUME TypeInv, NEW p \in Peer, ScanKept(p), remote[p].pc \notin {"idle", "pick"},
           remote'[p].snap = remote[p].snap,
           remote'[p].pc = "pick" \/ (remote'[p].pc # "idle" /\ remote'[p].item = remote[p].item),
           NEW z \in AllPath, z = X(p)
    PROVE  /\ OnlyAt(p, z)
           /\ Uncompared(p, z) <=> remote[p].pc = "read"
           /\ Uncopied(p, z) <=> remote[p].pc \in {"read", "copy"}
           /\ Unwritten(p, z) <=> remote[p].pc # "record"
           /\ Uncompared(p, z)' <=> remote'[p].pc = "read"
           /\ Uncopied(p, z)' <=> remote'[p].pc \in {"read", "copy"}
           /\ Unwritten(p, z)' <=> remote'[p].pc \notin {"pick", "record"}
<1>1. /\ \A x : Waits(p, x)' <=> Waits(p, x)
      /\ ~Waits(p, z)
    BY DEF Waits, ScanKept, Held
<1>2. /\ \A x : Held(p, x) <=> x = z
      /\ \A x : Held(p, x)' <=> remote'[p].pc # "pick" /\ x = z
    BY DEF Held, X
<1>3. OnlyAt(p, z)
    BY <1>1, <1>2 DEF OnlyAt, Uncompared, Uncopied, Unwritten
<1>4. /\ Uncompared(p, z) <=> remote[p].pc = "read"
      /\ Uncopied(p, z) <=> remote[p].pc \in {"read", "copy"}
      /\ Unwritten(p, z) <=> remote[p].pc # "record"
    BY <1>1, <1>2 DEF Uncompared, Uncopied, Unwritten
<1>5. /\ Uncompared(p, z)' <=> remote'[p].pc = "read"
      /\ Uncopied(p, z)' <=> remote'[p].pc \in {"read", "copy"}
      /\ Unwritten(p, z)' <=> remote'[p].pc \notin {"pick", "record"}
    BY <1>1, <1>2 DEF Uncompared, Uncopied, Unwritten
<1> QED
    BY <1>3, <1>4, <1>5

-----------------------------------------------------------------------------
\* No policy prefers a file that meets no file entry.
LEMMA NotClaimed ==
    ASSUME NEW p, NEW x, ToPublish(p, x)
    PROVE  ~IsFile(EntryThen(p, x)) /\ ~Yields(p, x)
BY DEF ToPublish, Yields, Clashes, IsFile, IsTombstone

\* The paths other than the one a step of the scan is about.
LEMMA ScanTold ==
    ASSUME TypeInv, NEW p \in Peer, Asked(p), FolderTold(p), ViewTold(p),
           phase[p] = "reconcile", phase'[p] = phase[p], view'[p] = view[p],
           policy'[p] = policy[p], preview'[p] = preview[p],
           NEW z \in AllPath, ~OwnCopy(p, z), OnlyAt(p, z),
           \A x \in AllPath \ {z} : ~OwnCopy(p, x) => disk'[p][x] = disk[p][x],
           \A y \in Copies : y.by = p /\ y.of # z => disk'[p][y] = disk[p][y],
           FileTold(p, z)',
           \A y \in Copies : y.by = p /\ y.of = z => CopyTold(p, y)',
           Yields(p, z) => Unwritten(p, z)' \/ ~Unwritten(p, z) \/ Uploaded(p, z, FileThen(p, z))
    PROVE  Asked(p)' /\ FolderTold(p)' /\ ViewTold(p)' /\ ListTold(p)'
<1>1. /\ \A x : FileThen(p, x)' = FileThen(p, x) /\ EntryThen(p, x)' = EntryThen(p, x)
      /\ \A x : Clashes(p, x)' <=> Clashes(p, x)
      /\ \A x : Deleted(p, x)' <=> Deleted(p, x)
      /\ \A x : Yields(p, x)' <=> Yields(p, x)
      /\ \A x : Outcome(p, x)' = Outcome(p, x)
      /\ \A x : ToCopy(p, x)' <=> ToCopy(p, x)
      /\ \A x : ToPublish(p, x)' <=> ToPublish(p, x)
      /\ \A x, c : Uploaded(p, x, c)' <=> Uploaded(p, x, c)
    BY DEF FileThen, EntryThen, Clashes, Deleted, Yields, Outcome, ToCopy, ToPublish, Uploaded, Own
<1>2. Asked(p)'
    BY <1>1 DEF Asked
<1>3. FolderTold(p)'
  <2>1. ASSUME NEW x \in AllPath, x # z, ~OwnCopy(p, x)
        PROVE  FileTold(p, x)'
    BY <1>1, <2>1 DEF FolderTold, FileTold, OnlyAt
  <2>2. ASSUME NEW y \in Copies, y.by = p, y.of # z
        PROVE  CopyTold(p, y)'
    <3>1. y.of \in AllPath
        BY DEF Copies, AllPath
    <3> QED
        BY <1>1, <2>2, <3>1 DEF FolderTold, CopyTold, OnlyAt
  <2> QED
    BY <2>1, <2>2 DEF FolderTold
<1>4. ViewTold(p)'
  <2> SUFFICES ASSUME NEW x \in AllPath
               PROVE  IF Yields(p, x)
                      THEN \/ view[p][x] = EntryThen(p, x) /\ Unwritten(p, x)'
                           \/ Uploaded(p, x, FileThen(p, x))
                      ELSE IsFile(EntryThen(p, x)) \/ phase[p] = "reconcile" =>
                                view[p][x] = EntryThen(p, x)
    BY <1>1 DEF ViewTold
  <2>1. CASE x # z
    BY <2>1 DEF ViewTold, OnlyAt
  <2>2. CASE x = z
    BY <2>2 DEF ViewTold
  <2> QED
    BY <2>1, <2>2
<1>5. ListTold(p)'
  <2>1. ASSUME NEW x \in AllPath, ToPublish(p, x)
        PROVE  view[p][x] = EntryThen(p, x)
    BY <2>1, NotClaimed DEF ViewTold
  <2> QED
    BY <1>1, <2>1 DEF ListTold
<1> QED
    BY <1>2, <1>3, <1>4, <1>5

\* The audit counts a path when it is compared, if it is affected.
LEMMA CountStep ==
    ASSUME NEW p \in Peer, Asked(p), Counted(p), preview'[p] = preview[p],
           policy'[p] = policy[p], NEW z \in AllPath, OnlyAt(p, z),
           \/ (Uncompared(p, z)' <=> Uncompared(p, z)) /\ affected'[p] = affected[p]
           \/ /\ Uncompared(p, z) /\ ~Uncompared(p, z)'
              /\ affected'[p] = IF z \in Affected(p) THEN affected[p] + 1 ELSE affected[p]
    PROVE  Counted(p)'
<1> SUFFICES ASSUME IsFiniteSet(Path)
             PROVE  affected'[p] = Cardinality({x \in Affected(p) : ~Uncompared(p, x)'})
    BY DEF Counted, Affected
<1> DEFINE S == {x \in Affected(p) : ~Uncompared(p, x)}
           T == {x \in Affected(p) : ~Uncompared(p, x)'}
<1>1. Affected(p) \subseteq Path /\ affected[p] = Cardinality(S)
    BY AffectedPaths DEF Counted
<1>2. IsFiniteSet(S)
    BY <1>1, FS_Subset
<1>3. \A x \in Affected(p) : x # z => (Uncompared(p, x)' <=> Uncompared(p, x))
    BY <1>1 DEF OnlyAt, AllPath
<1>4. CASE T = S /\ affected'[p] = affected[p]
    BY <1>1, <1>4
<1>5. CASE T = S \cup {z} /\ z \notin S /\ affected'[p] = affected[p] + 1
    BY <1>1, <1>2, <1>5, FS_AddElement
<1>6. CASE (Uncompared(p, z)' <=> Uncompared(p, z)) /\ affected'[p] = affected[p]
  <2>1. T = S
    BY <1>3, <1>6
  <2> QED
    BY <1>4, <1>6, <2>1
<1>7. CASE Uncompared(p, z) /\ ~Uncompared(p, z)' /\ z \in Affected(p)
  <2>1. T = S \cup {z} /\ z \notin S
    BY <1>3, <1>7
  <2> QED
    BY <1>5, <1>7, <2>1
<1>8. CASE Uncompared(p, z) /\ ~Uncompared(p, z)' /\ z \notin Affected(p)
  <2>1. T = S
    BY <1>3, <1>8
  <2> QED
    BY <1>4, <1>8, <2>1
<1> QED
    BY <1>6, <1>7, <1>8

\* What becomes of previews and of the count of the audit.
LEMMA PreviewStays ==
    ASSUME NEW p \in Peer, KeepPreviews, CountAffected, phase'[p] = phase[p],
           phase[p] \in {"reconcile", "listing"}
    PROVE  /\ preview'[p] = preview[p]
           /\ MeetsPolicy(p) => phase[p] = "reconcile" /\ remote[p].pc = "read"
           /\ affected'[p] = IF MeetsPolicy(p) /\ remote'[p] # remote[p] THEN affected[p] + 1
                             ELSE affected[p]
BY DEF KeepPreviews, Outdated, CountAffected, MeetsPolicy, Differs, Comparing, Doing

\* The entry being compared, and the file, as the preview saw them.
LEMMA ReadTold ==
    ASSUME TypeInv, Sound, NEW p \in Peer, NotYetJoined(p), Told(p),
           phase[p] = "reconcile", remote[p].pc \notin {"idle", "pick"},
           NEW z, z = X(p)
    PROVE  /\ z \in AllPath /\ ~OwnCopy(p, z) /\ ~Waits(p, z)
           /\ M(p) = EntryThen(p, z) /\ M(p) \in UserManifestValue /\ remote[p].tr = None
           /\ remote[p].pc # "record" => disk[p][z] = FileThen(p, z)
           /\ FileThen(p, z) \in Content \cup {None}
           /\ JoinPolicy(p) = policy[p] /\ policy[p] \in Policies
           /\ remote[p] \in RemoteFrame
<1>1. z \in AllPath /\ ~OwnCopy(p, z)
    BY JoinTypes, HeldIsPublished DEF NotYetJoined
<1>2. M(p) = EntryThen(p, z) /\ remote[p].tr = None
    BY DEF Told, FrameTold
<1>3. M(p) \in UserManifestValue
  <2>1. remote[p].item \in ManifestEntry
    BY DEF TypeInv, RemoteFrames
  <2> QED
    BY <2>1 DEF M, ManifestEntry
<1>4. ~Waits(p, z)
    BY DEF NotYetJoined, ScanKept, Waits, Held
<1>5. remote[p].pc # "record" => Unwritten(p, z)
    BY DEF Unwritten, Held
<1>6. remote[p].pc # "record" => disk[p][z] = FileThen(p, z)
    BY <1>1, <1>5 DEF Told, FolderTold, FileTold
<1> QED
    BY <1>1, <1>2, <1>3, <1>4, <1>6, JoinTypes, MorePeers DEF Told, Asked, JoinPolicy

\* An entry is done with, or what is to be done is as announced.
LEMMA ReadSettles ==
    ASSUME TypeInv, Sound, NEW p \in Peer, NotYetJoined(p), Told(p),
           phase[p] = "reconcile", phase'[p] = phase[p], remote[p].pc = "read",
           UNCHANGED <<view, disk, suppressed, policy>>, preview'[p] = preview[p],
           affected'[p] = IF MeetsPolicy(p) THEN affected[p] + 1 ELSE affected[p],
           NEW z, z = X(p),
           remote'[p].snap = remote[p].snap,
           \A x \in AllPath \ {z} : tracked'[p][x] = tracked[p][x],
           \/ /\ remote'[p].pc = "pick"
              /\ FileThen(p, z) = Outcome(p, z) /\ ~Clashes(p, z) /\ ~Deleted(p, z)
           \/ /\ remote'[p].pc \in {"fetch", "copy", "await"}
              /\ remote'[p].item = remote[p].item /\ remote'[p].tr = remote[p].tr
              /\ tracked'[p][z] = tracked[p][z],
           remote'[p].pc = "fetch" =>
                /\ IsFile(EntryThen(p, z)) /\ ~Yields(p, z)
                /\ \A y \in Copies : y.of = z => ~ToCopy(p, y),
           remote'[p].pc = "copy" =>
                ToCopy(p, CopyPath(z, p, IF M(p).kind = "tombstone" THEN "tombstone"
                                         ELSE "conflict")),
           remote'[p].pc = "await" => Yields(p, z) /\ queue'[p] # <<>>
    PROVE  Told(p)'
<1>1. /\ z \in AllPath /\ ~OwnCopy(p, z) /\ M(p) = EntryThen(p, z)
      /\ M(p) \in UserManifestValue /\ remote[p].tr = None
      /\ disk[p][z] = FileThen(p, z) /\ JoinPolicy(p) = policy[p]
    BY ReadTold
<1>2. ScanKept(p) /\ Asked(p) /\ FolderTold(p) /\ ViewTold(p) /\ FrameTold(p) /\ Counted(p)
    BY DEF NotYetJoined, Told
<1>3. /\ OnlyAt(p, z)
      /\ Uncompared(p, z) /\ Uncopied(p, z) /\ Unwritten(p, z)
      /\ ~Uncompared(p, z)'
      /\ Uncopied(p, z)' <=> remote'[p].pc = "copy"
      /\ Unwritten(p, z)' <=> remote'[p].pc # "pick"
    BY <1>1, <1>2, HeldStages
<1>4. /\ \A x : FileThen(p, x)' = FileThen(p, x) /\ EntryThen(p, x)' = EntryThen(p, x)
      /\ \A x : Deleted(p, x)' <=> Deleted(p, x)
      /\ \A x : Yields(p, x)' <=> Yields(p, x)
      /\ \A x : Outcome(p, x)' = Outcome(p, x)
      /\ \A x : ToCopy(p, x)' <=> ToCopy(p, x)
    BY DEF FileThen, EntryThen, Clashes, Deleted, Yields, Outcome, ToCopy
<1>5. FileTold(p, z)'
    BY <1>1, <1>3, <1>4 DEF FileTold
<1>6. ASSUME NEW y \in Copies, y.by = p, y.of = z
      PROVE  CopyTold(p, y)'
  <2>1. disk[p][y] = FileThen(p, y)
    BY <1>2, <1>3, <1>6 DEF FolderTold, CopyTold
  <2>2. remote'[p].pc = "await" => ~ToCopy(p, y)
    <3>1. Yields(p, z) => IsFile(EntryThen(p, z)) /\ policy[p] = "local-wins"
        BY DEF Yields, Clashes
    <3> QED
        BY <1>6, <3>1 DEF ToCopy, Deleted, IsFile, IsTombstone
  <2>3. remote'[p].pc = "pick" => ~ToCopy(p, y)
    BY <1>6 DEF ToCopy
  <2>4. remote'[p].pc # "copy" => ~ToCopy(p, y)
    BY <1>6, <2>2, <2>3
  <2> QED
    BY <1>3, <1>4, <1>6, <2>1, <2>4 DEF CopyTold
<1>7. Asked(p)' /\ FolderTold(p)' /\ ViewTold(p)' /\ ListTold(p)'
  <2>1. Yields(p, z) => Unwritten(p, z)'
    BY <1>3 DEF Yields
  <2> QED
    BY <1>1, <1>2, <1>3, <1>5, <1>6, <2>1, ScanTold
<1>8. FrameTold(p)'
  <2>1. \A x \in AllPath : Unwritten(p, x)' => x \notin suppressed'[p]
    BY <1>2, <1>3 DEF FrameTold, OnlyAt
  <2>2. \A i \in remote'[p].snap :
            tracked'[p][i.path] = None /\ i.metadata = EntryThen(p, i.path)'
    <3>1. \A i \in remote[p].snap : i.path \in AllPath \ {z}
        BY <1>2, SnapTypes DEF ScanKept, Held
    <3> QED
        BY <1>2, <1>4, <3>1 DEF FrameTold
  <2>3. CASE remote'[p].pc = "pick"
    BY <2>1, <2>2, <2>3 DEF FrameTold
  <2>4. CASE remote'[p].pc # "pick"
    <3>1. X(p)' = z /\ M(p)' = M(p)
        BY <2>4 DEF X, M
    <3>2. M(p)' = EntryThen(p, X(p))' /\ remote'[p].tr = None /\ tracked'[p][X(p)'] = None
        BY <1>1, <1>2, <1>4, <2>4, <3>1 DEF FrameTold
    <3>3. remote'[p].pc = "copy" =>
            ToCopy(p, CopyPath(X(p), p, IF M(p).kind = "tombstone" THEN "tombstone"
                                        ELSE "conflict"))'
        BY <1>4, <3>1
    <3>4. remote'[p].pc = "fetch" => IsFile(EntryThen(p, X(p))') /\ ~Yields(p, X(p))'
        BY <1>4, <3>1
    <3>5. remote'[p].pc = "await" => Yields(p, X(p))'
        BY <1>4, <3>1
    <3> QED
        BY <2>1, <2>2, <2>4, <3>2, <3>3, <3>4, <3>5 DEF FrameTold
  <2> QED
    BY <2>3, <2>4
<1>9. Counted(p)'
  <2>1. MeetsPolicy(p) <=> z \in Affected(p)
    <3>1. z \in Affected(p) <=> Clashes(p, z) \/ (Deleted(p, z) /\ policy[p] # "remote-wins")
        BY <1>1, <1>2, AffectedPaths
    <3>2. M(p).kind = "tombstone" => policy[p] # "remote-wins"
        BY <1>2 DEF FrameTold
    <3>3. MeetsPolicy(p) <=> Clashes(p, z) \/ Deleted(p, z)
        BY <1>1, EntryKinds DEF MeetsPolicy, Differs, Comparing, Doing, C, Clashes, Deleted
    <3> QED
        BY <1>1, <3>1, <3>2, <3>3, EntryKinds DEF Deleted
  <2> QED
    BY <1>1, <1>2, <1>3, <2>1, CountStep
<1> QED
    BY <1>7, <1>8, <1>9 DEF Told

\* A step that compares the entry at hand with the file.
LEMMA ReadingTold ==
    ASSUME TypeInv, Sound, NEW p \in Peer, NotYetJoined(p), Told(p),
           phase[p] \in {"reconcile", "listing"},
           Compares(p), remote[p].pc = "read", KeepPreviews, CountAffected
    PROVE  Told(p)'
<1> DEFINE z == X(p)
           e == EntryThen(p, z)
           f == FileThen(p, z)
<1>0. JoinFrames(p) /\ Asked(p) /\ FrameTold(p)
    BY DEF NotYetJoined, Told
<1>1. /\ UNCHANGED <<manifestVars, folderVars, suppressed, local, owed, startVars>>
      /\ phase[p] = "reconcile"
    BY <1>0, ScanShape
<1>2. /\ z \in AllPath /\ M(p) = e /\ M(p) \in UserManifestValue /\ remote[p].tr = None
      /\ C(p) = f /\ JoinPolicy(p) = policy[p] /\ policy[p] \in Policies
      /\ f \in Content \cup {None} /\ remote[p] \in RemoteFrame
    <2>1. disk[p][z] = f
        BY <1>1, ReadTold
    <2> QED
        BY <1>1, <2>1, ReadTold DEF C
<1>3. /\ preview'[p] = preview[p]
      /\ affected'[p] = IF MeetsPolicy(p) /\ remote'[p] # remote[p] THEN affected[p] + 1
                        ELSE affected[p]
    BY <1>1, PreviewStays
<1>4. /\ ~LocalYielded(p) /\ ~RecordDownload(p) /\ ~ForgetRemote(p) /\ ~PickEntry(p)
      /\ ~StartDelete(p) /\ ~AlreadyDeleted(p)
    BY <1>2 DEF LocalYielded, RecordDownload, ForgetRemote, PickEntry, StartDelete,
        AlreadyDeleted, Doing
<1>5. ~NothingNew(p)
    BY <1>2, EntryKinds, NoneAssumption DEF NothingNew, Differs, Comparing
<1>6. CASE AlreadyInSync(p) \/ DeletionVoid(p)
  <2>1. remote'[p].pc = "pick" /\ remote'[p].snap = remote[p].snap
    BY <1>6, JoinPeers DEF AlreadyInSync, DeletionVoid, Turns, NextEntry, IdleRemote
  <2>2. \A x \in AllPath \ {z} : tracked'[p][x] = tracked[p][x]
    BY <1>6, JoinPeers DEF AlreadyInSync, DeletionVoid
  <2>3. f = Outcome(p, z) /\ ~Clashes(p, z) /\ ~Deleted(p, z)
    <3>1. CASE AlreadyInSync(p)
        BY <1>2, <3>1, EntryKinds DEF AlreadyInSync, Comparing, Outcome, Yields, Clashes, Deleted
    <3>2. CASE DeletionVoid(p)
        BY <1>2, <3>2, EntryKinds DEF DeletionVoid, Comparing, Outcome, Yields, Clashes, Deleted
    <3> QED
        BY <1>6, <3>1, <3>2
  <2>4. affected'[p] = IF MeetsPolicy(p) THEN affected[p] + 1 ELSE affected[p]
    BY <1>3, <2>1
  <2> HIDE DEF z
  <2> QED
    BY <1>1, <1>3, <2>1, <2>2, <2>3, <2>4, ReadSettles DEF z
<1>7. CASE StartDownload(p) \/ YieldToLocal(p) \/ StartConflict(p) \/ StartPreserve(p)
  <2>1. /\ tracked' = tracked
        /\ \/ StartDownload(p) /\ remote'[p] = [remote[p] EXCEPT !.pc = "fetch", !.seen = C(p)]
           \/ /\ StartConflict(p) \/ StartPreserve(p)
              /\ remote'[p] = [remote[p] EXCEPT !.pc = "copy", !.seen = C(p)]
           \/ YieldToLocal(p) /\ remote'[p] = [remote[p] EXCEPT !.pc = "await"]
    BY <1>7, JoinPeers DEF StartDownload, YieldToLocal, StartConflict, StartPreserve, Turns
  <2>2. /\ remote'[p].snap = remote[p].snap /\ remote'[p].item = remote[p].item
        /\ remote'[p].tr = remote[p].tr
        /\ \/ StartDownload(p) /\ remote'[p].pc = "fetch"
           \/ (StartConflict(p) \/ StartPreserve(p)) /\ remote'[p].pc = "copy"
           \/ YieldToLocal(p) /\ remote'[p].pc = "await"
    BY <1>2, <2>1 DEF RemoteFrame
  <2>3. affected'[p] = IF MeetsPolicy(p) THEN affected[p] + 1 ELSE affected[p]
    BY <1>3, <2>2
  <2>4. ASSUME StartDownload(p)
        PROVE  /\ IsFile(e) /\ ~Yields(p, z)
               /\ \A y \in Copies : y.of = z => ~ToCopy(p, y)
    <3>1. M(p).kind = "file" /\ (f = None \/ policy[p] = "remote-wins")
        BY <1>2, <2>4 DEF StartDownload, Comparing, Differs, RemoteChanged
    <3> QED
        BY <1>2, <3>1, EntryKinds DEF Yields, Clashes, ToCopy, Deleted
  <2>5. ASSUME StartConflict(p) \/ StartPreserve(p)
        PROVE  ToCopy(p, CopyPath(z, p, IF M(p).kind = "tombstone" THEN "tombstone"
                                        ELSE "conflict"))
    <3>1. CASE StartConflict(p)
      <4>1. M(p).kind = "file" /\ policy[p] = "keep-both" /\ f \notin {None, M(p).hash}
        BY <1>2, <3>1 DEF StartConflict, Comparing, Differs, RemoteChanged
      <4> QED
        BY <1>2, <4>1, EntryKinds DEF CopyPath, Clashes, ToCopy
    <3>2. CASE StartPreserve(p)
      <4>1. M(p).kind = "tombstone" /\ policy[p] # "remote-wins" /\ f # None
        BY <1>0, <1>2, <3>2 DEF StartPreserve, Comparing, FrameTold
      <4> QED
        BY <1>2, <4>1, EntryKinds DEF CopyPath, Deleted, ToCopy
    <3> QED
        BY <2>5, <3>1, <3>2
  <2>6. ASSUME YieldToLocal(p)
        PROVE  Yields(p, z) /\ queue'[p] # <<>>
    <3>1. M(p).kind = "file" /\ policy[p] = "local-wins" /\ f \notin {None, M(p).hash}
        BY <1>2, <2>6 DEF YieldToLocal, Comparing, Differs
    <3>2. queue'[p] = Append(queue[p], [type |-> "update", path |-> X(p)])
        BY <2>6, JoinPeers DEF YieldToLocal
    <3>3. [type |-> "update", path |-> X(p)] \in Event
        BY <1>2 DEF Event
    <3>4. queue'[p] # <<>>
        BY <3>2, <3>3, JoinTypes
    <3> QED
        BY <1>2, <3>1, <3>4, EntryKinds DEF Yields, Clashes
  <2> HIDE DEF z, e, f
  <2>7. /\ remote'[p].pc \in {"fetch", "copy", "await"}
        /\ remote'[p].pc = "fetch" => StartDownload(p)
        /\ remote'[p].pc = "copy" => StartConflict(p) \/ StartPreserve(p)
        /\ remote'[p].pc = "await" => YieldToLocal(p)
    BY <2>2
  <2> QED
    BY <1>1, <1>3, <2>1, <2>2, <2>3, <2>4, <2>5, <2>6, <2>7, ReadSettles DEF z, e, f
<1> QED
    BY <1>4, <1>5, <1>6, <1>7 DEF Compares

\* The preview, and what follows from it alone.
PreviewFixed(p) ==
    /\ \A x : FileThen(p, x)' = FileThen(p, x) /\ EntryThen(p, x)' = EntryThen(p, x)
    /\ \A x : Clashes(p, x)' <=> Clashes(p, x)
    /\ \A x : Deleted(p, x)' <=> Deleted(p, x)
    /\ \A x : Yields(p, x)' <=> Yields(p, x)
    /\ \A x : Outcome(p, x)' = Outcome(p, x)
    /\ \A x : ToCopy(p, x)' <=> ToCopy(p, x)
    /\ \A x : ToPublish(p, x)' <=> ToPublish(p, x)
    /\ Affected(p)' = Affected(p)

LEMMA FixedPreview ==
    ASSUME NEW p \in Peer, preview'[p] = preview[p], policy'[p] = policy[p]
    PROVE  PreviewFixed(p)
<1>1. /\ \A x : FileThen(p, x)' = FileThen(p, x) /\ EntryThen(p, x)' = EntryThen(p, x)
      /\ \A x : Clashes(p, x)' <=> Clashes(p, x)
      /\ \A x : Deleted(p, x)' <=> Deleted(p, x)
      /\ \A x : Yields(p, x)' <=> Yields(p, x)
      /\ \A x : Outcome(p, x)' = Outcome(p, x)
      /\ \A x : ToCopy(p, x)' <=> ToCopy(p, x)
      /\ \A x : ToPublish(p, x)' <=> ToPublish(p, x)
    BY DEF FileThen, EntryThen, Clashes, Deleted, Yields, Outcome, ToCopy, ToPublish
<1>2. Affected(p)' = Affected(p)
    BY DEF Affected
<1> QED
    BY <1>1, <1>2 DEF PreviewFixed

\* An entry is picked; that of a deletion is passed over under remote-wins.
LEMMA PickTold ==
    ASSUME TypeInv, Sound, NEW p \in Peer, NotYetJoined(p), Told(p),
           phase[p] \in {"reconcile", "listing"}, PickEntry(p), KeepPreviews, CountAffected
    PROVE  Told(p)'
<1>0. /\ JoinFrames(p) /\ ScanKept(p) /\ Asked(p) /\ FolderTold(p) /\ ViewTold(p)
      /\ FrameTold(p) /\ ListTold(p) /\ Counted(p)
    BY DEF NotYetJoined, Told
<1>1. /\ UNCHANGED <<manifestVars, folderVars, suppressed, local, owed, startVars>>
      /\ phase[p] = "reconcile"
    BY <1>0, ScanShape DEF Compares
<1>2. preview'[p] = preview[p] /\ affected'[p] = affected[p] /\ remote[p].pc = "pick"
    BY <1>1, PreviewStays DEF PickEntry
<1>3. PICK i \in remote[p].snap :
            LET rest == [NextEntry(p) EXCEPT !.snap = @ \ {i}] IN
            remote'[p] = IF DeletionIgnored(p, i) THEN rest
                         ELSE [rest EXCEPT !.pc = "read", !.item = i,
                                           !.tr = tracked[p][i.path]]
    BY JoinPeers DEF PickEntry, Turns
<1> DEFINE z == i.path
<1>4. /\ remote'[p].snap = remote[p].snap \ {i}
      /\ \/ DeletionIgnored(p, i) /\ remote'[p].pc = "pick"
         \/ /\ ~DeletionIgnored(p, i) /\ remote'[p].pc = "read"
            /\ remote'[p].item = i /\ remote'[p].tr = tracked[p][z]
    BY <1>3 DEF NextEntry, IdleRemote
<1>5. /\ OnlyAt(p, z) /\ z \in AllPath
      /\ Uncompared(p, z) /\ Uncopied(p, z) /\ Unwritten(p, z)
      /\ Uncompared(p, z)' <=> remote'[p].pc = "read"
      /\ Uncopied(p, z)' <=> remote'[p].pc = "read"
      /\ Unwritten(p, z)' <=> remote'[p].pc = "read"
    BY <1>0, <1>2, <1>4, PickStages
<1>6. /\ tracked[p][z] = None /\ i.metadata = EntryThen(p, z)
      /\ i.metadata \in UserManifestValue
    BY <1>0, SnapTypes DEF FrameTold
<1>7. ~OwnCopy(p, z)
    BY <1>0, <1>6, EntryAssumption DEF Asked, OwnCopy
<1>8. PreviewFixed(p)
    BY <1>1, <1>2, FixedPreview
<1>9. JoinPolicy(p) = policy[p] /\ tracked' = tracked
    BY <1>1 DEF JoinPolicy, PickEntry
<1>10. ASSUME DeletionIgnored(p, i)
       PROVE  /\ IsTombstone(EntryThen(p, z)) /\ ~IsFile(EntryThen(p, z))
              /\ policy[p] = "remote-wins"
    BY <1>6, <1>9, <1>10, EntryKinds DEF DeletionIgnored
<1>11. Asked(p)' /\ FolderTold(p)' /\ ViewTold(p)' /\ ListTold(p)'
  <2>1. FileTold(p, z)'
    <3>1. disk[p][z] = FileThen(p, z)
        BY <1>0, <1>5, <1>7 DEF FolderTold, FileTold
    <3>2. Unwritten(p, z)' \/ Outcome(p, z) = FileThen(p, z)
        BY <1>4, <1>5, <1>10 DEF Outcome
    <3> QED
        BY <1>1, <1>8, <3>1, <3>2 DEF FileTold, PreviewFixed
  <2>2. ASSUME NEW y \in Copies, y.by = p, y.of = z
        PROVE  CopyTold(p, y)'
    <3>1. disk[p][y] = FileThen(p, y)
        BY <1>0, <1>5, <2>2 DEF FolderTold, CopyTold
    <3>2. Uncopied(p, z)' \/ ~ToCopy(p, y)
        BY <1>4, <1>5, <1>10, <2>2 DEF ToCopy
    <3> QED
        BY <1>1, <1>8, <2>2, <3>1, <3>2 DEF CopyTold, PreviewFixed
  <2>3. Yields(p, z) => Unwritten(p, z)'
    BY <1>4, <1>5, <1>10 DEF Yields
  <2> HIDE DEF z
  <2> QED
    BY <1>0, <1>1, <1>2, <1>5, <1>7, <2>1, <2>2, <2>3, ScanTold
<1>12. FrameTold(p)'
  <2>1. \A x \in AllPath : Unwritten(p, x)' => x \notin suppressed'[p]
    BY <1>0, <1>1, <1>5 DEF FrameTold, OnlyAt
  <2>2. \A j \in remote'[p].snap :
            tracked'[p][j.path] = None /\ j.metadata = EntryThen(p, j.path)'
    BY <1>0, <1>4, <1>8, <1>9 DEF FrameTold, PreviewFixed
  <2>3. CASE remote'[p].pc = "pick"
    BY <2>1, <2>2, <2>3 DEF FrameTold
  <2>4. CASE remote'[p].pc = "read"
    <3>1. X(p)' = z /\ M(p)' = i.metadata /\ remote'[p].tr = None /\ ~DeletionIgnored(p, i)
        BY <1>4, <1>6, <2>4 DEF X, M
    <3>2. M(p)' = EntryThen(p, X(p))' /\ tracked'[p][X(p)'] = None
        BY <1>6, <1>8, <1>9, <3>1 DEF PreviewFixed
    <3>3. M(p)'.kind = "tombstone" => policy'[p] # "remote-wins"
        BY <1>1, <1>6, <1>9, <3>1 DEF DeletionIgnored
    <3> QED
        BY <2>1, <2>2, <2>4, <3>1, <3>2, <3>3 DEF FrameTold
  <2> QED
    BY <1>4, <2>3, <2>4
<1>13. Counted(p)'
  <2>1. Uncompared(p, z)' \/ z \notin Affected(p)
    <3>1. z \in Affected(p) <=> Clashes(p, z) \/ (Deleted(p, z) /\ policy[p] # "remote-wins")
        BY <1>0, <1>5, AffectedPaths
    <3> QED
        BY <1>4, <1>5, <1>10, <3>1 DEF Clashes
  <2> HIDE DEF z
  <2> QED
    BY <1>0, <1>1, <1>2, <1>5, <2>1, CountStep
<1> QED
    BY <1>11, <1>12, <1>13 DEF Told

\* The local queue has run dry, or a download is recorded: on to the next entry.
LEMMA NextTold ==
    ASSUME TypeInv, Sound, NEW p \in Peer, NotYetJoined(p), Told(p),
           phase[p] \in {"reconcile", "listing"},
           LocalYielded(p) \/ RecordDownload(p), KeepPreviews, CountAffected
    PROVE  Told(p)'
<1> DEFINE z == X(p)
<1>0. /\ JoinFrames(p) /\ ScanKept(p) /\ Asked(p) /\ FolderTold(p) /\ ViewTold(p)
      /\ FrameTold(p) /\ ListTold(p) /\ Counted(p)
    BY DEF NotYetJoined, Told
<1>1. /\ UNCHANGED <<manifestVars, folderVars, suppressed, local, owed, startVars>>
      /\ phase[p] = "reconcile"
    BY <1>0, ScanShape DEF Compares
<1>2. /\ remote[p].pc \in {"await", "record"}
      /\ remote'[p].pc = "pick" /\ remote'[p].snap = remote[p].snap
      /\ \A x \in AllPath \ {z} : tracked'[p][x] = tracked[p][x]
  <2>1. remote[p].pc \in {"await", "record"} /\ remote'[p] = NextEntry(p)
    BY JoinPeers DEF LocalYielded, RecordDownload, Doing, Turns
  <2>2. \A x \in AllPath \ {z} : tracked'[p][x] = tracked[p][x]
    BY JoinPeers DEF LocalYielded, RecordDownload
  <2> QED
    BY <2>1, <2>2 DEF NextEntry, IdleRemote
<1>3. preview'[p] = preview[p] /\ affected'[p] = affected[p] /\ PreviewFixed(p)
    BY <1>1, <1>2, PreviewStays, FixedPreview
<1>4. z \in AllPath /\ ~OwnCopy(p, z)
    BY <1>1, <1>2, ReadTold
<1>5. /\ OnlyAt(p, z)
      /\ ~Uncompared(p, z) /\ ~Uncopied(p, z) /\ (Unwritten(p, z) <=> remote[p].pc = "await")
      /\ \A x : x = z => ~Uncompared(p, x)' /\ ~Uncopied(p, x)' /\ ~Unwritten(p, x)'
  <2> HIDE DEF z
  <2> QED
    BY <1>0, <1>2, <1>4, HeldStages DEF z
<1>6. remote[p].pc = "await" => Yields(p, z) /\ Uploaded(p, z, FileThen(p, z))
  <2>1. remote[p].pc = "await" => queue[p] = <<>> /\ local[p].pc = "idle"
    BY DEF LocalYielded, RecordDownload, Doing
  <2> QED
    BY <1>0, <2>1 DEF FrameTold
<1>7. Yields(p, z) => Outcome(p, z) = FileThen(p, z)
    BY DEF Yields, Clashes, Outcome, IsFile, IsTombstone
<1>8. ASSUME NEW x, x = z
      PROVE  FileTold(p, x)'
    BY <1>0, <1>1, <1>3, <1>4, <1>5, <1>6, <1>7, <1>8 DEF FolderTold, FileTold, PreviewFixed
<1>9. ASSUME NEW y \in Copies, y.by = p, y.of = z
      PROVE  CopyTold(p, y)'
    BY <1>0, <1>1, <1>3, <1>5, <1>9 DEF FolderTold, CopyTold, PreviewFixed
<1>10. Asked(p)' /\ FolderTold(p)' /\ ViewTold(p)' /\ ListTold(p)'
  <2>1. Yields(p, z) => ~Unwritten(p, z) \/ Uploaded(p, z, FileThen(p, z))
    BY <1>2, <1>5, <1>6
  <2> HIDE DEF z
  <2> QED
    BY <1>0, <1>1, <1>3, <1>4, <1>5, <1>8, <1>9, <2>1, ScanTold
<1>11. FrameTold(p)'
  <2>1. \A x \in AllPath : Unwritten(p, x)' => x \notin suppressed'[p]
    BY <1>0, <1>1, <1>5 DEF FrameTold, OnlyAt
  <2>2. \A i \in remote[p].snap : i.path \in AllPath \ {z}
    BY <1>0, <1>2, SnapTypes DEF ScanKept, Held
  <2>3. \A i \in remote'[p].snap :
            tracked'[p][i.path] = None /\ i.metadata = EntryThen(p, i.path)'
    BY <1>0, <1>2, <1>3, <2>2 DEF FrameTold, PreviewFixed
  <2> QED
    BY <1>2, <2>1, <2>3 DEF FrameTold
<1>12. Counted(p)'
  <2> HIDE DEF z
  <2>1. \A x : x = z => (Uncompared(p, x)' <=> Uncompared(p, x))
    BY <1>5
  <2> QED
    BY <1>0, <1>1, <1>3, <1>4, <1>5, <2>1, CountStep
<1> QED
    BY <1>10, <1>11, <1>12 DEF Told

\* A copy is saved, an entry applied, or a file deleted, as announced.
LEMMA WriteTold ==
    ASSUME TypeInv, Sound, NEW p \in Peer, NotYetJoined(p), Told(p),
           phase[p] \in {"reconcile", "listing"}, Writes(p), KeepPreviews, CountAffected
    PROVE  Told(p)'
<1>0. /\ JoinFrames(p) /\ ScanKept(p) /\ Asked(p) /\ FolderTold(p) /\ ViewTold(p)
      /\ FrameTold(p) /\ ListTold(p) /\ Counted(p)
    BY DEF NotYetJoined, Told
<1>1. /\ UNCHANGED <<manifestVars, tracked, localVars, owed, startVars>>
      /\ phase[p] = "reconcile" /\ X(p) \in AllPath
      /\ remote'[p].snap = remote[p].snap
      /\ remote'[p].pc # "pick" => remote'[p].tr = remote[p].tr
      /\ Saves(p) \/ Applies(p)
    BY <1>0, WriteShape
<1>2. PICK z \in AllPath : z = X(p)
    BY <1>1
<1>3. /\ ~OwnCopy(p, z) /\ M(p) = EntryThen(p, z) /\ M(p) \in UserManifestValue
      /\ remote[p].pc \in {"copy", "fetch", "delete"} /\ remote[p].tr = None
      /\ disk[p][z] = FileThen(p, z)
    BY <1>1, <1>2, ReadTold DEF Saves, Applies
<1>4. /\ remote'[p].pc \in {"pick", "fetch", "delete", "record"}
      /\ remote'[p].pc # "pick" => remote'[p].item = remote[p].item
      /\ remote[p].pc = "copy" => remote'[p].pc \in {"fetch", "delete"}
      /\ remote[p].pc = "fetch" => remote'[p].pc = "record"
      /\ remote[p].pc = "delete" => remote'[p].pc = "pick"
    BY <1>1, <1>3 DEF Saves, Applies
<1>5. preview'[p] = preview[p] /\ affected'[p] = affected[p] /\ PreviewFixed(p)
    BY <1>1, <1>3, PreviewStays, FixedPreview
<1>6. /\ OnlyAt(p, z)
      /\ ~Uncompared(p, z) /\ ~Uncompared(p, z)'
      /\ Uncopied(p, z) <=> remote[p].pc = "copy"
      /\ ~Uncopied(p, z)'
      /\ Unwritten(p, z)
      /\ Unwritten(p, z)' <=> remote[p].pc = "copy"
    BY <1>0, <1>1, <1>2, <1>3, <1>4, HeldStages
<1>7. /\ Counted(p)'
      /\ \A i \in remote'[p].snap :
            tracked'[p][i.path] = None /\ i.metadata = EntryThen(p, i.path)'
      /\ remote'[p].pc # "pick" =>
            /\ X(p)' = z /\ M(p)' = M(p) /\ remote'[p].tr = None
            /\ M(p)' = EntryThen(p, X(p))' /\ tracked'[p][X(p)'] = None
  <2>1. Counted(p)'
    BY <1>0, <1>1, <1>5, <1>6, CountStep
  <2>2. \A i \in remote'[p].snap :
            tracked'[p][i.path] = None /\ i.metadata = EntryThen(p, i.path)'
    BY <1>0, <1>1, <1>5 DEF FrameTold, PreviewFixed
  <2>3. tracked[p][z] = None
    BY <1>0, <1>2, <1>3 DEF FrameTold
  <2>4. remote'[p].pc # "pick" => X(p)' = z /\ M(p)' = M(p)
    BY <1>2, <1>4 DEF X, M
  <2> QED
    BY <1>1, <1>3, <1>5, <2>1, <2>2, <2>3, <2>4 DEF PreviewFixed
<1>8. CASE Saves(p)
  <2>1. remote[p].pc = "copy" /\ z \in Path
    BY <1>2, <1>8 DEF Saves
  <2>2. PICK c \in CopiesOf(p, z) :
            /\ c.kind = IF M(p).kind = "tombstone" THEN "tombstone" ELSE "conflict"
            /\ disk' = [disk EXCEPT ![p][c] = C(p)]
            /\ suppressed' = [suppressed EXCEPT ![p] = @ \cup {c}]
    BY <1>2, <1>8 DEF Saves
  <2>3. c \in Copies /\ c \in AllPath /\ c # z /\ c.by = p /\ c.of = z
    BY <2>1, <2>2, CopyPlaces
  <2>4. /\ disk'[p][c] = FileThen(p, z)
        /\ \A x \in AllPath \ {c} : disk'[p][x] = disk[p][x]
        /\ suppressed'[p] = suppressed[p] \cup {c}
    BY <1>2, <1>3, <2>2, <2>3, JoinPeers, MorePeers DEF C
  <2>5. \A y \in Copies : y \in AllPath
    BY DEF AllPath
  <2>6. ToCopy(p, c) /\ (\A y \in Copies : y.by = p /\ y.of = z /\ ToCopy(p, y) => y = c)
    <3>1. ToCopy(p, CopyPath(z, p, c.kind)) /\ c = CopyPath(z, p, c.kind)
        BY <1>0, <1>2, <2>1, <2>2, <2>3 DEF FrameTold, Copies, CopyPath
    <3>2. ASSUME NEW y \in Copies, y.by = p, y.of = z, ToCopy(p, y)
          PROVE  y = c
      <4>1. y.kind = c.kind
        BY <1>3, <2>2, <3>2, EntryKinds DEF ToCopy, Clashes, Deleted
      <4> QED
        BY <2>3, <3>2, <4>1 DEF Copies
    <3> QED
        BY <3>1, <3>2
  <2>7. FileTold(p, z)'
    BY <1>3, <1>5, <1>6, <2>1, <2>3, <2>4 DEF FileTold, PreviewFixed
  <2>8. ASSUME NEW y \in Copies, y.by = p, y.of = z
        PROVE  CopyTold(p, y)'
    <3>1. CASE y = c
        BY <1>5, <1>6, <2>3, <2>4, <2>6, <3>1 DEF CopyTold, PreviewFixed
    <3>2. CASE y # c
      <4>1. disk'[p][y] = disk[p][y] /\ ~ToCopy(p, y)
        BY <2>4, <2>5, <2>6, <2>8, <3>2
      <4> QED
        BY <1>0, <1>5, <2>8, <4>1 DEF FolderTold, CopyTold, PreviewFixed
    <3> QED
        BY <3>1, <3>2
  <2>9. \A x \in AllPath \ {z} : ~OwnCopy(p, x) => disk'[p][x] = disk[p][x]
    BY <2>3, <2>4 DEF OwnCopy
  <2>10. \A y \in Copies : y.by = p /\ y.of # z => disk'[p][y] = disk[p][y]
    BY <2>3, <2>4, <2>5
  <2>11. Asked(p)' /\ FolderTold(p)' /\ ViewTold(p)' /\ ListTold(p)'
    BY <1>0, <1>1, <1>3, <1>5, <1>6, <2>1, <2>7, <2>8, <2>9, <2>10, ScanTold
  <2>12. \A x \in AllPath : Unwritten(p, x)' => x \notin suppressed'[p]
    <3>1. \A x \in AllPath : Unwritten(p, x)' => Unwritten(p, x)
        BY <1>6 DEF OnlyAt
    <3>2. ~Waits(p, c) /\ ~Held(p, c)
      <4>1. ASSUME NEW i \in remote[p].snap
            PROVE  i.path # c
        <5>1. EntryThen(p, c) = None /\ i.metadata # None
            BY <1>0, <2>3, SnapTypes DEF Asked
        <5> QED
            BY <1>0, <5>1 DEF FrameTold
      <4> QED
        BY <1>2, <2>3, <4>1 DEF Waits, Held
    <3> QED
        BY <1>0, <2>4, <3>1, <3>2 DEF FrameTold, Unwritten
  <2>13. FrameTold(p)'
    <3>1. remote'[p].pc = IF M(p).kind = "tombstone" THEN "delete" ELSE "fetch"
        BY <1>8 DEF Saves
    <3>2. remote'[p].pc = "fetch" => IsFile(EntryThen(p, z)) /\ ~Yields(p, z)
        BY <2>2, <2>3, <2>6, <3>1 DEF ToCopy, Clashes, Yields
    <3>3. remote'[p].pc = "delete" => Deleted(p, z) /\ policy[p] # "remote-wins"
        BY <2>2, <2>3, <2>6, <3>1 DEF ToCopy
    <3>4. /\ remote'[p].pc = "fetch" => IsFile(EntryThen(p, X(p)))' /\ ~Yields(p, X(p))'
          /\ remote'[p].pc = "delete" => Deleted(p, X(p))' /\ policy'[p] # "remote-wins"
        BY <1>1, <1>5, <1>7, <3>1, <3>2, <3>3 DEF PreviewFixed
    <3> QED
        BY <1>7, <2>12, <3>1, <3>4 DEF FrameTold
  <2> QED
    BY <1>7, <2>11, <2>13 DEF Told
<1>9. CASE Applies(p)
  <2>1. PICK d :
            /\ disk' = [disk EXCEPT ![p][z] = d]
            /\ \/ remote[p].pc = "fetch" /\ d = M(p).hash
               \/ remote[p].pc = "delete" /\ d = None
    BY <1>2, <1>9 DEF Applies
  <2>2. /\ disk'[p][z] = d
        /\ \A x \in AllPath \ {z} : disk'[p][x] = disk[p][x]
        /\ suppressed'[p] = suppressed[p] \cup {z}
    BY <1>2, <1>9, <2>1, JoinPeers, MorePeers DEF Applies
  <2>3. d = Outcome(p, z)
    <3>1. remote[p].pc = "fetch" => IsFile(EntryThen(p, z)) /\ ~Yields(p, z)
        BY <1>0, <1>2 DEF FrameTold
    <3>2. remote[p].pc = "delete" => Deleted(p, z) /\ policy[p] # "remote-wins"
        BY <1>0, <1>2 DEF FrameTold
    <3> QED
        BY <1>3, <2>1, <3>1, <3>2, EntryKinds DEF Outcome, Deleted
  <2>4. FileTold(p, z)'
    BY <1>5, <1>6, <2>1, <2>2, <2>3 DEF FileTold, PreviewFixed
  <2>5. \A y \in Copies : y.by = p => disk'[p][y] = disk[p][y]
    BY <1>3, <2>2 DEF OwnCopy, AllPath
  <2>6. ASSUME NEW y \in Copies, y.by = p, y.of = z
        PROVE  CopyTold(p, y)'
    BY <1>0, <1>5, <1>6, <2>1, <2>5, <2>6 DEF FolderTold, CopyTold, PreviewFixed
  <2>7. ~Yields(p, z)
    BY <1>0, <1>2, <2>1 DEF FrameTold, Yields, Clashes, Deleted, IsFile, IsTombstone
  <2>8. Asked(p)' /\ FolderTold(p)' /\ ViewTold(p)' /\ ListTold(p)'
    BY <1>0, <1>1, <1>3, <1>5, <1>6, <2>2, <2>4, <2>5, <2>6, <2>7, ScanTold
  <2>9. \A x \in AllPath : Unwritten(p, x)' => x \notin suppressed'[p]
    BY <1>0, <1>6, <2>1, <2>2 DEF FrameTold, OnlyAt
  <2>10. FrameTold(p)'
    <3>1. remote'[p].pc \in {"pick", "record"}
        BY <1>4, <2>1
    <3>2. remote'[p].pc = "record" => IsFile(EntryThen(p, X(p)))' /\ ~Yields(p, X(p))'
      <4>1. remote'[p].pc = "record" => remote[p].pc = "fetch"
        BY <1>4, <2>1
      <4>2. remote[p].pc = "fetch" => IsFile(EntryThen(p, z)) /\ ~Yields(p, z)
        BY <1>0, <1>2 DEF FrameTold
      <4> QED
        BY <1>5, <1>7, <4>1, <4>2 DEF PreviewFixed
    <3> QED
        BY <1>7, <2>9, <3>1, <3>2 DEF FrameTold
  <2> QED
    BY <1>7, <2>8, <2>10 DEF Told
<1> QED
    BY <1>1, <1>8, <1>9

\* As long as the frame of the scan stays, so does what it has done.
LEMMA SameStages ==
    ASSUME NEW p \in Peer, remote'[p] = remote[p]
    PROVE  /\ \A x : Uncompared(p, x)' <=> Uncompared(p, x)
           /\ \A x : Uncopied(p, x)' <=> Uncopied(p, x)
           /\ \A x : Unwritten(p, x)' <=> Unwritten(p, x)
BY DEF Uncompared, Uncopied, Unwritten, Waits, Held, X

LEMMA SameFolder ==
    ASSUME NEW p \in Peer, Asked(p), FolderTold(p), Counted(p), remote'[p] = remote[p],
           disk'[p] = disk[p], PreviewFixed(p), policy'[p] = policy[p], affected'[p] = affected[p]
    PROVE  Asked(p)' /\ FolderTold(p)' /\ Counted(p)'
<1>1. Asked(p)' /\ FolderTold(p)'
    BY SameStages DEF PreviewFixed, Asked, FolderTold, FileTold, CopyTold
<1>2. Counted(p)'
    BY SameStages DEF PreviewFixed, Counted
<1> QED
    BY <1>1, <1>2

\* Under local-wins the scan waits for the file to be uploaded.
LEMMA YieldedTold ==
    ASSUME TypeInv, Sound, NEW p \in Peer, NotYetJoined(p), Told(p),
           phase[p] \in {"reconcile", "listing"}, LocalStep(p), remote[p].pc = "await",
           KeepPreviews, CountAffected
    PROVE  Told(p)'
<1>0. /\ JoinFrames(p) /\ ScanKept(p) /\ Asked(p) /\ FolderTold(p) /\ ViewTold(p)
      /\ FrameTold(p) /\ ListTold(p) /\ Counted(p)
    BY DEF NotYetJoined, Told
<1>1. /\ phase[p] = "reconcile" /\ UNCHANGED <<disk, remote, phase, policy>>
      /\ PublishFile(p) \/ view' = view
    <2>1. phase[p] = "reconcile"
        BY <1>0 DEF JoinFrames
    <2> QED
        BY <1>0, <2>1, LocalShape
<1>2. preview'[p] = preview[p] /\ affected'[p] = affected[p] /\ PreviewFixed(p)
    BY <1>1, PreviewStays, FixedPreview
<1>3. PICK z \in AllPath : z = X(p)
    BY JoinTypes
<1>4. /\ disk[p][z] = FileThen(p, z)
      /\ local[p].pc # "idle" => local[p].path = z
      /\ queue[p] # <<>> => Head(queue[p]).path = z /\ Head(queue[p]).type = "update"
      /\ local[p].pc \in {"lookup", "publish", "record"} => local[p].data = FileThen(p, z)
      /\ Yields(p, z) /\ FileThen(p, z) # None /\ EntryThen(p, z) # None
      /\ z \notin suppressed[p]
  <2>1. disk[p][z] = FileThen(p, z)
    BY <1>1, <1>3, ReadTold
  <2>2. /\ local[p].pc # "idle" => local[p].path = z
        /\ queue[p] # <<>> => Head(queue[p]).path = z
    BY <1>0, <1>3 DEF ScanKept
  <2>3. Yields(p, z) /\ Unwritten(p, z)
    BY <1>0, <1>3 DEF FrameTold, Unwritten, Held
  <2> QED
    BY <1>0, <2>1, <2>2, <2>3 DEF JoinFrames, Yields, Clashes, IsFile, FrameTold
<1>5. ~SuppressEvent(p) /\ suppressed' = suppressed
  <2>1. ~SuppressEvent(p)
    BY <1>4 DEF SuppressEvent, EventReady
  <2> QED
    BY <2>1 DEF LocalStep, TakeEvent, ReadLocalFile, SkipUnchanged, BaseOnManifest, PublishFile,
        RecordUpload, FindDeleted, PublishTombstone, ForgetDeleted
<1>6. /\ \A x \in AllPath \ {z} : view'[p][x] = view[p][x]
      /\ PublishFile(p) => Uploaded(p, z, FileThen(p, z))'
  <2>1. CASE PublishFile(p)
    <3>1. local[p].path = z /\ local[p].data = FileThen(p, z)
        BY <1>4, <2>1 DEF PublishFile, At
    <3>2. PICK e :
            /\ view' = [view EXCEPT ![p][z] = e]
            /\ e.writerKey = p /\ e # None /\ e.kind = "file" /\ e.hash = FileThen(p, z)
        BY <2>1, <3>1, PublishesLater
    <3>3. view'[p][z] = e /\ \A x \in AllPath \ {z} : view'[p][x] = view[p][x]
        BY <3>2, JoinPeers
    <3> QED
        BY <1>2, <3>2, <3>3 DEF Uploaded, Own, IsFile, PreviewFixed
  <2> QED
    BY <1>1, <2>1
<1>7. Asked(p)' /\ FolderTold(p)' /\ Counted(p)'
    BY <1>0, <1>1, <1>2, SameFolder
<1>8. ViewTold(p)'
  <2> SUFFICES ASSUME NEW x \in AllPath
               PROVE  IF Yields(p, x)
                      THEN \/ view'[p][x] = EntryThen(p, x) /\ Unwritten(p, x)'
                           \/ Uploaded(p, x, FileThen(p, x))'
                      ELSE view'[p][x] = EntryThen(p, x)
    BY <1>2 DEF ViewTold, PreviewFixed
  <2>1. CASE x # z
    BY <1>0, <1>1, <1>2, <1>6, <2>1, SameStages DEF ViewTold, Uploaded, Own, PreviewFixed
  <2>2. CASE x = z
    BY <1>0, <1>1, <1>2, <1>4, <1>6, <2>2, SameStages DEF ViewTold, Uploaded, Own, PreviewFixed
  <2> QED
    BY <2>1, <2>2
<1>9. FrameTold(p)'
  <2>1. \A i \in remote[p].snap : i.path \in AllPath \ {z}
    BY <1>0, <1>3, SnapTypes DEF ScanKept, Held
  <2>2. \A x \in AllPath \ {z} : tracked'[p][x] = tracked[p][x]
    BY <1>0, <1>4, JoinLocal, JoinPeers
  <2>3. /\ \A i \in remote'[p].snap :
            tracked'[p][i.path] = None /\ i.metadata = EntryThen(p, i.path)'
        /\ \A x \in AllPath : Unwritten(p, x)' => x \notin suppressed'[p]
    BY <1>0, <1>1, <1>2, <1>5, <2>1, <2>2, SameStages DEF FrameTold, PreviewFixed
  <2>4. /\ X(p)' = z /\ M(p)' = EntryThen(p, X(p))' /\ remote'[p].tr = None
        /\ Yields(p, X(p))'
    BY <1>0, <1>1, <1>2, <1>3, <1>4 DEF FrameTold, PreviewFixed, X, M
  <2>5. \/ queue'[p] # <<>> \/ local'[p].pc \in {"read", "lookup", "publish"}
        \/ Uploaded(p, z, FileThen(p, z))'
    <3>1. \/ queue[p] # <<>> \/ local[p].pc \in {"read", "lookup", "publish"}
          \/ Uploaded(p, z, FileThen(p, z))
        BY <1>0, <1>3 DEF FrameTold
    <3>2. ~PublishFile(p) =>
            (Uploaded(p, z, FileThen(p, z))' <=> Uploaded(p, z, FileThen(p, z)))
        BY <1>1, <1>2 DEF Uploaded, Own, PreviewFixed
    <3>3. CASE TakeEvent(p)
        BY <1>4, <3>3, JoinPeers DEF TakeEvent, EventReady, Becomes, IdleLocal
    <3>4. CASE ReadLocalFile(p)
      <4>1. local'[p] = [local[p] EXCEPT !.pc = "lookup", !.data = disk[p][z]]
        BY <1>4, <3>4, JoinPeers DEF ReadLocalFile, Becomes, At
      <4> QED
        BY <4>1, JoinTypes DEF LocalFrame
    <3>5. CASE SkipUnchanged(p)
      <4>1. IsFile(view[p][z]) /\ view[p][z].hash = FileThen(p, z)
        BY <1>4, <3>5 DEF SkipUnchanged, SameAsManifest, LookedUp, At
      <4>2. Uploaded(p, z, FileThen(p, z))
        BY <1>0, <1>4, <4>1 DEF ViewTold, Yields, Clashes
      <4>3. ~PublishFile(p)
        BY <3>5 DEF SkipUnchanged, PublishFile, At
      <4> QED
        BY <3>2, <4>2, <4>3
    <3>6. CASE BaseOnManifest(p)
      <4>1. PICK b : local'[p] = [local[p] EXCEPT !.pc = "publish", !.base = b]
        BY <3>6, JoinPeers DEF BaseOnManifest, Becomes
      <4> QED
        BY <4>1, JoinTypes DEF LocalFrame
    <3>7. CASE PublishFile(p)
        BY <1>6, <3>7
    <3>8. CASE RecordUpload(p)
      <4>1. local[p].pc = "record" /\ queue' = queue /\ ~PublishFile(p)
        BY <3>8 DEF RecordUpload, PublishFile, At
      <4> QED
        BY <3>1, <3>2, <4>1
    <3>9. ~FindDeleted(p) /\ ~PublishTombstone(p) /\ ~ForgetDeleted(p)
        BY <1>0 DEF JoinFrames, FindDeleted, PublishTombstone, ForgetDeleted, At
    <3> QED
        BY <1>5, <3>3, <3>4, <3>5, <3>6, <3>7, <3>8, <3>9 DEF LocalStep
  <2>6. Uploaded(p, z, FileThen(p, z))' => Uploaded(p, X(p), FileThen(p, X(p)))'
    BY <2>4
  <2> QED
    BY <1>1, <2>3, <2>4, <2>5, <2>6 DEF FrameTold
<1>10. ListTold(p)'
    BY <1>0, <1>1, <1>2, <1>4, <1>6 DEF ListTold, PreviewFixed, Uploaded, Own
<1> QED
    BY <1>7, <1>8, <1>9, <1>10 DEF Told

\* Nothing is left to compare once the listing has begun.
LEMMA AllDone ==
    ASSUME NEW p \in Peer, remote[p].snap = {}, remote[p].pc \in {"idle", "pick"}
    PROVE  \A x : ~Uncompared(p, x) /\ ~Uncopied(p, x) /\ ~Unwritten(p, x)
BY DEF Uncompared, Uncopied, Unwritten, Waits, Held

LEMMA IdleTold ==
    ASSUME NEW p \in Peer, remote'[p].snap = {}, remote'[p].pc \in {"idle", "pick"}
    PROVE  /\ FrameTold(p)'
           /\ \A x : ~Uncompared(p, x)' /\ ~Uncopied(p, x)' /\ ~Unwritten(p, x)'
BY DEF FrameTold, Uncompared, Uncopied, Unwritten, Waits, Held

\* What the listing meets has been announced: only what no entry named is new.
LEMMA ListedTold ==
    ASSUME TypeInv, Sound, NEW p \in Peer, NotYetJoined(p), Told(p),
           phase[p] = "listing", NEW x \in AllPath, IsFile(EntryThen(p, x))
    PROVE  IsFile(view[p][x]) /\ view[p][x].hash = disk[p][x]
<1>1. remote[p].snap = {} /\ remote[p].pc = "idle"
    BY DEF NotYetJoined, ScanKept, IdleRemote
<1>2. ~OwnCopy(p, x)
    BY DEF Told, Asked, OwnCopy, IsFile
<1>3. disk[p][x] = Outcome(p, x) /\ ~Unwritten(p, x)
    BY <1>1, <1>2, AllDone DEF Told, FolderTold, FileTold
<1>4. CASE Yields(p, x)
    BY <1>3, <1>4 DEF Told, ViewTold, Uploaded, Outcome, Yields, Clashes, IsFile, IsTombstone
<1>5. CASE ~Yields(p, x)
    BY <1>3, <1>5 DEF Told, ViewTold, Outcome
<1> QED
    BY <1>4, <1>5

LEMMA ListingTold ==
    ASSUME TypeInv, Sound, NEW p \in Peer, NotYetJoined(p), Told(p),
           phase[p] = "listing", LocalStep(p), KeepPreviews, CountAffected
    PROVE  Told(p)'
<1>0. /\ JoinFrames(p) /\ ScanKept(p) /\ Asked(p) /\ FolderTold(p) /\ ViewTold(p)
      /\ FrameTold(p) /\ ListTold(p) /\ Counted(p)
    BY DEF NotYetJoined, Told
<1>1. /\ UNCHANGED <<disk, remote, phase, policy, listing>>
      /\ remote[p].snap = {} /\ remote[p].pc = "idle"
      /\ PublishFile(p) \/ view' = view
    BY <1>0, LocalShape DEF ScanKept, IdleRemote
<1>2. preview'[p] = preview[p] /\ affected'[p] = affected[p] /\ PreviewFixed(p)
    BY <1>1, PreviewStays, FixedPreview
<1>3. /\ Asked(p)' /\ FolderTold(p)' /\ Counted(p)' /\ FrameTold(p)'
  <2>1. FrameTold(p)'
    BY <1>1, IdleTold
  <2> QED
    BY <1>0, <1>1, <1>2, <2>1, SameFolder
<1>4. queue[p] = <<>> /\ ~SuppressEvent(p) /\ ~TakeEvent(p)
    BY <1>0, <1>1 DEF JoinFrames, SuppressEvent, TakeEvent, EventReady
<1>5. /\ ~FindDeleted(p) /\ ~PublishTombstone(p) /\ ~ForgetDeleted(p)
      /\ local[p].pc # "idle"
    BY <1>0, <1>1, <1>4, LocalShape DEF JoinFrames, FindDeleted, PublishTombstone, ForgetDeleted, At
<1>6. PICK z \in AllPath : z = local[p].path
    BY <1>5, JoinTypes
<1>7. /\ local[p].pc \in {"lookup", "publish", "record"} =>
            local[p].data = disk[p][z] /\ disk[p][z] # None
      /\ local[p].pc = "publish" => ~IsFile(EntryThen(p, z))
  <2>1. local[p].pc \in {"lookup", "publish", "record"} =>
            local[p].data = disk[p][z] /\ local[p].data \in Content
    BY <1>0, <1>6, JoinTypes DEF JoinFrames
  <2> QED
    BY <1>0, <1>6, <2>1, NoneAssumption DEF ListTold
<1>8. /\ \A x \in AllPath \ {z} : view'[p][x] = view[p][x]
      /\ PublishFile(p) => Uploaded(p, z, disk[p][z])' /\ ~IsFile(EntryThen(p, z))
  <2>1. CASE PublishFile(p)
    <3>1. local[p].pc = "publish" /\ local[p].data = disk[p][z]
        BY <1>7, <2>1 DEF PublishFile, At
    <3>2. PICK e :
            /\ view' = [view EXCEPT ![p][z] = e]
            /\ e.writerKey = p /\ e # None /\ e.kind = "file" /\ e.hash = disk[p][z]
        BY <1>6, <2>1, <3>1, PublishesLater
    <3>3. view'[p][z] = e /\ \A x \in AllPath \ {z} : view'[p][x] = view[p][x]
        BY <3>2, JoinPeers
    <3> QED
        BY <1>1, <1>7, <3>1, <3>2, <3>3 DEF Uploaded, Own, IsFile
  <2> QED
    BY <1>1, <2>1
<1>9. /\ \A x \in AllPath \ {z} : Uploaded(p, x, disk[p][x])' <=> Uploaded(p, x, disk[p][x])
      /\ ~PublishFile(p) =>
            \A x \in AllPath : Uploaded(p, x, disk[p][x])' <=> Uploaded(p, x, disk[p][x])
    BY <1>1, <1>8 DEF Uploaded, Own
<1>10. ViewTold(p)'
  <2> SUFFICES ASSUME NEW x \in AllPath
               PROVE  IF Yields(p, x)
                      THEN Uploaded(p, x, FileThen(p, x))'
                      ELSE IsFile(EntryThen(p, x)) => view'[p][x] = EntryThen(p, x)
    BY <1>1, <1>2 DEF ViewTold, PreviewFixed
  <2>1. IF Yields(p, x) THEN Uploaded(p, x, FileThen(p, x))
        ELSE IsFile(EntryThen(p, x)) => view[p][x] = EntryThen(p, x)
    BY <1>0, <1>1, AllDone DEF ViewTold
  <2>2. Yields(p, x) => IsFile(EntryThen(p, x))
    BY DEF Yields, Clashes
  <2>3. view'[p][x] = view[p][x] \/ ~IsFile(EntryThen(p, x))
    BY <1>1, <1>8
  <2> QED
    BY <1>2, <2>1, <2>2, <2>3 DEF Uploaded, Own, PreviewFixed
<1>11. ASSUME NEW x \in AllPath, ToPublish(p, x)
       PROVE  /\ view'[p][x] = EntryThen(p, x) \/ Uploaded(p, x, disk[p][x])'
              /\ disk[p][x] # None => ToList(p, x)' \/ Uploaded(p, x, disk[p][x])'
  <2>1. /\ view[p][x] = EntryThen(p, x) \/ Uploaded(p, x, disk[p][x])
        /\ disk[p][x] # None => ToList(p, x) \/ Uploaded(p, x, disk[p][x])
    BY <1>0, <1>11 DEF ListTold
  <2>2. CASE x # z
    <3>1. ToList(p, x) => x \in listing'[p]
        BY <1>1, <1>6, <2>2 DEF ToList
    <3> QED
        BY <1>8, <1>9, <2>1, <2>2, <3>1 DEF ToList
  <2>3. CASE x = z /\ PublishFile(p)
    BY <1>8, <2>3
  <2>4. CASE x = z /\ ~PublishFile(p)
    <3>1. view' = view /\ (Uploaded(p, x, disk[p][x])' <=> Uploaded(p, x, disk[p][x]))
        BY <1>1, <1>9, <2>4
    <3>2. CASE ReadLocalFile(p)
      <4>1. ASSUME disk[p][z] # None
            PROVE  local'[p].pc = "lookup" /\ local'[p].path = z
        <5>1. local'[p] = [local[p] EXCEPT !.pc = "lookup", !.data = disk[p][z]]
            BY <1>6, <3>2, <4>1, JoinPeers DEF ReadLocalFile, Becomes
        <5> QED
            BY <1>6, <5>1, JoinTypes DEF LocalFrame
      <4> QED
        BY <2>1, <2>4, <3>1, <4>1 DEF ToList
    <3>3. CASE SkipUnchanged(p)
      <4>1. IsFile(view[p][z])
        BY <1>6, <3>3 DEF SkipUnchanged, SameAsManifest, LookedUp
      <4> QED
        BY <1>11, <2>1, <2>4, <3>1, <4>1, NotClaimed
    <3>4. CASE BaseOnManifest(p)
      <4>1. PICK b : local'[p] = [local[p] EXCEPT !.pc = "publish", !.base = b]
        BY <3>4, JoinPeers DEF BaseOnManifest, Becomes
      <4>2. local'[p].pc = "publish" /\ local'[p].path = z
        BY <1>6, <4>1, JoinTypes DEF LocalFrame
      <4> QED
        BY <2>1, <2>4, <3>1, <4>2 DEF ToList
    <3>5. CASE RecordUpload(p)
      <4>1. ToList(p, x) => x \in listing'[p]
        BY <1>1, <3>5 DEF ToList, RecordUpload, At
      <4> QED
        BY <2>1, <3>1, <4>1 DEF ToList
    <3> QED
        BY <1>4, <1>5, <2>4, <3>2, <3>3, <3>4, <3>5 DEF LocalStep
  <2> QED
    BY <2>2, <2>3, <2>4
<1>12. local'[p].pc = "publish" => ~IsFile(EntryThen(p, local'[p].path))
  <2>1. CASE BaseOnManifest(p)
    <3>1. local[p].pc = "lookup" /\ ~(IsFile(view[p][z]) /\ view[p][z].hash = disk[p][z])
        BY <1>6, <1>7, <2>1 DEF BaseOnManifest, SameAsManifest, LookedUp, At
    <3>2. ~IsFile(EntryThen(p, z))
        BY <3>1, ListedTold
    <3>3. local'[p].path = z \/ local'[p].pc = "idle"
        BY <1>0, <1>4, <1>6, LocalPath
    <3> QED
        BY <3>2, <3>3
  <2>2. CASE ~BaseOnManifest(p)
    <3>1. CASE ReadLocalFile(p)
      <4>1. \/ local'[p] = IdleLocal
            \/ local'[p] = [local[p] EXCEPT !.pc = "lookup", !.data = disk[p][z]]
        BY <1>6, <3>1, JoinPeers DEF ReadLocalFile, Becomes
      <4>2. [local[p] EXCEPT !.pc = "lookup", !.data = disk[p][z]].pc = "lookup"
        BY JoinTypes DEF LocalFrame
      <4>3. IdleLocal.pc = "idle"
        BY DEF IdleLocal
      <4>4. local'[p].pc = "idle" \/ local'[p].pc = "lookup"
        BY <4>1, <4>2, <4>3
      <4> QED
        BY <4>4
    <3>2. CASE SkipUnchanged(p) \/ RecordUpload(p)
        BY <3>2, JoinPeers DEF SkipUnchanged, RecordUpload, Becomes, IdleLocal
    <3>3. CASE PublishFile(p)
        BY <1>0, <3>3, LocalShape
    <3> QED
        BY <1>4, <1>5, <2>2, <3>1, <3>2, <3>3 DEF LocalStep
  <2> QED
    BY <2>1, <2>2
<1>13. ListTold(p)'
  <2>1. local'[p].pc = "publish" => ~IsFile(EntryThen(p, local[p].path))'
    BY <1>2, <1>12 DEF PreviewFixed
  <2> QED
    BY <1>1, <1>2, <1>11, <2>1 DEF ListTold, PreviewFixed
<1> QED
    BY <1>3, <1>10, <1>13 DEF Told

\* The scan is over: what it leaves to the listing.
LEMMA BeginListingTold ==
    ASSUME TypeInv, Sound, NEW p \in Peer, NotYetJoined(p), Told(p), BeginListing(p),
           KeepPreviews, CountAffected
    PROVE  Told(p)'
<1>0. /\ JoinFrames(p) /\ Asked(p) /\ FolderTold(p) /\ ViewTold(p) /\ ListTold(p) /\ Counted(p)
    BY DEF NotYetJoined, Told
<1>1. /\ UNCHANGED <<view, disk, policy, local>>
      /\ phase[p] = "reconcile" /\ phase'[p] = "listing" /\ listing'[p] = OnDisk(p)
      /\ remote[p].pc = "pick" /\ remote[p].snap = {} /\ remote'[p] = IdleRemote
    BY JoinPeers DEF BeginListing, Enter, Turns, Doing
<1>2. preview'[p] = preview[p] /\ affected'[p] = affected[p]
    BY <1>1 DEF KeepPreviews, Outdated, CountAffected, MeetsPolicy, Differs, Comparing, Doing
<1>3. PreviewFixed(p)
    BY <1>1, <1>2, FixedPreview
<1>4. /\ FrameTold(p)'
      /\ \A x : ~Uncompared(p, x)' /\ ~Uncopied(p, x)' /\ ~Unwritten(p, x)'
      /\ \A x : ~Uncompared(p, x) /\ ~Uncopied(p, x) /\ ~Unwritten(p, x)
  <2>1. remote'[p].snap = {} /\ remote'[p].pc = "idle"
    BY <1>1 DEF IdleRemote
  <2> QED
    BY <1>1, <2>1, AllDone, IdleTold
<1>5. Asked(p)' /\ FolderTold(p)'
    BY <1>0, <1>1, <1>3, <1>4 DEF PreviewFixed, Asked, FolderTold, FileTold, CopyTold
<1>6. Counted(p)'
    BY <1>0, <1>2, <1>3, <1>4 DEF Counted, PreviewFixed
<1>7. ViewTold(p)'
    BY <1>0, <1>1, <1>3, <1>4 DEF ViewTold, Uploaded, Own, PreviewFixed
<1>8. ListTold(p)'
  <2>1. local[p].pc = "idle"
    BY <1>0, <1>1 DEF JoinFrames
  <2>2. ASSUME NEW x \in AllPath, ToPublish(p, x)
        PROVE  /\ view'[p][x] = EntryThen(p, x)
               /\ disk'[p][x] # None => ToList(p, x)'
    <3>1. view[p][x] = EntryThen(p, x)
        BY <1>0, <1>1, <2>2, NotClaimed DEF ViewTold
    <3>2. disk[p][x] # None => x \in OnDisk(p)
        BY DEF OnDisk
    <3> QED
        BY <1>1, <3>1, <3>2 DEF ToList
  <2> QED
    BY <1>1, <1>3, <2>1, <2>2 DEF ListTold, PreviewFixed
<1> QED
    BY <1>4, <1>5, <1>6, <1>7, <1>8 DEF Told

LEMMA ListPickTold ==
    ASSUME TypeInv, Sound, NEW p \in Peer, NotYetJoined(p), Told(p), ListPick(p),
           KeepPreviews, CountAffected
    PROVE  Told(p)'
<1>0. /\ ScanKept(p) /\ Asked(p) /\ FolderTold(p) /\ ViewTold(p) /\ ListTold(p) /\ Counted(p)
    BY DEF NotYetJoined, Told
<1>1. PICK z \in listing[p] :
            /\ listing' = [listing EXCEPT ![p] = @ \ {z}]
            /\ local'[p] = [IdleLocal EXCEPT !.pc = "read", !.path = z]
    BY JoinPeers DEF ListPick, Becomes
<1>2. /\ UNCHANGED <<view, disk, policy, remote, phase>> /\ phase[p] = "listing"
      /\ local[p].pc = "idle" /\ local'[p].pc = "read" /\ local'[p].path = z
      /\ listing'[p] = listing[p] \ {z}
    BY <1>1, JoinPeers DEF ListPick, IdleLocal
<1>3. preview'[p] = preview[p] /\ affected'[p] = affected[p] /\ PreviewFixed(p)
    BY <1>2, PreviewStays, FixedPreview
<1>4. remote'[p].snap = {} /\ remote'[p].pc = "idle"
    BY <1>0, <1>2 DEF ScanKept, IdleRemote
<1>5. Asked(p)' /\ FolderTold(p)' /\ Counted(p)' /\ FrameTold(p)'
    BY <1>0, <1>2, <1>3, <1>4, SameFolder, IdleTold
<1>6. ViewTold(p)'
    BY <1>0, <1>2, <1>3, SameStages DEF ViewTold, Uploaded, Own, PreviewFixed
<1>7. ListTold(p)'
  <2>1. \A x : ToList(p, x) => ToList(p, x)'
    BY <1>2 DEF ToList
  <2> QED
    BY <1>0, <1>2, <1>3, <2>1 DEF ListTold, PreviewFixed, Uploaded, Own
<1> QED
    BY <1>5, <1>6, <1>7 DEF Told

\* A session that starts with the preview still true.
LEMMA StartTold ==
    ASSUME TypeInv, Sound, NEW p \in Peer, NotYetJoined(p), tracked[p] = NoFiles, Start(p),
           KeepPreviews, CountAffected, preview'[p] # None
    PROVE  Told(p)'
<1>0. /\ JoinFrames(p) /\ FolderKept(p) /\ OwnTracked(p) /\ CopiesUnpublished(p)
      /\ phase[p] \in {"down", "ready"} => suppressed[p] = {}
    BY DEF NotYetJoined
<1>1. /\ UNCHANGED <<view, disk, policy, local, tracked, suppressed>>
      /\ phase[p] = "ready" /\ phase'[p] = "reconcile" /\ remote'[p] = Begun(p)
    BY JoinPeers DEF Start, Enter, Turns
<1>2. /\ preview'[p] = Listing(p) /\ affected'[p] = 0
    BY <1>1 DEF KeepPreviews, Outdated, CountAffected
<1>3. /\ local[p].pc = "idle" /\ remote[p].pc = "idle" /\ suppressed[p] = {}
      /\ \A x \in AllPath : tracked[p][x] = None
    BY <1>0, <1>1 DEF JoinFrames, NoFiles
<1>4. \A x : FileThen(p, x)' = disk[p][x] /\ EntryThen(p, x)' = view[p][x]
    BY <1>2 DEF FileThen, EntryThen, Listing
<1>5. \A x \in AllPath : ~Own(p, x)
    BY <1>0, <1>3 DEF OwnTracked
<1>6. /\ remote'[p].pc = "pick"
      /\ \A x \in AllPath : Waits(p, x)' <=> view[p][x] # None
      /\ \A i \in remote'[p].snap : i.path \in AllPath /\ i.metadata = view[p][i.path]
      /\ \A x : ~Held(p, x)'
  <2>1. remote'[p].pc = "pick" /\ remote'[p].snap = List(p)
    BY <1>1 DEF Begun, IdleRemote
  <2>2. \A i \in List(p) : i.path \in AllPath /\ i.metadata = view[p][i.path]
    BY DEF List
  <2>3. ASSUME NEW x \in AllPath
        PROVE  (\E i \in List(p) : i.path = x) <=> view[p][x] # None
    <3>1. ASSUME view[p][x] # None
          PROVE  \E i \in List(p) : i.path = x
      <4> DEFINE i == [path |-> x, metadata |-> view[p][x]]
      <4>1. i \in List(p) /\ i.path = x
        BY <1>5, <3>1 DEF List, Own
      <4> QED
        BY <4>1
    <3>2. ASSUME NEW i \in List(p), i.path = x
          PROVE  view[p][x] # None
        BY <3>2 DEF List
    <3> QED
        BY <3>1, <3>2
  <2> QED
    BY <2>1, <2>2, <2>3 DEF Waits, Held
<1>7. \A x \in AllPath :
            /\ Uncompared(p, x)' <=> view[p][x] # None
            /\ Uncopied(p, x)' <=> view[p][x] # None
            /\ Unwritten(p, x)' <=> view[p][x] # None
    BY <1>6 DEF Uncompared, Uncopied, Unwritten
<1>8. Asked(p)'
  <2>1. ASSUME NEW x \in AllPath
        PROVE  /\ disk[p][x] \in Content \cup {None}
               /\ view[p][x] \in UserManifestValue \cup {None}
               /\ view[p][x] # None => view[p][x].writerKey # p
    BY <1>5, JoinPeers DEF Own
  <2>2. ASSUME NEW y \in Copies
        PROVE  IF y.by = p THEN view[p][y] = None ELSE disk[p][y] = None
    <3>1. y \in AllPath
        BY DEF AllPath
    <3>2. y.by = p => log[y] = {}
        BY <1>0, <1>1 DEF CopiesUnpublished
    <3> QED
        BY <1>0, <1>3, <3>1, <3>2 DEF FolderKept, Recording, Sound, ViewLogged
  <2>3. ASSUME NEW x \in Path, NEW y \in CopiesOf(p, x), disk[p][y] # None
        PROVE  disk[p][x] \in {disk[p][y], None}
    BY <1>0, <1>3, <2>3 DEF FolderKept, Recording, AllPath
  <2> QED
    BY <1>4, <2>1, <2>2, <2>3 DEF Asked
<1>9. FolderTold(p)'
  <2>1. ASSUME NEW x \in AllPath
        PROVE  FileTold(p, x)'
    BY <1>1, <1>4, <1>7 DEF FileTold, Outcome, IsFile, IsTombstone
  <2>2. ASSUME NEW y \in Copies
        PROVE  CopyTold(p, y)'
    <3>1. y.of \in AllPath
        BY DEF Copies, AllPath
    <3>2. view[p][y.of] = None => ~ToCopy(p, y)'
        BY <1>4 DEF ToCopy, Clashes, Deleted, IsFile, IsTombstone
    <3> QED
        BY <1>1, <1>4, <1>7, <3>1, <3>2 DEF CopyTold
  <2> QED
    BY <2>1, <2>2 DEF FolderTold
<1>10. ViewTold(p)'
    BY <1>1, <1>4, <1>7 DEF ViewTold, Yields, Clashes, IsFile
<1>11. FrameTold(p)'
    BY <1>1, <1>3, <1>4, <1>6 DEF FrameTold
<1>12. ListTold(p)'
    BY <1>1, <1>4 DEF ListTold
<1>13. Counted(p)'
  <2>1. {x \in Affected(p)' : ~Uncompared(p, x)'} = {}
    <3>1. ASSUME NEW x \in Affected(p)'
          PROVE  x \in AllPath /\ EntryThen(p, x)' # None
        BY DEF Affected, FileConflicts, TombstoneConflicts, LocalFiles, EntryThen, IsFile,
            IsTombstone
    <3> QED
        BY <1>4, <1>7, <3>1
  <2> QED
    BY <1>2, <2>1, FS_EmptySet DEF Counted
<1> QED
    BY <1>8, <1>9, <1>10, <1>11, <1>12, <1>13 DEF Told

-----------------------------------------------------------------------------
(***************************************************************************)
(* The invariant of a joining peer, over whole steps.                      *)
(***************************************************************************)
Foretold(p) ==
    preview[p] # None =>
        /\ phase[p] # "down"
        /\ phase[p] = "ready" => tracked[p] = NoFiles
        /\ phase[p] \in {"reconcile", "listing"} => Told(p)

JoinerInv(p) == phase[p] = "live" \/ (NotYetJoined(p) /\ Foretold(p))

JoinInv ==
    /\ OwnSeen /\ CopiesPrivate /\ DOMAIN preview = Peer
    /\ \A p \in Joining : JoinerInv(p)

LEMMA RestingTold ==
    ASSUME NEW p \in Peer, Rests(p), Told(p), preview'[p] = preview[p],
           affected'[p] = affected[p]
    PROVE  Told(p)'
<1>1. PreviewFixed(p)
    BY FixedPreview DEF Rests
<1>2. Asked(p)' /\ FolderTold(p)' /\ Counted(p)'
    BY <1>1, SameFolder DEF Rests, Told
<1>3. ViewTold(p)'
    BY <1>1, SameStages DEF Rests, Told, ViewTold, Uploaded, Own, PreviewFixed
<1>4. FrameTold(p)'
  <2>1. X(p)' = X(p) /\ M(p)' = M(p)
    BY DEF Rests, X, M
  <2>2. \A x, c : Uploaded(p, x, c)' <=> Uploaded(p, x, c)
    BY DEF Rests, Uploaded, Own
  <2>3. \A x \in AllPath : Unwritten(p, x)' => x \notin suppressed'[p]
    BY SameStages DEF Rests, Told, FrameTold
  <2>4. \A i \in remote'[p].snap :
            tracked'[p][i.path] = None /\ i.metadata = EntryThen(p, i.path)'
    BY <1>1 DEF Rests, Told, FrameTold, PreviewFixed
  <2>5. FrameTold(p)
    BY DEF Told
  <2>6. remote'[p].pc \in {"idle", "pick"} => FrameTold(p)'
    BY <2>3, <2>4 DEF FrameTold
  <2>7. remote'[p].pc \notin {"idle", "pick"} => FrameTold(p)'
    BY <1>1, <2>1, <2>2, <2>3, <2>4, <2>5 DEF Rests, FrameTold, PreviewFixed
  <2> QED
    BY <2>6, <2>7
<1>5. ListTold(p)'
  <2>1. \A x : ToList(p, x)' <=> ToList(p, x)
    BY DEF Rests, ToList
  <2> QED
    BY <1>1, <2>1 DEF Rests, Told, ListTold, Uploaded, Own, PreviewFixed
<1> QED
    BY <1>2, <1>3, <1>4, <1>5 DEF Told

LEMMA ForetoldRests ==
    ASSUME NEW p \in Peer, Rests(p), Foretold(p), preview'[p] \in {preview[p], None},
           affected'[p] = affected[p]
    PROVE  Foretold(p)'
<1>1. CASE preview'[p] = None
    BY <1>1 DEF Foretold
<1>2. CASE preview'[p] = preview[p]
    BY <1>2, RestingTold DEF Foretold, Rests
<1> QED
    BY <1>1, <1>2

\* Its own steps do what was announced.
LEMMA ForetoldKept ==
    ASSUME TypeInv, Sound, SteadyStart, NEW p \in Peer, NotYetJoined(p), Foretold(p),
           LocalStep(p) \/ Compares(p) \/ Writes(p) \/ Advances(p), KeepPreviews, CountAffected
    PROVE  Foretold(p)'
<1> SUFFICES ASSUME preview'[p] # None
             PROVE  /\ phase'[p] # "down"
                    /\ phase'[p] = "ready" => tracked'[p] = NoFiles
                    /\ phase'[p] \in {"reconcile", "listing"} => Told(p)'
    BY DEF Foretold
<1>1. preview'[p] = preview[p] /\ phase'[p] # "down"
    BY DEF KeepPreviews, Outdated
<1>2. /\ JoinFrames(p) /\ phase[p] # "down"
      /\ phase[p] = "ready" => tracked[p] = NoFiles
      /\ phase[p] \in {"reconcile", "listing"} => Told(p)
    BY <1>1 DEF NotYetJoined, Foretold
<1>3. CASE LocalStep(p)
  <2>1. phase' = phase /\ (phase[p] = "listing" \/ remote[p].pc = "await")
    BY <1>2, <1>3, LocalShape
  <2>2. phase[p] \in {"reconcile", "listing"}
    BY <1>2, <2>1 DEF JoinFrames
  <2> QED
    BY <1>2, <1>3, <2>1, <2>2, YieldedTold, ListingTold
<1>4. CASE Compares(p)
  <2>1. phase' = phase /\ phase[p] = "reconcile" /\ Told(p)
    BY <1>2, <1>4, ScanShape
  <2>2. CASE remote[p].pc = "read"
    BY <1>4, <2>1, <2>2, ReadingTold
  <2>3. CASE remote[p].pc # "read"
    <3>1. ~ForgetRemote(p)
        BY <2>1 DEF Told, FrameTold, ForgetRemote, Doing
    <3>2. PickEntry(p) \/ LocalYielded(p) \/ RecordDownload(p)
        BY <1>4, <2>3, <3>1 DEF Compares, AlreadyInSync, NothingNew, StartDownload, YieldToLocal,
            StartConflict, StartPreserve, DeletionVoid, StartDelete, AlreadyDeleted, Differs,
            Comparing, Doing
    <3> QED
        BY <2>1, <3>2, PickTold, NextTold
  <2> QED
    BY <2>1, <2>2, <2>3
<1>5. CASE Writes(p)
  <2>1. phase' = phase /\ phase[p] = "reconcile"
    BY <1>2, <1>5, WriteShape
  <2> QED
    BY <1>2, <1>5, <2>1, WriteTold
<1>6. CASE Advances(p)
  <2>1. ~Ready(p) /\ ~StartFails(p)
    BY <1>1, <1>2, JoinPeers DEF Ready, Enter, StartFails, Reset
  <2>2. CASE Start(p)
    <3>1. phase[p] = "ready" /\ phase'[p] = "reconcile"
        BY <2>2, JoinPeers DEF Start, Enter
    <3> QED
        BY <1>2, <2>2, <3>1, StartTold
  <2>3. CASE BeginListing(p)
    <3>1. phase[p] = "reconcile" /\ phase'[p] = "listing"
        BY <2>3, JoinPeers DEF BeginListing, Enter
    <3> QED
        BY <1>2, <2>3, <3>1, BeginListingTold
  <2>4. CASE ListPick(p)
    <3>1. phase[p] = "listing" /\ phase' = phase
        BY <2>4 DEF ListPick
    <3> QED
        BY <1>2, <2>4, <3>1, ListPickTold
  <2>5. CASE \E q \in Peer : Replicate(p, q)
    <3>1. phase[p] \notin {"reconcile", "listing"} /\ phase' = phase /\ tracked' = tracked
        BY <2>5 DEF Replicate
    <3> QED
        BY <1>2, <3>1
  <2> QED
    BY <1>6, <2>1, <2>2, <2>3, <2>4, <2>5 DEF Advances
<1> QED
    BY <1>1, <1>3, <1>4, <1>5, <1>6

LEMMA LiveStays ==
    ASSUME TypeInv, MaxStops = 0, MaxCrashes = 0, Next, NEW p \in Peer, phase[p] = "live"
    PROVE  phase'[p] = "live"
<1>1. PICK q \in Peer : Moves(q) \/ Disturbs(q)
    BY NextMover
<1>2. CASE q # p
    BY <1>1, <1>2, OthersRest DEF OnlyMover, Rests
<1>3. CASE q = p
  <2>1. used.stops \in Nat /\ used.crashes \in Nat
    BY DEF TypeInv, TypeOK
  <2>2. ~Stop(p) /\ ~Crash(p)
    BY <2>1 DEF Stop, Crash, Spend
  <2>3. ~SessionStep(p) /\ ~Ready(p) /\ ~StartFails(p)
    BY DEF SessionStep, Start, BeginListing, ListPick, OpenWatcher, Stopped, Enter, Ready,
        StartFails
  <2>4. CASE UserWrite(p) \/ UserDelete(p) \/ Watch(p)
    BY <2>4 DEF UserWrite, UserDelete, UserEdit, Watch, WatchUpdate, WatchDelete, WatchNothing,
        Emit
  <2>5. CASE LocalStep(p)
    BY <2>5 DEF LocalStep, SuppressEvent, TakeEvent, ReadLocalFile, SkipUnchanged,
        BaseOnManifest, PublishFile, RecordUpload, FindDeleted, PublishTombstone, ForgetDeleted
  <2>6. CASE RemoteStep(p)
    BY <2>6 DEF RemoteStep, ScanBegin, PickEntry, AlreadyInSync, NothingNew, StartDownload,
        YieldToLocal, LocalYielded, StartConflict, StartPreserve, DeletionVoid, StartDelete,
        AlreadyDeleted, SaveConflictCopy, ApplyRemote, RecordDownload, DeleteLocal,
        ForgetRemote, ScanEnd
  <2>7. CASE ScanFails(p) \/ UnrelatedUpdate(p) \/ \E r \in Peer : Replicate(p, r)
    BY <2>7 DEF ScanFails, UnrelatedUpdate, Replicate
  <2> QED
    BY <1>1, <1>3, <2>2, <2>3, <2>4, <2>5, <2>6, <2>7 DEF Moves, Disturbs
<1> QED
    BY <1>2, <1>3

\* How a joining peer takes part in a step.
LEMMA JoinerTurn ==
    ASSUME TypeInv, NEW p \in Joining, p \notin Editors, MaxCrashes = 0, JoinFrames(p), Next
    PROVE  Rests(p) \/ LocalStep(p) \/ Compares(p) \/ Writes(p) \/ Advances(p) \/ OpenWatcher(p)
<1>1. PICK q \in Peer : Moves(q) \/ Disturbs(q)
    BY NextMover
<1>2. p \in Peer
    BY ConstantsAssumption
<1>3. CASE q = p
    BY <1>1, <1>3, JoinerMoves
<1>4. CASE q # p
    BY <1>1, <1>2, <1>4, OthersRest DEF OnlyMover
<1> QED
    BY <1>3, <1>4

LEMMA JoinInvKept ==
    ASSUME SteadyStart, Joining \cap Editors = {}, MaxStops = 0, MaxCrashes = 0,
           TypeInv, Sound, JoinInv, [JoinNext]_joinVars
    PROVE  JoinInv'
<1>0. \A p \in Joining : p \in Peer /\ p \notin Editors
    BY ConstantsAssumption
<1>1. CASE Next /\ KeepPreviews /\ CountAffected
  <2>1. OwnSeen' /\ CopiesPrivate' /\ DOMAIN preview' = Peer
    BY <1>1, OwnSeenKept, CopiesStayPrivate DEF JoinInv, KeepPreviews
  <2>2. ASSUME NEW p \in Joining
        PROVE  JoinerInv(p)'
    <3>1. CASE phase[p] = "live"
        BY <1>0, <1>1, <3>1, LiveStays DEF JoinerInv
    <3>2. CASE NotYetJoined(p) /\ Foretold(p)
      <4>1. JoinFrames(p) /\ p \in Peer
        BY <1>0, <3>2 DEF NotYetJoined
      <4>2. \/ Rests(p) \/ LocalStep(p) \/ Compares(p) \/ Writes(p) \/ Advances(p)
            \/ OpenWatcher(p)
        BY <1>0, <1>1, <4>1, JoinerTurn
      <4>3. CASE OpenWatcher(p)
        BY <4>1, <4>3, JoinPeers DEF OpenWatcher, Enter, JoinerInv
      <4>4. CASE Rests(p)
        <5>1. NotYetJoined(p)'
            BY <1>1, <3>2, <4>1, <4>4, OthersLeaveIt DEF JoinInv
        <5>2. preview'[p] \in {preview[p], None} /\ affected'[p] = affected[p]
            BY <1>1, <4>1, <4>4 DEF KeepPreviews, CountAffected, Rests
        <5> QED
            BY <3>2, <4>1, <4>4, <5>1, <5>2, ForetoldRests DEF JoinerInv
      <4>5. CASE LocalStep(p) \/ Compares(p) \/ Writes(p) \/ Advances(p)
        BY <1>1, <3>2, <4>1, <4>5, NotYetJoinedKept, ForetoldKept DEF JoinInv, JoinerInv
      <4> QED
        BY <4>2, <4>3, <4>4, <4>5
    <3> QED
        BY <3>1, <3>2 DEF JoinInv, JoinerInv
  <2> QED
    BY <2>1, <2>2 DEF JoinInv
<1>2. CASE UNCHANGED vars /\ affected' = affected /\ DOMAIN preview' = Peer
           /\ \A p \in Peer : preview'[p] = preview[p]
                \/ (phase[p] = "ready" /\ tracked[p] = NoFiles)
  <2>1. OwnSeen' /\ CopiesPrivate'
    BY <1>2 DEF JoinInv, OwnSeen, CopiesPrivate, NothingAt, vars
  <2>2. ASSUME NEW p \in Joining
        PROVE  JoinerInv(p)'
    <3>1. Rests(p) /\ p \in Peer
        BY <1>0, <1>2 DEF Rests, vars
    <3>2. CASE phase[p] = "live"
        BY <3>1, <3>2 DEF Rests, JoinerInv
    <3>3. CASE NotYetJoined(p) /\ Foretold(p)
      <4>1. NotYetJoined(p)'
        BY <1>2, <3>3 DEF vars, NotYetJoined, JoinFrames, FolderKept, OwnTracked, ScanKept,
            CopiesUnpublished, Recording, Own, Held, X, M, C
      <4>2. CASE preview'[p] = preview[p]
        BY <1>2, <3>1, <3>3, <4>1, <4>2, ForetoldRests DEF JoinerInv
      <4>3. CASE phase[p] = "ready" /\ tracked[p] = NoFiles
        BY <3>1, <4>1, <4>3 DEF Rests, Foretold, JoinerInv
      <4> QED
        BY <1>2, <3>1, <4>2, <4>3
    <3> QED
        BY <3>2, <3>3 DEF JoinInv, JoinerInv
  <2> QED
    BY <1>2, <2>1, <2>2 DEF JoinInv
<1>3. CASE \E p \in Peer : PrepareJoinPreview(p)
    BY <1>2, <1>3 DEF PrepareJoinPreview, JoinInv
<1>4. CASE UNCHANGED joinVars
    BY <1>2, <1>4 DEF joinVars, JoinInv
<1> QED
    BY <1>1, <1>3, <1>4 DEF JoinNext

LEMMA InitJoinInv ==
    ASSUME JoinInit
    PROVE  JoinInv
BY InitNotYetJoined, InitCopies, ConstantsAssumption
   DEF JoinInit, JoinInv, JoinerInv, Foretold

-----------------------------------------------------------------------------
(***************************************************************************)
(* What has been done when such a peer goes live.                          *)
(***************************************************************************)
LEMMA JoinInvariance ==
    ASSUME SteadyStart, Joining \cap Editors = {}, MaxStops = 0, MaxCrashes = 0
    PROVE  JoinSpec => [](TypeInv /\ Sound /\ JoinInv)
<1>1. JoinInit => TypeInv /\ Sound /\ JoinInv
    BY InitTypeInv, InitSound, InitJoinInv DEF JoinInit
<1>2. TypeInv /\ Sound /\ JoinInv /\ [JoinNext]_joinVars => (TypeInv /\ Sound /\ JoinInv)'
  <2>1. [JoinNext]_joinVars => [Next]_vars
    BY DEF JoinNext, joinVars, PrepareJoinPreview
  <2> QED
    BY <2>1, TypeInvKept, SoundKept, JoinInvKept
<1> QED
    BY <1>1, <1>2, PTL DEF JoinSpec

\* It opens its watcher with nothing left to compare or to upload.
LEMMA GoneLive ==
    ASSUME Joining \cap Editors = {}, MaxCrashes = 0, TypeInv, JoinInv, [JoinNext]_joinVars,
           NEW p \in Joining, GoesLive(p), preview[p] # None
    PROVE  /\ Told(p) /\ p \in Peer
           /\ \A x : ~Uncompared(p, x) /\ ~Uncopied(p, x) /\ ~Unwritten(p, x)
           /\ \A x : ~ToList(p, x)
<1>1. p \in Peer /\ p \notin Editors
    BY ConstantsAssumption
<1>2. NotYetJoined(p) /\ Told(p)
    BY DEF GoesLive, JoinInv, JoinerInv, Foretold
<1>3. JoinFrames(p) /\ remote[p].snap = {} /\ remote[p].pc = "idle"
    BY <1>2 DEF NotYetJoined, ScanKept, IdleRemote, GoesLive
<1>4. Next
    BY DEF JoinNext, joinVars, vars, PrepareJoinPreview, GoesLive, startVars
<1>5. OpenWatcher(p)
  <2>1. ~Rests(p)
    BY DEF Rests, GoesLive
  <2>2. ~LocalStep(p) /\ ~Compares(p) /\ ~Writes(p) /\ ~Advances(p)
    BY <1>1, <1>3, JoinLocal, JoinFramesKept DEF JoinFrames, GoesLive
  <2> QED
    BY <1>1, <1>3, <1>4, <2>1, <2>2, JoinerTurn
<1> QED
    BY <1>1, <1>2, <1>3, <1>5, AllDone DEF OpenWatcher, ToList

(***************************************************************************)
(* What only one side had is on both sides then, and untouched: downloads  *)
(* (469-475) and uploads (567-585) of initialSync leave nothing out, and   *)
(* no conflict copy lands on such a file.  For a joining peer that goes    *)
(* live the first time, whatever the others edit, delete and replicate.    *)
(***************************************************************************)
THEOREM OneSidedFilesAreMerged ==
    ASSUME SteadyStart, Joining \cap Editors = {}, MaxStops = 0, MaxCrashes = 0
    PROVE  JoinSpec => OneSidedFilesMerged
<1>1. ASSUME TypeInv, JoinInv, [JoinNext]_joinVars, NEW p \in Joining,
             GoesLive(p), preview[p] # None
      PROVE  /\ \A x \in RemoteOnly(preview[p]) : disk[p][x] = preview[p].entries[x].hash
             /\ \A x \in LocalOnly(preview[p]) :
                    /\ disk[p][x] = preview[p].hashes[x]
                    /\ Shown(view[p][x]) = disk[p][x]
  <2>1. /\ Asked(p) /\ FolderTold(p) /\ ListTold(p) /\ p \in Peer
        /\ \A x : ~Uncopied(p, x) /\ ~Unwritten(p, x) /\ ~ToList(p, x)
    BY <1>1, GoneLive DEF Told
  <2>2. ASSUME NEW x \in RemoteOnly(preview[p])
        PROVE  disk[p][x] = preview[p].entries[x].hash
    <3>1. x \in AllPath /\ FileThen(p, x) = None /\ IsFile(EntryThen(p, x))
        BY DEF RemoteOnly, LocalFiles, FileThen, EntryThen
    <3>2. ~OwnCopy(p, x)
        BY <2>1, <3>1 DEF Asked, OwnCopy, IsFile
    <3>3. disk[p][x] = Outcome(p, x)
        BY <2>1, <3>1, <3>2 DEF FolderTold, FileTold
    <3>4. ~Yields(p, x)
        BY <3>1 DEF Yields, Clashes
    <3> QED
        BY <3>1, <3>3, <3>4 DEF Outcome, EntryThen
  <2>3. ASSUME NEW x \in LocalOnly(preview[p])
        PROVE  disk[p][x] = preview[p].hashes[x] /\ Shown(view[p][x]) = disk[p][x]
    <3>1. x \in AllPath /\ FileThen(p, x) # None /\ EntryThen(p, x) = None
        BY DEF LocalOnly, LocalFiles, FileThen, EntryThen
    <3>2. ASSUME ~OwnCopy(p, x)
          PROVE  disk[p][x] = preview[p].hashes[x]
        BY <2>1, <3>1, <3>2
           DEF FolderTold, FileTold, Outcome, IsFile, IsTombstone, FileThen
    <3>3. ASSUME OwnCopy(p, x)
          PROVE  disk[p][x] = preview[p].hashes[x]
      <4>1. /\ x.of \in Path /\ x.of \in AllPath /\ x \in CopiesOf(p, x.of)
            /\ x \in Copies /\ x.by = p
        BY <3>3 DEF OwnCopy, Copies, CopiesOf, CopyPath, AllPath
      <4>2. FileThen(p, x.of) \in {FileThen(p, x), None}
        BY <2>1, <3>1, <4>1 DEF Asked
      <4>3. ToCopy(p, x) => FileThen(p, x.of) # None
        BY DEF ToCopy, Clashes, Deleted
      <4>4. disk[p][x] = IF ToCopy(p, x) THEN FileThen(p, x.of) ELSE FileThen(p, x)
        BY <2>1, <4>1 DEF FolderTold, CopyTold
      <4>5. disk[p][x] = FileThen(p, x)
        BY <4>2, <4>3, <4>4
      <4> QED
        BY <4>5 DEF FileThen
    <3>4. disk[p][x] = preview[p].hashes[x] /\ disk[p][x] # None
        BY <3>1, <3>2, <3>3 DEF FileThen
    <3>5. Uploaded(p, x, disk[p][x])
        BY <1>1, <2>1, <3>1, <3>4 DEF ListTold, ToPublish, GoesLive
    <3> QED
        BY <3>4, <3>5 DEF Uploaded, Shown
  <2> QED
    BY <2>2, <2>3
<1>2. ASSUME TypeInv, JoinInv, [JoinNext]_joinVars
      PROVE  \A p \in Joining :
                GoesLive(p) /\ preview[p] # None =>
                    /\ \A x \in RemoteOnly(preview[p]) :
                            disk[p][x] = preview[p].entries[x].hash
                    /\ \A x \in LocalOnly(preview[p]) :
                            /\ disk[p][x] = preview[p].hashes[x]
                            /\ Shown(view[p][x]) = disk[p][x]
    BY <1>1, <1>2
<1> QED
    BY <1>2, JoinInvariance, PTL DEF JoinSpec, OneSidedFilesMerged

\* The files a preview counts are files the user named, and none is counted twice.
LEMMA PreviewCounts ==
    ASSUME NEW p \in Peer, Asked(p), IsFiniteSet(Path)
    PROVE  /\ \A x : x \in FileConflicts(preview[p]) <=> x \in AllPath /\ Clashes(p, x)
           /\ \A x : x \in TombstoneConflicts(preview[p]) <=> x \in AllPath /\ Deleted(p, x)
           /\ \A x \in AllPath : Clashes(p, x) \/ Deleted(p, x) => x \in Path
           /\ \A x : ~(Clashes(p, x) /\ Deleted(p, x))
           /\ IsFiniteSet(FileConflicts(preview[p])) /\ IsFiniteSet(TombstoneConflicts(preview[p]))
           /\ Cardinality(FileConflicts(preview[p]) \cup TombstoneConflicts(preview[p]))
                = TotalAffected(preview[p])
<1> DEFINE F == FileConflicts(preview[p])
           T == TombstoneConflicts(preview[p])
<1>1. /\ \A x : x \in F <=> x \in AllPath /\ Clashes(p, x)
      /\ \A x : x \in T <=> x \in AllPath /\ Deleted(p, x)
    BY DEF FileConflicts, TombstoneConflicts, LocalFiles, Clashes, Deleted, FileThen, EntryThen
<1>2. ASSUME NEW x \in AllPath, Clashes(p, x) \/ Deleted(p, x)
      PROVE  x \in Path
  <2>1. EntryThen(p, x) # None /\ FileThen(p, x) # None
    BY <1>2 DEF Clashes, Deleted, IsFile, IsTombstone
  <2>2. x \notin Copies
    BY <2>1 DEF Asked
  <2> QED
    BY <2>2 DEF AllPath
<1>3. \A x : ~(Clashes(p, x) /\ Deleted(p, x))
    BY DEF Clashes, Deleted, IsFile, IsTombstone
<1>4. F \in SUBSET Path /\ T \in SUBSET Path
    BY <1>1, <1>2
<1>5. IsFiniteSet(F) /\ IsFiniteSet(T)
    BY <1>4, FS_Subset
<1>6. F \cap T = {}
    BY <1>1, <1>3
<1>7. Cardinality(F \cup T) = Cardinality(F) + Cardinality(T)
  <2>1. Cardinality(F \cup T) = Cardinality(F) + Cardinality(T) - Cardinality(F \cap T)
    BY <1>5, FS_Union
  <2>2. Cardinality(F \cap T) = 0
    BY <1>6, FS_EmptySet
  <2>3. Cardinality(F) \in Nat /\ Cardinality(T) \in Nat
    BY <1>5, FS_CardinalityType
  <2> HIDE DEF F, T
  <2> QED
    BY <2>1, <2>2, <2>3
<1> QED
    BY <1>1, <1>2, <1>3, <1>5, <1>7 DEF TotalAffected

(***************************************************************************)
(* startupPolicyAffectedPaths (327-330, 420-421) counts each path the      *)
(* preview counted as affected exactly once, but those it announced        *)
(* deleted under remote-wins, which it does not count (415-438): no entry  *)
(* of the scan is compared twice, none is passed over, and no other path   *)
(* meets the policy.                                                       *)
(***************************************************************************)
THEOREM AuditIsForetoldSaveDeletions ==
    ASSUME SteadyStart, Joining \cap Editors = {}, MaxStops = 0, MaxCrashes = 0,
           IsFiniteSet(Path)
    PROVE  JoinSpec => AuditMatchesSaveDeletions
<1>1. ASSUME TypeInv, JoinInv, [JoinNext]_joinVars, NEW p \in Joining,
             GoesLive(p), preview[p] # None
      PROVE  affected[p] = TotalAffected(preview[p])
                            - PolicyImpact(preview[p], policy[p]).delete
  <2> DEFINE F == FileConflicts(preview[p])
             T == TombstoneConflicts(preview[p])
  <2>1. Asked(p) /\ Counted(p) /\ p \in Peer /\ \A x : ~Uncompared(p, x)
    BY <1>1, GoneLive DEF Told
  <2>2. {x \in Affected(p) : ~Uncompared(p, x)} = Affected(p)
    BY <2>1
  <2>3. affected[p] = Cardinality(Affected(p))
    BY <2>1, <2>2 DEF Counted
  <2>4. /\ Cardinality(F) \in Nat /\ Cardinality(T) \in Nat
        /\ Cardinality(F \cup T) = Cardinality(F) + Cardinality(T)
        /\ TotalAffected(preview[p]) = Cardinality(F) + Cardinality(T)
    BY <2>1, PreviewCounts, FS_CardinalityType DEF TotalAffected
  <2>5. policy[p] \in {"remote-wins", "local-wins", "keep-both"}
    BY <1>1, <2>1, MorePeers DEF Policies
  <2>6. CASE policy[p] = "remote-wins"
    <3>1. Affected(p) = F
        BY <2>6 DEF Affected
    <3>2. PolicyImpact(preview[p], policy[p]).delete = Cardinality(T)
        BY <2>6 DEF PolicyImpact, NoImpact
    <3> HIDE DEF F, T
    <3> QED
        BY <2>3, <2>4, <3>1, <3>2
  <2>7. CASE policy[p] # "remote-wins"
    <3>1. Affected(p) = F \cup T
        BY <2>7 DEF Affected
    <3>2. PolicyImpact(preview[p], policy[p]).delete = 0
        BY <2>5, <2>7 DEF PolicyImpact, NoImpact
    <3> HIDE DEF F, T
    <3> QED
        BY <2>3, <2>4, <3>1, <3>2
  <2> QED
    BY <2>6, <2>7
<1>2. ASSUME TypeInv, JoinInv, [JoinNext]_joinVars
      PROVE  \A p \in Joining :
                GoesLive(p) /\ preview[p] # None =>
                    affected[p] = TotalAffected(preview[p])
                                    - PolicyImpact(preview[p], policy[p]).delete
    BY <1>1, <1>2
<1> QED
    BY <1>2, JoinInvariance, PTL DEF JoinSpec, AuditMatchesSaveDeletions

\* One copy is made of each file whose copy was announced.
LEMMA OneCopyEach ==
    ASSUME NEW p \in Peer, IsFiniteSet(Path),
           \A x \in Path : ~(Clashes(p, x) /\ Deleted(p, x)),
           NEW S, S = {y \in Copies : y.by = p /\ ToCopy(p, y)}
    PROVE  Cardinality(S) = Cardinality({x \in Path : \E y \in CopiesOf(p, x) : ToCopy(p, y)})
<1> DEFINE U == {x \in Path : \E y \in CopiesOf(p, x) : ToCopy(p, y)}
           f == [y \in S |-> y.of]
<1>1. \A y \in Copies :
        /\ y.of \in Path /\ y = CopyPath(y.of, y.by, y.kind)
        /\ y.kind \in {"conflict", "tombstone"}
    BY DEF Copies, CopyPath
<1>2. f \in [S -> U]
  <2>1. ASSUME NEW y \in S
        PROVE  y.of \in U
    BY <1>1 DEF CopiesOf
  <2> QED
    BY <2>1
<1>3. \A y, z \in S : f[y] = f[z] => y = z
  <2> SUFFICES ASSUME NEW y \in S, NEW z \in S, y.of = z.of
               PROVE  y = z
    OBVIOUS
  <2>1. /\ y.by = p /\ z.by = p /\ y.of \in Path /\ ToCopy(p, y) /\ ToCopy(p, z)
        /\ y = CopyPath(y.of, y.by, y.kind) /\ z = CopyPath(z.of, z.by, z.kind)
    BY <1>1
  <2>2. y.kind = z.kind
    BY <2>1 DEF ToCopy
  <2> QED
    BY <2>1, <2>2
<1>4. \A x \in U : \E y \in S : f[y] = x
  <2> SUFFICES ASSUME NEW x \in U
               PROVE  \E y \in S : y.of = x
    OBVIOUS
  <2>1. PICK y \in CopiesOf(p, x) : ToCopy(p, y)
    OBVIOUS
  <2> QED
    BY <2>1, CopyPlaces
<1>5. f \in Injection(S, U) /\ f \in Surjection(S, U)
    BY <1>2, <1>3, <1>4 DEF Injection, IsInjective, Surjection
<1>6. IsFiniteSet(U)
  <2>1. U \in SUBSET Path
    OBVIOUS
  <2> QED
    BY <2>1, FS_Subset
<1> HIDE DEF U, f
<1>7. Cardinality(S) = Cardinality(U)
    BY <1>5, <1>6, FS_Injection
<1> QED
    BY <1>7 DEF U

(***************************************************************************)
(* The numbers of policyImpact come true, all but the deletions: under     *)
(* remote-wins the clashing files are overwritten, under local-wins they   *)
(* replace the entries and the deleted ones are kept as copies, under      *)
(* keep-both one copy is made of each (327-390, 409-441).  Each conflict   *)
(* leaves one copy of its own, and nothing but conflicts leaves any.  As   *)
(* many files as remote-wins announced deleted are still there, and have   *)
(* been uploaded over their tombstones (567-600).                          *)
(***************************************************************************)
THEOREM PreviewIsKeptSaveDeletions ==
    ASSUME SteadyStart, Joining \cap Editors = {}, MaxStops = 0, MaxCrashes = 0,
           IsFiniteSet(Path)
    PROVE  JoinSpec => PreviewKeptSaveDeletions
<1>1. ASSUME TypeInv, JoinInv, [JoinNext]_joinVars, NEW p \in Joining,
             GoesLive(p), preview[p] # None, NoCopiesYet(p)
      PROVE  LET told == PolicyImpact(preview[p], policy[p])
             IN  /\ Effect(p) = [f \in {"overwrite", "upload", "conflictCopy"} |-> told[f]]
                 /\ Cardinality(Revived(p)) = told.delete
  <2> DEFINE F == FileConflicts(preview[p])
             T == TombstoneConflicts(preview[p])
  <2>1. /\ Asked(p) /\ FolderTold(p) /\ ViewTold(p) /\ ListTold(p) /\ p \in Peer
        /\ \A x : ~Uncopied(p, x) /\ ~Unwritten(p, x) /\ ~ToList(p, x)
    BY <1>1, GoneLive DEF Told
  <2>2. policy[p] \in {"remote-wins", "local-wins", "keep-both"}
    BY <1>1, <2>1, MorePeers DEF Policies
  <2>3. /\ \A x : x \in F <=> x \in AllPath /\ Clashes(p, x)
        /\ \A x : x \in T <=> x \in AllPath /\ Deleted(p, x)
        /\ \A x \in AllPath : Clashes(p, x) \/ Deleted(p, x) => x \in Path
        /\ \A x : ~(Clashes(p, x) /\ Deleted(p, x))
        /\ Cardinality(F \cup T) = TotalAffected(preview[p])
    BY <2>1, PreviewCounts
  <2>4. policy[p] = "remote-wins" => Overwritten(p) = F
    <3> SUFFICES ASSUME policy[p] = "remote-wins", NEW x
                 PROVE  x \in Overwritten(p) <=> x \in F
        OBVIOUS
    <3>1. CASE x \in LocalFiles(preview[p])
      <4>1. x \in Path /\ x \in AllPath /\ FileThen(p, x) # None
        BY <1>1, <3>1 DEF NoCopiesYet, LocalFiles, FileThen
      <4>2. ~OwnCopy(p, x)
        BY <4>1, PathAssumption DEF OwnCopy
      <4>3. disk[p][x] = Outcome(p, x)
        BY <2>1, <4>1, <4>2 DEF FolderTold, FileTold
      <4>4. Outcome(p, x) = IF IsFile(EntryThen(p, x)) THEN EntryThen(p, x).hash
                            ELSE FileThen(p, x)
        BY DEF Outcome, Yields
      <4>5. IsFile(EntryThen(p, x)) => EntryThen(p, x).hash # None
        <5> SUFFICES ASSUME IsFile(EntryThen(p, x))
                     PROVE  EntryThen(p, x).hash # None
            OBVIOUS
        <5>1. EntryThen(p, x) \in UserManifestValue
            BY <2>1, <4>1 DEF Asked, IsFile
        <5>2. EntryThen(p, x).hash \in Content
            BY <5>1, EntryKinds DEF IsTombstone, IsFile
        <5> QED
            BY <5>2, NoneAssumption
      <4>6. x \in Overwritten(p) <=> disk[p][x] \notin {None, FileThen(p, x)}
        BY <3>1 DEF Overwritten, FileThen
      <4> QED
        BY <2>3, <4>1, <4>3, <4>4, <4>5, <4>6 DEF Clashes
    <3>2. CASE x \notin LocalFiles(preview[p])
        BY <3>2 DEF Overwritten, FileConflicts
    <3> QED
        BY <3>1, <3>2
  <2>5. UploadedOver(p) = IF policy[p] = "local-wins" THEN F ELSE {}
    <3>1. ASSUME NEW x \in AllPath
          PROVE  IsFile(EntryThen(p, x)) /\ view[p][x].writerKey = p <=> Yields(p, x)
      <4>1. CASE Yields(p, x)
        BY <2>1, <4>1 DEF ViewTold, Uploaded, Own, Yields, Clashes
      <4>2. CASE ~Yields(p, x)
        <5> SUFFICES ASSUME IsFile(EntryThen(p, x))
                     PROVE  view[p][x].writerKey # p
            BY <4>2
        <5>1. view[p][x] = EntryThen(p, x)
            BY <2>1, <4>2 DEF ViewTold
        <5> QED
            BY <2>1, <5>1 DEF Asked, IsFile
      <4> QED
        BY <4>1, <4>2
    <3>2. UploadedOver(p) = {x \in AllPath : Yields(p, x)}
        BY <3>1 DEF UploadedOver, EntryThen
    <3> QED
        BY <2>3, <3>2 DEF Yields
  <2>6. Cardinality(CopiesMade(p)) =
            Cardinality({x \in Path : \E y \in CopiesOf(p, x) : ToCopy(p, y)})
    <3>1. ASSUME NEW y \in Copies, y.by = p
          PROVE  preview[p].hashes[y] = None /\ disk[p][y] # None <=> ToCopy(p, y)
      <4>1. y \in AllPath /\ y \notin Path
        BY PathAssumption DEF AllPath
      <4>2. FileThen(p, y) = None /\ preview[p].hashes[y] = None
        BY <1>1, <4>1 DEF NoCopiesYet, LocalFiles, FileThen
      <4>3. disk[p][y] = IF ToCopy(p, y) THEN FileThen(p, y.of) ELSE None
        BY <2>1, <3>1, <4>2 DEF FolderTold, CopyTold
      <4>4. ToCopy(p, y) => FileThen(p, y.of) # None
        BY DEF ToCopy, Clashes, Deleted
      <4> QED
        BY <4>2, <4>3, <4>4
    <3>2. CopiesMade(p) = {y \in Copies : y.by = p /\ ToCopy(p, y)}
        BY <3>1 DEF CopiesMade
    <3> QED
        BY <2>1, <2>3, <3>2, OneCopyEach
  <2>7. {x \in Path : \E y \in CopiesOf(p, x) : ToCopy(p, y)} =
            CASE policy[p] = "remote-wins" -> {}
              [] policy[p] = "local-wins" -> T
              [] policy[p] = "keep-both" -> F \cup T
    <3>1. ASSUME NEW x \in Path
          PROVE  (\E y \in CopiesOf(p, x) : ToCopy(p, y)) <=>
                    \/ policy[p] = "keep-both" /\ Clashes(p, x)
                    \/ policy[p] # "remote-wins" /\ Deleted(p, x)
      <4>1. /\ CopyPath(x, p, "conflict").of = x /\ CopyPath(x, p, "tombstone").of = x
            /\ CopyPath(x, p, "conflict").kind = "conflict"
            /\ CopyPath(x, p, "tombstone").kind = "tombstone"
        BY DEF CopyPath
      <4>2. /\ ToCopy(p, CopyPath(x, p, "conflict")) <=>
                    policy[p] = "keep-both" /\ Clashes(p, x)
            /\ ToCopy(p, CopyPath(x, p, "tombstone")) <=>
                    policy[p] # "remote-wins" /\ Deleted(p, x)
        BY <4>1 DEF ToCopy
      <4> QED
        BY <4>2 DEF CopiesOf
    <3>2. Path \subseteq AllPath
        BY DEF AllPath
    <3> HIDE DEF F, T
    <3> QED
        BY <2>2, <2>3, <3>1, <3>2
  <2>8. Revived(p) = IF policy[p] = "remote-wins" THEN T ELSE {}
    <3> SUFFICES ASSUME NEW x \in T
                 PROVE  x \in Revived(p) <=> policy[p] = "remote-wins"
        BY DEF Revived
    <3>1. /\ x \in AllPath /\ x \in Path /\ FileThen(p, x) # None
          /\ IsTombstone(EntryThen(p, x)) /\ ~IsFile(EntryThen(p, x))
        BY <2>3 DEF Deleted, IsTombstone, IsFile
    <3>2. ~OwnCopy(p, x)
        BY <3>1, PathAssumption DEF OwnCopy
    <3>3. disk[p][x] = IF policy[p] = "remote-wins" THEN FileThen(p, x) ELSE None
        BY <2>1, <3>1, <3>2 DEF FolderTold, FileTold, Outcome
    <3>4. CASE policy[p] = "remote-wins"
      <4>1. disk[p][x] = preview[p].hashes[x] /\ disk[p][x] # None
        BY <3>1, <3>3, <3>4 DEF FileThen
      <4>2. Uploaded(p, x, disk[p][x])
        BY <1>1, <2>1, <3>1, <3>4, <4>1 DEF ListTold, ToPublish, GoesLive
      <4> QED
        BY <3>4, <4>1, <4>2 DEF Revived, Uploaded, Own
    <3>5. CASE policy[p] # "remote-wins"
        BY <3>1, <3>3, <3>5 DEF Revived, FileThen
    <3> QED
        BY <3>4, <3>5
  <2>9. Cardinality({}) = 0
    BY FS_EmptySet
  <2> HIDE DEF F, T
  <2>10. /\ Effect(p).overwrite = IF policy[p] = "remote-wins" THEN Cardinality(F) ELSE 0
         /\ Effect(p).upload = IF policy[p] = "local-wins" THEN Cardinality(F) ELSE 0
         /\ Effect(p).conflictCopy =
                CASE policy[p] = "remote-wins" -> 0
                  [] policy[p] = "local-wins" -> Cardinality(T)
                  [] policy[p] = "keep-both" -> TotalAffected(preview[p])
    <3>1. Effect(p).overwrite = IF policy[p] = "remote-wins" THEN Cardinality(F) ELSE 0
        BY <2>4 DEF Effect
    <3>2. Effect(p).upload = IF policy[p] = "local-wins" THEN Cardinality(F) ELSE 0
        BY <2>5, <2>9 DEF Effect
    <3>3. Effect(p).conflictCopy = Cardinality(CopiesMade(p))
        BY DEF Effect
    <3>4. CASE policy[p] = "remote-wins"
        BY <2>6, <2>7, <2>9, <3>1, <3>2, <3>3, <3>4
    <3>5. CASE policy[p] = "local-wins"
        BY <2>6, <2>7, <3>1, <3>2, <3>3, <3>5
    <3>6. CASE policy[p] = "keep-both"
        BY <2>3, <2>6, <2>7, <3>1, <3>2, <3>3, <3>6
    <3> QED
        BY <2>2, <3>4, <3>5, <3>6
  <2> DEFINE told == PolicyImpact(preview[p], policy[p])
  <2>11. /\ told.overwrite = IF policy[p] = "remote-wins" THEN Cardinality(F) ELSE 0
         /\ told.delete = IF policy[p] = "remote-wins" THEN Cardinality(T) ELSE 0
         /\ told.upload = IF policy[p] = "local-wins" THEN Cardinality(F) ELSE 0
         /\ told.conflictCopy =
                CASE policy[p] = "remote-wins" -> 0
                  [] policy[p] = "local-wins" -> Cardinality(T)
                  [] policy[p] = "keep-both" -> TotalAffected(preview[p])
    BY <2>2 DEF PolicyImpact, NoImpact, F, T
  <2>12. Cardinality(Revived(p)) = told.delete
    BY <2>8, <2>9, <2>11
  <2>13. Effect(p) = [f \in {"overwrite", "upload", "conflictCopy"} |-> Effect(p)[f]]
    BY DEF Effect
  <2> HIDE DEF told
  <2>14. \A f \in {"overwrite", "upload", "conflictCopy"} : Effect(p)[f] = told[f]
    BY <2>10, <2>11
  <2> QED
    BY <2>12, <2>13, <2>14 DEF told
<1>2. ASSUME TypeInv, JoinInv, [JoinNext]_joinVars
      PROVE  \A p \in Joining :
                GoesLive(p) /\ preview[p] # None /\ NoCopiesYet(p) =>
                    LET told == PolicyImpact(preview[p], policy[p])
                    IN  /\ Effect(p) = [f \in {"overwrite", "upload", "conflictCopy"} |->
                                            told[f]]
                        /\ Cardinality(Revived(p)) = told.delete
    BY <1>1, <1>2
<1> QED
    BY <1>2, JoinInvariance, PTL DEF JoinSpec, PreviewKeptSaveDeletions
=============================================================================
