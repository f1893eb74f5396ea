---------------------------- MODULE Convergence ----------------------------
(***************************************************************************)
(* Why engines converge: an invariant that holds between any two steps     *)
(* when the users act only at rest, and from which it follows that folders *)
(* at rest match the manifest.  Peers that only follow may stop, crash and *)
(* start again; the invariant holds as long as they publish nothing.       *)
(*                                                                         *)
(* Its main idea: at most one thing happens at a time.  Either a user's    *)
(* edit is on its way into the manifest while every other engine rests, or *)
(* the live engines bring entries of others into their folders, or one     *)
(* joining peer is in initialSync and the live engines still hold, at the  *)
(* paths it has not uploaded, what it found when it began.                 *)
(***************************************************************************)
EXTENDS SyncProperties

(***************************************************************************)
(* Users act and sessions begin at rest, update events come from entries   *)
(* only, no scan is given up, and whoever joins or restarts edits nothing. *)
(* The last is needed: the marks initialSync leaves in suppressedPaths     *)
(* swallow later edits.                                                    *)
(***************************************************************************)
Orderly ==
    /\ Calm /\ SteadyStart
    /\ MaxUpdates = 0 /\ (MaxFaults = 0 \/ Restarting = {})
    /\ (Joining \cup Restarting) \cap Editors = {}
    /\ SeedWriter \notin Restarting

\* No engine is stopped, crashes or fails to fetch either.
Undisturbed == Orderly /\ Restarting = {}

(***************************************************************************)
(* Who stops, crashes or gives up a start has published nothing so far.    *)
(* What it left unfinished shows as soon as initialSync lists the folder:  *)
(* it is in step with the manifest, or it is published.                    *)
(***************************************************************************)
Silent == \A x \in AllPath : \A e \in log[x] : e.writerKey \notin Restarting

-----------------------------------------------------------------------------
(***************************************************************************)
(* Where a peer, an entry or a path is.                                    *)
(***************************************************************************)
Live(p) == phase[p] = "live"
Starting(p) == phase[p] \in {"reconcile", "listing"}

\* The view has the last entry there is at x, and it is a known one.
Newest(p, x) ==
    /\ view[p][x] \in log[x] \cup {None}
    /\ \A e \in log[x] : e = view[p][x] \/ e.pos < Pos(view[p][x])

Above(p, x) == {e \in log[x] : e.pos > Pos(view[p][x])}

Own(p, x) == view[p][x] # None /\ view[p][x].writerKey = p
Applied(p, x) == disk[p][x] = Shown(view[p][x])

\* Where a change at x waits until handleLocalChange is done with it.
Queued(p, x) == \E i \in DOMAIN queue[p] : queue[p][i].path = x
Handled(p, x) == local[p].pc # "idle" /\ local[p].path = x
Clean(p, x) == x \notin dirty[p] /\ ~Queued(p, x) /\ ~Handled(p, x)

\* Changed by the user, not by the engine.
Editing(p, x) == ~Clean(p, x) /\ x \notin suppressed[p]

\* The entries the scan has yet to finish, and the file it is writing.
Held(p) == IF remote[p].pc \in {"idle", "pick"} THEN {} ELSE {remote[p].item}
Items(p) == remote[p].snap \cup Held(p)
Writing(p, x) == remote[p].pc \in {"fetch", "record", "delete", "forget"} /\ X(p) = x
Recording(p, x) == remote[p].pc \in {"record", "forget"} /\ X(p) = x

Entry(p, x) == [path |-> x, metadata |-> view[p][x]]

\* The local state knows the file; a crash may leave a record of a lost one.
Noted(p, x) == tracked[p][x] = disk[p][x] \/ (p \in Restarting /\ disk[p][x] = None)

\* A scan under way or to come will bring the entry at x.
Due(p, x) ==
    \/ owed[p]
    \/ Entry(p, x) \in remote[p].snap
    \/ remote[p].pc \in {"read", "fetch", "delete"} /\ remote[p].item = Entry(p, x)

-----------------------------------------------------------------------------
(***************************************************************************)
(* The scans of a live peer.  An entry replaced while it waits to be       *)
(* compared is one the folder already has, and the next scan is owed.      *)
(***************************************************************************)
ItemInv(p, i) ==
    /\ i.metadata.writerKey # p
    /\ ~Editing(p, i.path)
    /\ \/ i.metadata = view[p][i.path]
       \/ owed[p] /\ Shown(i.metadata) = disk[p][i.path] /\ ~Writing(p, i.path)

OneEach(p) ==
    /\ \A i, j \in remote[p].snap : i.path = j.path => i = j
    /\ \A i \in Held(p), j \in remote[p].snap : i.path # j.path

FrameInv(p) ==
    /\ remote[p].pc \notin {"copy", "await"}
    /\ remote[p].pc = "idle" => remote[p].snap = {}
    /\ remote[p].pc = "read" =>
        /\ remote[p].tr = tracked[p][X(p)]
        /\ M(p).kind = "tombstone" => remote[p].tr # None /\ M(p).baseHash = remote[p].tr
    /\ Writing(p, X(p)) => M(p) = view[p][X(p)] /\ Newest(p, X(p))
    /\ remote[p].pc \in {"fetch", "record"} => M(p).kind = "file"
    /\ remote[p].pc \in {"delete", "forget"} => M(p).kind = "tombstone"
    /\ remote[p].pc \in {"fetch", "delete"} => ~Applied(p, X(p))
    /\ remote[p].pc \in {"record", "forget"} => Applied(p, X(p))
    /\ remote[p].pc = "delete" => remote[p].tr # None

ScanInv(p) == (\A i \in Items(p) : ItemInv(p, i)) /\ OneEach(p) /\ FrameInv(p)

(***************************************************************************)
(* The watcher and the local change queue of a live peer: a path is in one *)
(* place at most, and what the watcher knows is right where it is settled. *)
(***************************************************************************)
QueueInv(p) ==
    /\ \A i, j \in DOMAIN queue[p] : queue[p][i].path = queue[p][j].path => i = j
    /\ \A x \in dirty[p] : ~Queued(p, x) /\ ~Handled(p, x)
    /\ \A x \in AllPath : ~(Queued(p, x) /\ Handled(p, x))
    /\ p \notin Joining \cup Restarting => \A x \in suppressed[p] : ~Clean(p, x)
    /\ \A x \in AllPath \ dirty[p] : x \in known[p] <=> disk[p][x] # None

(***************************************************************************)
(* A path of a live peer that no user has changed.                         *)
(***************************************************************************)
KeptInv(p, x) ==
    /\ x \in dirty[p] /\ disk[p][x] = None => x \in known[p]
    /\ ~Handled(p, x)
    /\ ~Clean(p, x) => Applied(p, x) /\ Newest(p, x)
    /\ ~Applied(p, x) =>
        /\ Newest(p, x) /\ view[p][x] # None /\ ~Own(p, x) /\ Due(p, x)
        /\ IsTombstone(view[p][x]) => view[p][x].baseHash = tracked[p][x]
    /\ Noted(p, x) \/ Recording(p, x)
    /\ Newest(p, x)
       \/ /\ ~Writing(p, x)
          /\ \A e \in Above(p, x) :
              /\ e.writerKey # p
              /\ e.kind = "tombstone" => e.baseHash = disk[p][x]
              /\ \A f \in Above(p, x) : e = f

(***************************************************************************)
(* A path a user has changed: until it is published everything else rests. *)
(***************************************************************************)
Resting(q) == ~owed[q] /\ remote[q].pc = "idle"

AloneAt(p, x) ==
    /\ \A q \in Peer : ~Starting(q)
    /\ \A q \in Peer : Live(q) =>
        /\ Resting(q) /\ view[q] = view[p]
        /\ \A y \in AllPath : q # p \/ y # x => Clean(q, y)

EventAt(p, x, type) ==
    \E i \in DOMAIN queue[p] : queue[p][i] = [type |-> type, path |-> x]

Pending(p, x) ==
    \/ x \in dirty[p] /\ (x \in known[p] <=> IsFile(view[p][x]))
    \/ EventAt(p, x, IF disk[p][x] = None THEN "delete" ELSE "update")

Publishing(p, x) ==
    /\ Handled(p, x)
    /\ local[p].pc \in {"read", "lookup", "publish", "find", "entomb"}
    /\ local[p].pc \in {"find", "entomb"} <=> disk[p][x] = None
    /\ local[p].pc \in {"lookup", "publish"} => local[p].data = disk[p][x]
    /\ local[p].pc = "entomb" => IsFile(view[p][x]) /\ local[p].base = view[p][x].hash

Unpublished(p, x) ==
    /\ AloneAt(p, x)
    /\ ~Applied(p, x) /\ tracked[p][x] = Shown(view[p][x])
    /\ Pending(p, x) \/ Publishing(p, x)

PublishedEdit(p, x) ==
    /\ Handled(p, x) /\ Own(p, x) /\ Applied(p, x)
    /\ local[p].pc \in {"record", "forget"}
    /\ local[p].pc = "record" => local[p].data = disk[p][x]
    /\ local[p].pc = "forget" <=> disk[p][x] = None

EditInv(p, x) ==
    /\ p \in Editors
    /\ Newest(p, x)
    /\ Unpublished(p, x) \/ PublishedEdit(p, x)

LiveInv(p) ==
    /\ ScanInv(p) /\ QueueInv(p)
    /\ \A x \in AllPath : Editing(p, x) => EditInv(p, x)
    /\ \A x \in AllPath : ~Editing(p, x) => KeptInv(p, x)

-----------------------------------------------------------------------------
(***************************************************************************)
(* Peers that have yet to join.                                            *)
(***************************************************************************)
FreshInv(p) ==
    /\ dirty[p] = {} /\ queue[p] = <<>> /\ local[p] = IdleLocal /\ ~owed[p]
    /\ remote[p] = IdleRemote /\ suppressed[p] = {}
    /\ tracked[p] = NoFiles
    /\ \A y \in Copies : disk[p][y] = None
    /\ \A x \in AllPath : \A e \in log[x] : e.writerKey # p

NoCopiesOf(p) == \A y \in Copies : y.by = p => log[y] = {}

\* A conflict copy is in the folder of the peer that made it, or published.
CopiesInv == \A p \in Peer, y \in Copies : disk[p][y] # None => y.by = p \/ log[y] # {}

(***************************************************************************)
(* A peer in initialSync.  At each path the live peers hold what it found  *)
(* when it began, or it has uploaded its own.                              *)
(***************************************************************************)
Settled(p, x) ==
    /\ Clean(p, x) /\ ~Writing(p, x)
    /\ Applied(p, x) /\ Noted(p, x)

Untouched(p, x) ==
    \A q \in Peer : Live(q) => view[q][x] = view[p][x] /\ Settled(q, x)

Uploaded(p, x) == IsFile(view[p][x]) /\ Own(p, x) /\ Applied(p, x)

SessionInv(p) ==
    /\ \A q \in Peer \ {p} : ~Starting(q)
    /\ \A q \in Peer : Live(q) => \A x \in AllPath : ~Editing(q, x)
    /\ dirty[p] = {} /\ ~owed[p]
    /\ \A x \in AllPath : Newest(p, x) /\ (Untouched(p, x) \/ Uploaded(p, x))
    /\ \A x \in AllPath : Own(p, x) => Uploaded(p, x)

Synced(p, x) == Applied(p, x) /\ tracked[p][x] = disk[p][x]

Comparable(p, x) ==
    /\ ~Own(p, x) /\ tracked[p][x] = None
    /\ x \in Copies => disk[p][x] = None

\* handleLocalChange inside the scan (331-334).
AwaitInv(p) ==
    LET x == X(p) IN
    /\ x \in Path /\ policy[p] = "local-wins" /\ disk[p][x] # None
    /\ x \notin suppressed[p] /\ IsFile(view[p][x])
    /\ local[p].pc # "idle" => queue[p] = <<>> /\ local[p].path = x
    /\ queue[p] # <<>> => queue[p] = <<[type |-> "update", path |-> x]>>
    /\ local[p].pc \in {"idle", "read", "lookup", "publish", "record"}
    /\ local[p].pc \in {"lookup", "publish", "record"} => local[p].data = disk[p][x]
    /\ IF Own(p, x)
       THEN /\ queue[p] = <<>>
            /\ local[p].pc = "record" \/ (local[p].pc = "idle" /\ tracked[p][x] = disk[p][x])
       ELSE /\ local[p].pc # "record" /\ (queue[p] = <<>> => local[p].pc # "idle")
            /\ ~Applied(p, x) /\ tracked[p][x] = None

ReconcileInv(p) ==
    /\ NoCopiesOf(p)
    /\ OneEach(p)
    /\ \A i \in remote[p].snap :
        i.metadata = view[p][i.path] /\ Comparable(p, i.path) /\ i.path \notin suppressed[p]
    /\ \A x \in AllPath : tracked[p][x] # None => Synced(p, x)
    /\ \A x \in AllPath :
        IsFile(view[p][x]) => Synced(p, x) \/ \E i \in Items(p) : i.path = x
    /\ remote[p].pc \notin {"idle", "forget"}
    /\ remote[p].pc \notin {"pick", "await"} =>
        M(p) = view[p][X(p)] /\ ~Own(p, X(p)) /\ remote[p].tr = None /\ tracked[p][X(p)] = None
    /\ remote[p].pc # "await" => queue[p] = <<>> /\ local[p].pc = "idle"
    /\ remote[p].pc = "read" =>
        X(p) \notin suppressed[p] /\ (X(p) \in Copies => disk[p][X(p)] = None)
    /\ remote[p].pc = "await" => AwaitInv(p)
    /\ remote[p].pc = "copy" => X(p) \in Path
    /\ remote[p].pc \in {"fetch", "record"} => M(p).kind = "file"
    /\ remote[p].pc = "record" => Applied(p, X(p))
    /\ remote[p].pc = "delete" => M(p).kind = "tombstone"

ListingInv(p) ==
    LET x == local[p].path IN
    /\ remote[p].pc = "idle" /\ remote[p].snap = {} /\ queue[p] = <<>>
    /\ \A y \in listing[p] : disk[p][y] # None
    /\ \A y \in AllPath :
        Synced(p, y) \/ (disk[p][y] # None /\ (y \in listing[p] \/ Handled(p, y)))
    /\ \A y \in AllPath :
        IF IsFile(view[p][y])
        THEN Applied(p, y) /\ (tracked[p][y] = disk[p][y] \/ Handled(p, y))
        ELSE tracked[p][y] = None
    /\ local[p].pc \in {"idle", "read", "lookup", "publish", "record"}
    /\ local[p].pc # "idle" => disk[p][x] # None
    /\ local[p].pc \in {"lookup", "publish", "record"} => local[p].data = disk[p][x]
    /\ local[p].pc = "publish" => ~IsFile(view[p][x])
    /\ local[p].pc = "record" => Uploaded(p, x)

-----------------------------------------------------------------------------
(***************************************************************************)
(* A peer that may be stopped, crash or give up a start, as long as it is  *)
(* silent: whatever it finds in its folder, initialSync fetches the files  *)
(* it lacks, and then visits every file that the local state may not know. *)
(***************************************************************************)
IdleInv(p) ==
    /\ dirty[p] = {} /\ queue[p] = <<>> /\ local[p] = IdleLocal /\ ~owed[p]
    /\ remote[p] = IdleRemote

ComparingInv(p) ==
    /\ \A i \in remote[p].snap : i.metadata = view[p][i.path]
    /\ \A x \in AllPath :
        IsFile(view[p][x]) => disk[p][x] # None \/ \E i \in Items(p) : i.path = x
    /\ remote[p].pc # "idle"
    /\ remote[p].pc \notin {"pick", "await"} => M(p) = view[p][X(p)]
    /\ remote[p].pc # "await" => queue[p] = <<>> /\ local[p].pc = "idle"
    /\ remote[p].pc = "copy" => remote[p].seen # None
    /\ remote[p].pc \in {"fetch", "record"} => M(p).kind = "file"
    /\ remote[p].pc \in {"delete", "forget"} => M(p).kind = "tombstone"
    /\ remote[p].pc \in {"await", "record"} => disk[p][X(p)] # None
    /\ local[p].pc \notin {"record", "forget"}

NotingInv(p) ==
    /\ remote[p].pc = "idle" /\ remote[p].snap = {} /\ queue[p] = <<>>
    /\ \A x \in AllPath :
        /\ IsFile(view[p][x]) => disk[p][x] # None
        /\ disk[p][x] # None => Synced(p, x) \/ x \in listing[p] \/ Handled(p, x)
    /\ local[p].pc \in {"idle", "read", "lookup", "publish"}
    /\ local[p].pc = "lookup" => local[p].data = disk[p][local[p].path]

-----------------------------------------------------------------------------
(***************************************************************************)
(* The whole.                                                              *)
(***************************************************************************)
JoinInv(p) ==
    /\ phase[p] # "stopping"
    /\ phase[p] \in {"down", "ready"} => FreshInv(p) /\ NoCopiesOf(p)
    /\ phase[p] = "reconcile" => ReconcileInv(p)
    /\ phase[p] = "listing" => ListingInv(p)

RestartInv(p) ==
    /\ phase[p] \in {"down", "ready"} => IdleInv(p)
    /\ phase[p] = "reconcile" => ComparingInv(p)
    /\ phase[p] = "listing" => NotingInv(p)

PeerInv(p) ==
    /\ ~Live(p) => p \in Joining \cup Restarting
    /\ Live(p) => LiveInv(p)
    /\ Starting(p) => SessionInv(p)
    /\ IF p \in Restarting THEN RestartInv(p) ELSE JoinInv(p)

\* Whatever was written last at x, a peer that stays has it.
SomeoneNewest ==
    \A x \in AllPath : \E p \in Peer \ Restarting : (Live(p) \/ Starting(p)) /\ Newest(p, x)

KnownViews == \A p \in Peer, x \in AllPath : view[p][x] \in log[x] \cup {None}

ConvInv ==
    /\ KnownViews /\ SomeoneNewest /\ CopiesInv
    /\ \A p \in Peer : PeerInv(p)

-----------------------------------------------------------------------------
(***************************************************************************)
(* What a peer that may be stopped knows besides, until someone crashes:   *)
(* a file it has synced is as it was recorded, or gone.  So no file of its *)
(* own diverges from an entry, the scan of initialSync leaves every file   *)
(* that the manifest names as it names it, removes the files whose last    *)
(* version it had, and the listing that follows puts nothing in their      *)
(* place.                                                                  *)
(***************************************************************************)
Recorded(p, x) == tracked[p][x] = None \/ disk[p][x] \in {None, tracked[p][x]}

\* stop() has closed the watcher: what is left in the queues is the engine's doing.
DrainInv(p) ==
    /\ local[p].pc = "idle"
    /\ \A i, j \in DOMAIN queue[p] : queue[p][i].path = queue[p][j].path => i = j
    /\ \A i \in DOMAIN queue[p] : queue[p][i].path \in suppressed[p]
    /\ remote[p].pc # "copy"
    /\ remote[p].pc = "read" /\ M(p).kind = "tombstone" => remote[p].tr # None

\* The folder at x is as the manifest has it, or the deletion leaves its file alone.
Followed(p, x) ==
    /\ IsFile(view[p][x]) => Applied(p, x)
    /\ IsTombstone(view[p][x]) => disk[p][x] = None \/ DeletedUnseen(p, x)

FollowerInv(p) ==
    /\ \A x \in AllPath : Recorded(p, x) \/ Recording(p, x)
    /\ remote[p].pc # "await"
    /\ remote[p].pc = "read" => remote[p].tr = tracked[p][X(p)]
    /\ remote[p].pc = "record" => disk[p][X(p)] = M(p).hash
    /\ phase[p] = "reconcile" =>
        \A x \in AllPath : Followed(p, x) \/ \E i \in Items(p) : i.path = x
    /\ phase[p] = "listing" =>
        /\ \A x \in AllPath : Followed(p, x)
        /\ local[p].pc \in {"lookup", "publish"} => disk[p][local[p].path] # None
        /\ local[p].pc = "publish" => ~IsFile(view[p][local[p].path])
    /\ phase[p] = "stopping" => DrainInv(p)

\* Nobody has an entry for a copy before the peer that made it publishes one.
CopiesUnpublished == \A y \in Copies : y.by \in Restarting => log[y] = {}

FollowersInv ==
    /\ CopiesUnpublished
    /\ \A p \in Restarting : ~Live(p) => FollowerInv(p)
=============================================================================
