--------------------------- MODULE SyncProperties ---------------------------
(***************************************************************************)
(* What the engines promise together: to lose no edit, to bring the        *)
(* folders to the manifest, and not to undo the work of others.            *)
(***************************************************************************)
EXTENDS SyncEngine

(***************************************************************************)
(* The variables have their types.                                         *)
(***************************************************************************)
TypeOK ==
    /\ ManifestTypeOK
    /\ disk \in [Peer -> [AllPath -> Content \cup {None}]]
    /\ dirty \in [Peer -> SUBSET AllPath]
    /\ known \in [Peer -> SUBSET AllPath]
    /\ tracked \in [Peer -> [AllPath -> Content \cup {None}]]
    /\ suppressed \in [Peer -> SUBSET AllPath]
    /\ queue \in [Peer -> Seq(Event)]
    /\ local \in [Peer -> LocalFrame]
    /\ owed \in [Peer -> BOOLEAN]
    /\ remote \in [Peer -> RemoteFrame]
    /\ phase \in [Peer -> Phases]
    /\ listing \in [Peer -> SUBSET AllPath]
    /\ policy \in [Peer -> Policies]
    /\ used \in [edits : Nat, stops : Nat, crashes : Nat, faults : Nat, aborts : Nat,
                updates : Nat]

(***************************************************************************)
(* The local state never claims that a content was synced before the       *)
(* manifest has named it: whatever handleRemoteUpdate takes for an         *)
(* unmodified file (353) is a file other peers can still fetch.            *)
(***************************************************************************)
TrackedPublished ==
    \A p \in Peer, x \in AllPath :
        tracked[p][x] # None => tracked[p][x] \in Published(x)

(***************************************************************************)
(* An engine that overwrites or deletes the file it has looked at          *)
(* (drive.put at 470, drive.del at 428 and 455) destroys no content that   *)
(* exists nowhere else: the content has been published, or a conflict copy *)
(* of it is in the folder, or the file was untracked and remote wins.      *)
(***************************************************************************)
Saved(p, x, c) ==
    \/ c \in Published(x)
    \/ x \in Path /\ \E k \in {"conflict", "tombstone"} : disk[p][CopyPath(x, p, k)] = c
    \/ remote[p].tr = None /\ JoinPolicy(p) = "remote-wins"

Destroys(p, x) ==
    /\ remote[p].pc \in {"fetch", "delete"} /\ remote'[p] # remote[p]
    /\ disk[p][x] # None /\ disk[p][x] = remote[p].seen
    /\ disk'[p][x] # disk[p][x]

UnpublishedEditsSurvive ==
    [][\A p \in Peer : \A x \in AllPath : Destroys(p, x) => Saved(p, x, disk[p][x])]_vars

(***************************************************************************)
(* Once nothing is under way, every folder holds what the manifest names,  *)
(* neither more nor less.                                                  *)
(***************************************************************************)
Shown(e) == IF IsFile(e) THEN e.hash ELSE None

FoldersMatchManifest ==
    AtRest => \A p \in Running, x \in AllPath : disk[p][x] = Shown(view[p][x])

(***************************************************************************)
(* A peer replaces an entry of another only when its own file descends     *)
(* from that entry, or when local-wins is to replace it: handleLocalChange *)
(* (217) and initialSync (592) take the entry they find as the base,       *)
(* whether or not the engine has applied it.                               *)
(***************************************************************************)
Replaces(p, x) ==
    /\ log'[x] # log[x] /\ view'[p][x] # view[p][x]
    /\ IsFile(view[p][x]) /\ view[p][x].writerKey # p

IncorporatedBeforeReplaced ==
    [][\A p \in Peer, x \in AllPath :
        Replaces(p, x) =>
            \/ tracked[p][x] = view[p][x].hash
            \/ tracked[p][x] = None /\ policy[p] = "local-wins"]_vars

(***************************************************************************)
(* A follower, whose user touches nothing, never replaces a file entry: it *)
(* answers no download with an upload (194-197, 214), and a restart brings *)
(* it forward, never the others back (initialSync, 551).  Nor does it      *)
(* bring back a file whose last version it had: its scan takes the file    *)
(* before the listing finds it (446-455).  The limits: a follower that     *)
(* missed an update and the deletion after it while it was stopped has     *)
(* tracked another hash than the tombstone's base, keeps its old file      *)
(* (440) and uploads it over the tombstone (592-600); and after a crash a  *)
(* download that was not recorded is taken for an edit of the user.        *)
(***************************************************************************)
FollowerPublishes(p, x) ==
    p \notin Editors /\ log'[x] # log[x] /\ view'[p][x] # view[p][x]

\* Not the version whose deletion p knows of is what p last had at x.
DeletedUnseen(p, x) == tracked[p][x] = None \/ tracked[p][x] # view[p][x].baseHash

RollsBack(p, x) ==
    \/ IsFile(view[p][x])
    \/ IsTombstone(view[p][x]) /\ ~DeletedUnseen(p, x)

FollowersNeverRollBack ==
    [][\A p \in Peer, x \in AllPath :
        FollowerPublishes(p, x) /\ used.crashes = 0 => ~RollsBack(p, x)]_vars

(***************************************************************************)
(* As long as the followers are silent, they also keep up: whatever        *)
(* restarts, crashes and abandoned starts they went through, at rest their *)
(* folders match the manifest.                                             *)
(***************************************************************************)
OnlyEditorsPublished ==
    \A x \in AllPath : \A e \in log[x] : e.writerKey \in Editors \cup {SeedWriter}

FollowersKeepUp == OnlyEditorsPublished => FoldersMatchManifest

(***************************************************************************)
(* As long as no session of a joining peer runs under remote-wins, no file *)
(* it brings is lost: its content reaches the manifest, at its path or as  *)
(* a conflict copy (331-338, 419-428, then the uploads of initialSync).    *)
(***************************************************************************)
Rescued(x, p, c) ==
    \/ c \in Published(x)
    \/ \E k \in {"conflict", "tombstone"} : c \in Published(CopyPath(x, p, k))

RemoteWinsAt(p) == p \in Running /\ policy[p] = "remote-wins"

BroughtFilesSurvive ==
    \A p \in Joining, x \in Path, c \in Content :
        disk[p][x] = c /\ []~RemoteWinsAt(p) =>
            [](AtRest /\ p \in Running => Rescued(x, p, c))

(***************************************************************************)
(* The engines come to rest, whatever the interleaving: no two of them     *)
(* answer each other's updates forever, no handler hangs, and a session    *)
(* that has begun becomes live or ends.                                    *)
(***************************************************************************)
EventuallyAtRest == <>[]AtRest
=============================================================================
