------------------------------ MODULE Manifest ------------------------------
(***************************************************************************)
(* The shared manifest of src/src/lib/manifest-store.ts: one entry per     *)
(* path, replicated to every peer.  ManifestStore keeps no state of its    *)
(* own; it stores its values in an Autopass database (an external          *)
(* library), modelled here from how the code uses it: add() appends an     *)
(* entry, get() and list() read the peer's own linearised view, and an     *)
(* "update" event says that the view may have changed.                     *)
(*                                                                         *)
(* A content stands for its SHA-256 digest: two files are the same         *)
(* content exactly when their digests are equal.  size, mtime, seq and     *)
(* blocks are left out: the engine writes them and decides nothing by      *)
(* them.                                                                   *)
(***************************************************************************)
EXTENDS Integers, FiniteSets

CONSTANTS
    Peer,       \* the paired devices; a peer stands for its writer key too
    Path,       \* the files users edit
    Content,    \* what a file may hold
    None        \* no file, no entry, no base hash

ASSUME NoneAssumption == None \notin Content /\ None \notin Peer

VARIABLES
    log,        \* log[x]: every entry ever written at x, by anyone
    view        \* view[p][x]: the last entry at x in p's linearised view

manifestVars == <<log, view>>

(***************************************************************************)
(* Paths.  buildConflictPath names a conflict copy after the original, the *)
(* day and the peer.  The model lives within one day, so two conflicts of  *)
(* one peer on one file have the same copy path, as in the code.           *)
(***************************************************************************)
Copies == [of : Path, by : Peer, kind : {"conflict", "tombstone"}]
CopyPath(x, p, k) == [of |-> x, by |-> p, kind |-> k]
AllPath == Path \cup Copies

\* No user names a file as the engine names its copies.
ASSUME PathAssumption == Path \cap Copies = {}

(***************************************************************************)
(* Entries.  pos is the place of the entry in the linearised order of its  *)
(* path; the code never reads it, the view is sorted by it.                *)
(***************************************************************************)
Position == Nat \ {0}

FileMetadata ==
    [kind : {"file"}, hash : Content, baseHash : Content \cup {None},
     writerKey : Peer, pos : Position]

TombstoneMetadata ==
    [kind : {"tombstone"}, baseHash : Content \cup {None},
     writerKey : Peer, pos : Position]

UserManifestValue == FileMetadata \cup TombstoneMetadata

\* null is not an entry.
ASSUME EntryAssumption == None \notin UserManifestValue

ManifestEntry == [path : AllPath, metadata : UserManifestValue]

IsFile(e) == e # None /\ e.kind = "file"
IsTombstone(e) == e # None /\ e.kind = "tombstone"

File(c, base, p, n) ==
    [kind |-> "file", hash |-> c, baseHash |-> base, writerKey |-> p, pos |-> n]

Tombstone(base, p, n) ==
    [kind |-> "tombstone", baseHash |-> base, writerKey |-> p, pos |-> n]

Pos(e) == IF e = None THEN 0 ELSE e.pos

\* The base hash of the entry that will follow e.
NextBase(e) ==
    IF e = None THEN None
    ELSE IF e.kind = "file" THEN e.hash ELSE e.baseHash

\* The contents that some entry at x has ever named.
Published(x) == {e.hash : e \in {f \in log[x] : f.kind = "file"}}

(***************************************************************************)
(* Linearisation.  An entry follows everything its writer has seen; among  *)
(* entries written concurrently the order is the library's choice, the     *)
(* same on every peer.  An entry that follows all others takes the next    *)
(* even position; the odd ones leave room for an entry that loses to one   *)
(* its writer had not seen yet.                                            *)
(***************************************************************************)
Positions(x) == {e.pos : e \in log[x]}

LastPos(x) ==
    CHOOSE n \in Positions(x) \cup {0} : \A m \in Positions(x) : m <= n

FreshPos(p, x) ==
    {n \in (Pos(view[p][x]) + 1) .. (LastPos(x) + 2) :
        /\ n \notin Positions(x)
        /\ n = LastPos(x) + 2 \/ (n % 2 = 1 /\ n < LastPos(x))}

Later(e, f) == IF Pos(e) >= Pos(f) THEN e ELSE f

\* pass.add: the entry is in the log and in the writer's own view.
Put(p, x, e) ==
    /\ log' = [log EXCEPT ![x] = @ \cup {e}]
    /\ view' = [view EXCEPT ![p][x] = e]

\* The view of p once it has everything that q has.
MergedView(p, q) == [x \in AllPath |-> Later(view[p][x], view[q][x])]

\* Mutant of List: the scan passes over tombstones.
ListFiles(p) ==
    {[path |-> x, metadata |-> view[p][x]] :
        x \in {y \in AllPath : IsFile(view[p][y]) /\ view[p][y].writerKey # p}}

\* manifest.list(), less what the scan skips: p's own entries.
List(p) ==
    {[path |-> x, metadata |-> view[p][x]] :
        x \in {y \in AllPath : view[p][y] # None /\ view[p][y].writerKey # p}}

-----------------------------------------------------------------------------
ManifestTypeOK ==
    /\ log \in [AllPath -> SUBSET UserManifestValue]
    /\ view \in [Peer -> [AllPath -> UserManifestValue \cup {None}]]
=============================================================================
