----------------------------- MODULE SyncClaims -----------------------------
(***************************************************************************)
(* Promises that the repository's documents make of the engine and that    *)
(* the code does not keep.  Each is checked in a run of its own, which     *)
(* finds the behaviour that breaks it.                                     *)
(***************************************************************************)
EXTENDS SyncProperties

\* Two entries written by different peers upon the same content.
Divergent(e, f) == e.writerKey # f.writerKey /\ e.baseHash = f.baseHash

FilesAt(x) == {e \in log[x] : e.kind = "file"}

(***************************************************************************)
(* "Conflict: Multiple peers modified the same file -> [...] save the      *)
(* loser as [a conflict copy]" (PLAN.md): once at rest, each of two        *)
(* divergent contents is still in some folder.                             *)
(***************************************************************************)
LoserSaved ==
    AtRest => \A x \in Path : \A e, f \in FilesAt(x) :
        Divergent(e, f) =>
            \E p \in Peer, y \in {x} \cup {z \in Copies : z.of = x} : disk[p][y] = e.hash

(***************************************************************************)
(* The engine "watches the local folder for changes [...] and publishes    *)
(* metadata to the shared Autopass manifest" (README.md): at rest, every   *)
(* file in a folder is the one in the manifest.                            *)
(***************************************************************************)
EditsPublished ==
    AtRest => \A p \in Running, x \in Path :
        disk[p][x] # None => disk[p][x] = Shown(view[p][x])
=============================================================================
