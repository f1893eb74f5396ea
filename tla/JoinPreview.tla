----------------------------- MODULE JoinPreview -----------------------------
(***************************************************************************)
(* What joining will do to a folder, told before (prepareJoinPreview of    *)
(* engine-manager.ts) and counted while it is done                         *)
(* (startupPolicyAffectedPaths of sync-engine.ts).  The manifest is paired *)
(* and replicates from the preview on, which is the phase "ready" of the   *)
(* engine; that the policy is chosen upon the preview makes no difference, *)
(* since every choice is possible.                                         *)
(***************************************************************************)
EXTENDS SyncProperties

VARIABLES
    preview,    \* preview[p]: what the preview shown to p's user was made from
    affected    \* affected[p]: startupPolicyAffectedPaths

joinVars == <<vars, preview, affected>>

-----------------------------------------------------------------------------
(***************************************************************************)
(* The counts of a preview: hashes are the files of the folder, entries    *)
(* the manifest, both read once.                                           *)
(***************************************************************************)
Listing(p) == [hashes |-> disk[p], entries |-> view[p]]

LocalFiles(pr) == {x \in AllPath : pr.hashes[x] # None}

\* Mutant of FileConflicts: files that match are counted too.
FileConflictsAll(pr) == {x \in LocalFiles(pr) : IsFile(pr.entries[x])}

FileConflicts(pr) ==
    {x \in LocalFiles(pr) : IsFile(pr.entries[x]) /\ pr.entries[x].hash # pr.hashes[x]}

TombstoneConflicts(pr) == {x \in LocalFiles(pr) : IsTombstone(pr.entries[x])}

RemoteOnly(pr) == {x \in AllPath \ LocalFiles(pr) : IsFile(pr.entries[x])}

\* localOnlyFiles: the files that no entry was seen for.
LocalOnly(pr) == {x \in LocalFiles(pr) : pr.entries[x] = None}

\* Mutant of TotalAffected: deleted paths are not counted.
TotalAffectedFiles(pr) == Cardinality(FileConflicts(pr))

TotalAffected(pr) == Cardinality(FileConflicts(pr)) + Cardinality(TombstoneConflicts(pr))

NoImpact == [overwrite |-> 0, delete |-> 0, upload |-> 0, conflictCopy |-> 0]

\* policyImpact; the totals are the same whatever is chosen.
PolicyImpact(pr, chosen) ==
    CASE chosen = "remote-wins" ->
            [NoImpact EXCEPT !.overwrite = Cardinality(FileConflicts(pr)),
                             !.delete = Cardinality(TombstoneConflicts(pr))]
      [] chosen = "local-wins" ->
            [NoImpact EXCEPT !.upload = Cardinality(FileConflicts(pr)),
                             !.conflictCopy = Cardinality(TombstoneConflicts(pr))]
      [] chosen = "keep-both" ->
            [NoImpact EXCEPT !.conflictCopy = TotalAffected(pr)]

-----------------------------------------------------------------------------
JoinInit ==
    /\ Init
    /\ preview = [p \in Peer |-> None] /\ affected = [p \in Peer |-> 0]

\* The folder of a peer that has not joined yet, against the manifest so far.
PrepareJoinPreview(p) ==
    /\ p \in Joining /\ phase[p] = "ready" /\ preview[p] = None
    /\ tracked[p] = NoFiles
    /\ preview' = [preview EXCEPT ![p] = Listing(p)]
    /\ UNCHANGED <<vars, affected>>

\* The preview goes with its session, and once out of date it tells nothing.
Outdated(p) ==
    \/ phase'[p] = "down"
    \/ phase[p] = "ready" /\ phase'[p] # "ready" /\ preview[p] # Listing(p)

KeepPreviews ==
    preview' = [p \in Peer |-> IF Outdated(p) THEN None ELSE preview[p]]

\* The file being compared is there, unlike the entry, and untracked (327-330, 420-421).
MeetsPolicy(p) ==
    /\ phase[p] = "reconcile" /\ remote[p].tr = None
    /\ Differs(p) \/ (Comparing(p, "tombstone") /\ C(p) # None)

CountAffected ==
    affected' = [p \in Peer |->
        IF phase'[p] # phase[p] /\ phase'[p] = "reconcile" THEN 0
        ELSE IF MeetsPolicy(p) /\ remote'[p] # remote[p] THEN affected[p] + 1
        ELSE affected[p]]

JoinNext ==
    \/ \E p \in Peer : PrepareJoinPreview(p)
    \/ Next /\ KeepPreviews /\ CountAffected

JoinSpec == JoinInit /\ [][JoinNext]_joinVars

-----------------------------------------------------------------------------
(***************************************************************************)
(* What was announced is what has been done when the joining engine goes   *)
(* live, all but the deletions: so many files overwritten, uploaded over a *)
(* file's entry, or kept as a copy, under each policy, if folder and       *)
(* manifest were still those of the preview when the engine started, and   *)
(* the folder held no copies made by a start that was abandoned.  What     *)
(* remote-wins announces deleted (policyImpact.remoteWins.delete of        *)
(* engine-manager.ts) the engine does not delete: it uploads every one of  *)
(* those files over the tombstone, for every peer to fetch.                *)
(***************************************************************************)
GoesLive(p) == phase[p] = "listing" /\ phase'[p] = "live"
NoCopiesYet(p) == LocalFiles(preview[p]) \subseteq Path

Overwritten(p) ==
    {x \in LocalFiles(preview[p]) : disk[p][x] \notin {None, preview[p].hashes[x]}}

UploadedOver(p) ==
    {x \in AllPath : IsFile(preview[p].entries[x]) /\ view[p][x].writerKey = p}

CopiesMade(p) ==
    {y \in Copies : y.by = p /\ preview[p].hashes[y] = None /\ disk[p][y] # None}

Effect(p) ==
    [overwrite |-> IF policy[p] = "remote-wins" THEN Cardinality(Overwritten(p)) ELSE 0,
     upload |-> Cardinality(UploadedOver(p)),
     conflictCopy |-> Cardinality(CopiesMade(p))]

\* Files upon a tombstone that are as they were, and published anew by p.
Revived(p) ==
    {x \in TombstoneConflicts(preview[p]) :
        /\ disk[p][x] = preview[p].hashes[x]
        /\ IsFile(view[p][x]) /\ view[p][x].hash = disk[p][x]
        /\ view[p][x].writerKey = p}

PreviewKeptSaveDeletions ==
    [][\A p \in Joining :
        GoesLive(p) /\ preview[p] # None /\ NoCopiesYet(p) =>
            LET told == PolicyImpact(preview[p], policy[p])
            IN  /\ Effect(p) = [f \in {"overwrite", "upload", "conflictCopy"} |-> told[f]]
                /\ Cardinality(Revived(p)) = told.delete]_joinVars

(***************************************************************************)
(* Files only one side has are on both sides then, and untouched.          *)
(***************************************************************************)
OneSidedFilesMerged ==
    [][\A p \in Joining :
        GoesLive(p) /\ preview[p] # None =>
            /\ \A x \in RemoteOnly(preview[p]) : disk[p][x] = preview[p].entries[x].hash
            /\ \A x \in LocalOnly(preview[p]) :
                /\ disk[p][x] = preview[p].hashes[x]
                /\ Shown(view[p][x]) = disk[p][x]]_joinVars

(***************************************************************************)
(* The audit of the startup (the "audit" event of sync-engine.ts) counts   *)
(* as many paths as the preview announced to be affected (totalAffected),  *)
(* less those it announced deleted: under remote-wins the number shown     *)
(* before joining is the higher one whenever a file lies upon a tombstone. *)
(***************************************************************************)
AuditMatchesSaveDeletions ==
    [][\A p \in Joining :
        GoesLive(p) /\ preview[p] # None =>
            affected[p] = TotalAffected(preview[p])
                            - PolicyImpact(preview[p], policy[p]).delete]_joinVars
=============================================================================
