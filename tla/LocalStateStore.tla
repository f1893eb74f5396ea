--------------------------- MODULE LocalStateStore ---------------------------
(***************************************************************************)
(* The tracked state of one peer on disk (src/src/lib/local-state-store.ts *)
(* ): a map in memory, written whole to state.json and then to             *)
(* state.json.bak, one write at a time in the order of the calls.          *)
(*                                                                         *)
(* A version stands for the contents of the map after so many changes; set *)
(* and remove are both a change.  A file holds a version, or is unusable:  *)
(* absent, or rejected by parseState.  Writes go to a temporary file that  *)
(* load never reads, so only the two renames are seen.  fsync is not       *)
(* called; a process that dies keeps what it renamed, and a power failure  *)
(* is no part of this model beyond DamagePrimary.                          *)
(***************************************************************************)
EXTENDS Integers, Sequences

CONSTANTS
    Unusable,                   \* what an absent or corrupt file holds
    MaxSets, MaxCrashes, MaxFaults, MaxDamage   \* bounds

ASSUME StoreAssumption ==
    /\ Unusable \notin Nat
    /\ MaxSets \in Nat /\ MaxCrashes \in Nat /\ MaxFaults \in Nat /\ MaxDamage \in Nat

VARIABLES
    state,      \* the map in memory
    waiting,    \* writeQueue: for each call not yet answered, its version
    writer,     \* the step of doPersist to take next
    serialized, \* the version doPersist is writing
    poisoned,   \* writeQueue is a rejected promise
    primary,    \* state.json
    backup,     \* state.json.bak
    acked,      \* the last version whose set() or remove() has resolved
    session,    \* "down", "loading" or "up"
    used        \* how much of each bound has been used

files == <<primary, backup>>
queueVars == <<waiting, writer, serialized, poisoned>>
vars == <<state, queueVars, files, acked, session, used>>

File == Nat \cup {Unusable}

Init ==
    /\ state = 0 /\ acked = 0
    /\ waiting = <<>> /\ writer = "idle" /\ serialized = 0 /\ poisoned = FALSE
    /\ primary = Unusable /\ backup = Unusable
    /\ session = "down"
    /\ used = [sets |-> 0, crashes |-> 0, faults |-> 0, damage |-> 0]

Spend(budget, limit) ==
    /\ used[budget] < limit
    /\ used' = [used EXCEPT ![budget] = @ + 1]

\* Mutant of Enqueue: a call joins the write already under way.
EnqueueCoalesced(version) ==
    waiting' = IF poisoned \/ waiting # <<>> THEN waiting ELSE Append(waiting, version)

\* persist (75-78): a rejected queue never runs doPersist again.
Enqueue(version) == waiting' = IF poisoned THEN waiting ELSE Append(waiting, version)

(***************************************************************************)
(* load (29-45): the primary, else the backup, else nothing; the last two  *)
(* write the files again before load returns.                              *)
(***************************************************************************)
\* Mutant of Loadable: no third case for two unusable files.
LoadableEither == IF primary # Unusable THEN primary ELSE backup

Loadable ==
    IF primary # Unusable THEN primary
    ELSE IF backup # Unusable THEN backup ELSE 0

Load ==
    /\ session = "down"
    /\ state' = Loadable
    /\ IF primary # Unusable
       THEN session' = "up" /\ UNCHANGED waiting
       ELSE session' = "loading" /\ Enqueue(Loadable)
    /\ UNCHANGED <<writer, serialized, poisoned, files, acked, used>>

Loaded ==
    /\ session = "loading" /\ waiting = <<>> /\ ~poisoned
    /\ session' = "up"
    /\ UNCHANGED <<state, queueVars, files, acked, used>>

\* set and remove (53-62).
Set ==
    /\ session = "up" /\ Spend("sets", MaxSets)
    /\ state' = state + 1
    /\ Enqueue(state + 1)
    /\ UNCHANGED <<writer, serialized, poisoned, files, acked, session>>

(***************************************************************************)
(* doPersist (80-94), from the serialisation of the map to the second      *)
(* rename.  The map may change again while it is being written.            *)
(***************************************************************************)
Serialize ==
    /\ writer = "idle" /\ waiting # <<>>
    /\ serialized' = state /\ writer' = "primary"
    /\ UNCHANGED <<state, waiting, poisoned, files, acked, session, used>>

RenamePrimary ==
    /\ writer = "primary"
    /\ primary' = serialized /\ writer' = "backup"
    /\ UNCHANGED <<state, waiting, serialized, poisoned, backup, acked, session, used>>

\* Mutant of RenameBackup: the backup is made once and kept.
RenameBackupOnce ==
    /\ writer = "backup"
    /\ backup' = IF backup = Unusable THEN serialized ELSE backup
    /\ writer' = "done"
    /\ UNCHANGED <<state, waiting, serialized, poisoned, primary, acked, session, used>>

RenameBackup ==
    /\ writer = "backup"
    /\ backup' = serialized /\ writer' = "done"
    /\ UNCHANGED <<state, waiting, serialized, poisoned, primary, acked, session, used>>

\* Mutant of Resolve: every change so far is reported as written.
ResolveAll ==
    /\ writer = "done"
    /\ acked' = state
    /\ waiting' = Tail(waiting)
    /\ writer' = "idle"
    /\ UNCHANGED <<state, serialized, poisoned, files, session, used>>

\* The call that was waiting for this write resolves.
Resolve ==
    /\ writer = "done"
    /\ acked' = Head(waiting)
    /\ waiting' = Tail(waiting)
    /\ writer' = "idle"
    /\ UNCHANGED <<state, serialized, poisoned, files, session, used>>

Failing == writer \in {"primary", "backup"} /\ Spend("faults", MaxFaults)

\* mkdir, writeFile or rename throws: this call and all that wait are rejected.
WriteFails ==
    /\ session = "up" /\ Failing
    /\ poisoned' = TRUE /\ waiting' = <<>> /\ writer' = "idle"
    /\ UNCHANGED <<state, serialized, files, acked, session>>

\* Mutant of Discard: the next session inherits the rejected queue.
DiscardMap ==
    /\ session' = "down" /\ state' = 0
    /\ waiting' = <<>> /\ writer' = "idle" /\ serialized' = 0
    /\ UNCHANGED <<files, acked, poisoned>>

\* The store object is gone; the next session makes a new one.
Discard ==
    /\ session' = "down" /\ state' = 0
    /\ waiting' = <<>> /\ writer' = "idle" /\ serialized' = 0 /\ poisoned' = FALSE
    /\ UNCHANGED <<files, acked>>

\* The same failure inside load rejects it, and ready() with it.
LoadFails == session = "loading" /\ Failing /\ Discard

\* The process dies, at any point.
Crash == session # "down" /\ Spend("crashes", MaxCrashes) /\ Discard

\* state.json is damaged while no process has it.
DamagePrimary ==
    /\ session = "down" /\ primary # Unusable /\ Spend("damage", MaxDamage)
    /\ primary' = Unusable
    /\ UNCHANGED <<state, queueVars, backup, acked, session>>

Persist == Serialize \/ RenamePrimary \/ RenameBackup \/ Resolve

Next ==
    \/ Load \/ Loaded \/ Set \/ Persist
    \/ WriteFails \/ LoadFails \/ Crash \/ DamagePrimary

Spec == Init /\ [][Next]_vars

FairSpec == Spec /\ WF_vars(Persist) /\ WF_vars(Load \/ Loaded)

-----------------------------------------------------------------------------
(***************************************************************************)
(* The variables have their types.                                         *)
(***************************************************************************)
StoreTypeOK ==
    /\ state \in Nat /\ serialized \in Nat /\ acked \in Nat
    /\ waiting \in Seq(Nat)
    /\ writer \in {"idle", "primary", "backup", "done"}
    /\ poisoned \in BOOLEAN
    /\ primary \in File /\ backup \in File
    /\ session \in {"down", "loading", "up"}
    /\ used \in [sets : Nat, crashes : Nat, faults : Nat, damage : Nat]

(***************************************************************************)
(* What a process would load at any moment, were this one to die now, is   *)
(* no older than the last change a caller was told is on disk, through     *)
(* crashes at any step, failed writes and damage to state.json.            *)
(***************************************************************************)
AckedSurvives == Loadable >= acked

(***************************************************************************)
(* The two renames are ordered so that the backup alone is enough too.     *)
(***************************************************************************)
BackupHoldsAcked == acked > 0 => backup # Unusable /\ backup >= acked

(***************************************************************************)
(* A session that has met no failed write and has no call left to answer   *)
(* has its map on disk: a change made while an older map was being written *)
(* is not left behind.                                                     *)
(***************************************************************************)
IdleIsPersisted ==
    session = "up" /\ waiting = <<>> /\ ~poisoned => primary = state

(***************************************************************************)
(* "Update state for a file path and persist to disk" (the comment on set, *)
(* local-state-store.ts): every change of the map is handed to a write.    *)
(***************************************************************************)
SetPersists == [][session = "up" /\ state' # state => session' = "down" \/ waiting' # waiting]_vars

(***************************************************************************)
(* Every call is answered, and the store is usable again after any crash.  *)
(***************************************************************************)
CallsAnswered == []<>(session = "up" /\ waiting = <<>>)
=============================================================================
