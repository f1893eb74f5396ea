-------------------------- MODULE LocalStateProofs --------------------------
(***************************************************************************)
(* Durability of the local state store for any number of changes, crashes, *)
(* failed writes and damaged files.                                        *)
(***************************************************************************)
EXTENDS LocalStateStore, TLAPS

(***************************************************************************)
(* The writer works for the head of the queue; a session that is over, or  *)
(* whose queue is rejected, has nothing left to write.                     *)
(***************************************************************************)
QueueInv ==
    /\ session = "down" \/ poisoned => waiting = <<>>
    /\ session = "down" => ~poisoned
    /\ waiting = <<>> => writer = "idle"

(***************************************************************************)
(* No call waits for a version the map has not had, and the map of a       *)
(* session is as new as anything acknowledged.                             *)
(***************************************************************************)
VersionInv ==
    /\ \A i \in 1 .. Len(waiting) : waiting[i] <= state
    /\ session # "down" => acked <= state

(***************************************************************************)
(* What is being written serves the call it is written for, and is already *)
(* in the files renamed so far.  With one call left no change has come     *)
(* since, so it is the map.                                                *)
(***************************************************************************)
WriterInv ==
    writer # "idle" =>
        /\ waiting[1] <= serialized /\ acked <= serialized
        /\ writer \in {"backup", "done"} => primary = serialized
        /\ writer = "done" => backup = serialized
        /\ Len(waiting) = 1 => serialized = state

(***************************************************************************)
(* A session with nothing to write has its map in the primary.             *)
(***************************************************************************)
RestInv ==
    session # "down" /\ waiting = <<>> /\ ~poisoned => primary = state

(***************************************************************************)
(* AckedSurvives and BackupHoldsAcked alone are not inductive: that the    *)
(* next rename or the next answer keeps them depends on the version in the *)
(* writer's hands and on the call it answers.                              *)
(***************************************************************************)
StoreInv ==
    /\ StoreTypeOK
    /\ QueueInv /\ VersionInv /\ WriterInv /\ RestInv
    /\ AckedSurvives /\ BackupHoldsAcked

-----------------------------------------------------------------------------
(***************************************************************************)
(* Calls enter the queue at the end and leave it at the head.              *)
(***************************************************************************)
LEMMA EnqueueAppends ==
    ASSUME StoreTypeOK, NEW v \in Nat, Enqueue(v), ~poisoned
    PROVE  /\ waiting' \in Seq(Nat) /\ waiting' # <<>>
           /\ Len(waiting') = Len(waiting) + 1
           /\ \A i \in 1 .. Len(waiting) : waiting'[i] = waiting[i]
           /\ waiting'[Len(waiting) + 1] = v
BY DEF StoreTypeOK, Enqueue

LEMMA TailShifts ==
    ASSUME NEW s \in Seq(Nat), s # <<>>
    PROVE  /\ Len(s) \in Nat \ {0} /\ Head(s) = s[1] /\ s[1] \in Nat
           /\ Tail(s) \in Seq(Nat) /\ Len(Tail(s)) = Len(s) - 1
           /\ \A i \in 1 .. Len(Tail(s)) : Tail(s)[i] = s[i + 1]
           /\ Tail(s) = <<>> <=> Len(s) = 1
<1>1. Len(s) \in Nat \ {0} /\ s[1] \in Nat /\ Head(s) = s[1]
    OBVIOUS
<1>2. /\ Tail(s) \in Seq(Nat) /\ Len(Tail(s)) = Len(s) - 1
      /\ \A i \in 1 .. Len(Tail(s)) : Tail(s)[i] = s[i + 1]
    OBVIOUS
<1>3. \A t \in Seq(Nat) : t = <<>> <=> Len(t) = 0
    OBVIOUS
<1>4. Tail(s) = <<>> <=> Len(Tail(s)) = 0
    BY <1>2, <1>3
<1>5. Len(Tail(s)) = 0 <=> Len(s) = 1
    BY <1>1, <1>2
<1>6. Tail(s) = <<>> <=> Len(s) = 1
    BY <1>4, <1>5
<1> QED
    BY <1>1, <1>2, <1>6

LEMMA LoadableTypes ==
    ASSUME StoreTypeOK
    PROVE  Loadable \in Nat
BY DEF StoreTypeOK, Loadable, File

LEMMA SpendTypes ==
    ASSUME StoreTypeOK, NEW n, NEW b \in {"sets", "crashes", "faults", "damage"}, Spend(b, n)
    PROVE  used' \in [sets : Nat, crashes : Nat, faults : Nat, damage : Nat]
BY DEF StoreTypeOK, Spend

-----------------------------------------------------------------------------
(***************************************************************************)
(* Every operation keeps StoreInv.                                         *)
(***************************************************************************)
LEMMA LoadKeeps ==
    ASSUME StoreInv, Load
    PROVE  StoreInv'
<1>0. /\ StoreTypeOK /\ QueueInv /\ AckedSurvives /\ BackupHoldsAcked
      /\ waiting = <<>> /\ writer = "idle" /\ ~poisoned
    BY DEF StoreInv, QueueInv, Load
<1>1. Loadable \in Nat /\ acked <= Loadable
    BY <1>0, LoadableTypes DEF AckedSurvives, StoreTypeOK
<1>2. /\ state' = Loadable
      /\ UNCHANGED <<writer, serialized, poisoned, files, acked, used>>
    BY DEF Load
<1>3. /\ AckedSurvives' /\ BackupHoldsAcked' /\ WriterInv'
    BY <1>0, <1>2 DEF AckedSurvives, BackupHoldsAcked, Loadable, files, WriterInv
<1>4. CASE primary # Unusable
  <2>1. session' = "up" /\ waiting' = <<>>
    BY <1>0, <1>4 DEF Load
  <2> QED
    BY <1>0, <1>1, <1>2, <1>3, <1>4, <2>1
    DEF StoreInv, StoreTypeOK, QueueInv, VersionInv, RestInv, Loadable, files
<1>5. CASE primary = Unusable
  <2>1. session' = "loading" /\ Enqueue(Loadable)
    BY <1>5 DEF Load
  <2>2. /\ waiting' \in Seq(Nat) /\ waiting' # <<>> /\ Len(waiting') = 1
        /\ waiting'[1] = Loadable
    BY <1>0, <1>1, <2>1, EnqueueAppends
  <2> QED
    BY <1>0, <1>1, <1>2, <1>3, <2>1, <2>2
    DEF StoreInv, StoreTypeOK, QueueInv, VersionInv, RestInv, files
<1> QED
    BY <1>4, <1>5

LEMMA LoadedKeeps ==
    ASSUME StoreInv, Loaded
    PROVE  StoreInv'
BY DEF StoreInv, Loaded, StoreTypeOK, QueueInv, VersionInv, WriterInv, RestInv,
    AckedSurvives, BackupHoldsAcked, Loadable, queueVars, files

LEMMA SetKeeps ==
    ASSUME StoreInv, Set
    PROVE  StoreInv'
<1>0. /\ StoreTypeOK /\ QueueInv /\ VersionInv /\ WriterInv
      /\ AckedSurvives /\ BackupHoldsAcked
    BY DEF StoreInv
<1>1. /\ session = "up" /\ session' = "up" /\ state' = state + 1 /\ Enqueue(state + 1)
      /\ UNCHANGED <<writer, serialized, poisoned, files, acked>>
    BY DEF Set
<1>2. state \in Nat /\ acked \in Nat /\ used' \in [sets : Nat, crashes : Nat, faults : Nat, damage : Nat]
    BY <1>0, SpendTypes DEF Set, StoreTypeOK
<1>3. AckedSurvives' /\ BackupHoldsAcked'
    BY <1>0, <1>1 DEF AckedSurvives, BackupHoldsAcked, Loadable, files
<1>4. CASE poisoned
  <2>1. waiting' = waiting /\ waiting = <<>> /\ writer = "idle"
    BY <1>0, <1>1, <1>4 DEF Enqueue, QueueInv
  <2> QED
    BY <1>0, <1>1, <1>2, <1>3, <1>4, <2>1
    DEF StoreInv, StoreTypeOK, QueueInv, VersionInv, WriterInv, RestInv, files
<1>5. CASE ~poisoned
  <2>1. /\ waiting' \in Seq(Nat) /\ waiting' # <<>>
        /\ Len(waiting') = Len(waiting) + 1
        /\ \A i \in 1 .. Len(waiting) : waiting'[i] = waiting[i]
        /\ waiting'[Len(waiting) + 1] = state + 1
    BY <1>0, <1>1, <1>2, <1>5, EnqueueAppends
  <2>2. Len(waiting) \in Nat /\ (waiting # <<>> => Len(waiting) > 0)
    BY <1>0 DEF StoreTypeOK
  <2>3. StoreTypeOK'
    BY <1>0, <1>1, <1>2, <2>1 DEF StoreTypeOK, files
  <2>4. QueueInv' /\ RestInv'
    BY <1>0, <1>1, <1>5, <2>1 DEF QueueInv, RestInv
  <2>5. VersionInv'
    <3>1. ASSUME NEW i \in 1 .. Len(waiting')
         PROVE  waiting'[i] <= state'
        <4>1. CASE i \in 1 .. Len(waiting)
            <5>1. waiting[i] \in Nat /\ waiting[i] <= state
                BY <1>0, <4>1 DEF VersionInv, StoreTypeOK
            <5>2. waiting'[i] = waiting[i]
                BY <2>1, <4>1
            <5> QED
                BY <1>1, <1>2, <5>1, <5>2
        <4>2. CASE i = Len(waiting) + 1
            BY <1>1, <1>2, <2>1, <4>2
        <4> QED
            BY <2>1, <2>2, <3>1, <4>1, <4>2
    <3>2. acked' <= state'
        BY <1>0, <1>1, <1>2 DEF VersionInv
    <3> QED
        BY <3>1, <3>2 DEF VersionInv
  <2>6. WriterInv'
    BY <1>0, <1>1, <2>1, <2>2 DEF WriterInv, QueueInv, files
  <2> QED
    BY <1>3, <2>3, <2>4, <2>5, <2>6 DEF StoreInv
<1> QED
    BY <1>4, <1>5

LEMMA SerializeKeeps ==
    ASSUME StoreInv, Serialize
    PROVE  StoreInv'
<1>1. waiting \in Seq(Nat) /\ waiting # <<>>
    BY DEF StoreInv, StoreTypeOK, Serialize
<1>2. waiting[1] <= state /\ acked <= state
    BY <1>1, TailShifts DEF StoreInv, VersionInv, QueueInv
<1> QED
    BY <1>1, <1>2
    DEF StoreInv, Serialize, StoreTypeOK, QueueInv, VersionInv, WriterInv, RestInv,
        AckedSurvives, BackupHoldsAcked, Loadable, files

LEMMA RenamesKeep ==
    ASSUME StoreInv, RenamePrimary \/ RenameBackup
    PROVE  StoreInv'
<1>0. serialized # Unusable
    BY StoreAssumption DEF StoreInv, StoreTypeOK
<1>1. CASE RenamePrimary
    BY <1>0, <1>1
    DEF StoreInv, RenamePrimary, StoreTypeOK, QueueInv, VersionInv, WriterInv, RestInv,
        AckedSurvives, BackupHoldsAcked, Loadable, File
<1>2. CASE RenameBackup
    BY <1>0, <1>2
    DEF StoreInv, RenameBackup, StoreTypeOK, QueueInv, VersionInv, WriterInv, RestInv,
        AckedSurvives, BackupHoldsAcked, Loadable, File
<1> QED
    BY <1>1, <1>2

LEMMA ResolveKeeps ==
    ASSUME StoreInv, Resolve
    PROVE  StoreInv'
<1>0. /\ StoreTypeOK /\ QueueInv /\ VersionInv /\ WriterInv
    BY DEF StoreInv
<1>1. /\ writer = "done" /\ waiting # <<>> /\ waiting \in Seq(Nat)
      /\ primary = serialized /\ backup = serialized /\ waiting[1] <= serialized
      /\ Len(waiting) = 1 => serialized = state
    BY <1>0 DEF Resolve, QueueInv, WriterInv, StoreTypeOK
<1>2. /\ acked' = waiting[1] /\ waiting' = Tail(waiting) /\ writer' = "idle"
      /\ UNCHANGED <<state, serialized, poisoned, files, session, used>>
    BY <1>1, TailShifts DEF Resolve
<1>3. StoreTypeOK' /\ WriterInv'
    BY <1>0, <1>1, <1>2, TailShifts DEF StoreTypeOK, WriterInv, files
<1>4. QueueInv'
    BY <1>0, <1>1, <1>2 DEF QueueInv
<1>5. VersionInv'
    BY <1>0, <1>1, <1>2, TailShifts DEF VersionInv
<1>6. RestInv'
    BY <1>1, <1>2, TailShifts DEF RestInv, files
<1>7. AckedSurvives' /\ BackupHoldsAcked'
    BY <1>0, <1>1, <1>2, StoreAssumption
    DEF AckedSurvives, BackupHoldsAcked, Loadable, StoreTypeOK, files
<1> QED
    BY <1>3, <1>4, <1>5, <1>6, <1>7 DEF StoreInv

LEMMA WriteFailsKeeps ==
    ASSUME StoreInv, WriteFails
    PROVE  StoreInv'
<1>1. used' \in [sets : Nat, crashes : Nat, faults : Nat, damage : Nat]
    BY SpendTypes DEF StoreInv, WriteFails, Failing
<1> QED
    BY <1>1
    DEF StoreInv, WriteFails, StoreTypeOK, QueueInv, VersionInv, WriterInv, RestInv,
        AckedSurvives, BackupHoldsAcked, Loadable, files

LEMMA DiscardKeeps ==
    ASSUME StoreInv, LoadFails \/ Crash
    PROVE  StoreInv'
<1>1. used' \in [sets : Nat, crashes : Nat, faults : Nat, damage : Nat]
    BY SpendTypes DEF StoreInv, LoadFails, Failing, Crash
<1>2. Discard
    BY DEF LoadFails, Crash
<1>3. StoreTypeOK'
  <2>1. waiting' \in Seq(Nat)
    BY <1>2 DEF Discard
  <2> QED
    BY <1>1, <1>2, <2>1 DEF StoreInv, Discard, StoreTypeOK, files
<1>4. QueueInv' /\ VersionInv' /\ WriterInv' /\ RestInv'
    BY <1>2 DEF Discard, QueueInv, VersionInv, WriterInv, RestInv
<1>5. AckedSurvives' /\ BackupHoldsAcked'
    BY <1>2 DEF StoreInv, Discard, AckedSurvives, BackupHoldsAcked, Loadable, files
<1> QED
    BY <1>3, <1>4, <1>5 DEF StoreInv

LEMMA DamageKeeps ==
    ASSUME StoreInv, DamagePrimary
    PROVE  StoreInv'
<1>1. used' \in [sets : Nat, crashes : Nat, faults : Nat, damage : Nat]
    BY SpendTypes DEF StoreInv, DamagePrimary
<1> QED
    BY <1>1
    DEF StoreInv, DamagePrimary, StoreTypeOK, QueueInv, VersionInv, WriterInv, RestInv,
        AckedSurvives, BackupHoldsAcked, Loadable, File, queueVars

LEMMA StoreInvariance == Spec => []StoreInv
<1>1. Init => StoreInv
  <2> SUFFICES ASSUME Init PROVE StoreInv
    OBVIOUS
  <2>1. StoreTypeOK
    <3>1. waiting \in Seq(Nat)
        BY DEF Init
    <3>2. used \in [sets : Nat, crashes : Nat, faults : Nat, damage : Nat]
        BY DEF Init
    <3> QED
        BY <3>1, <3>2 DEF Init, StoreTypeOK, File
  <2>2. QueueInv /\ VersionInv /\ WriterInv /\ RestInv
    BY DEF Init, QueueInv, VersionInv, WriterInv, RestInv
  <2>3. AckedSurvives /\ BackupHoldsAcked
    BY DEF Init, AckedSurvives, BackupHoldsAcked, Loadable
  <2> QED
    BY <2>1, <2>2, <2>3 DEF StoreInv
<1>2. StoreInv /\ [Next]_vars => StoreInv'
  <2> SUFFICES ASSUME StoreInv, [Next]_vars PROVE StoreInv'
    OBVIOUS
  <2>1. CASE Next
    BY <2>1, LoadKeeps, LoadedKeeps, SetKeeps, SerializeKeeps, RenamesKeep, ResolveKeeps,
        WriteFailsKeeps, DiscardKeeps, DamageKeeps
    DEF Next, Persist
  <2>2. CASE UNCHANGED vars
    BY <2>2
    DEF vars, StoreInv, StoreTypeOK, QueueInv, VersionInv, WriterInv, RestInv,
        AckedSurvives, BackupHoldsAcked, Loadable, queueVars, files
  <2> QED
    BY <2>1, <2>2
<1> QED
    BY <1>1, <1>2, PTL DEF Spec

-----------------------------------------------------------------------------
(***************************************************************************)
(* The files, the queue and the writer keep their types (local-state.ts).  *)
(***************************************************************************)
THEOREM StoreTypes == Spec => []StoreTypeOK
<1>1. StoreInv => StoreTypeOK
    BY DEF StoreInv
<1> QED
    BY <1>1, StoreInvariance, PTL

(***************************************************************************)
(* What load would find is never older than what a caller was told is      *)
(* written (load, 29-45, against doPersist, 80-94).                        *)
(***************************************************************************)
THEOREM AckedIsDurable == Spec => []AckedSurvives
<1>1. StoreInv => AckedSurvives
    BY DEF StoreInv
<1> QED
    BY <1>1, StoreInvariance, PTL

(***************************************************************************)
(* The backup alone holds everything acknowledged (the second rename, 93). *)
(***************************************************************************)
THEOREM BackupIsEnough == Spec => []BackupHoldsAcked
<1>1. StoreInv => BackupHoldsAcked
    BY DEF StoreInv
<1> QED
    BY <1>1, StoreInvariance, PTL

(***************************************************************************)
(* A queue that has run dry without a rejection has written the whole map  *)
(* (persist, 75-78).                                                       *)
(***************************************************************************)
THEOREM DrainedIsPersisted == Spec => []IdleIsPersisted
<1>1. StoreInv => IdleIsPersisted
    BY DEF StoreInv, RestInv, IdleIsPersisted
<1> QED
    BY <1>1, StoreInvariance, PTL
=============================================================================
