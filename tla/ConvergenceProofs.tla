------------------------- MODULE ConvergenceProofs -------------------------
(***************************************************************************)
(* Engines converge, for any peers, paths, contents, policies and bounds:  *)
(* as long as no peer that stops or crashes has published, ConvInv holds,  *)
(* so folders at rest match the manifest, and until a crash no follower    *)
(* rolls the others back; and where no peer stops or crashes, nobody       *)
(* replaces an entry it has not incorporated.                              *)
(***************************************************************************)
EXTENDS SyncEngineProofs, Convergence

USE DEF manifestVars, folderVars, localVars, remoteVars, startVars

-----------------------------------------------------------------------------
(***************************************************************************)
(* Entries, and the queue as a sequence.                                   *)
(***************************************************************************)
LEMMA EntryFacts ==
    ASSUME NEW e \in UserManifestValue
    PROVE  /\ e # None /\ e.pos \in Nat /\ e.pos > 0 /\ Pos(e) = e.pos
           /\ e.kind \in {"file", "tombstone"} /\ e.writerKey \in Peer
           /\ IsFile(e) <=> e.kind = "file"
           /\ IsTombstone(e) <=> e.kind = "tombstone"
           /\ e.kind = "file" => e.hash \in Content /\ e.hash # None /\ Shown(e) = e.hash
           /\ e.kind = "tombstone" => Shown(e) = None
BY EntryAssumption, NoneAssumption
DEF UserManifestValue, FileMetadata, TombstoneMetadata, Position, Pos, IsFile, IsTombstone,
    Shown

LEMMA NoEntry == Shown(None) = None /\ Pos(None) = 0 /\ ~IsFile(None) /\ ~IsTombstone(None)
BY DEF Shown, Pos, IsFile, IsTombstone

LEMMA ShownFile ==
    ASSUME NEW e \in UserManifestValue \cup {None}
    PROVE  /\ IsFile(e) <=> Shown(e) # None
           /\ IsFile(e) => e \in UserManifestValue /\ e.kind = "file" /\ Shown(e) = e.hash
           /\ ~IsFile(e) /\ e # None => e \in UserManifestValue /\ e.kind = "tombstone"
BY EntryFacts, NoEntry

OneEvent(q) == \A i, j \in DOMAIN q : q[i].path = q[j].path => i = j

LEMMA AppendEvent ==
    ASSUME NEW q \in Seq(Event), NEW e \in Event,
           OneEvent(q), \A i \in DOMAIN q : q[i].path # e.path
    PROVE  /\ Append(q, e) \in Seq(Event) /\ OneEvent(Append(q, e))
           /\ \A i \in DOMAIN q : i \in DOMAIN Append(q, e) /\ Append(q, e)[i] = q[i]
           /\ \E i \in DOMAIN Append(q, e) : Append(q, e)[i] = e
           /\ \A i \in DOMAIN Append(q, e) :
                \/ Append(q, e)[i] = e
                \/ i \in DOMAIN q /\ Append(q, e)[i] = q[i]
<1>1. /\ Append(q, e) \in Seq(Event) /\ Len(q) \in Nat
      /\ Len(Append(q, e)) = Len(q) + 1
      /\ Append(q, e)[Len(q) + 1] = e
      /\ \A i \in 1 .. Len(q) : Append(q, e)[i] = q[i]
    OBVIOUS
<1>2. DOMAIN q = 1 .. Len(q) /\ DOMAIN Append(q, e) = 1 .. (Len(q) + 1)
    BY <1>1
<1> QED
    BY <1>1, <1>2 DEF OneEvent

LEMMA TailEvent ==
    ASSUME NEW q \in Seq(Event), q # <<>>, OneEvent(q)
    PROVE  /\ Tail(q) \in Seq(Event) /\ OneEvent(Tail(q)) /\ Head(q) \in Event
           /\ \A i \in DOMAIN Tail(q) :
                \E j \in DOMAIN q : Tail(q)[i] = q[j] /\ q[j].path # Head(q).path
           /\ \A j \in DOMAIN q : q[j] = Head(q) \/ \E i \in DOMAIN Tail(q) : Tail(q)[i] = q[j]
           /\ \E j \in DOMAIN q : q[j] = Head(q)
<1>1. /\ Len(q) \in Nat /\ Len(q) > 0 /\ Tail(q) \in Seq(Event) /\ Head(q) \in Event
      /\ Len(Tail(q)) = Len(q) - 1 /\ Head(q) = q[1]
      /\ \A i \in 1 .. Len(q) - 1 : Tail(q)[i] = q[i + 1]
    OBVIOUS
<1>2. DOMAIN q = 1 .. Len(q) /\ DOMAIN Tail(q) = 1 .. Len(q) - 1
    BY <1>1
<1>3. OneEvent(Tail(q))
    BY <1>1, <1>2 DEF OneEvent
<1>4. ASSUME NEW i \in DOMAIN Tail(q)
      PROVE  \E j \in DOMAIN q : Tail(q)[i] = q[j] /\ q[j].path # Head(q).path
  <2>1. i + 1 \in DOMAIN q /\ 1 \in DOMAIN q /\ i + 1 # 1 /\ Tail(q)[i] = q[i + 1]
    BY <1>1, <1>2
  <2> QED
    BY <1>1, <2>1 DEF OneEvent
<1>5. ASSUME NEW j \in DOMAIN q, q[j] # Head(q)
      PROVE  \E i \in DOMAIN Tail(q) : Tail(q)[i] = q[j]
  <2>1. j - 1 \in DOMAIN Tail(q) /\ Tail(q)[j - 1] = q[j]
    BY <1>1, <1>2, <1>5
  <2> QED
    BY <2>1
<1>6. \E j \in DOMAIN q : q[j] = Head(q)
    BY <1>1, <1>2
<1> QED
    BY <1>1, <1>3, <1>4, <1>5, <1>6

-----------------------------------------------------------------------------
(***************************************************************************)
(* What depends on one peer alone rests when another moves.                *)
(***************************************************************************)
Leaves(p) == Stop(p) \/ Crash(p) \/ StartFails(p)

LEMMA Mover ==
    ASSUME Orderly, TypeInv, Next
    PROVE  \E p \in Peer : Moves(p) \/ (p \in Restarting /\ Leaves(p))
<1>1. used.updates \in Nat /\ used.faults \in Nat
    BY DEF TypeInv, TypeOK
<1>2. \A p \in Peer : Leaves(p) => p \in Restarting
    BY DEF Leaves, Stop, Crash, StartFails
<1>3. \A p \in Peer : ~UnrelatedUpdate(p)
    BY <1>1 DEF Orderly, UnrelatedUpdate, Spend
<1>4. \A p \in Peer : ~ScanFails(p)
    BY <1>1 DEF Orderly, ScanFails, Spend
<1> QED
    BY <1>2, <1>3, <1>4 DEF Next, Moves, Leaves

LEMMA SamePaths ==
    ASSUME NEW q \in Peer, Rests(q), NEW x
    PROVE  /\ Own(q, x)' <=> Own(q, x)
           /\ Applied(q, x)' <=> Applied(q, x)
           /\ Queued(q, x)' <=> Queued(q, x)
           /\ Handled(q, x)' <=> Handled(q, x)
           /\ Clean(q, x)' <=> Clean(q, x)
           /\ Editing(q, x)' <=> Editing(q, x)
           /\ Writing(q, x)' <=> Writing(q, x)
           /\ Recording(q, x)' <=> Recording(q, x)
           /\ Due(q, x)' <=> Due(q, x)
           /\ Noted(q, x)' <=> Noted(q, x)
           /\ Settled(q, x)' <=> Settled(q, x)
           /\ Uploaded(q, x)' <=> Uploaded(q, x)
           /\ Pending(q, x)' <=> Pending(q, x)
           /\ Publishing(q, x)' <=> Publishing(q, x)
           /\ PublishedEdit(q, x)' <=> PublishedEdit(q, x)
           /\ Synced(q, x)' <=> Synced(q, x)
           /\ Comparable(q, x)' <=> Comparable(q, x)
<1> USE DEF Rests
<1>1. Own(q, x)' <=> Own(q, x)
    BY DEF Own
<1>2. Applied(q, x)' <=> Applied(q, x)
    BY DEF Applied
<1>3. Queued(q, x)' <=> Queued(q, x)
    BY DEF Queued
<1>4. Handled(q, x)' <=> Handled(q, x)
    BY DEF Handled
<1>5. Clean(q, x)' <=> Clean(q, x)
    BY <1>3, <1>4 DEF Clean
<1>6. Editing(q, x)' <=> Editing(q, x)
    BY <1>5 DEF Editing
<1>7. Writing(q, x)' <=> Writing(q, x)
    BY DEF Writing, X
<1>8. Recording(q, x)' <=> Recording(q, x)
    BY DEF Recording, X
<1>9. Due(q, x)' <=> Due(q, x)
    BY DEF Due, Entry
<1>17. Noted(q, x)' <=> Noted(q, x)
    BY DEF Noted
<1>10. Settled(q, x)' <=> Settled(q, x)
    BY <1>2, <1>5, <1>7, <1>17 DEF Settled
<1>11. Uploaded(q, x)' <=> Uploaded(q, x)
    BY <1>1, <1>2 DEF Uploaded
<1>12. Pending(q, x)' <=> Pending(q, x)
    BY DEF Pending, EventAt
<1>13. Publishing(q, x)' <=> Publishing(q, x)
    BY <1>4 DEF Publishing
<1>14. PublishedEdit(q, x)' <=> PublishedEdit(q, x)
    BY <1>1, <1>2, <1>4 DEF PublishedEdit
<1>15. Synced(q, x)' <=> Synced(q, x)
    BY <1>2 DEF Synced
<1>16. Comparable(q, x)' <=> Comparable(q, x)
    BY <1>1 DEF Comparable
<1> QED
    BY <1>1, <1>2, <1>3, <1>4, <1>5, <1>6, <1>7, <1>8, <1>9, <1>10, <1>11, <1>12, <1>13,
       <1>14, <1>15, <1>16, <1>17

LEMMA SameNewest ==
    ASSUME NEW q \in Peer, NEW x, view'[q][x] = view[q][x], log'[x] = log[x]
    PROVE  /\ Newest(q, x)' <=> Newest(q, x)
           /\ Above(q, x)' = Above(q, x)
BY DEF Newest, Above

LEMMA SameScan ==
    ASSUME NEW q \in Peer, Rests(q), log' = log
    PROVE  /\ ScanInv(q)' <=> ScanInv(q)
           /\ OneEach(q)' <=> OneEach(q)
           /\ QueueInv(q)' <=> QueueInv(q)
           /\ \A x : KeptInv(q, x)' <=> KeptInv(q, x)
           /\ FreshInv(q)' <=> FreshInv(q)
           /\ IdleInv(q)' <=> IdleInv(q)
           /\ NoCopiesOf(q)' <=> NoCopiesOf(q)
<1>1. Items(q)' = Items(q) /\ Held(q)' = Held(q) /\ X(q)' = X(q) /\ M(q)' = M(q)
    BY DEF Items, Held, Rests, X, M
<1>2. \A i : ItemInv(q, i)' <=> ItemInv(q, i)
  <2>1. \A i : /\ Editing(q, i.path)' <=> Editing(q, i.path)
               /\ Writing(q, i.path)' <=> Writing(q, i.path)
    BY SamePaths
  <2> QED
    BY <2>1 DEF ItemInv, Rests
<1>3. OneEach(q)' <=> OneEach(q)
    BY <1>1 DEF OneEach, Rests
<1>4. FrameInv(q)' <=> FrameInv(q)
  <2>1. /\ Newest(q, X(q))' <=> Newest(q, X(q))
        /\ Writing(q, X(q))' <=> Writing(q, X(q))
        /\ Applied(q, X(q))' <=> Applied(q, X(q))
    BY <1>1, SamePaths, SameNewest DEF Newest, Writing, Applied, Rests
  <2> QED
    BY <1>1, <2>1 DEF FrameInv, Rests
<1>5. ScanInv(q)' <=> ScanInv(q)
    BY <1>1, <1>2, <1>3, <1>4 DEF ScanInv
<1>6. QueueInv(q)' <=> QueueInv(q)
  <2>1. \A x : /\ Queued(q, x)' <=> Queued(q, x)
               /\ Handled(q, x)' <=> Handled(q, x)
               /\ Clean(q, x)' <=> Clean(q, x)
    BY SamePaths
  <2> QED
    BY <2>1 DEF QueueInv, Rests
<1>7. ASSUME NEW x
      PROVE  KeptInv(q, x)' <=> KeptInv(q, x)
  <2>1. /\ Handled(q, x)' <=> Handled(q, x)
        /\ Clean(q, x)' <=> Clean(q, x)
        /\ Applied(q, x)' <=> Applied(q, x)
        /\ Own(q, x)' <=> Own(q, x)
        /\ Due(q, x)' <=> Due(q, x)
        /\ Writing(q, x)' <=> Writing(q, x)
        /\ Recording(q, x)' <=> Recording(q, x)
        /\ Noted(q, x)' <=> Noted(q, x)
        /\ Newest(q, x)' <=> Newest(q, x)
        /\ Above(q, x)' = Above(q, x)
    BY SamePaths, SameNewest DEF Rests
  <2> QED
    BY <2>1 DEF KeptInv, Rests
<1>8. FreshInv(q)' <=> FreshInv(q)
    BY DEF FreshInv, Rests
<1>9. NoCopiesOf(q)' <=> NoCopiesOf(q)
    BY DEF NoCopiesOf
<1>10. IdleInv(q)' <=> IdleInv(q)
    BY DEF IdleInv, Rests
<1> QED
    BY <1>3, <1>5, <1>6, <1>7, <1>8, <1>9, <1>10

LEMMA SameSession ==
    ASSUME NEW q \in Peer, Rests(q), log' = log
    PROVE  /\ ReconcileInv(q)' <=> ReconcileInv(q)
           /\ ListingInv(q)' <=> ListingInv(q)
           /\ ComparingInv(q)' <=> ComparingInv(q)
           /\ NotingInv(q)' <=> NotingInv(q)
<1>1. Items(q)' = Items(q) /\ Held(q)' = Held(q) /\ X(q)' = X(q) /\ M(q)' = M(q)
    BY DEF Items, Held, Rests, X, M
<1>2. \A x : /\ Own(q, x)' <=> Own(q, x)
             /\ Applied(q, x)' <=> Applied(q, x)
             /\ Handled(q, x)' <=> Handled(q, x)
             /\ Synced(q, x)' <=> Synced(q, x)
             /\ Comparable(q, x)' <=> Comparable(q, x)
             /\ Uploaded(q, x)' <=> Uploaded(q, x)
    BY SamePaths
<1>3. AwaitInv(q)' <=> AwaitInv(q)
  <2>1. /\ Own(q, X(q))' <=> Own(q, X(q))
        /\ Applied(q, X(q))' <=> Applied(q, X(q))
    BY <1>1 DEF Own, Applied, Rests
  <2> QED
    BY <1>1, <2>1 DEF AwaitInv, Rests
<1>4. ReconcileInv(q)' <=> ReconcileInv(q)
  <2>1. /\ Own(q, X(q))' <=> Own(q, X(q))
        /\ Applied(q, X(q))' <=> Applied(q, X(q))
    BY <1>1 DEF Own, Applied, Rests
  <2>2. NoCopiesOf(q)' <=> NoCopiesOf(q)
    BY DEF NoCopiesOf
  <2>3. OneEach(q)' <=> OneEach(q)
    BY <1>1 DEF OneEach, Rests
  <2> QED
    BY <1>1, <1>2, <1>3, <2>1, <2>2, <2>3 DEF ReconcileInv, Rests
<1>5. ListingInv(q)' <=> ListingInv(q)
  <2>1. Uploaded(q, local[q].path)' <=> Uploaded(q, local[q].path)
    BY DEF Uploaded, Own, Applied, Rests
  <2> QED
    BY <1>2, <2>1 DEF ListingInv, Rests
<1>6. ComparingInv(q)' <=> ComparingInv(q)
    BY <1>1 DEF ComparingInv, Rests
<1>7. NotingInv(q)' <=> NotingInv(q)
    BY <1>2 DEF NotingInv, Rests
<1> QED
    BY <1>4, <1>5, <1>6, <1>7

LEMMA SamePeer ==
    ASSUME NEW q \in Peer, Rests(q), log' = log, PeerInv(q),
           Live(q) => LiveInv(q)', Starting(q) => SessionInv(q)'
    PROVE  PeerInv(q)'
<1>1. Live(q)' <=> Live(q)
    BY DEF Live, Rests
<1>2. Starting(q)' <=> Starting(q)
    BY DEF Starting, Rests
<1>3. RestartInv(q)' <=> RestartInv(q)
    BY SameScan, SameSession DEF RestartInv, Rests
<1>4. JoinInv(q)' <=> JoinInv(q)
    BY SameScan, SameSession DEF JoinInv, Rests
<1> QED
    BY <1>1, <1>2, <1>3, <1>4 DEF PeerInv

-----------------------------------------------------------------------------
(***************************************************************************)
(* A step of a live peer that writes no entry: what is left to show is     *)
(* about that peer alone.                                                  *)
(***************************************************************************)
LEMMA LiveKept ==
    ASSUME NEW q \in Peer, Rests(q), log' = log, LiveInv(q),
           \A x \in AllPath : Editing(q, x) /\ AloneAt(q, x) => AloneAt(q, x)'
    PROVE  LiveInv(q)'
<1>1. ScanInv(q)' /\ QueueInv(q)'
    BY SameScan DEF LiveInv
<1>2. ASSUME NEW x \in AllPath, Editing(q, x)'
      PROVE  EditInv(q, x)'
  <2>1. EditInv(q, x) /\ Editing(q, x)
    BY <1>2, SamePaths DEF LiveInv
  <2>2. Newest(q, x)'
    BY <2>1, SameNewest DEF EditInv, Rests
  <2>3. CASE PublishedEdit(q, x)
    BY <2>1, <2>2, <2>3, SamePaths DEF EditInv
  <2>4. CASE Unpublished(q, x)
    <3>1. /\ Applied(q, x)' <=> Applied(q, x)
          /\ Pending(q, x)' <=> Pending(q, x)
          /\ Publishing(q, x)' <=> Publishing(q, x)
        BY SamePaths
    <3>2. Unpublished(q, x)'
        BY <2>1, <2>4, <3>1 DEF Unpublished, Rests
    <3> QED
        BY <2>1, <2>2, <3>2 DEF EditInv
  <2> QED
    BY <2>1, <2>3, <2>4 DEF EditInv
<1>3. ASSUME NEW x \in AllPath, ~Editing(q, x)'
      PROVE  KeptInv(q, x)'
    BY <1>3, SamePaths, SameScan DEF LiveInv
<1> QED
    BY <1>1, <1>2, <1>3 DEF LiveInv

Busy(p) == ~Resting(p) \/ \E y \in AllPath : ~Clean(p, y)

LEMMA NotAlone ==
    ASSUME NEW p \in Peer, Live(p), Busy(p), NEW q \in Peer \ {p}, NEW x
    PROVE  ~AloneAt(q, x)
BY DEF AloneAt, Busy

LEMMA SomeoneStays ==
    ASSUME SomeoneNewest, NEW p \in Peer, OnlyMover(p), log' = log,
           Live(p)' \/ Starting(p)' \/ ~(Live(p) \/ Starting(p)) \/ p \in Restarting,
           \A x \in AllPath : Newest(p, x) => view'[p][x] = view[p][x]
    PROVE  SomeoneNewest'
<1> SUFFICES ASSUME NEW x \in AllPath
             PROVE  \E q \in Peer \ Restarting : (Live(q)' \/ Starting(q)') /\ Newest(q, x)'
    BY DEF SomeoneNewest
<1>1. PICK q \in Peer \ Restarting : (Live(q) \/ Starting(q)) /\ Newest(q, x)
    BY DEF SomeoneNewest
<1>2. CASE q = p
    BY <1>1, <1>2, SameNewest
<1>3. CASE q # p
  <2>1. Rests(q)
    BY <1>3 DEF OnlyMover
  <2>2. (Live(q)' \/ Starting(q)') /\ Newest(q, x)'
    BY <1>1, <2>1, SameNewest DEF Rests, Live, Starting
  <2> QED
    BY <2>2
<1> QED
    BY <1>2, <1>3

\* What a joining peer's session needs of a live peer that moves.
SessionsUndisturbed(p) ==
    \A c \in Peer : Starting(c) =>
        \A x \in AllPath :
            /\ Newest(p, x) /\ Settled(p, x) => Settled(p, x)'
            /\ ~Editing(p, x)'

LEMMA SessionKept ==
    ASSUME NEW p \in Peer, Live(p), Live(p)', OnlyMover(p), log' = log,
           \A x \in AllPath : Newest(p, x) => view'[p][x] = view[p][x],
           SessionsUndisturbed(p),
           NEW c \in Peer, Starting(c), SessionInv(c)
    PROVE  SessionInv(c)'
<1>1. c # p /\ Rests(c)
    BY DEF Live, Starting, OnlyMover
<1>2. \A q \in Peer \ {p} : /\ Live(q)' <=> Live(q)
                            /\ Starting(q)' <=> Starting(q)
    BY DEF OnlyMover, Rests, Live, Starting
<1>3. \A q \in Peer \ {c} : ~Starting(q)'
    BY <1>2 DEF SessionInv, Live, Starting
<1>4. ASSUME NEW q \in Peer, Live(q)', NEW x \in AllPath
      PROVE  ~Editing(q, x)'
  <2>1. CASE q = p
    BY <2>1 DEF SessionsUndisturbed
  <2>2. CASE q # p
    BY <1>2, <1>4, <2>2, SamePaths DEF OnlyMover, SessionInv
  <2> QED
    BY <2>1, <2>2
<1>5. dirty'[c] = {} /\ ~owed'[c]
    BY <1>1 DEF SessionInv, Rests
<1>6. ASSUME NEW x \in AllPath, Untouched(c, x), Newest(c, x)
      PROVE  Untouched(c, x)'
  <2>1. ASSUME NEW q \in Peer, Live(q)', q # p
        PROVE  view'[q][x] = view'[c][x] /\ Settled(q, x)'
    <3>1. Rests(q) /\ Live(q)
        BY <1>2, <2>1 DEF OnlyMover
    <3> QED
        BY <1>1, <1>6, <3>1, SamePaths DEF Untouched, Rests
  <2>2. view'[p][x] = view'[c][x] /\ Settled(p, x)'
    <3>1. view[p][x] = view[c][x] /\ Settled(p, x)
        BY <1>6 DEF Untouched
    <3>2. Newest(p, x)
        BY <1>6, <3>1 DEF Newest
    <3> QED
        BY <1>1, <3>1, <3>2 DEF SessionsUndisturbed, Rests
  <2> QED
    BY <2>1, <2>2 DEF Untouched
<1>7. \A x \in AllPath : Newest(c, x)' /\ (Untouched(c, x)' \/ Uploaded(c, x)')
    BY <1>1, <1>6, SameNewest, SamePaths DEF SessionInv, Rests
<1>8. \A x \in AllPath : Own(c, x)' => Uploaded(c, x)'
    BY <1>1, SamePaths DEF SessionInv
<1> QED
    BY <1>3, <1>4, <1>5, <1>7, <1>8 DEF SessionInv

LEMMA LiveMover ==
    ASSUME ConvInv, NEW p \in Peer, Live(p), Live(p)', OnlyMover(p), log' = log,
           \A q \in Peer \ {p} : \A x \in AllPath : ~AloneAt(q, x) \/ ~Editing(q, x),
           KnownViews', CopiesInv', LiveInv(p)',
           \A x \in AllPath : Newest(p, x) => view'[p][x] = view[p][x],
           SessionsUndisturbed(p)
    PROVE  ConvInv'
<1>1. SomeoneNewest'
    BY SomeoneStays DEF ConvInv
<1>2. ASSUME NEW q \in Peer, q # p
      PROVE  PeerInv(q)'
  <2>1. Rests(q) /\ PeerInv(q)
    BY <1>2 DEF OnlyMover, ConvInv
  <2>2. Live(q) => LiveInv(q)'
    BY <1>2, <2>1, LiveKept DEF PeerInv
  <2>3. Starting(q) => SessionInv(q)'
    BY <2>1, SessionKept DEF PeerInv
  <2> QED
    BY <2>1, <2>2, <2>3, SamePeer
<1>3. PeerInv(p)'
    BY DEF PeerInv, RestartInv, JoinInv, Live, Starting
<1> QED
    BY <1>1, <1>2, <1>3 DEF ConvInv

-----------------------------------------------------------------------------
(***************************************************************************)
(* The scans of a live peer.                                               *)
(***************************************************************************)
LEMMA PeerTypes ==
    ASSUME TypeInv, NEW p \in Peer
    PROVE  /\ view[p] \in [AllPath -> UserManifestValue \cup {None}]
           /\ disk[p] \in [AllPath -> Content \cup {None}]
           /\ tracked[p] \in [AllPath -> Content \cup {None}]
           /\ dirty[p] \subseteq AllPath /\ known[p] \subseteq AllPath
           /\ suppressed[p] \subseteq AllPath /\ listing[p] \subseteq AllPath
           /\ queue[p] \in Seq(Event) /\ owed[p] \in BOOLEAN
           /\ local[p].pc # "idle" => local[p].path \in AllPath
           /\ remote[p].snap \subseteq ManifestEntry
           /\ \A x \in AllPath : log[x] \subseteq UserManifestValue
           /\ remote[p].pc \notin {"idle", "pick"} =>
                /\ remote[p].item \in ManifestEntry
                /\ X(p) \in AllPath /\ M(p) \in UserManifestValue
                /\ Held(p) = {remote[p].item}
           /\ remote[p].pc \in {"idle", "pick"} => Held(p) = {}
BY DEF TypeInv, TypeOK, ManifestTypeOK, LocalFrames, LocalFrame, RemoteFrames, RemoteFrame,
    ManifestEntry, X, M, Held

LEMMA LiveReading ==
    ASSUME TypeInv, NEW p \in Peer, LiveInv(p), remote[p].pc = "read"
    PROVE  /\ remote[p].item \in Items(p) /\ ItemInv(p, remote[p].item)
           /\ KeptInv(p, X(p)) /\ ~Editing(p, X(p))
           /\ remote[p].tr = tracked[p][X(p)] /\ disk[p][X(p)] = C(p)
           /\ C(p) = None \/ tracked[p][X(p)] = C(p)
           /\ M(p) = view[p][X(p)] \/ (owed[p] /\ Shown(M(p)) = C(p))
           /\ M(p).kind = "tombstone" => remote[p].tr # None
           /\ M(p).kind = "tombstone" /\ C(p) # None => M(p) = view[p][X(p)]
<1>1. remote[p].item \in Items(p) /\ X(p) \in AllPath /\ M(p) \in UserManifestValue
    BY PeerTypes DEF Items
<1>2. ItemInv(p, remote[p].item)
    BY <1>1 DEF LiveInv, ScanInv
<1>3. ~Editing(p, X(p)) /\ KeptInv(p, X(p))
    BY <1>1, <1>2 DEF LiveInv, ItemInv, X
<1>4. ~Recording(p, X(p))
    BY DEF Recording
<1>5. disk[p][X(p)] = C(p) /\ (C(p) = None \/ tracked[p][X(p)] = C(p))
    BY <1>3, <1>4 DEF KeptInv, Noted, C
<1>6. /\ remote[p].tr = tracked[p][X(p)]
      /\ M(p).kind = "tombstone" => remote[p].tr # None
    BY DEF LiveInv, ScanInv, FrameInv
<1>7. M(p) = view[p][X(p)] \/ (owed[p] /\ Shown(M(p)) = C(p))
    BY <1>2 DEF ItemInv, M, X, C
<1> QED
    BY <1>1, <1>2, <1>3, <1>5, <1>6, <1>7, EntryFacts

\* The steps a scan of a live peer can really take.
LEMMA LiveRemote ==
    ASSUME TypeInv, NEW p \in Peer, Live(p), LiveInv(p), RemoteStep(p)
    PROVE  \/ ScanBegin(p) \/ PickEntry(p) \/ AlreadyInSync(p) \/ StartDownload(p)
           \/ StartDelete(p) \/ AlreadyDeleted(p) \/ ApplyRemote(p) \/ RecordDownload(p)
           \/ DeleteLocal(p) \/ ForgetRemote(p) \/ ScanEnd(p)
<1>1. remote[p].pc \notin {"copy", "await"}
    BY DEF LiveInv, ScanInv, FrameInv
<1>2. ~LocalYielded(p) /\ ~SaveConflictCopy(p)
    BY <1>1 DEF LocalYielded, SaveConflictCopy, Doing
<1>3. JoinPolicy(p) = "remote-wins"
    BY DEF Live, JoinPolicy
<1>4. ~YieldToLocal(p)
    BY <1>3 DEF YieldToLocal
<1>5. CASE remote[p].pc = "read"
  <2>1. /\ C(p) = None \/ remote[p].tr = C(p)
        /\ M(p).kind = "tombstone" => remote[p].tr # None
        /\ M(p) \in UserManifestValue
    BY <1>5, LiveReading, PeerTypes
  <2>0. Differs(p) => C(p) # None /\ C(p) # M(p).hash
    BY DEF Differs
  <2>2. ~NothingNew(p)
    BY <2>0, <2>1 DEF NothingNew
  <2>3. ~StartConflict(p)
    BY <1>3, <2>0, <2>1 DEF StartConflict, LocalChanged
  <2>4. ~StartPreserve(p) /\ ~DeletionVoid(p)
    BY <2>1 DEF StartPreserve, DeletionVoid, Comparing
  <2> QED
    BY <1>2, <1>4, <2>2, <2>3, <2>4 DEF RemoteStep
<1>6. CASE remote[p].pc # "read"
  <2>1. /\ ~NothingNew(p) /\ ~StartConflict(p) /\ ~StartPreserve(p) /\ ~DeletionVoid(p)
    BY <1>6 DEF NothingNew, StartConflict, StartPreserve, DeletionVoid, Differs, Comparing,
        Doing
  <2> QED
    BY <1>2, <1>4, <2>1 DEF RemoteStep
<1> QED
    BY <1>5, <1>6

ScansOnly(p) ==
    /\ view'[p] = view[p] /\ disk'[p] = disk[p] /\ dirty'[p] = dirty[p]
    /\ known'[p] = known[p] /\ tracked'[p] = tracked[p]
    /\ suppressed'[p] = suppressed[p] /\ queue'[p] = queue[p] /\ local'[p] = local[p]

LEMMA ScansOnlyPaths ==
    ASSUME NEW p, ScansOnly(p), NEW x
    PROVE  /\ Own(p, x)' <=> Own(p, x)
           /\ Applied(p, x)' <=> Applied(p, x)
           /\ Queued(p, x)' <=> Queued(p, x)
           /\ Handled(p, x)' <=> Handled(p, x)
           /\ Clean(p, x)' <=> Clean(p, x)
           /\ Editing(p, x)' <=> Editing(p, x)
           /\ PublishedEdit(p, x)' <=> PublishedEdit(p, x)
<1> USE DEF ScansOnly
<1>1. Own(p, x)' <=> Own(p, x)
    BY DEF Own
<1>2. Applied(p, x)' <=> Applied(p, x)
    BY DEF Applied
<1>3. Queued(p, x)' <=> Queued(p, x)
    BY DEF Queued
<1>4. Handled(p, x)' <=> Handled(p, x)
    BY DEF Handled
<1>5. Clean(p, x)' <=> Clean(p, x)
    BY <1>3, <1>4 DEF Clean
<1>6. Editing(p, x)' <=> Editing(p, x)
    BY <1>5 DEF Editing
<1>7. PublishedEdit(p, x)' <=> PublishedEdit(p, x)
    BY <1>1, <1>2, <1>4 DEF PublishedEdit
<1> QED
    BY <1>1, <1>2, <1>3, <1>4, <1>5, <1>6, <1>7

LEMMA ScanMove ==
    ASSUME NEW p \in Peer, Live(p), LiveInv(p), ScansOnly(p), log' = log, ~Resting(p),
           ScanInv(p)',
           \A x \in AllPath : ~Applied(p, x) /\ Due(p, x) /\ KeptInv(p, x) => Due(p, x)',
           \A x \in AllPath : KeptInv(p, x) => Noted(p, x),
           \A x \in AllPath : Writing(p, x)' => Newest(p, x)
    PROVE  LiveInv(p)'
<1>1. QueueInv(p)'
  <2>1. \A x : /\ Queued(p, x)' <=> Queued(p, x)
               /\ Handled(p, x)' <=> Handled(p, x)
               /\ Clean(p, x)' <=> Clean(p, x)
    BY ScansOnlyPaths
  <2> QED
    BY <2>1 DEF LiveInv, QueueInv, ScansOnly
<1>2. ASSUME NEW x \in AllPath, Editing(p, x)'
      PROVE  EditInv(p, x)'
  <2>1. EditInv(p, x)
    BY <1>2, ScansOnlyPaths DEF LiveInv
  <2>2. ~Unpublished(p, x)
    BY DEF Unpublished, AloneAt
  <2>3. PublishedEdit(p, x)'
    BY <2>1, <2>2, ScansOnlyPaths DEF EditInv
  <2>4. Newest(p, x)'
    BY <2>1, SameNewest DEF EditInv, ScansOnly
  <2> QED
    BY <2>1, <2>3, <2>4 DEF EditInv
<1>3. ASSUME NEW x \in AllPath, ~Editing(p, x)'
      PROVE  KeptInv(p, x)'
  <2>1. KeptInv(p, x) /\ Noted(p, x)
    BY <1>3, ScansOnlyPaths DEF LiveInv
  <2>2. /\ Newest(p, x)' <=> Newest(p, x)
        /\ Above(p, x)' = Above(p, x)
    BY SameNewest DEF ScansOnly
  <2>3. /\ Own(p, x)' <=> Own(p, x)
        /\ Applied(p, x)' <=> Applied(p, x)
        /\ Handled(p, x)' <=> Handled(p, x)
        /\ Clean(p, x)' <=> Clean(p, x)
    BY ScansOnlyPaths
  <2>4. ~Applied(p, x) => Due(p, x)'
    BY <2>1 DEF KeptInv
  <2>5. Noted(p, x)'
    BY <2>1 DEF Noted, ScansOnly
  <2> QED
    BY <2>1, <2>2, <2>3, <2>4, <2>5 DEF KeptInv, ScansOnly
<1> QED
    BY <1>1, <1>2, <1>3 DEF LiveInv

LEMMA SameViews ==
    ASSUME KnownViews, CopiesInv, log' = log, NEW p \in Peer, OnlyMover(p),
           view'[p] = view[p], disk'[p] = disk[p]
    PROVE  KnownViews' /\ CopiesInv'
<1>1. \A q \in Peer : view'[q] = view[q] /\ disk'[q] = disk[q]
    BY DEF OnlyMover, Rests
<1> QED
    BY <1>1 DEF KnownViews, CopiesInv

LEMMA ScanMoveWhole ==
    ASSUME ConvInv, NEW p \in Peer, Live(p), Live(p)', OnlyMover(p),
           ScansOnly(p), log' = log, ~Resting(p), ScanInv(p)',
           \A x \in AllPath : ~Applied(p, x) /\ Due(p, x) /\ KeptInv(p, x) => Due(p, x)',
           \A x \in AllPath : KeptInv(p, x) => Noted(p, x),
           \A x \in AllPath : Writing(p, x)' => Newest(p, x) /\ ~Applied(p, x)
    PROVE  ConvInv'
<1>1. LiveInv(p)
    BY DEF ConvInv, PeerInv
<1>2. LiveInv(p)'
    BY <1>1, ScanMove
<1>3. KnownViews' /\ CopiesInv'
    BY SameViews DEF ConvInv, ScansOnly
<1>4. SessionsUndisturbed(p)
  <2>1. ASSUME NEW c \in Peer, Starting(c), NEW x \in AllPath
        PROVE  /\ Newest(p, x) /\ Settled(p, x) => Settled(p, x)'
               /\ ~Editing(p, x)'
    <3>1. ~Editing(p, x)
        BY <2>1 DEF ConvInv, PeerInv, SessionInv
    <3> QED
        BY <3>1, ScansOnlyPaths DEF Settled, Noted, ScansOnly
  <2> QED
    BY <2>1 DEF SessionsUndisturbed
<1>5. \A q \in Peer \ {p} : \A x \in AllPath : ~AloneAt(q, x)
    BY NotAlone DEF Busy
<1> QED
    BY <1>2, <1>3, <1>4, <1>5, LiveMover DEF ScansOnly

LEMMA ItemStays ==
    ASSUME NEW p, NEW i, ItemInv(p, i), ScansOnly(p), owed[p] => owed'[p],
           Writing(p, i.path)' => Writing(p, i.path) \/ i.metadata = view[p][i.path]
    PROVE  ItemInv(p, i)'
<1>1. Editing(p, i.path)' <=> Editing(p, i.path)
    BY ScansOnlyPaths
<1> QED
    BY <1>1 DEF ItemInv, ScansOnly

\* A path whose synced content is not the one the file holds is being recorded.
LEMMA NotRecording ==
    ASSUME NEW p, remote[p].pc \notin {"record", "forget"}, NEW x, KeptInv(p, x)
    PROVE  Noted(p, x)
BY DEF KeptInv, Recording

LEMMA LiveScanBegin ==
    ASSUME TypeInv, ConvInv, NEW p \in Peer, Live(p), OnlyMover(p), ScanBegin(p)
    PROVE  ConvInv'
<1>1. /\ owed[p] /\ remote[p].pc = "idle" /\ log' = log /\ ScansOnly(p) /\ Live(p)'
      /\ remote'[p] = Begun(p) /\ ~owed'[p]
    BY DEF ScanBegin, Turns, ScansOnly, Live, TypeInv, TypeOK
<1>2. LiveInv(p)
    BY DEF ConvInv, PeerInv
<1>3. remote'[p].pc = "pick" /\ remote'[p].snap = List(p)
    BY <1>1 DEF Begun, IdleRemote
<1>4. Items(p)' = List(p) /\ Held(p)' = {}
    BY <1>3 DEF Items, Held
<1>5. ASSUME NEW i \in List(p)
      PROVE  /\ i = Entry(p, i.path) /\ i.path \in AllPath /\ view[p][i.path] # None
             /\ i.metadata = view[p][i.path] /\ i.metadata.writerKey # p
    BY <1>5 DEF List, Entry
<1>6. ASSUME NEW i \in List(p)
      PROVE  ItemInv(p, i)'
  <2>1. ~Editing(p, i.path)
    <3>1. SUFFICES ASSUME EditInv(p, i.path)
                   PROVE  FALSE
        BY <1>2, <1>5 DEF LiveInv
    <3>2. ~AloneAt(p, i.path)
        BY <1>1 DEF AloneAt, Resting
    <3>3. PublishedEdit(p, i.path)
        BY <3>1, <3>2 DEF EditInv, Unpublished
    <3> QED
        BY <1>5, <3>3 DEF PublishedEdit, Own
  <2> QED
    BY <1>1, <1>5, <2>1, ScansOnlyPaths DEF ItemInv, ScansOnly
<1>7. OneEach(p)'
    BY <1>3, <1>4, <1>5 DEF OneEach
<1>8. \A x : ~Writing(p, x)'
    BY <1>3 DEF Writing
<1>9. FrameInv(p)'
    BY <1>3, <1>8 DEF FrameInv
<1>10. ScanInv(p)'
    BY <1>4, <1>6, <1>7, <1>9 DEF ScanInv
<1>11. ASSUME NEW x \in AllPath, ~Applied(p, x), KeptInv(p, x)
       PROVE  Due(p, x)'
  <2>1. view[p][x] # None /\ ~Own(p, x)
    BY <1>11 DEF KeptInv
  <2>2. Entry(p, x) \in List(p)
    BY <2>1 DEF Entry, List, Own
  <2> QED
    BY <1>1, <1>3, <2>2 DEF Due, Entry, ScansOnly
<1>12. \A x \in AllPath : KeptInv(p, x) => Noted(p, x)
    BY <1>1, NotRecording
<1>13. ~Resting(p)
    BY <1>1 DEF Resting
<1> QED
    BY <1>1, <1>8, <1>10, <1>11, <1>12, <1>13, ScanMoveWhole

LEMMA LivePick ==
    ASSUME TypeInv, ConvInv, NEW p \in Peer, Live(p), OnlyMover(p), PickEntry(p)
    PROVE  ConvInv'
<1>1. /\ remote[p].pc = "pick" /\ log' = log /\ ScansOnly(p) /\ Live(p)' /\ owed' = owed
    BY DEF PickEntry, ScansOnly, Live
<1>2. LiveInv(p)
    BY DEF ConvInv, PeerInv
<1> DEFINE rest(i) == [NextEntry(p) EXCEPT !.snap = @ \ {i}]
<1>3. PICK item \in remote[p].snap :
        remote'[p] = IF DeletionIgnored(p, item) THEN rest(item)
                     ELSE [rest(item) EXCEPT !.pc = "read", !.item = item,
                                             !.tr = tracked[p][item.path]]
    BY DEF PickEntry, Turns, TypeInv, TypeOK
<1>4. /\ remote'[p].snap = remote[p].snap \ {item}
      /\ DeletionIgnored(p, item) => remote'[p].pc = "pick"
      /\ ~DeletionIgnored(p, item) => /\ remote'[p].pc = "read" /\ remote'[p].item = item
                                      /\ remote'[p].tr = tracked[p][item.path]
    BY <1>3 DEF NextEntry, IdleRemote
<1>5. Held(p) = {} /\ Items(p) = remote[p].snap
    BY <1>1 DEF Held, Items
<1>6. Items(p)' \subseteq remote[p].snap /\ Held(p)' \subseteq {item}
    BY <1>4 DEF Items, Held
<1>7. \A x : ~Writing(p, x)'
    BY <1>4 DEF Writing
<1>8. \A i \in Items(p)' : ItemInv(p, i)'
    BY <1>1, <1>2, <1>5, <1>6, <1>7, ItemStays DEF LiveInv, ScanInv
<1>9. OneEach(p)'
  <2>1. \A i, j \in remote[p].snap : i.path = j.path => i = j
    BY <1>2 DEF LiveInv, ScanInv, OneEach
  <2>2. remote'[p].snap \subseteq remote[p].snap /\ item \notin remote'[p].snap
    BY <1>4
  <2> QED
    BY <1>6, <2>1, <2>2 DEF OneEach
<1>10. /\ item \in ManifestEntry /\ item.path \in AllPath
       /\ item.metadata \in UserManifestValue
    BY PeerTypes DEF ManifestEntry
<1>11. item.metadata.kind = "tombstone" /\ ~DeletionIgnored(p, item) =>
            /\ tracked[p][item.path] # None
            /\ item.metadata.baseHash = tracked[p][item.path]
    BY DEF DeletionIgnored, JoinPolicy, Live
<1>12. FrameInv(p)'
  <2>1. remote'[p].pc = "read" =>
            /\ ~DeletionIgnored(p, item) /\ X(p)' = item.path /\ M(p)' = item.metadata
    BY <1>4 DEF X, M
  <2> QED
    BY <1>1, <1>4, <1>7, <1>11, <2>1 DEF FrameInv, ScansOnly
<1>13. ScanInv(p)'
    BY <1>8, <1>9, <1>12 DEF ScanInv
<1>14. ASSUME NEW x \in AllPath, ~Applied(p, x), Due(p, x), KeptInv(p, x)
       PROVE  Due(p, x)'
  <2>1. owed[p] \/ Entry(p, x) \in remote[p].snap
    BY <1>1, <1>14 DEF Due
  <2>2. CASE Entry(p, x) = item
    <3>1. item.metadata = view[p][x] /\ item.path = x
        BY <2>2 DEF Entry
    <3>2. disk[p][x] # None => tracked[p][x] = disk[p][x]
        BY <1>1, <1>14, NotRecording DEF Noted
    <3>3. ~DeletionIgnored(p, item)
      <4>1. SUFFICES ASSUME item.metadata.kind = "tombstone"
                     PROVE  tracked[p][x] # None /\ item.metadata.baseHash = tracked[p][x]
        BY <3>1 DEF DeletionIgnored
      <4>2. IsTombstone(view[p][x]) /\ Shown(view[p][x]) = None
        BY <1>10, <3>1, <4>1, EntryFacts
      <4> QED
        BY <1>14, <3>1, <3>2, <4>2 DEF KeptInv, Applied
    <3> QED
        BY <1>1, <1>4, <2>2, <3>3 DEF Due, Entry, ScansOnly
  <2>3. CASE Entry(p, x) # item
    BY <1>1, <1>4, <2>1, <2>3 DEF Due, Entry, ScansOnly
  <2> QED
    BY <2>2, <2>3
<1>15. \A x \in AllPath : KeptInv(p, x) => Noted(p, x)
    BY <1>1, NotRecording
<1>16. ~Resting(p)
    BY <1>1 DEF Resting
<1> QED
    BY <1>1, <1>7, <1>13, <1>14, <1>15, <1>16, ScanMoveWhole

LEMMA LiveInSync ==
    ASSUME TypeInv, ConvInv, NEW p \in Peer, Live(p), OnlyMover(p), AlreadyInSync(p)
    PROVE  ConvInv'
<1>1. /\ remote[p].pc = "read" /\ C(p) = M(p).hash /\ M(p).kind = "file"
      /\ log' = log /\ Live(p)' /\ owed' = owed
    BY DEF AlreadyInSync, Comparing, Doing, Live
<1>2. LiveInv(p)
    BY DEF ConvInv, PeerInv
<1>3. /\ tracked[p][X(p)] = C(p) /\ KeptInv(p, X(p)) /\ X(p) \in AllPath
      /\ M(p) = view[p][X(p)] \/ owed[p]
      /\ M(p) \in UserManifestValue /\ Held(p) = {remote[p].item}
    BY <1>1, <1>2, LiveReading, PeerTypes, EntryFacts
<1>4. ScansOnly(p)
  <2>1. tracked' = [tracked EXCEPT ![p][X(p)] = C(p)]
    BY DEF AlreadyInSync
  <2>2. tracked'[p] = tracked[p]
    BY <1>3, <2>1 DEF TypeInv, TypeOK
  <2> QED
    BY <2>2 DEF AlreadyInSync, ScansOnly
<1>5. remote'[p] = NextEntry(p)
    BY DEF AlreadyInSync, Turns, TypeInv, TypeOK
<1>6. remote'[p].pc = "pick" /\ remote'[p].snap = remote[p].snap
    BY <1>5 DEF NextEntry, IdleRemote
<1>7. Held(p)' = {} /\ Items(p)' \subseteq Items(p) /\ \A x : ~Writing(p, x)'
    BY <1>6 DEF Held, Items, Writing
<1>8. ScanInv(p)'
  <2>1. \A i \in Items(p)' : ItemInv(p, i)'
    BY <1>1, <1>2, <1>4, <1>7, ItemStays DEF LiveInv, ScanInv
  <2>2. OneEach(p)'
    BY <1>2, <1>6, <1>7 DEF LiveInv, ScanInv, OneEach
  <2>3. FrameInv(p)'
    BY <1>6, <1>7 DEF FrameInv
  <2> QED
    BY <2>1, <2>2, <2>3 DEF ScanInv
<1>9. ASSUME NEW x \in AllPath, ~Applied(p, x), Due(p, x)
      PROVE  Due(p, x)'
  <2>1. remote[p].item = Entry(p, x) => M(p) = view[p][x] /\ X(p) = x
    BY DEF Entry, M, X
  <2>2. remote[p].item # Entry(p, x)
    BY <1>1, <1>3, <1>9, <2>1, EntryFacts DEF Applied, C
  <2> QED
    BY <1>1, <1>4, <1>6, <1>9, <2>2 DEF Due, Entry, ScansOnly
<1>10. \A x \in AllPath : KeptInv(p, x) => Noted(p, x)
    BY <1>1, NotRecording
<1>11. ~Resting(p)
    BY <1>1 DEF Resting
<1> QED
    BY <1>1, <1>4, <1>7, <1>8, <1>9, <1>10, <1>11, ScanMoveWhole

LEMMA LiveStartWriting ==
    ASSUME TypeInv, ConvInv, NEW p \in Peer, Live(p), OnlyMover(p),
           StartDownload(p) \/ StartDelete(p)
    PROVE  ConvInv'
<1>1. /\ remote[p].pc = "read" /\ ScansOnly(p) /\ log' = log /\ Live(p)' /\ owed' = owed
    BY DEF StartDownload, StartDelete, Differs, Comparing, Doing, Live, ScansOnly
<1>2. LiveInv(p)
    BY DEF ConvInv, PeerInv
<1>3. /\ KeptInv(p, X(p)) /\ X(p) \in AllPath /\ disk[p][X(p)] = C(p)
      /\ M(p) = view[p][X(p)] \/ Shown(M(p)) = C(p)
      /\ M(p) \in UserManifestValue /\ Held(p) = {remote[p].item}
    BY <1>1, <1>2, LiveReading, PeerTypes
<1>4. /\ remote'[p].pc = IF M(p).kind = "file" THEN "fetch" ELSE "delete"
      /\ remote'[p].snap = remote[p].snap /\ remote'[p].item = remote[p].item
      /\ remote'[p].tr = remote[p].tr
      /\ M(p).kind = "file" \/ (M(p).kind = "tombstone" /\ remote[p].tr # None /\ C(p) # None)
      /\ M(p).kind = "file" => C(p) # M(p).hash
  <2>1. CASE StartDownload(p)
    <3>1. /\ M(p).kind = "file" /\ C(p) # M(p).hash
          /\ remote' = [remote EXCEPT ![p] = [remote[p] EXCEPT !.pc = "fetch", !.seen = C(p)]]
        BY <1>3, <2>1, EntryFacts DEF StartDownload, Differs, Comparing, Turns
    <3> QED
        BY <3>1 DEF TypeInv, TypeOK, RemoteFrame
  <2>2. CASE StartDelete(p)
    <3>1. /\ M(p).kind = "tombstone" /\ remote[p].tr # None /\ C(p) = remote[p].tr
          /\ remote' = [remote EXCEPT ![p] = [remote[p] EXCEPT !.pc = "delete", !.seen = C(p)]]
        BY <2>2 DEF StartDelete, Comparing, Turns
    <3> QED
        BY <3>1 DEF TypeInv, TypeOK, RemoteFrame
  <2> QED
    BY <2>1, <2>2
<1>5. M(p) = view[p][X(p)] /\ ~Applied(p, X(p)) /\ Newest(p, X(p))
  <2>1. M(p) = view[p][X(p)] /\ ~Applied(p, X(p))
    BY <1>3, <1>4, EntryFacts DEF Applied
  <2> QED
    BY <1>3, <2>1 DEF KeptInv
<1>6. /\ X(p)' = X(p) /\ M(p)' = M(p) /\ Held(p)' = Held(p) /\ Items(p)' = Items(p)
    BY <1>3, <1>4 DEF X, M, Held, Items
<1>7. \A x : Writing(p, x)' => x = X(p)
    BY <1>6 DEF Writing
<1>8. ScanInv(p)'
  <2>1. ASSUME NEW i \in Items(p)
        PROVE  ItemInv(p, i)'
    <3>1. Writing(p, i.path)' => i = remote[p].item
      <4>1. SUFFICES ASSUME i.path = X(p)
                     PROVE  i = remote[p].item
        BY <1>7
      <4> QED
        BY <1>2, <1>3, <4>1 DEF LiveInv, ScanInv, OneEach, Items, X
    <3>2. Writing(p, i.path)' => i.metadata = view[p][i.path]
        BY <1>5, <3>1 DEF M, X
    <3> QED
        BY <1>1, <1>2, <3>2, ItemStays DEF LiveInv, ScanInv
  <2>2. OneEach(p)'
    BY <1>2, <1>4, <1>6 DEF LiveInv, ScanInv, OneEach
  <2>3. FrameInv(p)'
    <3>1. PICK x \in AllPath : x = X(p)
        BY <1>3
    <3>2. ~Applied(p, x)' /\ Newest(p, x)' /\ view'[p][x] = view[p][x]
        BY <1>1, <1>5, <3>1, SameNewest, ScansOnlyPaths DEF ScansOnly
    <3>3. X(p)' = x
        BY <1>6, <3>1
    <3>4. ~Applied(p, X(p))' /\ Newest(p, X(p))' /\ M(p)' = view'[p][x]
        BY <1>5, <1>6, <3>1, <3>2, <3>3
    <3> QED
        BY <1>4, <1>6, <3>3, <3>4 DEF FrameInv
  <2> QED
    BY <1>6, <2>1, <2>2, <2>3 DEF ScanInv
<1>9. ASSUME NEW x \in AllPath, Due(p, x)
      PROVE  Due(p, x)'
    BY <1>1, <1>4, <1>9 DEF Due, Entry, ScansOnly
<1>10. \A x \in AllPath : KeptInv(p, x) => Noted(p, x)
    BY <1>1, NotRecording
<1>11. ~Resting(p)
    BY <1>1 DEF Resting
<1>12. \A x \in AllPath : Writing(p, x)' => Newest(p, x) /\ ~Applied(p, x)
    BY <1>5, <1>7
<1> QED
    BY <1>1, <1>8, <1>9, <1>10, <1>11, <1>12, ScanMoveWhole

LEMMA LiveScanEnd ==
    ASSUME TypeInv, ConvInv, NEW p \in Peer, Live(p), OnlyMover(p), ScanEnd(p)
    PROVE  ConvInv'
<1>1. /\ remote[p].pc = "pick" /\ remote[p].snap = {} /\ ScansOnly(p) /\ log' = log
      /\ Live(p)' /\ owed' = owed /\ remote'[p] = IdleRemote
    BY DEF ScanEnd, Doing, Turns, ScansOnly, Live, TypeInv, TypeOK
<1>2. remote'[p].pc = "idle" /\ remote'[p].snap = {}
    BY <1>1 DEF IdleRemote
<1>3. Held(p)' = {} /\ Items(p)' = {} /\ \A x : ~Writing(p, x)'
    BY <1>2 DEF Held, Items, Writing
<1>4. ScanInv(p)'
    BY <1>2, <1>3 DEF ScanInv, OneEach, FrameInv
<1>5. \A x \in AllPath : Due(p, x) => Due(p, x)'
    BY <1>1 DEF Due
<1>6. \A x \in AllPath : KeptInv(p, x) => Noted(p, x)
    BY <1>1, NotRecording
<1>7. ~Resting(p)
    BY <1>1 DEF Resting
<1> QED
    BY <1>1, <1>3, <1>4, <1>5, <1>6, <1>7, ScanMoveWhole

\* Nothing of the folder, its queue and its state changes at x.
PathRests(p, x) ==
    /\ view'[p][x] = view[p][x] /\ disk'[p][x] = disk[p][x]
    /\ tracked'[p][x] = tracked[p][x]
    /\ x \in dirty'[p] <=> x \in dirty[p]
    /\ x \in known'[p] <=> x \in known[p]
    /\ x \in suppressed'[p] <=> x \in suppressed[p]
    /\ Queued(p, x)' <=> Queued(p, x)
    /\ Handled(p, x)' <=> Handled(p, x)

LEMMA PathSame ==
    ASSUME NEW p, NEW x, PathRests(p, x)
    PROVE  /\ Own(p, x)' <=> Own(p, x)
           /\ Applied(p, x)' <=> Applied(p, x)
           /\ Clean(p, x)' <=> Clean(p, x)
           /\ Editing(p, x)' <=> Editing(p, x)
           /\ Settled(p, x) /\ ~Writing(p, x)' => Settled(p, x)'
<1>1. Own(p, x)' <=> Own(p, x)
    BY DEF Own, PathRests
<1>2. Applied(p, x)' <=> Applied(p, x)
    BY DEF Applied, PathRests
<1>3. Clean(p, x)' <=> Clean(p, x)
    BY DEF Clean, PathRests
<1>4. Editing(p, x)' <=> Editing(p, x)
    BY <1>3 DEF Editing, PathRests
<1>5. Settled(p, x) /\ ~Writing(p, x)' => Settled(p, x)'
    BY <1>2, <1>3 DEF Settled, Noted, PathRests
<1> QED
    BY <1>1, <1>2, <1>3, <1>4, <1>5

LEMMA PathKept ==
    ASSUME NEW p \in Peer, NEW x, PathRests(p, x), log'[x] = log[x],
           Writing(p, x)' => Writing(p, x) \/ Newest(p, x),
           Noted(p, x) \/ Recording(p, x)',
           ~Applied(p, x) /\ Due(p, x) => Due(p, x)',
           KeptInv(p, x)
    PROVE  KeptInv(p, x)'
<1>1. /\ Own(p, x)' <=> Own(p, x)
      /\ Applied(p, x)' <=> Applied(p, x)
      /\ Clean(p, x)' <=> Clean(p, x)
    BY PathSame
<1>2. /\ Newest(p, x)' <=> Newest(p, x)
      /\ Above(p, x)' = Above(p, x)
    BY SameNewest DEF PathRests
<1>3. Noted(p, x)' <=> Noted(p, x)
    BY DEF Noted, PathRests
<1> QED
    BY <1>1, <1>2, <1>3 DEF KeptInv, PathRests

LEMMA LiveWrite ==
    ASSUME TypeInv, ConvInv, NEW p \in Peer, Live(p), OnlyMover(p),
           ApplyRemote(p) \/ DeleteLocal(p)
    PROVE  ConvInv'
<1>1. PICK x \in AllPath : x = X(p) /\ remote[p].pc \in {"fetch", "delete"}
    BY PeerTypes DEF ApplyRemote, DeleteLocal, Doing
<1>2. LiveInv(p)
    BY DEF ConvInv, PeerInv
<1>3. /\ remote[p].item \in Items(p) /\ Held(p) = {remote[p].item}
      /\ M(p) \in UserManifestValue /\ remote[p].item.path = x
    BY <1>1, PeerTypes DEF Items, X
<1>4. /\ M(p) = view[p][x] /\ Newest(p, x) /\ ~Applied(p, x)
      /\ remote[p].pc = "fetch" => M(p).kind = "file"
      /\ remote[p].pc = "delete" => M(p).kind = "tombstone" /\ remote[p].tr # None
  <2>1. Writing(p, X(p))
    BY <1>1 DEF Writing
  <2> QED
    BY <1>1, <1>2, <2>1 DEF LiveInv, ScanInv, FrameInv
<1>5. ~Editing(p, x) /\ KeptInv(p, x)
    BY <1>2, <1>3 DEF LiveInv, ScanInv, ItemInv
<1>6. Clean(p, x)
    BY <1>4, <1>5 DEF KeptInv
<1>7. /\ log' = log /\ view' = view /\ tracked' = tracked /\ queue' = queue /\ local' = local
      /\ known' = known /\ owed' = owed /\ Live(p)'
      /\ disk'[p] = [disk[p] EXCEPT ![x] = Shown(view[p][x])]
      /\ dirty'[p] = dirty[p] \cup {x} /\ suppressed'[p] = suppressed[p] \cup {x}
  <2>1. CASE ApplyRemote(p)
    <3>1. Shown(view[p][x]) = M(p).hash
        BY <1>3, <1>4, <2>1, EntryFacts DEF ApplyRemote, Doing
    <3> QED
        BY <1>1, <2>1, <3>1 DEF ApplyRemote, Touch, Live, TypeInv, TypeOK
  <2>2. CASE DeleteLocal(p)
    <3>1. Shown(view[p][x]) = None
        BY <1>3, <1>4, <2>2, EntryFacts DEF DeleteLocal, Doing
    <3> QED
        BY <1>1, <2>2, <3>1 DEF DeleteLocal, Touch, Live, TypeInv, TypeOK
  <2> QED
    BY <2>1, <2>2
<1>8. /\ remote'[p].pc = IF M(p).kind = "file" THEN "record" ELSE "forget"
      /\ remote'[p].snap = remote[p].snap /\ remote'[p].item = remote[p].item
  <2>1. CASE ApplyRemote(p)
    <3>1. M(p).kind = "file" /\ remote' = [remote EXCEPT ![p] = [remote[p] EXCEPT !.pc = "record"]]
        BY <1>4, <2>1 DEF ApplyRemote, Doing, Turns
    <3> QED
        BY <3>1 DEF TypeInv, TypeOK, RemoteFrame
  <2>2. CASE DeleteLocal(p)
    <3>1. /\ M(p).kind = "tombstone"
          /\ remote' = [remote EXCEPT ![p] = [remote[p] EXCEPT !.pc = "forget"]]
        BY <1>4, <2>2 DEF DeleteLocal, Doing, Turns
    <3> QED
        BY <3>1 DEF TypeInv, TypeOK, RemoteFrame
  <2> QED
    BY <2>1, <2>2
<1>9. /\ X(p)' = x /\ M(p)' = M(p) /\ Held(p)' = Held(p) /\ Items(p)' = Items(p)
    BY <1>1, <1>3, <1>8 DEF X, M, Held, Items
<1>10. /\ \A y : Writing(p, y)' <=> y = x
       /\ \A y : Writing(p, y) <=> y = x
       /\ Recording(p, x)'
    BY <1>1, <1>8, <1>9 DEF Writing, Recording
<1>11. \A y \in AllPath \ {x} : PathRests(p, y)
  <2>1. \A y : (Queued(p, y)' <=> Queued(p, y)) /\ (Handled(p, y)' <=> Handled(p, y))
    BY <1>7 DEF Queued, Handled
  <2> QED
    BY <1>7, <2>1, PeerTypes DEF PathRests
<1>12. /\ Applied(p, x)' /\ ~Clean(p, x)' /\ ~Editing(p, x)' /\ Newest(p, x)'
    BY <1>4, <1>7, SameNewest, PeerTypes DEF Applied, Clean, Editing
<1>13. ScanInv(p)'
  <2>1. ASSUME NEW i \in Items(p)
        PROVE  ItemInv(p, i)'
    <3>1. ItemInv(p, i) /\ i.path \in AllPath
        BY <1>2, <1>3, PeerTypes DEF LiveInv, ScanInv, Items, ManifestEntry
    <3>2. CASE i.path = x
        <4>1. i = remote[p].item
            BY <1>2, <1>3, <3>2 DEF LiveInv, ScanInv, OneEach, Items
        <4> QED
            BY <1>4, <1>7, <1>12, <3>1, <3>2, <4>1 DEF ItemInv, M
    <3>3. CASE i.path # x
        <4>1. PathRests(p, i.path) /\ (Editing(p, i.path)' <=> Editing(p, i.path))
            BY <1>11, <3>1, <3>3, PathSame
        <4>2. ~Writing(p, i.path)'
            BY <1>10, <3>3
        <4> QED
            BY <1>7, <3>1, <4>1, <4>2 DEF ItemInv, PathRests
    <3> QED
        BY <3>2, <3>3
  <2>2. OneEach(p)'
    BY <1>2, <1>8, <1>9 DEF LiveInv, ScanInv, OneEach
  <2>3. FrameInv(p)'
    BY <1>3, <1>4, <1>7, <1>8, <1>9, <1>12, EntryFacts DEF FrameInv
  <2> QED
    BY <1>9, <2>1, <2>2, <2>3 DEF ScanInv
<1>14. QueueInv(p)'
  <2>1. \A y \in AllPath : y # x => (Clean(p, y)' <=> Clean(p, y))
    BY <1>11, PathSame
  <2>2. \A y : (Queued(p, y)' <=> Queued(p, y)) /\ (Handled(p, y)' <=> Handled(p, y))
    BY <1>7 DEF Queued, Handled
  <2>3. dirty[p] \subseteq AllPath /\ suppressed[p] \subseteq AllPath
    BY PeerTypes
  <2>4. ~Queued(p, x) /\ ~Handled(p, x) /\ x \notin dirty[p]
    BY <1>6 DEF Clean
  <2>5. QueueInv(p)
    BY <1>2 DEF LiveInv
  <2>6. \A i, j \in DOMAIN queue'[p] : queue'[p][i].path = queue'[p][j].path => i = j
    BY <1>7, <2>5 DEF QueueInv
  <2>7. \A y \in dirty'[p] : ~Queued(p, y)' /\ ~Handled(p, y)'
    BY <1>7, <2>2, <2>4, <2>5 DEF QueueInv
  <2>8. p \notin Joining \cup Restarting => \A y \in suppressed'[p] : ~Clean(p, y)'
    BY <1>7, <1>12, <2>1, <2>3, <2>5 DEF QueueInv
  <2>9. \A y \in AllPath \ dirty'[p] : y \in known'[p] <=> disk'[p][y] # None
    BY <1>7, <2>5, PeerTypes DEF QueueInv
  <2> QED
    BY <2>2, <2>5, <2>6, <2>7, <2>8, <2>9 DEF QueueInv
<1>15. ASSUME NEW y \in AllPath, Editing(p, y)'
       PROVE  EditInv(p, y)'
  <2>1. y # x /\ PathRests(p, y)
    BY <1>11, <1>12, <1>15
  <2>2. EditInv(p, y)
    BY <1>2, <1>15, <2>1, PathSame DEF LiveInv
  <2>3. PublishedEdit(p, y)
    BY <1>1, <2>2 DEF EditInv, Unpublished, AloneAt, Resting
  <2>4. PublishedEdit(p, y)'
    BY <1>7, <2>1, <2>3, PathSame DEF PublishedEdit, PathRests
  <2> QED
    BY <1>7, <2>2, <2>4, SameNewest DEF EditInv
<1>16. ASSUME NEW y \in AllPath, ~Editing(p, y)'
       PROVE  KeptInv(p, y)'
  <2>1. CASE y = x
    <3>1. disk'[p][x] = None => x \in known'[p]
      <4>1. SUFFICES ASSUME disk'[p][x] = None
                     PROVE  disk[p][x] # None
        BY <1>2, <1>6, <1>7 DEF LiveInv, QueueInv, Clean
      <4> QED
        BY <1>4, <1>7, <4>1, PeerTypes DEF Applied
    <3>2. ~Handled(p, x)'
        BY <1>6, <1>7 DEF Clean, Handled
    <3> QED
        BY <1>10, <1>12, <2>1, <3>1, <3>2 DEF KeptInv
  <2>2. CASE y # x
    <3>1. PathRests(p, y) /\ KeptInv(p, y)
        BY <1>2, <1>11, <1>16, <2>2, PathSame DEF LiveInv
    <3>2. Noted(p, y)
        BY <1>1, <3>1, NotRecording
    <3>3. Due(p, y) => Due(p, y)'
        BY <1>1, <1>3, <1>7, <1>8, <2>2 DEF Due, Entry
    <3>4. ~Writing(p, y)'
        BY <1>10, <2>2
    <3> QED
        BY <1>7, <3>1, <3>2, <3>3, <3>4, PathKept
  <2> QED
    BY <2>1, <2>2
<1>17. LiveInv(p)'
    BY <1>13, <1>14, <1>15, <1>16 DEF LiveInv
<1>18. KnownViews' /\ CopiesInv'
  <2>1. KnownViews'
    BY <1>7 DEF ConvInv, KnownViews
  <2>2. ASSUME NEW q \in Peer, NEW y \in Copies, disk'[q][y] # None
        PROVE  y.by = q \/ log'[y] # {}
    <3>1. CASE q # p \/ y # x
        <4>1. disk'[q][y] = disk[q][y]
            BY <1>7, <3>1, PeerTypes DEF OnlyMover, Rests, AllPath
        <4> QED
            BY <1>7, <2>2, <4>1 DEF ConvInv, CopiesInv
    <3>2. CASE q = p /\ y = x
        BY <1>3, <1>4, <1>7, <3>2, EntryFacts DEF ConvInv, KnownViews
    <3> QED
        BY <3>1, <3>2
  <2> QED
    BY <2>1, <2>2 DEF CopiesInv
<1>19. SessionsUndisturbed(p)
  <2>1. ASSUME NEW c \in Peer, Starting(c), NEW y \in AllPath
        PROVE  (Settled(p, y) => Settled(p, y)') /\ ~Editing(p, y)'
    <3>1. ~Editing(p, y)
        BY <2>1 DEF ConvInv, PeerInv, SessionInv
    <3>2. CASE y = x
        BY <1>4, <1>12, <3>2 DEF Settled
    <3>3. CASE y # x
        BY <1>10, <1>11, <3>1, <3>3, PathSame
    <3> QED
        BY <3>2, <3>3
  <2> QED
    BY <2>1 DEF SessionsUndisturbed
<1>20. \A q \in Peer \ {p} : \A y \in AllPath : ~AloneAt(q, y)
    BY <1>1, NotAlone DEF Busy, Resting
<1> QED
    BY <1>7, <1>17, <1>18, <1>19, <1>20, LiveMover

LEMMA LiveRecord ==
    ASSUME TypeInv, ConvInv, NEW p \in Peer, Live(p), OnlyMover(p),
           RecordDownload(p) \/ ForgetRemote(p) \/ AlreadyDeleted(p)
    PROVE  ConvInv'
<1>1. PICK x \in AllPath :
        /\ x = X(p)
        /\ RecordDownload(p) => remote[p].pc = "record"
        /\ ForgetRemote(p) => remote[p].pc = "forget"
        /\ AlreadyDeleted(p) =>
                remote[p].pc = "read" /\ disk[p][x] = None /\ M(p).kind = "tombstone"
    BY PeerTypes DEF RecordDownload, ForgetRemote, AlreadyDeleted, Comparing, Doing, C
<1>2. LiveInv(p)
    BY DEF ConvInv, PeerInv
<1>3. /\ remote[p].item \in Items(p) /\ Held(p) = {remote[p].item}
      /\ M(p) \in UserManifestValue /\ remote[p].item.path = x
    BY <1>1, PeerTypes DEF Items, X
<1>4. /\ M(p) = view[p][x] => Applied(p, x)
      /\ M(p) = view[p][x] \/ owed[p]
      /\ remote[p].pc = "record" => M(p) = view[p][x] /\ M(p).kind = "file"
      /\ remote[p].pc = "forget" => M(p) = view[p][x] /\ M(p).kind = "tombstone"
  <2>1. CASE AlreadyDeleted(p)
    <3>1. M(p) = view[p][x] \/ owed[p]
        BY <1>1, <1>2, <2>1, LiveReading
    <3> QED
        BY <1>1, <1>3, <2>1, <3>1, EntryFacts DEF Applied
  <2>2. CASE RecordDownload(p) \/ ForgetRemote(p)
    <3>1. Writing(p, X(p))
        BY <1>1, <2>2 DEF Writing
    <3> QED
        BY <1>1, <1>2, <2>2, <3>1 DEF LiveInv, ScanInv, FrameInv
  <2> QED
    BY <2>1, <2>2
<1>5. ~Editing(p, x) /\ KeptInv(p, x)
    BY <1>2, <1>3 DEF LiveInv, ScanInv, ItemInv
<1>6. /\ log' = log /\ view' = view /\ disk' = disk /\ dirty' = dirty /\ known' = known
      /\ suppressed' = suppressed /\ queue' = queue /\ local' = local /\ owed' = owed /\ Live(p)'
      /\ tracked'[p] = [tracked[p] EXCEPT ![x] = disk[p][x]]
      /\ remote'[p] = NextEntry(p)
  <2>1. CASE RecordDownload(p)
    <3>1. disk[p][x] = M(p).hash
        BY <1>1, <1>3, <1>4, <2>1, EntryFacts DEF Applied
    <3> QED
        BY <1>1, <2>1, <3>1 DEF RecordDownload, Turns, Live, TypeInv, TypeOK
  <2>2. CASE ForgetRemote(p)
    <3>1. disk[p][x] = None
        BY <1>1, <1>3, <1>4, <2>2, EntryFacts DEF Applied
    <3> QED
        BY <1>1, <2>2, <3>1 DEF ForgetRemote, Turns, Live, TypeInv, TypeOK
  <2>3. CASE AlreadyDeleted(p)
    BY <1>1, <2>3 DEF AlreadyDeleted, Turns, Live, TypeInv, TypeOK
  <2> QED
    BY <2>1, <2>2, <2>3
<1>7. remote'[p].pc = "pick" /\ remote'[p].snap = remote[p].snap
    BY <1>6 DEF NextEntry, IdleRemote
<1>8. /\ Held(p)' = {} /\ Items(p)' \subseteq Items(p)
      /\ \A y : ~Writing(p, y)' /\ ~Recording(p, y)'
    BY <1>7 DEF Held, Items, Writing, Recording
<1>19. remote[p].pc \in {"read", "record", "forget"}
    BY <1>1
<1>9. \A y : (Queued(p, y)' <=> Queued(p, y)) /\ (Handled(p, y)' <=> Handled(p, y))
    BY <1>6 DEF Queued, Handled
<1>10. \A y : /\ Clean(p, y)' <=> Clean(p, y)
              /\ Editing(p, y)' <=> Editing(p, y)
              /\ Applied(p, y)' <=> Applied(p, y)
              /\ Own(p, y)' <=> Own(p, y)
              /\ Newest(p, y)' <=> Newest(p, y)
              /\ Above(p, y)' = Above(p, y)
    BY <1>6, <1>9, SameNewest DEF Clean, Editing, Applied, Own
<1>11. ScanInv(p)'
  <2>1. \A i \in Items(p)' : ItemInv(p, i)'
    BY <1>2, <1>6, <1>8, <1>10 DEF LiveInv, ScanInv, ItemInv
  <2>2. OneEach(p)'
    BY <1>2, <1>7, <1>8 DEF LiveInv, ScanInv, OneEach
  <2>3. FrameInv(p)'
    BY <1>7, <1>8 DEF FrameInv
  <2> QED
    BY <2>1, <2>2, <2>3 DEF ScanInv
<1>12. QueueInv(p)'
    BY <1>2, <1>6, <1>9, <1>10 DEF LiveInv, QueueInv
<1>13. ASSUME NEW y \in AllPath, Editing(p, y)'
       PROVE  EditInv(p, y)'
  <2>1. EditInv(p, y)
    BY <1>2, <1>10, <1>13 DEF LiveInv
  <2>2. PublishedEdit(p, y)
    BY <1>19, <2>1 DEF EditInv, Unpublished, AloneAt, Resting
  <2>3. PublishedEdit(p, y)'
    BY <1>6, <1>9, <1>10, <2>2 DEF PublishedEdit
  <2> QED
    BY <1>10, <2>1, <2>3 DEF EditInv
<1>14. ASSUME NEW y \in AllPath, ~Editing(p, y)'
       PROVE  KeptInv(p, y)'
  <2>1. KeptInv(p, y)
    BY <1>2, <1>10, <1>14 DEF LiveInv
  <2>2. Noted(p, y)'
    <3>1. CASE y = x
        BY <1>6, <3>1, PeerTypes DEF Noted
    <3>2. CASE y # x
        BY <1>1, <1>6, <2>1, <3>2, PeerTypes DEF KeptInv, Recording, Noted
    <3> QED
        BY <3>1, <3>2
  <2>3. ~Applied(p, y) => Due(p, y)'
    <3>1. SUFFICES ASSUME ~Applied(p, y), Due(p, y)
                   PROVE  Due(p, y)'
        BY <2>1 DEF KeptInv
    <3>2. CASE y = x
        <4>1. remote[p].item = Entry(p, y) => M(p) = view[p][x]
            BY <3>2 DEF Entry, M
        <4> QED
            BY <1>4, <1>6, <1>7, <3>1, <3>2, <4>1 DEF Due, Entry
    <3>3. CASE y # x
        <4>1. remote[p].item # Entry(p, y)
            BY <1>3, <3>3 DEF Entry
        <4> QED
            BY <1>6, <1>7, <3>1, <4>1 DEF Due, Entry
    <3> QED
        BY <3>2, <3>3
  <2>4. ~Applied(p, y) /\ IsTombstone(view[p][y]) => view[p][y].baseHash = tracked'[p][y]
    <3>1. CASE y = x
        <4>1. SUFFICES ASSUME ~Applied(p, x), IsTombstone(view[p][x])
                       PROVE  FALSE
            BY <3>1
        <4>2. AlreadyDeleted(p) /\ disk[p][x] = None
            BY <1>1, <1>4, <4>1
        <4> QED
            BY <4>1, <4>2, PeerTypes, ShownFile, NoEntry, EntryFacts DEF Applied
    <3>2. CASE y # x
        BY <1>6, <2>1, <3>2, PeerTypes DEF KeptInv
    <3> QED
        BY <3>1, <3>2
  <2> QED
    BY <1>6, <1>8, <1>9, <1>10, <2>1, <2>2, <2>3, <2>4 DEF KeptInv
<1>15. LiveInv(p)'
    BY <1>11, <1>12, <1>13, <1>14 DEF LiveInv
<1>16. KnownViews' /\ CopiesInv'
    BY <1>6, SameViews DEF ConvInv
<1>17. SessionsUndisturbed(p)
  <2>1. ASSUME NEW c \in Peer, Starting(c), NEW y \in AllPath
        PROVE  (Settled(p, y) => Settled(p, y)') /\ ~Editing(p, y)'
    <3>1. ~Editing(p, y)
        BY <2>1 DEF ConvInv, PeerInv, SessionInv
    <3>2. Noted(p, y) => Noted(p, y)'
        BY <1>6, PeerTypes DEF Noted
    <3> QED
        BY <1>6, <1>8, <1>10, <3>1, <3>2 DEF Settled
  <2> QED
    BY <2>1 DEF SessionsUndisturbed
<1>18. \A q \in Peer \ {p} : \A y \in AllPath : ~AloneAt(q, y)
    BY <1>19, NotAlone DEF Busy, Resting
<1> QED
    BY <1>6, <1>15, <1>16, <1>17, <1>18, LiveMover

LEMMA LiveRemoteKept ==
    ASSUME TypeInv, ConvInv, NEW p \in Peer, Live(p), OnlyMover(p), RemoteStep(p)
    PROVE  ConvInv'
<1>1. LiveInv(p)
    BY DEF ConvInv, PeerInv
<1> QED
    BY <1>1, LiveRemote, LiveScanBegin, LivePick, LiveInSync, LiveStartWriting, LiveWrite,
       LiveRecord, LiveScanEnd

-----------------------------------------------------------------------------
(***************************************************************************)
(* The watcher and the local change queue of a live peer.                  *)
(***************************************************************************)
LEMMA LocalMove ==
    ASSUME ConvInv, NEW p \in Peer, Live(p), Live(p)', OnlyMover(p), Busy(p),
           log' = log, view'[p] = view[p], disk'[p] = disk[p],
           owed'[p] = owed[p], remote'[p] = remote[p], TypeInv,
           QueueInv(p)',
           \A y \in AllPath : Editing(p, y)' => Editing(p, y) /\ EditInv(p, y)',
           \A y \in AllPath : Editing(p, y) /\ ~Editing(p, y)' => KeptInv(p, y)',
           \A y \in AllPath : ~Editing(p, y) =>
                /\ tracked'[p][y] = tracked[p][y]
                /\ ~Handled(p, y)'
                /\ ~Clean(p, y)' => ~Clean(p, y)
                /\ y \in dirty'[p] => y \in dirty[p] /\ (y \in known[p] => y \in known'[p])
    PROVE  ConvInv'
<1>1. LiveInv(p)
    BY DEF ConvInv, PeerInv
<1>2. Items(p)' = Items(p) /\ Held(p)' = Held(p) /\ X(p)' = X(p) /\ M(p)' = M(p)
    BY DEF Items, Held, X, M
<1>3. \A y : /\ Writing(p, y)' <=> Writing(p, y)
             /\ Recording(p, y)' <=> Recording(p, y)
             /\ Applied(p, y)' <=> Applied(p, y)
             /\ Own(p, y)' <=> Own(p, y)
             /\ Due(p, y)' <=> Due(p, y)
             /\ Newest(p, y)' <=> Newest(p, y)
             /\ Above(p, y)' = Above(p, y)
    BY SameNewest DEF Writing, Recording, Applied, Own, Due, Entry, X
<1>4. \A i \in Items(p) : i.path \in AllPath
    BY PeerTypes DEF Items, ManifestEntry
<1>5. ScanInv(p)'
  <2>1. \A i \in Items(p) : ItemInv(p, i)'
    BY <1>1, <1>3, <1>4 DEF LiveInv, ScanInv, ItemInv
  <2>2. OneEach(p)'
    BY <1>1, <1>2 DEF LiveInv, ScanInv, OneEach
  <2>3. remote[p].pc = "read" => tracked'[p][X(p)] = tracked[p][X(p)]
    BY <1>1, LiveReading, PeerTypes
  <2>4. /\ Applied(p, X(p))' <=> Applied(p, X(p))
        /\ Newest(p, X(p))' <=> Newest(p, X(p))
        /\ Writing(p, X(p))' <=> Writing(p, X(p))
    BY <1>2, <1>3 DEF Applied, Newest, Writing
  <2>5. FrameInv(p)'
    BY <1>1, <1>2, <2>3, <2>4 DEF LiveInv, ScanInv, FrameInv
  <2> QED
    BY <1>2, <2>1, <2>2, <2>5 DEF ScanInv
<1>6. ASSUME NEW y \in AllPath, ~Editing(p, y)'
      PROVE  KeptInv(p, y)'
  <2>1. CASE Editing(p, y)
    BY <1>6, <2>1
  <2>2. CASE ~Editing(p, y)
    <3>1. KeptInv(p, y)
        BY <1>1, <2>2 DEF LiveInv
    <3> QED
        BY <1>3, <2>2, <3>1 DEF KeptInv, Noted
  <2> QED
    BY <2>1, <2>2
<1>7. LiveInv(p)'
    BY <1>5, <1>6 DEF LiveInv
<1>8. KnownViews' /\ CopiesInv'
    BY SameViews DEF ConvInv
<1>9. SessionsUndisturbed(p)
  <2>1. ASSUME NEW c \in Peer, Starting(c), NEW y \in AllPath
        PROVE  (Settled(p, y) => Settled(p, y)') /\ ~Editing(p, y)'
    <3>1. ~Editing(p, y)
        BY <2>1 DEF ConvInv, PeerInv, SessionInv
    <3> QED
        BY <1>3, <3>1 DEF Settled, Noted
  <2> QED
    BY <2>1 DEF SessionsUndisturbed
<1>10. \A q \in Peer \ {p} : \A y \in AllPath : ~AloneAt(q, y)
    BY NotAlone
<1> QED
    BY <1>7, <1>8, <1>9, <1>10, LiveMover

\* An edit still to be published rests all else, and goes on doing so.
LEMMA AloneKept ==
    ASSUME NEW p \in Peer, OnlyMover(p), Live(p), Live(p)',
           view'[p] = view[p], owed'[p] = owed[p], remote'[p] = remote[p],
           NEW x \in AllPath, AloneAt(p, x),
           \A y \in AllPath \ {x} : Clean(p, y)'
    PROVE  AloneAt(p, x)'
<1>1. ASSUME NEW q \in Peer
      PROVE  ~Starting(q)'
    BY <1>1 DEF AloneAt, OnlyMover, Rests, Starting, Live
<1>2. ASSUME NEW q \in Peer, Live(q)', q # p
      PROVE  Resting(q)' /\ view'[q] = view'[p] /\ \A y \in AllPath : Clean(q, y)'
  <2>1. Rests(q) /\ Live(q)
    BY <1>2 DEF OnlyMover, Rests, Live
  <2>2. Resting(q)' /\ view'[q] = view'[p]
    BY <2>1 DEF AloneAt, Rests, Resting
  <2>3. \A y \in AllPath : Clean(q, y)'
    BY <1>2, <2>1, SamePaths DEF AloneAt
  <2> QED
    BY <2>2, <2>3
<1>3. Resting(p)'
    BY DEF AloneAt, Resting
<1> QED
    BY <1>1, <1>2, <1>3 DEF AloneAt

\* Only one path of a peer is being edited until the edit is published.
LEMMA OthersClean ==
    ASSUME NEW p \in Peer, Live(p), NEW x \in AllPath, AloneAt(p, x), NEW y \in AllPath \ {x}
    PROVE  Clean(p, y)
BY DEF AloneAt

LEMMA LiveWatch ==
    ASSUME TypeInv, ConvInv, NEW p \in Peer, Live(p), OnlyMover(p), Watch(p)
    PROVE  ConvInv'
<1>1. LiveInv(p) /\ QueueInv(p)
    BY DEF ConvInv, PeerInv, LiveInv
<1>2. PICK x \in dirty[p] : WatchUpdate(p, x) \/ WatchDelete(p, x) \/ WatchNothing(p, x)
    BY DEF Watch
<1>3. x \in AllPath /\ ~Queued(p, x) /\ ~Handled(p, x) /\ ~Clean(p, x)
    BY <1>1, <1>2, PeerTypes DEF QueueInv, Clean
<1>4. ~WatchNothing(p, x)
  <2>1. SUFFICES ASSUME disk[p][x] = None, x \notin known[p]
                 PROVE  FALSE
    BY DEF WatchNothing
  <2>2. EditInv(p, x)
    BY <1>1, <1>2, <1>3, <2>1 DEF LiveInv, KeptInv
  <2>3. Unpublished(p, x) /\ ~EventAt(p, x, "delete") /\ ~Publishing(p, x)
    BY <1>3, <2>2 DEF EditInv, PublishedEdit, EventAt, Queued, Publishing
  <2>4. ~IsFile(view[p][x]) /\ ~Applied(p, x)
    BY <2>1, <2>3 DEF Unpublished, Pending
  <2> QED
    BY <1>3, <2>1, <2>4, ShownFile, PeerTypes DEF Applied
<1>5. PICK type \in {"update", "delete"} :
        /\ type = IF disk[p][x] = None THEN "delete" ELSE "update"
        /\ Emit(p, x, type)
        /\ known' = IF type = "update" THEN [known EXCEPT ![p] = @ \cup {x}]
                    ELSE [known EXCEPT ![p] = @ \ {x}]
    BY <1>2, <1>4 DEF WatchUpdate, WatchDelete
<1> DEFINE e == [type |-> type, path |-> x]
<1>6. /\ log' = log /\ view' = view /\ disk' = disk /\ owed' = owed /\ remote' = remote
      /\ tracked' = tracked /\ suppressed' = suppressed /\ local' = local /\ Live(p)'
      /\ dirty'[p] = dirty[p] \ {x} /\ queue'[p] = Append(queue[p], e)
      /\ \A y : y # x => (y \in known'[p] <=> y \in known[p])
      /\ x \in known'[p] <=> disk[p][x] # None
    BY <1>5 DEF Emit, Live, TypeInv, TypeOK
<1>7. e \in Event /\ queue[p] \in Seq(Event) /\ OneEvent(queue[p]) /\ e.path = x
    BY <1>1, <1>3, PeerTypes DEF Event, QueueInv, OneEvent
<1>8. \A i \in DOMAIN queue[p] : queue[p][i].path # e.path
    BY <1>3, <1>7 DEF Queued
<1> HIDE DEF e
<1>9. /\ OneEvent(queue'[p])
      /\ \E i \in DOMAIN queue'[p] : queue'[p][i] = e
      /\ \A i \in DOMAIN queue[p] : i \in DOMAIN queue'[p] /\ queue'[p][i] = queue[p][i]
      /\ \A i \in DOMAIN queue'[p] :
            queue'[p][i] = e \/ (i \in DOMAIN queue[p] /\ queue'[p][i] = queue[p][i])
    BY <1>6, <1>7, <1>8, AppendEvent
<1>10. \A y : Queued(p, y)' <=> Queued(p, y) \/ y = x
    BY <1>7, <1>9 DEF Queued
<1>11. \A y : Handled(p, y)' <=> Handled(p, y)
    BY <1>6 DEF Handled
<1>12. \A y : /\ Clean(p, y)' <=> Clean(p, y)
              /\ Editing(p, y)' <=> Editing(p, y)
    BY <1>2, <1>3, <1>6, <1>10, <1>11 DEF Clean, Editing
<1>13. QueueInv(p)'
    BY <1>1, <1>3, <1>6, <1>9, <1>10, <1>11, <1>12 DEF QueueInv, OneEvent
<1>14. ASSUME NEW y \in AllPath, Editing(p, y)'
       PROVE  EditInv(p, y)'
  <2>1. EditInv(p, y)
    BY <1>1, <1>12, <1>14 DEF LiveInv
  <2>2. /\ Own(p, y)' <=> Own(p, y)
        /\ Applied(p, y)' <=> Applied(p, y)
        /\ Newest(p, y)' <=> Newest(p, y)
    BY <1>6, SameNewest DEF Own, Applied
  <2>3. CASE PublishedEdit(p, y)
    BY <1>6, <1>11, <2>1, <2>2, <2>3 DEF EditInv, PublishedEdit
  <2>4. CASE Unpublished(p, y)
    <3>1. y = x /\ AloneAt(p, x)
        BY <1>3, <2>4, OthersClean DEF Unpublished
    <3>2. AloneAt(p, x)'
        BY <1>3, <1>6, <1>12, <3>1, AloneKept, OthersClean
    <3>3. Pending(p, x)'
        BY <1>5, <1>6, <1>9 DEF Pending, EventAt, e
    <3> QED
        BY <1>6, <2>1, <2>2, <2>4, <3>1, <3>2, <3>3 DEF EditInv, Unpublished
  <2> QED
    BY <2>1, <2>3, <2>4 DEF EditInv
<1>15. \A y \in AllPath : ~Editing(p, y) => ~Handled(p, y)'
    BY <1>1, <1>11 DEF LiveInv, KeptInv
<1>16. \A y : y \in dirty'[p] /\ y \in known[p] => y \in dirty[p] /\ y \in known'[p]
    BY <1>6
<1>17. Busy(p)
    BY <1>3 DEF Busy
<1> QED
    BY <1>6, <1>12, <1>13, <1>14, <1>15, <1>16, <1>17, LocalMove

LEMMA QueueTail ==
    ASSUME TypeInv, NEW p \in Peer, QueueInv(p), queue[p] # <<>>, queue'[p] = Tail(queue[p])
    PROVE  /\ Head(queue[p]).path \in AllPath /\ Head(queue[p]) \in Event
           /\ Queued(p, Head(queue[p]).path) /\ OneEvent(queue'[p])
           /\ \A y : Queued(p, y)' <=> Queued(p, y) /\ y # Head(queue[p]).path
           /\ \A i \in DOMAIN queue[p] :
                queue[p][i].path = Head(queue[p]).path => queue[p][i] = Head(queue[p])
<1>1. queue[p] \in Seq(Event) /\ OneEvent(queue[p])
    BY PeerTypes DEF QueueInv, OneEvent
<1>2. /\ OneEvent(queue'[p]) /\ Head(queue[p]) \in Event
      /\ \A i \in DOMAIN queue'[p] : \E j \in DOMAIN queue[p] :
            queue'[p][i] = queue[p][j] /\ queue[p][j].path # Head(queue[p]).path
      /\ \A j \in DOMAIN queue[p] :
            queue[p][j] = Head(queue[p]) \/ \E i \in DOMAIN queue'[p] : queue'[p][i] = queue[p][j]
      /\ \E j \in DOMAIN queue[p] : queue[p][j] = Head(queue[p])
    BY <1>1, TailEvent
<1>3. Head(queue[p]).path \in AllPath
    BY <1>2 DEF Event
<1>4. Queued(p, Head(queue[p]).path)
    BY <1>2 DEF Queued
<1>5. \A y : Queued(p, y)' <=> Queued(p, y) /\ y # Head(queue[p]).path
    BY <1>2 DEF Queued
<1>6. \A i \in DOMAIN queue[p] :
            queue[p][i].path = Head(queue[p]).path => queue[p][i] = Head(queue[p])
    BY <1>1, <1>2 DEF OneEvent
<1> QED
    BY <1>2, <1>3, <1>4, <1>5, <1>6

LEMMA HeadEvent ==
    ASSUME TypeInv, NEW p \in Peer, queue[p] # <<>>
    PROVE  Head(queue[p]) \in Event /\ Head(queue[p]).path \in AllPath
<1>1. queue[p] \in Seq(Event)
    BY PeerTypes
<1>2. Head(queue[p]) \in Event
    BY <1>1
<1> QED
    BY <1>2 DEF Event

LEMMA LiveSuppress ==
    ASSUME TypeInv, ConvInv, NEW p \in Peer, Live(p), OnlyMover(p), SuppressEvent(p)
    PROVE  ConvInv'
<1>1. LiveInv(p) /\ QueueInv(p)
    BY DEF ConvInv, PeerInv, LiveInv
<1> DEFINE x == Head(queue[p]).path
<1>2. /\ queue[p] # <<>> /\ local[p].pc = "idle" /\ x \in suppressed[p]
      /\ log' = log /\ view' = view /\ disk' = disk /\ owed' = owed /\ remote' = remote
      /\ tracked' = tracked /\ local' = local /\ dirty' = dirty /\ known' = known /\ Live(p)'
      /\ queue'[p] = Tail(queue[p]) /\ suppressed'[p] = suppressed[p] \ {x}
    BY DEF SuppressEvent, EventReady, Live, TypeInv, TypeOK
<1> HIDE DEF x
<1>3. /\ x \in AllPath /\ Queued(p, x) /\ OneEvent(queue'[p])
      /\ \A y : Queued(p, y)' <=> Queued(p, y) /\ y # x
    BY <1>1, <1>2, QueueTail DEF x
<1>4. \A y : ~Handled(p, y) /\ ~Handled(p, y)'
    BY <1>2 DEF Handled
<1>5. x \notin dirty[p] /\ ~Clean(p, x)
    BY <1>1, <1>3 DEF QueueInv, Clean
<1>6. \A y : /\ Clean(p, y)' <=> Clean(p, y) \/ y = x
             /\ Editing(p, y)' <=> Editing(p, y)
    BY <1>2, <1>3, <1>4, <1>5 DEF Clean, Editing
<1>7. QueueInv(p)'
  <2>1. suppressed[p] \subseteq AllPath /\ \A y \in suppressed'[p] : y # x /\ y \in suppressed[p]
    BY <1>2, PeerTypes
  <2>2. p \notin Joining \cup Restarting => \A y \in suppressed'[p] : ~Clean(p, y)'
    BY <1>1, <1>6, <2>1 DEF QueueInv
  <2> QED
    BY <1>1, <1>2, <1>3, <1>4, <2>2 DEF QueueInv, OneEvent
<1>8. \A y \in AllPath : ~Editing(p, y)
  <2>1. ASSUME NEW y \in AllPath, Editing(p, y)
        PROVE  FALSE
    <3>1. EditInv(p, y) /\ ~PublishedEdit(p, y)
        BY <1>1, <1>4, <2>1 DEF LiveInv, PublishedEdit
    <3>2. y = x
        BY <1>3, <1>5, <3>1, OthersClean DEF EditInv, Unpublished
    <3> QED
        BY <1>2, <2>1, <3>2 DEF Editing
  <2> QED
    BY <2>1
<1>9. Busy(p)
    BY <1>3, <1>5 DEF Busy
<1> QED
    BY <1>2, <1>4, <1>6, <1>7, <1>8, <1>9, LocalMove

LEMMA LiveTake ==
    ASSUME TypeInv, ConvInv, NEW p \in Peer, Live(p), OnlyMover(p), TakeEvent(p)
    PROVE  ConvInv'
<1>1. LiveInv(p) /\ QueueInv(p)
    BY DEF ConvInv, PeerInv, LiveInv
<1>0. PICK x \in AllPath, type \in {"update", "delete"} :
         x = Head(queue[p]).path /\ type = Head(queue[p]).type
    BY <1>1, HeadEvent DEF TakeEvent, EventReady, Event
<1>2. /\ queue[p] # <<>> /\ local[p].pc = "idle" /\ x \notin suppressed[p]
      /\ log' = log /\ view' = view /\ disk' = disk /\ owed' = owed /\ remote' = remote
      /\ tracked' = tracked /\ suppressed' = suppressed /\ dirty' = dirty /\ known' = known
      /\ Live(p)' /\ queue'[p] = Tail(queue[p])
      /\ local'[p].pc = IF type = "update" THEN "read" ELSE "find"
      /\ local'[p].path = x
    BY <1>0 DEF TakeEvent, EventReady, Live, TypeInv, TypeOK, IdleLocal
<1>3. /\ x \in AllPath /\ Queued(p, x) /\ OneEvent(queue'[p])
      /\ \A y : Queued(p, y)' <=> Queued(p, y) /\ y # x
      /\ \A i \in DOMAIN queue[p] : queue[p][i].path = x => queue[p][i].type = type
    BY <1>0, <1>1, <1>2, QueueTail
<1>4. (\A y : ~Handled(p, y)) /\ \A y : Handled(p, y)' <=> y = x
    BY <1>2 DEF Handled
<1>5. x \notin dirty[p] /\ ~Clean(p, x) /\ Editing(p, x)
    BY <1>1, <1>2, <1>3 DEF QueueInv, Clean, Editing
<1>6. \A y : /\ Clean(p, y)' <=> Clean(p, y)
             /\ Editing(p, y)' <=> Editing(p, y)
    BY <1>2, <1>3, <1>4 DEF Clean, Editing
<1>7. EditInv(p, x) /\ ~PublishedEdit(p, x) /\ ~Publishing(p, x)
    BY <1>1, <1>3, <1>4, <1>5 DEF LiveInv, PublishedEdit, Publishing
<1>8. /\ Unpublished(p, x) /\ Newest(p, x) /\ p \in Editors
      /\ EventAt(p, x, IF disk[p][x] = None THEN "delete" ELSE "update")
    BY <1>5, <1>7 DEF EditInv, Unpublished, Pending
<1>9. type = IF disk[p][x] = None THEN "delete" ELSE "update"
    BY <1>3, <1>8 DEF EventAt
<1>10. QueueInv(p)'
  <2>1. \A y \in dirty'[p] : ~Queued(p, y)' /\ ~Handled(p, y)'
    BY <1>1, <1>2, <1>3, <1>4, <1>5 DEF QueueInv
  <2> QED
    BY <1>1, <1>2, <1>3, <1>4, <1>6, <2>1 DEF QueueInv, OneEvent
<1>11. EditInv(p, x)'
  <2>1. Publishing(p, x)'
    BY <1>2, <1>4, <1>9 DEF Publishing
  <2>2. AloneAt(p, x)'
    BY <1>2, <1>3, <1>6, <1>8, AloneKept, OthersClean DEF Unpublished
  <2>3. Newest(p, x)' /\ ~Applied(p, x)'
    BY <1>2, <1>8, SameNewest DEF Applied, Unpublished
  <2> QED
    BY <1>2, <1>8, <2>1, <2>2, <2>3 DEF EditInv, Unpublished
<1>12. \A y \in AllPath \ {x} : ~Editing(p, y)
    BY <1>3, <1>8, OthersClean DEF Unpublished, Editing
<1>13. Busy(p)
    BY <1>3, <1>5 DEF Busy
<1> QED
    BY <1>2, <1>4, <1>5, <1>6, <1>10, <1>11, <1>12, <1>13, LocalMove

\* What the local frame of a live peer carries is an edit of its user.
LEMMA FrameEdit ==
    ASSUME TypeInv, ConvInv, NEW p \in Peer, Live(p), local[p].pc # "idle"
    PROVE  /\ local[p].path \in AllPath /\ Handled(p, local[p].path)
           /\ Editing(p, local[p].path) /\ EditInv(p, local[p].path)
           /\ \A y : Handled(p, y) => y = local[p].path
           /\ local[p].pc \in {"record", "forget"} => PublishedEdit(p, local[p].path)
           /\ local[p].pc \notin {"record", "forget"} =>
                Unpublished(p, local[p].path) /\ Publishing(p, local[p].path)
<1>1. LiveInv(p) /\ QueueInv(p)
    BY DEF ConvInv, PeerInv, LiveInv
<1>2. /\ local[p].path \in AllPath /\ Handled(p, local[p].path)
      /\ \A y : Handled(p, y) => y = local[p].path
    BY PeerTypes DEF Handled
<1>3. Editing(p, local[p].path) /\ EditInv(p, local[p].path)
    BY <1>1, <1>2 DEF LiveInv, KeptInv
<1>4. ~Queued(p, local[p].path) /\ local[p].path \notin dirty[p]
    BY <1>1, <1>2 DEF QueueInv
<1>5. ~Pending(p, local[p].path)
    BY <1>4 DEF Pending, EventAt, Queued
<1> QED
    BY <1>2, <1>3, <1>5 DEF EditInv, Unpublished, PublishedEdit, Publishing

LEMMA LiveLookUp ==
    ASSUME TypeInv, ConvInv, NEW p \in Peer, Live(p), OnlyMover(p),
           ReadLocalFile(p) \/ SkipUnchanged(p) \/ BaseOnManifest(p) \/ FindDeleted(p)
    PROVE  ConvInv'
<1>1. LiveInv(p) /\ QueueInv(p)
    BY DEF ConvInv, PeerInv, LiveInv
<1>2. local[p].pc \in {"read", "lookup", "find"}
    BY DEF ReadLocalFile, SkipUnchanged, BaseOnManifest, FindDeleted, At
<1>3. PICK x \in AllPath : x = local[p].path
    BY <1>2, FrameEdit
<1>4. /\ Handled(p, x) /\ Editing(p, x) /\ Unpublished(p, x) /\ Publishing(p, x)
      /\ EditInv(p, x) /\ \A y : Handled(p, y) => y = x
    BY <1>2, <1>3, FrameEdit
<1>5. /\ view[p][x] \in UserManifestValue \cup {None} /\ disk[p][x] \in Content \cup {None}
      /\ disk[p][x] # Shown(view[p][x])
    BY <1>4, PeerTypes DEF Unpublished, Applied
<1>6. /\ log' = log /\ view' = view /\ disk' = disk /\ owed' = owed /\ remote' = remote
      /\ suppressed' = suppressed /\ dirty' = dirty /\ known' = known /\ queue' = queue
      /\ Live(p)' /\ tracked' = tracked
    BY DEF ReadLocalFile, SkipUnchanged, BaseOnManifest, FindDeleted, Live
<1>7. /\ local'[p].path = x
      /\ local[p].pc = "read" => local'[p].pc = "lookup" /\ local'[p].data = disk[p][x]
      /\ local[p].pc = "lookup" => local'[p].pc = "publish" /\ local'[p].data = local[p].data
      /\ local[p].pc = "find" => /\ local'[p].pc = "entomb" /\ IsFile(view[p][x])
                                 /\ local'[p].base = view[p][x].hash
  <2>0. local \in [Peer -> LocalFrame] /\ local[p] \in LocalFrame
    BY DEF TypeInv, TypeOK
  <2>1. CASE ReadLocalFile(p)
    <3>1. local[p].pc = "read" /\ disk[p][x] # None
        BY <1>4, <2>1 DEF ReadLocalFile, At, Publishing
    <3>2. local' = [local EXCEPT ![p] = [local[p] EXCEPT !.pc = "lookup", !.data = disk[p][x]]]
        BY <1>3, <2>1, <3>1 DEF ReadLocalFile, Becomes
    <3> QED
        BY <1>3, <2>0, <3>1, <3>2 DEF LocalFrame
  <2>2. CASE SkipUnchanged(p)
    <3>1. IsFile(view[p][x]) /\ view[p][x].hash = disk[p][x]
        BY <1>3, <1>4, <2>2 DEF SkipUnchanged, SameAsManifest, LookedUp, At, Publishing
    <3> QED
        BY <1>5, <3>1, ShownFile
  <2>3. CASE BaseOnManifest(p)
    <3>1. /\ local[p].pc = "lookup"
          /\ local' = [local EXCEPT ![p] =
                [local[p] EXCEPT !.pc = "publish", !.base = NextBase(LookedUp(p))]]
        BY <2>3 DEF BaseOnManifest, At, Becomes
    <3> QED
        BY <1>3, <2>0, <3>1 DEF LocalFrame
  <2>4. CASE FindDeleted(p)
    <3>1. local[p].pc = "find" /\ disk[p][x] = None
        BY <1>4, <2>4 DEF FindDeleted, At, Publishing
    <3>2. IsFile(view[p][x])
        BY <1>5, <3>1, ShownFile
    <3>3. local' = [local EXCEPT ![p] =
                [local[p] EXCEPT !.pc = "entomb", !.base = view[p][x].hash]]
        BY <1>3, <2>4, <3>2 DEF FindDeleted, Becomes, LookedUp
    <3> QED
        BY <1>3, <2>0, <3>1, <3>2, <3>3 DEF LocalFrame
  <2> QED
    BY <2>1, <2>2, <2>3, <2>4
<1>8. \A y : Handled(p, y)' <=> Handled(p, y)
    BY <1>2, <1>3, <1>7 DEF Handled
<1>9. \A y : /\ Queued(p, y)' <=> Queued(p, y)
             /\ Clean(p, y)' <=> Clean(p, y)
             /\ Editing(p, y)' <=> Editing(p, y)
    BY <1>6, <1>8 DEF Queued, Clean, Editing
<1>10. QueueInv(p)'
    BY <1>1, <1>6, <1>8, <1>9 DEF QueueInv
<1>11. EditInv(p, x)'
  <2>1. Publishing(p, x)'
    BY <1>2, <1>4, <1>6, <1>7, <1>8 DEF Publishing
  <2>2. AloneAt(p, x)'
    BY <1>4, <1>6, <1>9, AloneKept, OthersClean DEF Unpublished
  <2>3. Newest(p, x)' /\ ~Applied(p, x)'
    BY <1>4, <1>6, SameNewest DEF Applied, Unpublished, EditInv
  <2> QED
    BY <1>4, <1>6, <2>1, <2>2, <2>3 DEF EditInv, Unpublished
<1>12. \A y \in AllPath \ {x} : ~Editing(p, y) /\ Clean(p, y)
    BY <1>4, OthersClean DEF Unpublished, Editing
<1>13. Busy(p)
    BY <1>4 DEF Busy, Editing
<1> QED
    BY <1>4, <1>6, <1>8, <1>9, <1>10, <1>11, <1>12, <1>13, LocalMove

LEMMA LiveRecordEdit ==
    ASSUME TypeInv, ConvInv, NEW p \in Peer, Live(p), OnlyMover(p),
           RecordUpload(p) \/ ForgetDeleted(p)
    PROVE  ConvInv'
<1>1. LiveInv(p) /\ QueueInv(p)
    BY DEF ConvInv, PeerInv, LiveInv
<1>2. local[p].pc \in {"record", "forget"}
    BY DEF RecordUpload, ForgetDeleted, At
<1>3. PICK x \in AllPath : x = local[p].path
    BY <1>2, FrameEdit
<1>4. /\ Handled(p, x) /\ Editing(p, x) /\ PublishedEdit(p, x) /\ EditInv(p, x)
      /\ \A y : Handled(p, y) => y = x
    BY <1>2, <1>3, FrameEdit
<1>5. /\ log' = log /\ view' = view /\ disk' = disk /\ owed' = owed /\ remote' = remote
      /\ suppressed' = suppressed /\ dirty' = dirty /\ known' = known /\ queue' = queue
      /\ Live(p)' /\ local'[p].pc = "idle"
      /\ tracked'[p] = [tracked[p] EXCEPT ![x] = disk[p][x]]
  <2>1. CASE RecordUpload(p)
    <3>1. local[p].data = disk[p][x]
        BY <1>4, <2>1 DEF RecordUpload, At, PublishedEdit
    <3> QED
        BY <1>3, <2>1, <3>1 DEF RecordUpload, Becomes, IdleLocal, Live, TypeInv, TypeOK
  <2>2. CASE ForgetDeleted(p)
    <3>1. disk[p][x] = None
        BY <1>4, <2>2 DEF ForgetDeleted, At, PublishedEdit
    <3> QED
        BY <1>3, <2>2, <3>1 DEF ForgetDeleted, Becomes, IdleLocal, Live, TypeInv, TypeOK
  <2> QED
    BY <2>1, <2>2
<1>6. \A y : /\ Queued(p, y)' <=> Queued(p, y)
             /\ ~Handled(p, y)'
    BY <1>5 DEF Queued, Handled
<1>7. x \notin dirty[p] /\ ~Queued(p, x)
    BY <1>1, <1>4 DEF QueueInv
<1>8. /\ \A y : y # x => (Clean(p, y)' <=> Clean(p, y))
      /\ \A y : y # x => (Editing(p, y)' <=> Editing(p, y))
      /\ Clean(p, x)' /\ ~Editing(p, x)' /\ ~Clean(p, x)
    BY <1>4, <1>5, <1>6, <1>7 DEF Clean, Editing
<1>9. QueueInv(p)'
  <2>1. p \notin Joining \cup Restarting => \A y \in suppressed'[p] : ~Clean(p, y)'
    BY <1>1, <1>4, <1>5, <1>8 DEF QueueInv, Editing
  <2> QED
    BY <1>1, <1>5, <1>6, <2>1 DEF QueueInv
<1>10. KeptInv(p, x)'
  <2>1. Applied(p, x)' /\ Newest(p, x)'
    BY <1>4, <1>5, SameNewest DEF PublishedEdit, Applied, EditInv
  <2>2. tracked'[p][x] = disk'[p][x]
    BY <1>5, PeerTypes
  <2> QED
    BY <1>5, <1>6, <1>7, <2>1, <2>2 DEF KeptInv, Noted
<1>11. \A y \in AllPath : ~Editing(p, y)'
  <2>1. ASSUME NEW y \in AllPath, Editing(p, y), y # x
        PROVE  FALSE
    <3>1. EditInv(p, y) /\ ~PublishedEdit(p, y)
        BY <1>1, <1>4, <2>1 DEF LiveInv, PublishedEdit
    <3>2. AloneAt(p, y)
        BY <3>1 DEF EditInv, Unpublished
    <3> QED
        BY <1>4, <2>1, <3>2, OthersClean DEF Editing
  <2> QED
    BY <1>8, <2>1
<1>12. \A y \in AllPath : ~Editing(p, y) => tracked'[p][y] = tracked[p][y]
    BY <1>4, <1>5, PeerTypes
<1>13. \A y \in AllPath : Editing(p, y) /\ ~Editing(p, y)' => y = x
    BY <1>8
<1>14. Busy(p)
    BY <1>8 DEF Busy
<1> QED
    BY <1>5, <1>6, <1>8, <1>9, <1>10, <1>11, <1>12, <1>13, <1>14, LocalMove

-----------------------------------------------------------------------------
(***************************************************************************)
(* An entry is published: it is the last at its path, and the live peers   *)
(* that had the one before are behind.                                     *)
(***************************************************************************)
Puts(p, x, e) ==
    /\ e \in UserManifestValue /\ e.writerKey = p
    /\ \A f \in log[x] : f.pos < e.pos
    /\ log'[x] = log[x] \cup {e} /\ \A y \in AllPath \ {x} : log'[y] = log[y]
    /\ view'[p][x] = e /\ \A y \in AllPath \ {x} : view'[p][y] = view[p][y]

LEMMA FreshTop ==
    ASSUME TypeInv, NEW p \in Peer, NEW x \in AllPath, Newest(p, x), NEW n \in FreshPos(p, x)
    PROVE  n \in Position /\ \A f \in log[x] : f.pos < n
<1>1. n \in Position
    BY FreshPositive DEF TypeInv, TypeOK
<1>2. n \in (Pos(view[p][x]) + 1) .. (LastPos(x) + 2)
    BY DEF FreshPos
<1>3. view[p][x] \in UserManifestValue \cup {None} /\ log[x] \subseteq UserManifestValue
    BY PeerTypes
<1>4. Pos(view[p][x]) \in Nat
    BY <1>3, EntryFacts, NoEntry
<1>5. n > Pos(view[p][x])
    BY <1>1, <1>2, <1>4 DEF Position
<1>6. ASSUME NEW f \in log[x]
      PROVE  f.pos < n
  <2>1. f.pos \in Nat /\ (f = view[p][x] => Pos(view[p][x]) = f.pos)
    BY <1>3, EntryFacts
  <2> QED
    BY <1>1, <1>4, <1>5, <2>1 DEF Newest, Position
<1> QED
    BY <1>1, <1>6

LEMMA PublisherNewest ==
    ASSUME NEW p \in Peer, NEW x \in AllPath, NEW e, Puts(p, x, e)
    PROVE  /\ Newest(p, x)' /\ Own(p, x)'
           /\ \A y \in AllPath \ {x} : /\ Newest(p, y)' <=> Newest(p, y)
                                       /\ Own(p, y)' <=> Own(p, y)
<1>1. Pos(e) = e.pos /\ e # None
    BY EntryFacts DEF Puts
<1>2. Newest(p, x)' /\ Own(p, x)'
    BY <1>1 DEF Puts, Newest, Own
<1> QED
    BY <1>2, SameNewest DEF Puts, Own

LEMMA BehindKept ==
    ASSUME TypeInv, NEW p \in Peer, NEW x \in AllPath, NEW e, Puts(p, x, e), Newest(p, x),
           NEW q \in Peer \ {p}, Rests(q), LiveInv(q), \A y \in AllPath : ~Editing(q, y),
           view[q][x] = view[p][x], Settled(q, x),
           e.kind = "tombstone" => e.baseHash = Shown(view[p][x])
    PROVE  LiveInv(q)'
<1>1. \A y : /\ Own(q, y)' <=> Own(q, y)
             /\ Applied(q, y)' <=> Applied(q, y)
             /\ Queued(q, y)' <=> Queued(q, y)
             /\ Handled(q, y)' <=> Handled(q, y)
             /\ Clean(q, y)' <=> Clean(q, y)
             /\ Editing(q, y)' <=> Editing(q, y)
             /\ Writing(q, y)' <=> Writing(q, y)
             /\ Recording(q, y)' <=> Recording(q, y)
             /\ Due(q, y)' <=> Due(q, y)
             /\ Noted(q, y)' <=> Noted(q, y)
    BY SamePaths
<1>2. \A y \in AllPath \ {x} : /\ Newest(q, y)' <=> Newest(q, y)
                               /\ Above(q, y)' = Above(q, y)
    BY SameNewest DEF Puts, Rests
<1>3. Items(q)' = Items(q) /\ Held(q)' = Held(q) /\ X(q)' = X(q) /\ M(q)' = M(q)
    BY DEF Items, Held, Rests, X, M
<1>4. ScanInv(q)'
  <2>1. \A i \in Items(q) : ItemInv(q, i)'
    BY <1>1 DEF LiveInv, ScanInv, ItemInv, Rests
  <2>2. OneEach(q)'
    BY <1>3 DEF LiveInv, ScanInv, OneEach, Rests
  <2>3. FrameInv(q)'
    <3>1. CASE Writing(q, X(q))
        <4>1. PICK y \in AllPath : y = X(q)
            BY <3>1, PeerTypes DEF Writing
        <4>2. y # x
            BY <3>1, <4>1 DEF Settled
        <4>3. Newest(q, X(q))' /\ (Applied(q, X(q))' <=> Applied(q, X(q))) /\ Writing(q, X(q))'
            BY <1>1, <1>2, <1>3, <3>1, <4>1, <4>2 DEF LiveInv, ScanInv, FrameInv
        <4> QED
            BY <1>3, <3>1, <4>3 DEF LiveInv, ScanInv, FrameInv, Rests
    <3>2. CASE ~Writing(q, X(q))
        <4>1. ~Writing(q, X(q))' /\ remote[q].pc \notin {"fetch", "record", "delete", "forget"}
            BY <1>1, <1>3, <3>2 DEF Writing
        <4> QED
            BY <1>3, <4>1 DEF LiveInv, ScanInv, FrameInv, Rests
    <3> QED
        BY <3>1, <3>2
  <2> QED
    BY <1>3, <2>1, <2>2, <2>3 DEF ScanInv
<1>5. QueueInv(q)'
    BY <1>1 DEF LiveInv, QueueInv, Rests
<1>6. ASSUME NEW y \in AllPath
      PROVE  KeptInv(q, y)'
  <2>1. KeptInv(q, y)
    BY DEF LiveInv
  <2>2. CASE y # x
    BY <1>1, <1>2, <2>1, <2>2 DEF KeptInv, Rests
  <2>3. CASE y = x
    <3>1. Newest(q, x) /\ Clean(q, x) /\ ~Writing(q, x) /\ Applied(q, x)
        BY DEF Settled, Newest
    <3>2. /\ view[q][x] \in UserManifestValue \cup {None} /\ log[x] \subseteq UserManifestValue
          /\ e.pos \in Nat
        BY PeerTypes, EntryFacts DEF Puts
    <3>3. \A f \in Above(q, x)' : f = e
      <4>1. ASSUME NEW f \in log[x]
            PROVE  ~(f.pos > Pos(view[q][x]))
        <5>1. f.pos \in Nat /\ (f = view[q][x] => Pos(view[q][x]) = f.pos)
            BY <3>2, EntryFacts
        <5>2. Pos(view[q][x]) \in Nat
            BY <3>2, EntryFacts, NoEntry
        <5> QED
            BY <3>1, <5>1, <5>2 DEF Newest
      <4> QED
        BY <4>1 DEF Above, Puts, Rests
    <3>4. e.writerKey # q /\ (e.kind = "tombstone" => e.baseHash = disk[q][x])
        BY <3>1 DEF Puts, Applied
    <3>5. Noted(q, x) /\ ~Handled(q, x) /\ x \notin dirty[q]
        BY DEF Settled, Clean
    <3> QED
        BY <1>1, <2>3, <3>1, <3>3, <3>4, <3>5 DEF KeptInv, Rests
  <2> QED
    BY <2>2, <2>3
<1> QED
    BY <1>1, <1>4, <1>5, <1>6 DEF LiveInv

LEMMA PublishWhole ==
    ASSUME TypeInv, ConvInv, NEW p \in Peer \ Restarting, OnlyMover(p),
           NEW x \in AllPath, NEW e, Puts(p, x, e), Newest(p, x), Live(p)' \/ Starting(p)', disk'[p] = disk[p],
           \A q \in Peer \ {p} : ~Starting(q),
           \A q \in Peer \ {p} : Live(q) =>
                /\ view[q][x] = view[p][x] /\ Settled(q, x)
                /\ \A y \in AllPath : ~Editing(q, y),
           e.kind = "tombstone" => e.baseHash = Shown(view[p][x]),
           x \in Copies => x.by = p \/ log[x] # {},
           PeerInv(p)'
    PROVE  ConvInv'
<1>1. ASSUME NEW q \in Peer, q # p
      PROVE  PeerInv(q)'
  <2>1. Rests(q) /\ PeerInv(q) /\ ~Starting(q)
    BY <1>1 DEF OnlyMover, ConvInv
  <2>2. Live(q) => LiveInv(q)'
    BY <1>1, <2>1, BehindKept DEF PeerInv
  <2>3. FreshInv(q) => FreshInv(q)'
    BY <1>1, <2>1 DEF FreshInv, Rests, Puts
  <2>4. NoCopiesOf(q) => NoCopiesOf(q)'
    BY <1>1 DEF NoCopiesOf, Puts, AllPath
  <2>5. JoinInv(q) => JoinInv(q)'
    BY <2>1, <2>3, <2>4 DEF JoinInv, Rests, Starting
  <2>6. RestartInv(q) => RestartInv(q)'
    BY <2>1 DEF RestartInv, IdleInv, Rests, Starting
  <2> QED
    BY <2>1, <2>2, <2>5, <2>6 DEF PeerInv, Rests, Live, Starting
<1>2. KnownViews'
    BY DEF ConvInv, KnownViews, OnlyMover, Rests, Puts
<1>3. SomeoneNewest'
  <2>1. ASSUME NEW y \in AllPath \ {x}
        PROVE  \E q \in Peer \ Restarting : (Live(q)' \/ Starting(q)') /\ Newest(q, y)'
    <3>1. PICK q \in Peer \ Restarting : (Live(q) \/ Starting(q)) /\ Newest(q, y)
        BY DEF ConvInv, SomeoneNewest
    <3>2. CASE q = p
        BY <3>1, <3>2, PublisherNewest
    <3>3. CASE q # p
        <4>1. Rests(q) /\ log'[y] = log[y]
            BY <3>3 DEF OnlyMover, Puts
        <4>2. (Live(q)' \/ Starting(q)') /\ Newest(q, y)'
            BY <3>1, <4>1, SameNewest DEF Rests, Live, Starting
        <4> QED
            BY <4>2
    <3> QED
        BY <3>2, <3>3
  <2>2. Newest(p, x)'
    BY PublisherNewest
  <2> QED
    BY <2>1, <2>2 DEF SomeoneNewest
<1>4. CopiesInv'
  <2>1. \A q \in Peer : disk'[q] = disk[q]
    BY DEF OnlyMover, Rests
  <2>2. \A y \in Copies : log[y] \subseteq log'[y]
    BY DEF Puts, AllPath
  <2> QED
    BY <2>1, <2>2 DEF ConvInv, CopiesInv
<1>5. \A q \in Peer : PeerInv(q)'
    BY <1>1
<1> QED
    BY <1>2, <1>3, <1>4, <1>5 DEF ConvInv

\* What rests while an edit is under way has what the editor's view names.
LEMMA AloneSettled ==
    ASSUME TypeInv, ConvInv, NEW p \in Peer, Live(p), NEW x \in AllPath, AloneAt(p, x),
           NEW q \in Peer, Live(q), NEW y \in AllPath, q # p \/ y # x
    PROVE  /\ view[q] = view[p] /\ ~Editing(q, y) /\ Settled(q, y) /\ KeptInv(q, y)
           /\ Items(q) = {} /\ Held(q) = {} /\ remote[q].pc = "idle"
<1>1. Resting(q) /\ view[q] = view[p] /\ Clean(q, y) /\ LiveInv(q)
    BY DEF AloneAt, ConvInv, PeerInv
<1>2. ~owed[q] /\ remote[q].pc = "idle" /\ remote[q].snap = {}
    BY <1>1 DEF Resting, LiveInv, ScanInv, FrameInv
<1>3. ~Editing(q, y) /\ KeptInv(q, y)
    BY <1>1 DEF Editing, LiveInv
<1>4. ~Due(q, y)
    BY <1>2 DEF Due
<1>5. Applied(q, y) /\ Noted(q, y) /\ ~Writing(q, y)
    BY <1>2, <1>3, <1>4, NotRecording DEF KeptInv, Writing
<1> QED
    BY <1>1, <1>2, <1>3, <1>5 DEF Settled, Items, Held

\* A copy that no other peer has published is its maker's.
LEMMA OwnCopy ==
    ASSUME TypeInv, ConvInv, NEW p \in Peer, NEW x \in AllPath, ~IsFile(view[p][x]),
           ~Applied(p, x), x \in Copies
    PROVE  x.by = p \/ log[x] # {}
<1>1. disk[p][x] # None
    BY ShownFile, PeerTypes DEF Applied
<1> QED
    BY <1>1 DEF ConvInv, CopiesInv

LEMMA LivePublish ==
    ASSUME TypeInv, ConvInv, Orderly, NEW p \in Peer, Live(p), OnlyMover(p),
           PublishFile(p) \/ PublishTombstone(p)
    PROVE  ConvInv'
<1>1. LiveInv(p) /\ QueueInv(p) /\ PeerInv(p)
    BY DEF ConvInv, PeerInv, LiveInv
<1>2. local[p].pc \in {"publish", "entomb"}
    BY DEF PublishFile, PublishTombstone, At
<1>3. PICK x \in AllPath : x = local[p].path
    BY <1>2, FrameEdit
<1>4. /\ Handled(p, x) /\ Editing(p, x) /\ Unpublished(p, x) /\ Publishing(p, x)
      /\ EditInv(p, x) /\ Newest(p, x) /\ AloneAt(p, x)
    BY <1>2, <1>3, FrameEdit DEF EditInv, Unpublished
<1>5. /\ view[p][x] \in UserManifestValue \cup {None} /\ disk[p][x] \in Content \cup {None}
      /\ view[p] \in [AllPath -> UserManifestValue \cup {None}]
      /\ local[p] \in LocalFrame
    BY PeerTypes DEF TypeInv, TypeOK
<1>6. /\ disk' = disk /\ suppressed' = suppressed /\ dirty' = dirty /\ known' = known
      /\ queue' = queue /\ tracked' = tracked /\ remote' = remote /\ Live(p)' /\ phase' = phase
    BY DEF PublishFile, PublishTombstone, Live
<1>7. PICK e :
        /\ Puts(p, x, e)
        /\ Shown(e) = disk[p][x]
        /\ local[p].pc = "publish" => e.kind = "file"
        /\ local[p].pc = "entomb" => e.kind = "tombstone" /\ e.baseHash = view[p][x].hash
  <2>1. CASE PublishFile(p)
    <3>1. PICK n \in FreshPos(p, x) : Put(p, x, File(local[p].data, local[p].base, p, n))
        BY <1>3, <2>1 DEF PublishFile
    <3>2. n \in Position /\ \A f \in log[x] : f.pos < n
        BY <1>4, FreshTop
    <3> DEFINE e == File(local[p].data, local[p].base, p, n)
    <3>3. local[p].data = disk[p][x] /\ disk[p][x] # None /\ local[p].pc = "publish"
        BY <1>4, <2>1 DEF PublishFile, At, Publishing
    <3>4. e \in UserManifestValue /\ e.writerKey = p /\ e.pos = n /\ e.kind = "file"
          /\ e.hash = disk[p][x]
        BY <1>5, <3>2, <3>3 DEF File, UserManifestValue, FileMetadata, LocalFrame
    <3> HIDE DEF e
    <3>5. Puts(p, x, e)
        BY <1>5, <3>1, <3>2, <3>4 DEF Puts, Put, e, TypeInv, TypeOK, ManifestTypeOK
    <3> QED
        BY <3>3, <3>4, <3>5, EntryFacts
  <2>2. CASE PublishTombstone(p)
    <3>1. PICK n \in FreshPos(p, x) : Put(p, x, Tombstone(local[p].base, p, n))
        BY <1>3, <2>2 DEF PublishTombstone
    <3>2. n \in Position /\ \A f \in log[x] : f.pos < n
        BY <1>4, FreshTop
    <3> DEFINE e == Tombstone(local[p].base, p, n)
    <3>3. disk[p][x] = None /\ local[p].pc = "entomb" /\ local[p].base = view[p][x].hash
        BY <1>4, <2>2 DEF PublishTombstone, At, Publishing
    <3>4. e \in UserManifestValue /\ e.writerKey = p /\ e.pos = n /\ e.kind = "tombstone"
          /\ e.baseHash = view[p][x].hash
        BY <1>5, <3>2, <3>3 DEF Tombstone, UserManifestValue, TombstoneMetadata, LocalFrame
    <3> HIDE DEF e
    <3>5. Puts(p, x, e)
        BY <1>5, <3>1, <3>2, <3>4 DEF Puts, Put, e, TypeInv, TypeOK, ManifestTypeOK
    <3> QED
        BY <3>3, <3>4, <3>5, EntryFacts
  <2> QED
    BY <2>1, <2>2
<1>8. e.kind = "tombstone" => e.baseHash = Shown(view[p][x])
  <2>1. SUFFICES ASSUME e.kind = "tombstone"
                 PROVE  e.baseHash = Shown(view[p][x])
    OBVIOUS
  <2>2. local[p].pc = "entomb" /\ IsFile(view[p][x])
    BY <1>2, <1>4, <1>7, <2>1 DEF Publishing
  <2> QED
    BY <1>5, <1>7, <2>2, ShownFile
<1>9. /\ local'[p].path = x /\ local'[p].data = local[p].data
      /\ local'[p].pc = IF local[p].pc = "publish" THEN "record" ELSE "forget"
  <2>1. CASE PublishFile(p)
    <3>1. local' = [local EXCEPT ![p] = [local[p] EXCEPT !.pc = "record"]] /\ local[p].pc = "publish"
        BY <2>1 DEF PublishFile, Becomes, At
    <3> QED
        BY <1>3, <1>5, <3>1 DEF TypeInv, TypeOK, LocalFrame
  <2>2. CASE PublishTombstone(p)
    <3>1. local' = [local EXCEPT ![p] = [local[p] EXCEPT !.pc = "forget"]] /\ local[p].pc = "entomb"
        BY <2>2 DEF PublishTombstone, Becomes, At
    <3> QED
        BY <1>3, <1>5, <3>1 DEF TypeInv, TypeOK, LocalFrame
  <2> QED
    BY <2>1, <2>2
<1>10. \A y : /\ Queued(p, y)' <=> Queued(p, y)
              /\ Handled(p, y)' <=> Handled(p, y)
              /\ Clean(p, y)' <=> Clean(p, y)
              /\ Editing(p, y)' <=> Editing(p, y)
    BY <1>2, <1>3, <1>6, <1>9 DEF Queued, Handled, Clean, Editing
<1>11. \A y \in AllPath \ {x} :
            /\ ~Editing(p, y) /\ Settled(p, y) /\ KeptInv(p, y) /\ remote[p].pc = "idle"
    BY <1>4, AloneSettled
<1>12. LiveInv(p)'
  <2>1. remote[p].pc = "idle" /\ remote[p].snap = {}
    BY <1>1, <1>4 DEF AloneAt, Resting, LiveInv, ScanInv, FrameInv
  <2>2. Items(p)' = {} /\ Held(p)' = {} /\ \A y : ~Writing(p, y)' /\ ~Recording(p, y)'
    BY <1>6, <2>1 DEF Items, Held, Writing, Recording
  <2>3. ScanInv(p)'
    BY <1>6, <2>1, <2>2 DEF ScanInv, OneEach, FrameInv
  <2>4. QueueInv(p)'
    BY <1>1, <1>6, <1>10 DEF QueueInv
  <2>5. EditInv(p, x)'
    <3>1. Newest(p, x)' /\ Own(p, x)'
        BY <1>7, PublisherNewest
    <3>2. Applied(p, x)'
        BY <1>6, <1>7 DEF Applied, Puts
    <3>3. PublishedEdit(p, x)'
        BY <1>2, <1>4, <1>6, <1>9, <1>10, <3>1, <3>2 DEF PublishedEdit, Publishing
    <3> QED
        BY <1>4, <3>1, <3>3 DEF EditInv
  <2>6. ASSUME NEW y \in AllPath \ {x}
        PROVE  ~Editing(p, y)' /\ KeptInv(p, y)'
    <3>1. view'[p][y] = view[p][y] /\ log'[y] = log[y]
        BY <1>7 DEF Puts
    <3>2. /\ Newest(p, y)' <=> Newest(p, y)
          /\ Above(p, y)' = Above(p, y)
          /\ Applied(p, y)' <=> Applied(p, y)
          /\ Own(p, y)' <=> Own(p, y)
        BY <1>6, <3>1, SameNewest DEF Applied, Own
    <3>3. KeptInv(p, y) /\ Applied(p, y) /\ Noted(p, y) /\ ~Editing(p, y)
        BY <1>11 DEF Settled
    <3> QED
        BY <1>6, <1>10, <2>2, <3>1, <3>2, <3>3 DEF KeptInv, Noted
  <2> QED
    BY <1>4, <1>10, <2>3, <2>4, <2>5, <2>6 DEF LiveInv
<1>13. PeerInv(p)'
    BY <1>6, <1>12 DEF PeerInv, RestartInv, JoinInv, Live, Starting
<1>14. \A q \in Peer \ {p} : Live(q) =>
            /\ view[q][x] = view[p][x] /\ Settled(q, x)
            /\ \A y \in AllPath : ~Editing(q, y)
    BY <1>4, AloneSettled
<1>15. x \in Copies => x.by = p \/ log[x] # {}
  <2>1. CASE IsFile(view[p][x])
    BY <1>5, <2>1, ShownFile, NoEntry DEF ConvInv, KnownViews
  <2>2. CASE ~IsFile(view[p][x])
    BY <1>4, <2>2, OwnCopy DEF Unpublished
  <2> QED
    BY <2>1, <2>2
<1>16. \A q \in Peer \ {p} : ~Starting(q)
    BY <1>4 DEF AloneAt
<1>17. p \notin Restarting
    BY <1>4 DEF EditInv, Orderly
<1> QED
    BY <1>4, <1>6, <1>7, <1>8, <1>13, <1>14, <1>15, <1>16, <1>17, PublishWhole

LEMMA LiveLocalKept ==
    ASSUME TypeInv, ConvInv, Orderly, NEW p \in Peer, Live(p), OnlyMover(p), LocalStep(p)
    PROVE  ConvInv'
BY LiveSuppress, LiveTake, LiveLookUp, LivePublish, LiveRecordEdit DEF LocalStep

-----------------------------------------------------------------------------
(***************************************************************************)
(* At rest every folder matches the manifest; a user acts from there.      *)
(***************************************************************************)
LEMMA RestMatches ==
    ASSUME TypeInv, ConvInv, AtRest, NEW p \in Running, NEW x \in AllPath
    PROVE  /\ Live(p) /\ ~Editing(p, x) /\ Settled(p, x) /\ KeptInv(p, x)
           /\ remote[p].pc = "idle" /\ Items(p) = {} /\ Held(p) = {} /\ remote[p].snap = {}
           /\ Newest(p, x)
<1>1. p \in Peer /\ Quiet(p) /\ CaughtUp(p)
    BY DEF AtRest, Running
<1>2. /\ Live(p) /\ dirty[p] = {} /\ queue[p] = <<>> /\ local[p].pc = "idle" /\ ~owed[p]
      /\ remote[p].pc = "idle"
    BY <1>1 DEF Quiet, QueuesIdle, Live
<1>3. LiveInv(p)
    BY <1>1, <1>2 DEF ConvInv, PeerInv
<1>4. remote[p].snap = {}
    BY <1>2, <1>3 DEF LiveInv, ScanInv, FrameInv
<1>5. Clean(p, x)
    BY <1>2 DEF Clean, Queued, Handled
<1>6. ~Editing(p, x) /\ KeptInv(p, x)
    BY <1>3, <1>5 DEF Editing, LiveInv
<1>7. ~Due(p, x)
    BY <1>2, <1>4 DEF Due
<1>8. Applied(p, x) /\ Noted(p, x) /\ ~Writing(p, x)
    BY <1>2, <1>6, <1>7, NotRecording DEF KeptInv, Writing
<1>9. Newest(p, x)
  <2>1. PICK q \in Peer \ Restarting : (Live(q) \/ Starting(q)) /\ Newest(q, x)
    BY DEF ConvInv, SomeoneNewest
  <2>2. q \in Running
    BY <2>1 DEF Live, Starting, Running
  <2>3. view[q] = view[p]
    BY <1>1, <2>2 DEF CaughtUp
  <2> QED
    BY <2>1, <2>3 DEF Newest
<1> QED
    BY <1>2, <1>4, <1>5, <1>6, <1>8, <1>9 DEF Settled, Items, Held

\* An engine that has not begun its start does nothing.
LEMMA IdlePeer ==
    ASSUME NEW q \in Peer, PeerInv(q), phase[q] \in {"down", "ready"}
    PROVE  IdleInv(q) /\ \A x : Clean(q, x) /\ ~Editing(q, x)
<1>1. IdleInv(q)
    BY DEF PeerInv, RestartInv, JoinInv, FreshInv, IdleInv
<1>2. dirty[q] = {} /\ queue[q] = <<>> /\ local[q].pc = "idle"
    BY <1>1 DEF IdleInv, IdleLocal
<1> QED
    BY <1>1, <1>2 DEF Clean, Editing, Queued, Handled

LEMMA UserKept ==
    ASSUME TypeInv, ConvInv, Orderly, NEW p \in Peer, OnlyMover(p),
           UserWrite(p) \/ UserDelete(p)
    PROVE  ConvInv'
<1>1. PICK x \in Path, c \in Content \cup {None} : UserEdit(p, x, c)
    BY DEF UserWrite, UserDelete
<1>2. /\ p \in Editors /\ disk[p][x] # c /\ AtRest /\ x \in AllPath
      /\ Touch(p, x, c)
      /\ log' = log /\ view' = view /\ tracked' = tracked /\ suppressed' = suppressed
      /\ queue' = queue /\ local' = local /\ owed' = owed /\ remote' = remote /\ phase' = phase
    BY <1>1 DEF UserEdit, Orderly, AllPath
<1>3. p \notin Joining \cup Restarting /\ Live(p) /\ PeerInv(p) /\ LiveInv(p) /\ QueueInv(p)
    BY <1>2 DEF Orderly, ConvInv, PeerInv, LiveInv
<1>4. p \in Running /\ \A q \in Running : q \in Peer /\ Live(q) /\ Quiet(q) /\ view[q] = view[p]
    BY <1>2, <1>3 DEF Running, Live, AtRest, Quiet, CaughtUp
<1>5. \A q \in Running, y \in AllPath :
            ~Editing(q, y) /\ Settled(q, y) /\ KeptInv(q, y) /\ Newest(q, y)
    BY <1>2, RestMatches
<1>6. remote[p].pc = "idle" /\ Items(p) = {} /\ Held(p) = {} /\ remote[p].snap = {}
    BY <1>2, <1>4, RestMatches
<1>7. /\ disk'[p] = [disk[p] EXCEPT ![x] = c] /\ dirty'[p] = dirty[p] \cup {x}
      /\ known' = known
    BY <1>2, <1>3 DEF Touch, Live, TypeInv, TypeOK
<1>8. \A y \in AllPath : Clean(p, y) /\ ~Queued(p, y) /\ ~Handled(p, y) /\ y \notin dirty[p]
    BY <1>4, <1>5 DEF Settled, Clean
<1>9. /\ \A y : (Queued(p, y)' <=> Queued(p, y)) /\ (Handled(p, y)' <=> Handled(p, y))
      /\ \A y \in AllPath : Clean(p, y)' <=> y # x
  <2>1. \A y : (Queued(p, y)' <=> Queued(p, y)) /\ (Handled(p, y)' <=> Handled(p, y))
    BY <1>2 DEF Queued, Handled
  <2> QED
    BY <1>7, <1>8, <2>1 DEF Clean
<1>10. suppressed[p] = {}
    BY <1>3, <1>8, PeerTypes DEF QueueInv
<1>11. \A y \in AllPath : Editing(p, y)' <=> y = x
    BY <1>2, <1>9, <1>10 DEF Editing
<1>12. \A y \in AllPath \ {x} : PathRests(p, y)
    BY <1>2, <1>7, <1>9, PeerTypes DEF PathRests
<1>13. AloneAt(p, x)'
  <2>1. ASSUME NEW q \in Peer
        PROVE  /\ ~Starting(q)'
               /\ Live(q)' => Resting(q)' /\ view'[q] = view'[p]
               /\ Live(q)' /\ q # p => \A y \in AllPath : Clean(q, y)'
    <3>1. Starting(q) => q \in Running /\ ~Live(q)
        BY DEF Starting, Running, Live
    <3>2. ~Starting(q)' /\ (Live(q)' <=> Live(q))
        BY <1>2, <1>4, <3>1 DEF Starting, Live
    <3>3. Live(q) => q \in Running
        BY DEF Live, Running
    <3>4. Live(q)' => Resting(q)' /\ view'[q] = view'[p]
        BY <1>2, <1>4, <3>2, <3>3 DEF Quiet, QueuesIdle, Resting
    <3>5. ASSUME Live(q)', q # p, NEW y \in AllPath
          PROVE  Clean(q, y)'
      <4>1. Rests(q) /\ Clean(q, y)
        BY <1>5, <3>2, <3>3, <3>5 DEF OnlyMover, Settled
      <4> QED
        BY <4>1, SamePaths
    <3> QED
        BY <3>2, <3>4, <3>5
  <2> QED
    BY <1>9, <2>1 DEF AloneAt
<1>14. EditInv(p, x)'
  <2>1. /\ Newest(p, x) /\ disk[p][x] = Shown(view[p][x]) /\ tracked[p][x] = disk[p][x]
    BY <1>2, <1>3, <1>4, <1>5 DEF Settled, Noted, Applied
  <2>2. Newest(p, x)'
    BY <1>2, <2>1, SameNewest
  <2>3. ~Applied(p, x)' /\ tracked'[p][x] = Shown(view'[p][x])
    BY <1>2, <1>7, <2>1, PeerTypes DEF Applied
  <2>4. x \in dirty'[p] /\ (x \in known'[p] <=> IsFile(view'[p][x]))
    BY <1>2, <1>3, <1>7, <1>8, <2>1, ShownFile, PeerTypes DEF QueueInv
  <2> QED
    BY <1>2, <1>13, <2>2, <2>3, <2>4 DEF EditInv, Unpublished, Pending
<1>15. ScanInv(p)'
  <2>1. Items(p)' = {} /\ Held(p)' = {} /\ \A y : ~Writing(p, y)'
    BY <1>2, <1>6 DEF Items, Held, Writing
  <2> QED
    BY <1>2, <1>6, <2>1 DEF ScanInv, OneEach, FrameInv
<1>16. QueueInv(p)'
    BY <1>2, <1>3, <1>7, <1>8, <1>9, <1>10, PeerTypes DEF QueueInv
<1>17. ASSUME NEW y \in AllPath \ {x}
       PROVE  KeptInv(p, y)'
  <2>1. KeptInv(p, y) /\ Applied(p, y) /\ Noted(p, y)
    BY <1>4, <1>5 DEF Settled
  <2>2. ~Writing(p, y)'
    BY <1>2, <1>6 DEF Writing
  <2> QED
    BY <1>2, <1>12, <2>1, <2>2, PathKept
<1>18. LiveInv(p)'
    BY <1>11, <1>14, <1>15, <1>16, <1>17 DEF LiveInv
<1>19. KnownViews' /\ CopiesInv'
  <2>1. KnownViews'
    BY <1>2 DEF ConvInv, KnownViews
  <2>2. ASSUME NEW q \in Peer, NEW y \in Copies
        PROVE  disk'[q][y] = disk[q][y]
    <3>1. y # x /\ y \in AllPath
        BY PathAssumption DEF AllPath
    <3> QED
        BY <1>7, <3>1, PeerTypes DEF OnlyMover, Rests
  <2> QED
    BY <1>2, <2>1, <2>2 DEF ConvInv, CopiesInv
<1>20. \A c2 \in Peer : ~Starting(c2)
    BY <1>4 DEF Starting, Running, Live
<1>21. SessionsUndisturbed(p)
    BY <1>20 DEF SessionsUndisturbed
<1>22. \A q \in Peer \ {p} : \A y \in AllPath : ~AloneAt(q, y) \/ ~Editing(q, y)
  <2>1. ASSUME NEW q \in Peer \ {p}, NEW y \in AllPath, AloneAt(q, y), Editing(q, y)
        PROVE  FALSE
    <3>1. q \in Running => FALSE
        BY <1>5, <2>1
    <3>2. phase[q] = "down" /\ PeerInv(q)
        BY <3>1 DEF ConvInv, Running
    <3> QED
        BY <2>1, <3>2, IdlePeer
  <2> QED
    BY <2>1
<1> QED
    BY <1>2, <1>3, <1>18, <1>19, <1>21, <1>22, LiveMover DEF Live

-----------------------------------------------------------------------------
(***************************************************************************)
(* Replication: a live peer that was behind at a path gets the last entry  *)
(* there is, and owes itself a scan.                                       *)
(***************************************************************************)
LEMMA NewestStays ==
    ASSUME TypeInv, KnownViews, NEW p \in Peer, NEW q \in Peer, NEW x \in AllPath, Newest(p, x)
    PROVE  Later(view[p][x], view[q][x]) = view[p][x]
<1>1. /\ view[p][x] \in UserManifestValue \cup {None} /\ log[x] \subseteq UserManifestValue
      /\ view[q][x] \in log[x] \cup {None}
    BY PeerTypes DEF KnownViews
<1>2. Pos(view[p][x]) \in Nat
    BY <1>1, EntryFacts, NoEntry
<1>3. CASE view[q][x] = None
    BY <1>2, <1>3, NoEntry DEF Later
<1>4. CASE view[q][x] \in log[x]
  <2>1. Pos(view[q][x]) = view[q][x].pos /\ view[q][x].pos \in Nat
    BY <1>1, <1>4, EntryFacts
  <2> QED
    BY <1>2, <1>4, <2>1 DEF Newest, Later
<1> QED
    BY <1>1, <1>3, <1>4

LEMMA Brought ==
    ASSUME TypeInv, KnownViews, NEW p \in Peer, NEW q \in Peer, NEW x \in AllPath,
           Later(view[p][x], view[q][x]) # view[p][x]
    PROVE  /\ Later(view[p][x], view[q][x]) = view[q][x] /\ view[q][x] \in Above(p, x)
           /\ ~Newest(p, x) /\ view[q][x] \in UserManifestValue
<1>1. /\ view[p][x] \in UserManifestValue \cup {None} /\ log[x] \subseteq UserManifestValue
      /\ view[q][x] \in log[x] \cup {None}
    BY PeerTypes DEF KnownViews
<1>2. Pos(view[p][x]) \in Nat /\ Pos(view[q][x]) \in Nat
    BY <1>1, EntryFacts, NoEntry
<1>3. Pos(view[q][x]) > Pos(view[p][x]) /\ Later(view[p][x], view[q][x]) = view[q][x]
    BY <1>2 DEF Later
<1>4. view[q][x] # None
    BY <1>2, <1>3, NoEntry
<1>5. Pos(view[q][x]) = view[q][x].pos
    BY <1>1, <1>4, EntryFacts
<1> QED
    BY <1>1, <1>3, <1>4, <1>5, NewestStays DEF Above

LEMMA LiveReplicate ==
    ASSUME TypeInv, ConvInv, NEW p \in Peer, Live(p), OnlyMover(p),
           NEW r \in Peer, Replicate(p, r)
    PROVE  ConvInv'
<1>1. LiveInv(p) /\ QueueInv(p) /\ KnownViews
    BY DEF ConvInv, PeerInv, LiveInv
<1>2. /\ log' = log /\ disk' = disk /\ dirty' = dirty /\ known' = known /\ tracked' = tracked
      /\ suppressed' = suppressed /\ queue' = queue /\ local' = local /\ remote' = remote
      /\ phase' = phase /\ Live(p)' /\ owed'[p]
      /\ view'[p] = MergedView(p, r) /\ MergedView(p, r) # view[p]
    BY DEF Replicate, Live, TypeInv, TypeOK, ManifestTypeOK
<1>3. \A x \in AllPath : view'[p][x] = Later(view[p][x], view[r][x])
    BY <1>2 DEF MergedView
<1>4. \A x \in AllPath : Newest(p, x) => view'[p][x] = view[p][x]
    BY <1>1, <1>3, NewestStays
<1>5. ASSUME NEW x \in AllPath, view'[p][x] # view[p][x]
      PROVE  /\ ~Newest(p, x) /\ ~Editing(p, x) /\ KeptInv(p, x)
             /\ Newest(p, x)' /\ view'[p][x] \in Above(p, x) /\ view'[p][x] # None
             /\ view'[p][x] \in UserManifestValue
             /\ Applied(p, x) /\ Clean(p, x) /\ ~Writing(p, x) /\ Noted(p, x)
  <2>1. /\ view'[p][x] = view[r][x] /\ view[r][x] \in Above(p, x) /\ ~Newest(p, x)
        /\ view'[p][x] \in UserManifestValue /\ view'[p][x] # None
    BY <1>1, <1>3, <1>5, Brought, EntryFacts
  <2>2. ~Editing(p, x) /\ KeptInv(p, x)
    BY <1>1, <2>1 DEF LiveInv, EditInv
  <2>3. Applied(p, x) /\ Clean(p, x) /\ ~Writing(p, x)
    BY <2>1, <2>2 DEF KeptInv
  <2>4. Noted(p, x)
    BY <2>2, <2>3 DEF KeptInv, Recording, Writing
  <2>5. Newest(p, x)'
    <3>1. \A f \in Above(p, x) : f = view'[p][x]
        BY <2>1, <2>2 DEF KeptInv
    <3>2. /\ Pos(view'[p][x]) = view'[p][x].pos /\ view'[p][x].pos \in Nat
          /\ view'[p][x] \in log[x] /\ view'[p][x].pos > Pos(view[p][x])
        BY <2>1, EntryFacts DEF Above
    <3>3. Pos(view[p][x]) \in Nat /\ \A f \in log[x] : f.pos \in Nat
        BY PeerTypes, EntryFacts, NoEntry
    <3>4. ASSUME NEW f \in log[x], f # view'[p][x]
          PROVE  f.pos < Pos(view'[p][x])
        BY <3>1, <3>2, <3>3, <3>4 DEF Above
    <3> QED
        BY <1>2, <3>2, <3>4 DEF Newest
  <2> QED
    BY <2>1, <2>2, <2>3, <2>4, <2>5
<1>6. \A y : /\ Queued(p, y)' <=> Queued(p, y)
             /\ Handled(p, y)' <=> Handled(p, y)
             /\ Clean(p, y)' <=> Clean(p, y)
             /\ Editing(p, y)' <=> Editing(p, y)
             /\ Writing(p, y)' <=> Writing(p, y)
             /\ Recording(p, y)' <=> Recording(p, y)
    BY <1>2 DEF Queued, Handled, Clean, Editing, Writing, Recording, X
<1>7. Items(p)' = Items(p) /\ Held(p)' = Held(p) /\ X(p)' = X(p) /\ M(p)' = M(p)
    BY <1>2 DEF Items, Held, X, M
<1>8. ScanInv(p)'
  <2>1. ASSUME NEW i \in Items(p)
        PROVE  ItemInv(p, i)'
    <3>1. ItemInv(p, i) /\ i.path \in AllPath
        BY <1>1, PeerTypes DEF LiveInv, ScanInv, Items, ManifestEntry
    <3>2. CASE view'[p][i.path] = view[p][i.path]
        BY <1>2, <1>6, <3>1, <3>2 DEF ItemInv
    <3>3. CASE view'[p][i.path] # view[p][i.path]
        BY <1>2, <1>5, <1>6, <3>1, <3>3 DEF ItemInv, Applied
    <3> QED
        BY <3>2, <3>3
  <2>2. OneEach(p)'
    BY <1>1, <1>2, <1>7 DEF LiveInv, ScanInv, OneEach
  <2>3. FrameInv(p)'
    <3>1. CASE Writing(p, X(p))
        <4>1. PICK y \in AllPath : y = X(p)
            BY <3>1, PeerTypes DEF Writing
        <4>2. view'[p][y] = view[p][y]
            BY <1>5, <3>1, <4>1
        <4>3. /\ Applied(p, y)' <=> Applied(p, y)
              /\ Newest(p, y)' <=> Newest(p, y)
            BY <1>2, <4>2, SameNewest DEF Applied
        <4>4. /\ Applied(p, X(p))' <=> Applied(p, X(p))
              /\ Newest(p, X(p))' <=> Newest(p, X(p))
              /\ Writing(p, X(p))'
            BY <1>6, <1>7, <3>1, <4>1, <4>3
        <4> QED
            BY <1>1, <1>2, <1>7, <3>1, <4>1, <4>2, <4>4 DEF LiveInv, ScanInv, FrameInv
    <3>2. CASE ~Writing(p, X(p))
        <4>1. ~Writing(p, X(p))' /\ remote[p].pc \notin {"fetch", "record", "delete", "forget"}
            BY <1>6, <1>7, <3>2 DEF Writing
        <4> QED
            BY <1>1, <1>2, <1>7, <4>1 DEF LiveInv, ScanInv, FrameInv
    <3> QED
        BY <3>1, <3>2
  <2> QED
    BY <1>7, <2>1, <2>2, <2>3 DEF ScanInv
<1>9. QueueInv(p)'
    BY <1>1, <1>2, <1>6 DEF QueueInv
<1>10. \A x : ~AloneAt(p, x)
  <2>1. ASSUME NEW x, AloneAt(p, x)
        PROVE  FALSE
    <3>1. ASSUME NEW y \in AllPath
          PROVE  Newest(p, y)
      <4>1. PICK q \in Peer \ Restarting : (Live(q) \/ Starting(q)) /\ Newest(q, y)
        BY DEF ConvInv, SomeoneNewest
      <4>2. view[q] = view[p]
        BY <2>1, <4>1 DEF AloneAt
      <4> QED
        BY <4>1, <4>2 DEF Newest
    <3>2. \A y \in AllPath : Later(view[p][y], view[r][y]) = view[p][y]
        BY <1>1, <3>1, NewestStays
    <3>3. MergedView(p, r) = view[p]
        BY <3>2, PeerTypes DEF MergedView
    <3> QED
        BY <1>2, <3>3
  <2> QED
    BY <2>1
<1>11. ASSUME NEW x \in AllPath, Editing(p, x)'
       PROVE  EditInv(p, x)'
  <2>1. EditInv(p, x) /\ PublishedEdit(p, x)
    BY <1>1, <1>6, <1>10, <1>11 DEF LiveInv, EditInv, Unpublished
  <2>2. view'[p][x] = view[p][x]
    BY <1>4, <2>1 DEF EditInv
  <2>3. PublishedEdit(p, x)' /\ Newest(p, x)'
    BY <1>2, <1>6, <2>1, <2>2, SameNewest DEF PublishedEdit, Own, Applied, EditInv
  <2> QED
    BY <2>1, <2>3 DEF EditInv
<1>12. ASSUME NEW x \in AllPath, ~Editing(p, x)'
       PROVE  KeptInv(p, x)'
  <2>1. KeptInv(p, x)
    BY <1>1, <1>6, <1>12 DEF LiveInv
  <2>2. CASE view'[p][x] = view[p][x]
    <3>1. PathRests(p, x)
        BY <1>2, <1>6, <2>2 DEF PathRests
    <3>2. Due(p, x)'
        BY <1>2 DEF Due
    <3>3. Noted(p, x) \/ Recording(p, x)'
        BY <1>6, <2>1 DEF KeptInv
    <3> QED
        BY <1>2, <1>6, <2>1, <3>1, <3>2, <3>3, PathKept
  <2>3. CASE view'[p][x] # view[p][x]
    <3>1. /\ Newest(p, x)' /\ view'[p][x] \in Above(p, x) /\ view'[p][x] # None
          /\ view'[p][x] \in UserManifestValue
          /\ ~Newest(p, x) /\ Clean(p, x) /\ Noted(p, x)
        BY <1>5, <2>3
    <3>2. /\ view'[p][x].writerKey # p
          /\ view'[p][x].kind = "tombstone" => view'[p][x].baseHash = disk[p][x]
        BY <2>1, <3>1 DEF KeptInv
    <3>3. ~Own(p, x)' /\ Due(p, x)'
        BY <1>2, <3>2 DEF Own, Due
    <3>4. ~Applied(p, x)' /\ IsTombstone(view'[p][x]) =>
                view'[p][x].baseHash = tracked'[p][x]
      <4>1. IsTombstone(view'[p][x]) =>
                /\ Shown(view'[p][x]) = None
                /\ view'[p][x].baseHash = disk[p][x]
        BY <3>1, <3>2, EntryFacts
      <4> QED
        BY <1>2, <3>1, <4>1 DEF Noted, Applied
    <3>5. Noted(p, x)'
        BY <1>2, <3>1 DEF Noted
    <3> QED
        BY <1>2, <1>6, <2>1, <3>1, <3>3, <3>4, <3>5 DEF KeptInv
  <2> QED
    BY <2>2, <2>3
<1>13. LiveInv(p)'
    BY <1>8, <1>9, <1>11, <1>12 DEF LiveInv
<1>14. KnownViews' /\ CopiesInv'
  <2>1. \A q \in Peer, x \in AllPath :
            view'[q][x] \in log[x] \cup {None}
    BY <1>1, <1>3 DEF KnownViews, OnlyMover, Rests, Later
  <2> QED
    BY <1>2, <2>1 DEF ConvInv, KnownViews, CopiesInv
<1>15. SessionsUndisturbed(p)
  <2>1. ASSUME NEW c \in Peer, Starting(c), NEW y \in AllPath
        PROVE  (Newest(p, y) /\ Settled(p, y) => Settled(p, y)') /\ ~Editing(p, y)'
    <3>1. ~Editing(p, y)
        BY <2>1 DEF ConvInv, PeerInv, SessionInv
    <3> QED
        BY <1>2, <1>4, <1>6, <3>1 DEF Settled, Noted, Applied
  <2> QED
    BY <2>1 DEF SessionsUndisturbed
<1>16. \A q \in Peer \ {p} : \A x \in AllPath : ~AloneAt(q, x) \/ ~Editing(q, x)
  <2>1. ASSUME NEW q \in Peer \ {p}, NEW x \in AllPath, AloneAt(q, x)
        PROVE  FALSE
    <3>1. ASSUME NEW y \in AllPath
          PROVE  Newest(p, y)
      <4>1. PICK w \in Peer \ Restarting : (Live(w) \/ Starting(w)) /\ Newest(w, y)
        BY DEF ConvInv, SomeoneNewest
      <4>2. view[w] = view[p]
        BY <2>1, <4>1 DEF AloneAt
      <4> QED
        BY <4>1, <4>2 DEF Newest
    <3>2. \A y \in AllPath : Later(view[p][y], view[r][y]) = view[p][y]
        BY <1>1, <3>1, NewestStays
    <3>3. MergedView(p, r) = view[p]
        BY <3>2, PeerTypes DEF MergedView
    <3> QED
        BY <1>2, <3>3
  <2> QED
    BY <2>1
<1> QED
    BY <1>2, <1>4, <1>13, <1>14, <1>15, <1>16, LiveMover

-----------------------------------------------------------------------------
(***************************************************************************)
(* A peer that neither starts nor is live after its step: the invariants   *)
(* of the others do not look at it, unless it was the last to stay.        *)
(***************************************************************************)
LEMMA UnseenAlone ==
    ASSUME NEW p \in Peer, OnlyMover(p), ~Live(p)', ~Starting(p)',
           NEW q \in Peer \ {p}, NEW x, AloneAt(q, x)
    PROVE  AloneAt(q, x)'
<1>1. ASSUME NEW r \in Peer
      PROVE  ~Starting(r)'
    BY <1>1 DEF AloneAt, OnlyMover, Rests, Starting
<1>2. ASSUME NEW r \in Peer, Live(r)'
      PROVE  /\ Resting(r)' /\ view'[r] = view'[q]
             /\ \A y \in AllPath : r # q \/ y # x => Clean(r, y)'
  <2>1. r # p /\ Rests(r) /\ Rests(q) /\ Live(r)
    BY <1>2 DEF OnlyMover, Rests, Live
  <2> QED
    BY <2>1, SamePaths DEF AloneAt, Rests, Resting
<1> QED
    BY <1>1, <1>2 DEF AloneAt

LEMMA UnseenSession ==
    ASSUME NEW p \in Peer, OnlyMover(p), ~Live(p)', ~Starting(p)', log' = log,
           NEW c \in Peer \ {p}, SessionInv(c)
    PROVE  SessionInv(c)'
<1>1. Rests(c)
    BY DEF OnlyMover
<1>2. \A q \in Peer \ {c} : ~Starting(q)'
    BY DEF SessionInv, OnlyMover, Rests, Starting
<1>3. \A q \in Peer : Live(q)' => q # p /\ Rests(q) /\ Live(q)
    BY DEF OnlyMover, Rests, Live
<1>4. \A q \in Peer : Live(q)' => \A x \in AllPath : ~Editing(q, x)'
    BY <1>3, SamePaths DEF SessionInv
<1>5. dirty'[c] = {} /\ ~owed'[c]
    BY <1>1 DEF SessionInv, Rests
<1>6. ASSUME NEW x \in AllPath, Untouched(c, x)
      PROVE  Untouched(c, x)'
  <2>1. ASSUME NEW q \in Peer, Live(q)'
        PROVE  view'[q][x] = view'[c][x] /\ Settled(q, x)'
    <3>1. Rests(q) /\ Live(q)
        BY <1>3, <2>1
    <3> QED
        BY <1>1, <1>6, <3>1, SamePaths DEF Untouched, Rests
  <2> QED
    BY <2>1 DEF Untouched
<1>7. \A x \in AllPath : Newest(c, x)' /\ (Untouched(c, x)' \/ Uploaded(c, x)')
    BY <1>1, <1>6, SameNewest, SamePaths DEF SessionInv, Rests
<1>8. \A x \in AllPath : Own(c, x)' => Uploaded(c, x)'
    BY <1>1, SamePaths DEF SessionInv
<1> QED
    BY <1>2, <1>4, <1>5, <1>7, <1>8 DEF SessionInv

LEMMA UnseenMover ==
    ASSUME ConvInv, NEW p \in Peer, OnlyMover(p), log' = log, ~Live(p)', ~Starting(p)',
           p \in Restarting \/ (~Live(p) /\ ~Starting(p)), PeerInv(p)', CopiesInv',
           \A x \in AllPath : view'[p][x] \in log[x] \cup {None}
    PROVE  ConvInv'
<1>1. ASSUME NEW q \in Peer \ {p}
      PROVE  PeerInv(q)'
  <2>1. Rests(q) /\ PeerInv(q)
    BY DEF OnlyMover, ConvInv
  <2>2. Live(q) => LiveInv(q)'
    BY <2>1, LiveKept, UnseenAlone DEF PeerInv
  <2>3. Starting(q) => SessionInv(q)'
    BY <2>1, UnseenSession DEF PeerInv
  <2> QED
    BY <2>1, <2>2, <2>3, SamePeer
<1>2. SomeoneNewest'
  <2>1. ASSUME NEW x \in AllPath
        PROVE  \E q \in Peer \ Restarting : (Live(q)' \/ Starting(q)') /\ Newest(q, x)'
    <3>1. PICK q \in Peer \ Restarting : (Live(q) \/ Starting(q)) /\ Newest(q, x)
        BY DEF ConvInv, SomeoneNewest
    <3>2. Rests(q)
        BY <3>1 DEF OnlyMover
    <3>3. (Live(q)' \/ Starting(q)') /\ Newest(q, x)'
        BY <3>1, <3>2, SameNewest DEF Rests, Live, Starting
    <3> QED
        BY <3>3
  <2> QED
    BY <2>1 DEF SomeoneNewest
<1>3. KnownViews'
    BY DEF ConvInv, KnownViews, OnlyMover, Rests
<1>4. \A q \in Peer : PeerInv(q)'
    BY <1>1
<1> QED
    BY <1>2, <1>3, <1>4 DEF ConvInv

LEMMA UnseenKept ==
    ASSUME TypeInv, ConvInv, NEW p \in Peer, OnlyMover(p),
           phase[p] \in {"down", "ready", "stopping"},
           Ready(p) \/ \E r \in Peer : Replicate(p, r)
    PROVE  ConvInv'
<1>1. PeerInv(p) /\ KnownViews /\ CopiesInv /\ ~Live(p) /\ ~Starting(p)
    BY DEF ConvInv, Live, Starting
<1>2. /\ log' = log /\ disk' = disk /\ dirty' = dirty /\ queue' = queue
      /\ local' = local /\ remote' = remote /\ suppressed' = suppressed
      /\ tracked' = tracked /\ owed'[p] = owed[p]
    BY DEF Ready, Replicate, TypeInv, TypeOK
<1>3. \/ phase[p] = "down" /\ phase'[p] = "ready"
      \/ phase'[p] = phase[p]
    BY DEF Ready, Replicate, Enter, TypeInv, TypeOK
<1>4. PeerInv(p)'
  <2>1. IdleInv(p) => IdleInv(p)'
    BY <1>2 DEF IdleInv
  <2>2. FreshInv(p) => FreshInv(p)'
    BY <1>2 DEF FreshInv
  <2>3. NoCopiesOf(p) => NoCopiesOf(p)'
    BY <1>2 DEF NoCopiesOf
  <2>4. RestartInv(p) => RestartInv(p)'
    BY <1>3, <2>1 DEF RestartInv
  <2>5. JoinInv(p) => JoinInv(p)'
    BY <1>3, <2>2, <2>3 DEF JoinInv
  <2> QED
    BY <1>1, <1>3, <2>4, <2>5 DEF PeerInv, Live, Starting
<1>5. \A x \in AllPath : view'[p][x] \in log[x] \cup {None}
  <2>1. view' = view \/ \E r \in Peer : view'[p] = MergedView(p, r)
    BY DEF Ready, Replicate, TypeInv, TypeOK, ManifestTypeOK
  <2> QED
    BY <1>1, <2>1 DEF KnownViews, MergedView, Later
<1>6. CopiesInv'
    BY <1>1, <1>2 DEF CopiesInv
<1> QED
    BY <1>1, <1>2, <1>3, <1>4, <1>5, <1>6, UnseenMover DEF Live, Starting

-----------------------------------------------------------------------------
(***************************************************************************)
(* A peer in initialSync.  While it writes no entry, what is left to show  *)
(* is about its own frames.                                                *)
(***************************************************************************)
LEMMA SessionMover ==
    ASSUME ConvInv, NEW c \in Peer, Starting(c), Starting(c)', OnlyMover(c), log' = log,
           view'[c] = view[c], dirty'[c] = dirty[c], owed'[c] = owed[c],
           \A x \in AllPath : Own(c, x) => disk'[c][x] = disk[c][x],
           \A y \in Copies : disk'[c][y] # None => disk'[c][y] = disk[c][y] \/ y.by = c
                                                    \/ log[y] # {},
           c \in Restarting => RestartInv(c)',
           c \notin Restarting => (phase'[c] = "reconcile" => ReconcileInv(c)'),
           c \notin Restarting => (phase'[c] = "listing" => ListingInv(c)')
    PROVE  ConvInv'
<1>1. SessionInv(c) /\ PeerInv(c)
    BY DEF ConvInv, PeerInv
<1>2. ASSUME NEW q \in Peer, q # c
      PROVE  PeerInv(q)'
  <2>1. Rests(q) /\ PeerInv(q) /\ ~Starting(q)
    BY <1>1, <1>2 DEF OnlyMover, ConvInv, SessionInv
  <2>2. Live(q) => LiveInv(q)'
    BY <1>1, <2>1, LiveKept DEF PeerInv, SessionInv
  <2> QED
    BY <2>1, <2>2, SamePeer
<1>3. SessionInv(c)'
  <2>1. \A q \in Peer \ {c} : ~Starting(q)'
    BY <1>1 DEF SessionInv, OnlyMover, Rests, Starting
  <2>2. \A q \in Peer : Live(q)' => q # c /\ Rests(q) /\ Live(q)
    BY DEF OnlyMover, Rests, Live, Starting
  <2>3. \A q \in Peer : Live(q)' => \A x \in AllPath : ~Editing(q, x)'
    BY <1>1, <2>2, SamePaths DEF SessionInv
  <2>4. ASSUME NEW x \in AllPath, Untouched(c, x)
        PROVE  Untouched(c, x)'
    <3>1. ASSUME NEW q \in Peer, Live(q)'
          PROVE  view'[q][x] = view'[c][x] /\ Settled(q, x)'
        BY <2>2, <2>4, <3>1, SamePaths DEF Untouched, Rests
    <3> QED
        BY <3>1 DEF Untouched
  <2>5. \A x \in AllPath : /\ Newest(c, x)' <=> Newest(c, x)
                           /\ Own(c, x)' <=> Own(c, x)
    BY SameNewest DEF Own
  <2>6. \A x \in AllPath : Uploaded(c, x) => Uploaded(c, x)'
    BY <2>5 DEF Uploaded, Applied
  <2> QED
    BY <1>1, <2>1, <2>3, <2>4, <2>5, <2>6 DEF SessionInv
<1>4. PeerInv(c)'
    BY <1>1, <1>3 DEF PeerInv, JoinInv, Live, Starting
<1>5. KnownViews'
    BY DEF ConvInv, KnownViews, OnlyMover, Rests
<1>6. CopiesInv'
    BY DEF ConvInv, CopiesInv, OnlyMover, Rests
<1>7. SomeoneNewest'
    BY SomeoneStays DEF ConvInv
<1>8. \A q \in Peer : PeerInv(q)'
    BY <1>2, <1>4
<1> QED
    BY <1>5, <1>6, <1>7, <1>8 DEF ConvInv

-----------------------------------------------------------------------------
(***************************************************************************)
(* start(): the peer has the manifest of all the others, who are at rest.  *)
(***************************************************************************)
LEMMA StartFinds ==
    ASSUME TypeInv, ConvInv, Silent, NEW p \in Peer, phase[p] = "ready",
           CaughtUp(p), \A q \in Running \ {p} : Quiet(q)
    PROVE  /\ \A q \in Peer : ~Starting(q)
           /\ \A q \in Peer : Live(q) =>
                view[q] = view[p] /\ \A x \in AllPath : ~Editing(q, x) /\ Settled(q, x)
           /\ \A x \in AllPath : Newest(p, x) /\ ~Own(p, x)
<1>1. ASSUME NEW q \in Peer
      PROVE  ~Starting(q)
  <2>1. Starting(q) => q \in Running \ {p} /\ ~Quiet(q)
    BY DEF Starting, Running, Quiet
  <2> QED
    BY <2>1
<1>2. ASSUME NEW q \in Peer, Live(q)
      PROVE  q \in Running \ {p} /\ Quiet(q) /\ view[q] = view[p]
  <2>1. q \in Running \ {p}
    BY <1>2 DEF Live, Running
  <2> QED
    BY <2>1 DEF CaughtUp
<1>3. ASSUME NEW q \in Peer, Live(q), NEW x \in AllPath
      PROVE  ~Editing(q, x) /\ Settled(q, x)
  <2>1. /\ dirty[q] = {} /\ queue[q] = <<>> /\ local[q].pc = "idle" /\ ~owed[q]
        /\ remote[q].pc = "idle" /\ LiveInv(q)
    BY <1>2, <1>3 DEF Quiet, QueuesIdle, ConvInv, PeerInv
  <2>2. remote[q].snap = {}
    BY <2>1 DEF LiveInv, ScanInv, FrameInv
  <2>3. Clean(q, x)
    BY <2>1 DEF Clean, Queued, Handled
  <2>4. ~Editing(q, x) /\ KeptInv(q, x)
    BY <2>1, <2>3 DEF Editing, LiveInv
  <2>5. ~Due(q, x)
    BY <2>1, <2>2 DEF Due
  <2>6. Applied(q, x) /\ Noted(q, x) /\ ~Writing(q, x)
    BY <2>1, <2>4, <2>5, NotRecording DEF KeptInv, Writing
  <2> QED
    BY <2>3, <2>4, <2>6 DEF Settled
<1>4. ASSUME NEW x \in AllPath
      PROVE  Newest(p, x) /\ ~Own(p, x)
  <2>1. PICK q \in Peer \ Restarting : Live(q) /\ Newest(q, x)
    BY <1>1 DEF ConvInv, SomeoneNewest
  <2>2. Newest(p, x)
    BY <1>2, <2>1 DEF Newest
  <2>3. (p \in Restarting \/ FreshInv(p)) /\ KnownViews
    BY DEF ConvInv, PeerInv, JoinInv
  <2>4. ~Own(p, x)
    BY <2>3 DEF FreshInv, KnownViews, Own, Silent
  <2> QED
    BY <2>2, <2>4
<1> QED
    BY <1>1, <1>2, <1>3, <1>4

LEMMA StartKept ==
    ASSUME TypeInv, ConvInv, Orderly, Silent, NEW p \in Peer, OnlyMover(p), Start(p)
    PROVE  ConvInv'
<1>1. /\ phase[p] = "ready" /\ CaughtUp(p) /\ \A q \in Running \ {p} : Quiet(q)
      /\ log' = log /\ view' = view /\ disk' = disk /\ dirty' = dirty /\ tracked' = tracked
      /\ suppressed' = suppressed /\ queue' = queue /\ local' = local /\ owed' = owed
      /\ policy' = policy /\ phase'[p] = "reconcile" /\ remote'[p] = Begun(p)
    BY DEF Start, Enter, Turns, Orderly, TypeInv, TypeOK
<1>2. /\ \A q \in Peer : ~Starting(q)
      /\ \A q \in Peer : Live(q) =>
            view[q] = view[p] /\ \A x \in AllPath : ~Editing(q, x) /\ Settled(q, x)
      /\ \A x \in AllPath : Newest(p, x) /\ ~Own(p, x)
    BY <1>1, StartFinds
<1>3. /\ PeerInv(p) /\ KnownViews
      /\ dirty[p] = {} /\ queue[p] = <<>> /\ local[p].pc = "idle" /\ ~owed[p]
      /\ p \notin Restarting => FreshInv(p) /\ NoCopiesOf(p)
    BY <1>1, IdlePeer DEF ConvInv, PeerInv, JoinInv, IdleInv, IdleLocal
<1>4. ASSUME NEW q \in Peer, q # p
      PROVE  PeerInv(q)' /\ ~Starting(q)'
  <2>1. Rests(q) /\ PeerInv(q) /\ ~Starting(q)
    BY <1>2, <1>4 DEF OnlyMover, ConvInv
  <2>2. Live(q) => LiveInv(q)'
    BY <1>1, <1>2, <2>1, LiveKept DEF PeerInv
  <2> QED
    BY <1>1, <2>1, <2>2, SamePeer DEF Rests, Starting
<1>5. SessionInv(p)'
  <2>1. \A q \in Peer : Live(q)' => q # p /\ Rests(q) /\ Live(q)
    BY <1>1 DEF OnlyMover, Rests, Live
  <2>2. \A q \in Peer : Live(q)' => \A x \in AllPath : ~Editing(q, x)'
    BY <1>2, <2>1, SamePaths
  <2>3. ASSUME NEW x \in AllPath
        PROVE  Untouched(p, x)'
    <3>1. ASSUME NEW q \in Peer, Live(q)'
          PROVE  view'[q][x] = view'[p][x] /\ Settled(q, x)'
        BY <1>1, <1>2, <2>1, <3>1, SamePaths
    <3> QED
        BY <3>1 DEF Untouched
  <2>4. \A x \in AllPath : Newest(p, x)' /\ ~Own(p, x)'
    BY <1>1, <1>2, SameNewest DEF Own
  <2> QED
    BY <1>1, <1>3, <1>4, <2>2, <2>3, <2>4 DEF SessionInv
<1>6. remote'[p].pc = "pick" /\ remote'[p].snap = List(p)
    BY <1>1 DEF Begun, IdleRemote
<1>7. Held(p)' = {} /\ Items(p)' = List(p)
    BY <1>6 DEF Held, Items
<1>8. ASSUME NEW i \in List(p)
       PROVE  i = Entry(p, i.path) /\ i.path \in AllPath /\ i.metadata = view[p][i.path]
    BY <1>8 DEF List, Entry
<1>9. ASSUME NEW x \in AllPath, IsFile(view[p][x])
       PROVE  \E i \in List(p) : i.path = x
  <2>1. Entry(p, x) \in List(p) /\ Entry(p, x).path = x
    BY <1>2, <1>9, NoEntry DEF List, Entry, Own
  <2> QED
    BY <2>1
<1>10. ASSUME p \in Restarting
       PROVE  ComparingInv(p)'
    BY <1>1, <1>3, <1>6, <1>7, <1>8, <1>9 DEF ComparingInv
<1>11. ASSUME p \notin Restarting
      PROVE  ReconcileInv(p)'
  <2>0. FreshInv(p) /\ NoCopiesOf(p)
    BY <1>3, <1>11
  <2>4. OneEach(p)'
    BY <1>6, <1>7, <1>8 DEF OneEach
  <2>5. \A x \in AllPath : tracked[p][x] = None
    BY <2>0 DEF FreshInv, NoFiles
  <2>6. \A x \in AllPath : Comparable(p, x)'
    BY <1>1, <1>2, <2>0, <2>5 DEF Comparable, Own, FreshInv
  <2>8. suppressed[p] = {} /\ queue[p] = <<>> /\ local[p].pc = "idle"
    BY <2>0 DEF FreshInv, IdleLocal
  <2>9. NoCopiesOf(p)'
    BY <1>1, <2>0 DEF NoCopiesOf
  <2> QED
    BY <1>1, <1>6, <1>7, <1>8, <1>9, <2>4, <2>5, <2>6, <2>8, <2>9 DEF ReconcileInv
<1>12. PeerInv(p)'
    BY <1>1, <1>3, <1>5, <1>11, <1>10 DEF PeerInv, RestartInv, JoinInv, Live, Starting
<1>13. KnownViews' /\ CopiesInv'
    BY <1>1 DEF ConvInv, KnownViews, CopiesInv
<1>14. SomeoneNewest'
  <2>1. Starting(p)'
    BY <1>1 DEF Starting
  <2> QED
    BY <1>1, <2>1, SomeoneStays DEF ConvInv
<1>15. \A q \in Peer : PeerInv(q)'
    BY <1>4, <1>12
<1> QED
    BY <1>13, <1>14, <1>15 DEF ConvInv

-----------------------------------------------------------------------------
(***************************************************************************)
(* The scan of initialSync: an entry is done with, goes on being compared, *)
(* or waits for the local change queue.                                    *)
(***************************************************************************)
LEMMA ReconcileNext ==
    ASSUME TypeInv, NEW p \in Peer, ReconcileInv(p), remote[p].pc # "pick",
           NEW x \in AllPath, x = X(p), remote'[p] = NextEntry(p),
           queue'[p] = <<>>, local'[p].pc = "idle", log' = log, view'[p] = view[p],
           \A y \in AllPath \ {x} : /\ disk'[p][y] = disk[p][y]
                                    /\ tracked'[p][y] = tracked[p][y]
                                    /\ y \in suppressed'[p] <=> y \in suppressed[p],
           Synced(p, x)' \/ (~IsFile(view[p][x]) /\ tracked'[p][x] = None)
    PROVE  ReconcileInv(p)'
<1>1. remote'[p].pc = "pick" /\ remote'[p].snap = remote[p].snap
    BY DEF NextEntry, IdleRemote
<1>2. Held(p)' = {} /\ Items(p)' = remote[p].snap
    BY <1>1 DEF Held, Items
<1>3. Held(p) = {remote[p].item} /\ remote[p].item.path = x /\ Items(p) = remote[p].snap \cup Held(p)
    BY DEF Held, Items, X, ReconcileInv
<1>4. \A i \in remote[p].snap : i.path \in AllPath \ {x}
    BY <1>3, PeerTypes DEF ReconcileInv, OneEach, ManifestEntry
<1>5. NoCopiesOf(p)' /\ OneEach(p)'
    BY <1>1, <1>2 DEF ReconcileInv, NoCopiesOf, OneEach
<1>6. \A y \in AllPath \ {x} : /\ Comparable(p, y)' <=> Comparable(p, y)
                               /\ Synced(p, y)' <=> Synced(p, y)
    BY DEF Comparable, Synced, Own, Applied
<1>7. \A i \in remote[p].snap :
        i.metadata = view'[p][i.path] /\ Comparable(p, i.path)' /\ i.path \notin suppressed'[p]
    BY <1>4, <1>6 DEF ReconcileInv
<1>8. \A y \in AllPath : tracked'[p][y] # None => Synced(p, y)'
    BY <1>6 DEF ReconcileInv
<1>9. ASSUME NEW y \in AllPath, IsFile(view[p][y])
      PROVE  Synced(p, y)' \/ \E i \in remote[p].snap : i.path = y
  <2>1. CASE y = x
    BY <1>9, <2>1
  <2>2. CASE y # x
    BY <1>3, <1>6, <1>9, <2>2 DEF ReconcileInv
  <2> QED
    BY <2>1, <2>2
<1> QED
    BY <1>1, <1>2, <1>5, <1>7, <1>8, <1>9 DEF ReconcileInv

LEMMA ReconcileGoesOn ==
    ASSUME TypeInv, NEW p \in Peer, ReconcileInv(p), remote[p].pc \in {"read", "copy", "fetch"},
           NEW x \in AllPath, x = X(p), NEW z \in AllPath,
           remote'[p].snap = remote[p].snap, remote'[p].item = remote[p].item,
           remote'[p].tr = remote[p].tr,
           remote'[p].pc \in {"copy", "fetch", "record", "delete"},
           queue'[p] = queue[p], local'[p] = local[p], log' = log, view'[p] = view[p],
           tracked'[p] = tracked[p],
           \A y \in AllPath \ {x, z} : /\ disk'[p][y] = disk[p][y]
                                       /\ y \in suppressed'[p] <=> y \in suppressed[p],
           z = x \/ /\ tracked[p][z] = None /\ ~IsFile(view[p][z])
                    /\ \A i \in remote[p].snap : i.path # z,
           remote'[p].pc = "copy" => x \in Path,
           remote'[p].pc \in {"fetch", "record"} => M(p).kind = "file",
           remote'[p].pc = "record" => Applied(p, x)',
           remote'[p].pc = "delete" => M(p).kind = "tombstone"
    PROVE  ReconcileInv(p)'
<1>1. Held(p) = {remote[p].item} /\ remote[p].item.path = x /\ Held(p)' = Held(p)
      /\ Items(p)' = Items(p) /\ X(p)' = x /\ M(p)' = M(p) /\ remote[p].item \in Items(p)
    BY DEF Held, Items, X, M
<1>2. \A i \in remote[p].snap : i.path \in AllPath \ {x, z}
    BY <1>1, PeerTypes DEF ReconcileInv, OneEach, ManifestEntry
<1>3. NoCopiesOf(p)' /\ OneEach(p)'
    BY <1>1 DEF ReconcileInv, NoCopiesOf, OneEach
<1>4. \A y \in AllPath \ {x, z} : /\ Comparable(p, y)' <=> Comparable(p, y)
                                  /\ Synced(p, y)' <=> Synced(p, y)
    BY DEF Comparable, Synced, Own, Applied
<1>5. /\ M(p) = view[p][x] /\ ~Own(p, x) /\ remote[p].tr = None /\ tracked[p][x] = None
      /\ queue[p] = <<>> /\ local[p].pc = "idle"
    BY DEF ReconcileInv
<1>6. \A i \in remote[p].snap :
        i.metadata = view'[p][i.path] /\ Comparable(p, i.path)' /\ i.path \notin suppressed'[p]
    BY <1>2, <1>4 DEF ReconcileInv
<1>7. \A y \in AllPath : tracked'[p][y] # None => Synced(p, y)'
    BY <1>4, <1>5 DEF ReconcileInv
<1>8. ASSUME NEW y \in AllPath, IsFile(view[p][y])
      PROVE  Synced(p, y)' \/ \E i \in Items(p) : i.path = y
  <2>1. CASE y = x
    BY <1>1, <2>1
  <2>2. CASE y # x
    BY <1>4, <1>8, <2>2 DEF ReconcileInv
  <2> QED
    BY <2>1, <2>2
<1>9. ~Own(p, X(p))' /\ tracked'[p][X(p)'] = None /\ M(p)' = view'[p][X(p)']
    BY <1>1, <1>5 DEF Own
<1>10. remote'[p].pc = "record" => Applied(p, X(p))'
    BY <1>1 DEF Applied
<1> QED
    BY <1>1, <1>3, <1>5, <1>6, <1>7, <1>8, <1>9, <1>10 DEF ReconcileInv

LEMMA AwaitGoesOn ==
    ASSUME TypeInv, NEW p \in Peer, ReconcileInv(p), remote[p].pc = "await",
           NEW x \in AllPath, x = X(p), remote'[p] = remote[p],
           disk'[p] = disk[p], suppressed'[p] = suppressed[p],
           \A y \in AllPath \ {x} : /\ view'[p][y] = view[p][y] /\ log'[y] = log[y]
                                    /\ tracked'[p][y] = tracked[p][y],
           tracked'[p][x] # None => Synced(p, x)',
           AwaitInv(p)'
    PROVE  ReconcileInv(p)'
<1>1. Held(p) = {remote[p].item} /\ remote[p].item.path = x /\ Held(p)' = Held(p)
      /\ Items(p)' = Items(p) /\ X(p)' = x /\ M(p)' = M(p) /\ remote[p].item \in Items(p)
    BY DEF Held, Items, X, M
<1>2. \A i \in remote[p].snap : i.path \in AllPath \ {x}
    BY <1>1, PeerTypes DEF ReconcileInv, OneEach, ManifestEntry
<1>3. x \in Path
    BY DEF ReconcileInv, AwaitInv
<1>4. NoCopiesOf(p)' /\ OneEach(p)'
    BY <1>1, <1>3, PathAssumption DEF ReconcileInv, NoCopiesOf, OneEach, AllPath
<1>5. \A y \in AllPath \ {x} : /\ Comparable(p, y)' <=> Comparable(p, y)
                               /\ Synced(p, y)' <=> Synced(p, y)
    BY DEF Comparable, Synced, Own, Applied
<1>6. \A i \in remote[p].snap :
        i.metadata = view'[p][i.path] /\ Comparable(p, i.path)' /\ i.path \notin suppressed'[p]
    BY <1>2, <1>5 DEF ReconcileInv
<1>7. \A y \in AllPath : tracked'[p][y] # None => Synced(p, y)'
    BY <1>5 DEF ReconcileInv
<1>8. ASSUME NEW y \in AllPath, IsFile(view'[p][y])
      PROVE  Synced(p, y)' \/ \E i \in Items(p) : i.path = y
  <2>1. CASE y = x
    BY <1>1, <2>1
  <2>2. CASE y # x
    BY <1>5, <1>8, <2>2 DEF ReconcileInv
  <2> QED
    BY <2>1, <2>2
<1> QED
    BY <1>1, <1>4, <1>6, <1>7, <1>8 DEF ReconcileInv

\* What is compared in initialSync: an entry of another, at an untracked path.
LEMMA Reconciling ==
    ASSUME TypeInv, ConvInv, NEW p \in Peer \ Restarting, phase[p] = "reconcile"
    PROVE  /\ PeerInv(p) /\ SessionInv(p) /\ ReconcileInv(p) /\ Starting(p) /\ KnownViews
           /\ remote[p].pc \notin {"pick", "await"} =>
                /\ X(p) \in AllPath /\ M(p) \in UserManifestValue /\ M(p) = view[p][X(p)]
                /\ ~Own(p, X(p)) /\ remote[p].tr = None /\ tracked[p][X(p)] = None
                /\ queue[p] = <<>> /\ local[p].pc = "idle"
                /\ log[X(p)] # {} /\ ~NothingNew(p) /\ ~StartDelete(p) /\ ~AlreadyDeleted(p)
           /\ ~ScanBegin(p) /\ ~ScanEnd(p) /\ ~ForgetRemote(p)
<1>1. PeerInv(p) /\ SessionInv(p) /\ ReconcileInv(p) /\ Starting(p) /\ KnownViews
    BY DEF ConvInv, PeerInv, JoinInv, Starting
<1>2. ASSUME remote[p].pc \notin {"pick", "await"}
      PROVE  /\ X(p) \in AllPath /\ M(p) \in UserManifestValue /\ M(p) = view[p][X(p)]
             /\ ~Own(p, X(p)) /\ remote[p].tr = None /\ tracked[p][X(p)] = None
             /\ queue[p] = <<>> /\ local[p].pc = "idle"
    BY <1>1, <1>2, PeerTypes DEF ReconcileInv
<1>3. ASSUME remote[p].pc \notin {"pick", "await"}
      PROVE  log[X(p)] # {} /\ ~NothingNew(p) /\ ~StartDelete(p) /\ ~AlreadyDeleted(p)
    BY <1>1, <1>2, <1>3, EntryFacts
    DEF KnownViews, NothingNew, StartDelete, AlreadyDeleted, Differs, Comparing
<1>4. ~ScanBegin(p) /\ ~ScanEnd(p) /\ ~ForgetRemote(p)
    BY <1>1 DEF ScanBegin, ScanEnd, ForgetRemote, Doing, ReconcileInv
<1> QED
    BY <1>1, <1>2, <1>3, <1>4

LEMMA ReconcilePick ==
    ASSUME TypeInv, ConvInv, NEW p \in Peer \ Restarting, phase[p] = "reconcile", OnlyMover(p), PickEntry(p)
    PROVE  ConvInv'
<1>1. /\ remote[p].pc = "pick" /\ log' = log /\ view' = view /\ disk' = disk /\ dirty' = dirty
      /\ tracked' = tracked /\ suppressed' = suppressed /\ queue' = queue /\ local' = local
      /\ owed' = owed /\ phase' = phase
    BY DEF PickEntry
<1>2. SessionInv(p) /\ ReconcileInv(p) /\ Starting(p) /\ Starting(p)'
    BY <1>1, Reconciling DEF Starting
<1> DEFINE rest(i) == [NextEntry(p) EXCEPT !.snap = @ \ {i}]
<1>3. PICK item \in remote[p].snap :
        remote'[p] = IF DeletionIgnored(p, item) THEN rest(item)
                     ELSE [rest(item) EXCEPT !.pc = "read", !.item = item,
                                             !.tr = tracked[p][item.path]]
    BY DEF PickEntry, Turns, TypeInv, TypeOK
<1>4. /\ remote'[p].snap = remote[p].snap \ {item}
      /\ DeletionIgnored(p, item) => remote'[p].pc = "pick"
      /\ ~DeletionIgnored(p, item) => /\ remote'[p].pc = "read" /\ remote'[p].item = item
                                      /\ remote'[p].tr = tracked[p][item.path]
    BY <1>3 DEF NextEntry, IdleRemote
<1>5. Held(p) = {} /\ Items(p) = remote[p].snap
    BY <1>1 DEF Held, Items
<1>6. Held(p)' = IF DeletionIgnored(p, item) THEN {} ELSE {item}
    BY <1>4 DEF Held
<1>7. Items(p)' = (remote[p].snap \ {item}) \cup Held(p)'
    BY <1>4 DEF Items
<1>8. /\ item.path \in AllPath /\ item.metadata \in UserManifestValue
      /\ item.metadata = view[p][item.path] /\ Comparable(p, item.path)
      /\ item.path \notin suppressed[p]
    BY <1>2, PeerTypes DEF ReconcileInv, ManifestEntry
<1>9. \A y : /\ Comparable(p, y)' <=> Comparable(p, y)
             /\ Synced(p, y)' <=> Synced(p, y)
    BY <1>1 DEF Comparable, Synced, Own, Applied
<1>10. OneEach(p)'
    BY <1>2, <1>4, <1>6 DEF ReconcileInv, OneEach
<1>11. ASSUME NEW x \in AllPath, IsFile(view[p][x])
       PROVE  Synced(p, x) \/ \E i \in Items(p)' : i.path = x
  <2>1. Synced(p, x) \/ \E i \in remote[p].snap : i.path = x
    BY <1>2, <1>5, <1>11 DEF ReconcileInv
  <2>2. CASE item.path = x
    <3>1. ~DeletionIgnored(p, item)
        BY <1>8, <1>11, <2>2, EntryFacts DEF DeletionIgnored
    <3> QED
        BY <1>6, <1>7, <2>2, <3>1
  <2>3. CASE item.path # x
    BY <1>7, <2>1, <2>3
  <2> QED
    BY <2>2, <2>3
<1>12. remote'[p].pc = "read" => /\ X(p)' = item.path /\ M(p)' = item.metadata
                                 /\ remote'[p].tr = None
    BY <1>4, <1>8 DEF X, M, Comparable
<1>13. remote'[p].pc \in {"pick", "read"}
    BY <1>4
<1>14. NoCopiesOf(p)'
    BY <1>1, <1>2 DEF ReconcileInv, NoCopiesOf
<1>15. remote'[p].pc = "read" =>
            /\ M(p)' = view'[p][X(p)'] /\ ~Own(p, X(p))' /\ tracked'[p][X(p)'] = None
            /\ X(p)' \notin suppressed'[p]
            /\ X(p)' \in Copies => disk'[p][X(p)'] = None
    BY <1>1, <1>8, <1>12 DEF Comparable, Own
<1>16. ReconcileInv(p)'
    BY <1>1, <1>2, <1>4, <1>9, <1>10, <1>11, <1>12, <1>13, <1>14, <1>15 DEF ReconcileInv
<1>17. phase'[p] = "reconcile"
    BY <1>1
<1> QED
    BY <1>1, <1>2, <1>16, <1>17, SessionMover

\* Steps that are done with the entry.
LEMMA ReconcileDone ==
    ASSUME TypeInv, ConvInv, NEW p \in Peer \ Restarting, phase[p] = "reconcile", OnlyMover(p),
           AlreadyInSync(p) \/ DeletionVoid(p) \/ RecordDownload(p) \/ DeleteLocal(p)
    PROVE  ConvInv'
<1>1. /\ remote[p].pc \notin {"pick", "await"} /\ log' = log /\ view' = view
      /\ queue' = queue /\ local' = local /\ owed' = owed /\ phase' = phase
    BY DEF AlreadyInSync, DeletionVoid, RecordDownload, DeleteLocal, Comparing, Doing
<1>2. /\ SessionInv(p) /\ ReconcileInv(p) /\ Starting(p) /\ Starting(p)'
      /\ remote[p].tr = None /\ queue[p] = <<>> /\ local[p].pc = "idle"
    BY <1>1, Reconciling DEF Starting
<1>3. PICK x \in AllPath : x = X(p)
    BY <1>1, Reconciling
<1>4. /\ M(p) \in UserManifestValue /\ M(p) = view[p][x] /\ ~Own(p, x) /\ tracked[p][x] = None
      /\ log[x] # {}
    BY <1>1, <1>3, Reconciling
<1>5. /\ remote'[p] = NextEntry(p) /\ dirty'[p] = dirty[p]
      /\ \A y \in AllPath \ {x} : /\ disk'[p][y] = disk[p][y]
                                  /\ tracked'[p][y] = tracked[p][y]
                                  /\ y \in suppressed'[p] <=> y \in suppressed[p]
      /\ disk'[p][x] = disk[p][x] \/ disk'[p][x] = None
      /\ Synced(p, x)' \/ (~IsFile(view[p][x]) /\ tracked'[p][x] = None)
  <2>1. CASE AlreadyInSync(p)
    <3>1. M(p).kind = "file" /\ disk[p][x] = M(p).hash
        BY <1>3, <2>1 DEF AlreadyInSync, Comparing, C
    <3>2. tracked' = [tracked EXCEPT ![p][x] = disk[p][x]] /\ disk' = disk
          /\ remote' = [remote EXCEPT ![p] = NextEntry(p)]
          /\ suppressed' = suppressed /\ dirty' = dirty
        BY <1>3, <2>1 DEF AlreadyInSync, Turns, C
    <3>3. tracked'[p] = [tracked[p] EXCEPT ![x] = disk[p][x]] /\ remote'[p] = NextEntry(p)
        BY <3>2 DEF TypeInv, TypeOK
    <3>4. Synced(p, x)'
        BY <1>1, <1>4, <3>1, <3>2, <3>3, PeerTypes, EntryFacts DEF Synced, Applied
    <3> QED
        BY <3>2, <3>3, <3>4, PeerTypes
  <2>2. CASE DeletionVoid(p)
    <3>1. M(p).kind = "tombstone"
        BY <2>2 DEF DeletionVoid, Comparing
    <3>2. remote'[p] = NextEntry(p) /\ UNCHANGED <<disk, tracked, suppressed, dirty>>
        BY <2>2 DEF DeletionVoid, Turns, TypeInv, TypeOK
    <3> QED
        BY <1>4, <3>1, <3>2, EntryFacts
  <2>3. CASE RecordDownload(p)
    <3>1. Applied(p, x) /\ M(p).kind = "file"
        BY <1>2, <1>3, <2>3 DEF RecordDownload, Doing, ReconcileInv, Applied
    <3>2. tracked' = [tracked EXCEPT ![p][x] = M(p).hash] /\ disk' = disk
          /\ remote' = [remote EXCEPT ![p] = NextEntry(p)]
          /\ suppressed' = suppressed /\ dirty' = dirty
        BY <1>3, <2>3 DEF RecordDownload, Turns
    <3>3. tracked'[p] = [tracked[p] EXCEPT ![x] = M(p).hash] /\ remote'[p] = NextEntry(p)
        BY <3>2 DEF TypeInv, TypeOK
    <3>4. Synced(p, x)'
        BY <1>1, <1>4, <3>1, <3>2, <3>3, PeerTypes, EntryFacts DEF Synced, Applied
    <3> QED
        BY <3>2, <3>3, <3>4, PeerTypes
  <2>4. CASE DeleteLocal(p)
    <3>1. M(p).kind = "tombstone"
        BY <1>2, <2>4 DEF DeleteLocal, Doing, ReconcileInv
    <3>2. /\ disk' = [disk EXCEPT ![p][x] = None]
          /\ suppressed' = [suppressed EXCEPT ![p] = @ \cup {x}]
          /\ dirty' = [dirty EXCEPT ![p] = IF phase[p] = "live" THEN @ \cup {x} ELSE @]
          /\ tracked' = tracked /\ remote' = [remote EXCEPT ![p] = NextEntry(p)]
        BY <1>2, <1>3, <2>4 DEF DeleteLocal, Turns, Touch
    <3>3. /\ disk'[p] = [disk[p] EXCEPT ![x] = None]
          /\ suppressed'[p] = suppressed[p] \cup {x} /\ dirty'[p] = dirty[p]
          /\ remote'[p] = NextEntry(p)
        BY <3>2 DEF TypeInv, TypeOK
    <3> QED
        BY <1>4, <3>1, <3>2, <3>3, PeerTypes, EntryFacts
  <2> QED
    BY <2>1, <2>2, <2>3, <2>4
<1>6. ReconcileInv(p)'
    BY <1>1, <1>2, <1>3, <1>5, ReconcileNext
<1>7. \A y \in AllPath : Own(p, y) => disk'[p][y] = disk[p][y]
    BY <1>4, <1>5
<1>8. \A y \in Copies : disk'[p][y] # None => disk'[p][y] = disk[p][y]
    BY <1>5 DEF AllPath
<1>9. phase'[p] = "reconcile"
    BY <1>1
<1> QED
    BY <1>1, <1>2, <1>5, <1>6, <1>7, <1>8, <1>9, SessionMover

\* A conflict copy is written where there is no entry.
LEMMA CopyUnknown ==
    ASSUME TypeInv, ConvInv, NEW p \in Peer \ Restarting, phase[p] = "reconcile", NEW z \in Copies, z.by = p
    PROVE  /\ z \in AllPath /\ view[p][z] = None /\ tracked[p][z] = None
           /\ \A i \in remote[p].snap : i.path # z
<1>1. ReconcileInv(p) /\ KnownViews
    BY Reconciling
<1>2. z \in AllPath /\ view[p][z] = None
    BY <1>1 DEF ReconcileInv, NoCopiesOf, KnownViews, AllPath
<1>3. tracked[p][z] = None
    BY <1>1, <1>2, NoEntry DEF ReconcileInv, Synced, Applied
<1>4. \A i \in remote[p].snap : i.path # z
    BY <1>1, <1>2, PeerTypes, EntryFacts DEF ReconcileInv, ManifestEntry
<1> QED
    BY <1>2, <1>3, <1>4

LEMMA ReconcileWrite ==
    ASSUME TypeInv, ConvInv, NEW p \in Peer \ Restarting, phase[p] = "reconcile", OnlyMover(p),
           \/ StartDownload(p) \/ StartConflict(p) \/ StartPreserve(p)
           \/ SaveConflictCopy(p) \/ ApplyRemote(p)
    PROVE  ConvInv'
<1>1. /\ remote[p].pc \in {"read", "copy", "fetch"} /\ log' = log /\ view' = view
      /\ queue' = queue /\ local' = local /\ owed' = owed /\ phase' = phase
      /\ tracked' = tracked
    BY DEF StartDownload, StartConflict, StartPreserve, SaveConflictCopy, ApplyRemote,
        Differs, Comparing, Doing
<1>2. /\ SessionInv(p) /\ ReconcileInv(p) /\ Starting(p) /\ Starting(p)' /\ KnownViews
      /\ remote[p].tr = None
    BY <1>1, Reconciling DEF Starting
<1>3. PICK x \in AllPath : x = X(p)
    BY <1>1, Reconciling
<1>4. /\ M(p) \in UserManifestValue /\ M(p) = view[p][x] /\ ~Own(p, x) /\ log[x] # {}
    BY <1>1, <1>3, Reconciling
<1>5. remote[p] \in RemoteFrame
    BY <1>1 DEF TypeInv, TypeOK
<1>6. CASE StartDownload(p) \/ StartConflict(p) \/ StartPreserve(p)
  <2>1. /\ disk' = disk /\ suppressed' = suppressed /\ dirty' = dirty
    BY <1>6 DEF StartDownload, StartConflict, StartPreserve
  <2>2. CASE StartDownload(p)
    <3>1. remote' = [remote EXCEPT ![p] = [remote[p] EXCEPT !.pc = "fetch", !.seen = C(p)]]
          /\ M(p).kind = "file"
        BY <2>2 DEF StartDownload, Turns, Comparing, Differs
    <3>2. remote'[p].pc = "fetch" /\ remote'[p].snap = remote[p].snap
          /\ remote'[p].item = remote[p].item /\ remote'[p].tr = remote[p].tr
        BY <1>5, <3>1 DEF TypeInv, TypeOK, RemoteFrame
    <3>3. ReconcileInv(p)'
        BY <1>1, <1>2, <1>3, <2>1, <3>1, <3>2, ReconcileGoesOn
    <3> QED
        BY <1>1, <1>2, <2>1, <3>3, SessionMover
  <2>3. CASE StartConflict(p) \/ StartPreserve(p)
    <3>1. remote' = [remote EXCEPT ![p] = [remote[p] EXCEPT !.pc = "copy", !.seen = C(p)]]
          /\ x \in Path
        BY <1>3, <2>3 DEF StartConflict, StartPreserve, Turns
    <3>2. remote'[p].pc = "copy" /\ remote'[p].snap = remote[p].snap
          /\ remote'[p].item = remote[p].item /\ remote'[p].tr = remote[p].tr
        BY <1>5, <3>1 DEF TypeInv, TypeOK, RemoteFrame
    <3>3. ReconcileInv(p)'
        BY <1>1, <1>2, <1>3, <2>1, <3>1, <3>2, ReconcileGoesOn
    <3> QED
        BY <1>1, <1>2, <2>1, <3>3, SessionMover
  <2> QED
    BY <1>6, <2>2, <2>3
<1>7. CASE SaveConflictCopy(p)
  <2>1. PICK z : z = CopyPath(X(p), p, IF M(p).kind = "tombstone" THEN "tombstone" ELSE "conflict")
    OBVIOUS
  <2>2. x \in Path /\ remote[p].pc = "copy"
    BY <1>2, <1>3, <1>7 DEF SaveConflictCopy, Doing, ReconcileInv
  <2>3. z \in Copies /\ z.by = p
    BY <1>3, <2>1, <2>2 DEF CopyPath, Copies
  <2>4. /\ z \in AllPath /\ view[p][z] = None /\ tracked[p][z] = None
        /\ \A i \in remote[p].snap : i.path # z
    BY <2>3, CopyUnknown
  <2>5. /\ suppressed' = [suppressed EXCEPT ![p] = @ \cup {z}]
        /\ disk' = [disk EXCEPT ![p][z] = remote[p].seen]
        /\ dirty' = [dirty EXCEPT ![p] = IF phase[p] = "live" THEN @ \cup {z} ELSE @]
        /\ remote' = [remote EXCEPT ![p] =
                [remote[p] EXCEPT !.pc = IF M(p).kind = "tombstone" THEN "delete" ELSE "fetch"]]
    BY <1>7, <2>1 DEF SaveConflictCopy, Touch, Turns
  <2>6. /\ suppressed'[p] = suppressed[p] \cup {z} /\ dirty'[p] = dirty[p]
        /\ disk'[p] = [disk[p] EXCEPT ![z] = remote[p].seen]
    BY <2>5 DEF TypeInv, TypeOK
  <2>7. /\ remote'[p].pc = IF M(p).kind = "tombstone" THEN "delete" ELSE "fetch"
        /\ remote'[p].snap = remote[p].snap
        /\ remote'[p].item = remote[p].item /\ remote'[p].tr = remote[p].tr
    BY <1>5, <2>5 DEF TypeInv, TypeOK, RemoteFrame
  <2>8. \A y \in AllPath \ {x, z} : /\ disk'[p][y] = disk[p][y]
                                    /\ y \in suppressed'[p] <=> y \in suppressed[p]
    BY <2>6, PeerTypes
  <2>9. ReconcileInv(p)'
    BY <1>1, <1>2, <1>3, <1>4, <2>4, <2>7, <2>8, NoEntry, EntryFacts, ReconcileGoesOn
  <2>10. \A y \in AllPath : Own(p, y) => disk'[p][y] = disk[p][y]
    BY <2>4, <2>6, PeerTypes DEF Own
  <2>11. \A y \in Copies : disk'[p][y] = disk[p][y] \/ y.by = p
    BY <2>3, <2>6, PeerTypes DEF AllPath
  <2> QED
    BY <1>1, <1>2, <2>6, <2>9, <2>10, <2>11, SessionMover
<1>8. CASE ApplyRemote(p)
  <2>1. M(p).kind = "file" /\ Shown(view[p][x]) = M(p).hash
    BY <1>2, <1>4, <1>8, EntryFacts DEF ApplyRemote, Doing, ReconcileInv
  <2>2. /\ suppressed' = [suppressed EXCEPT ![p] = @ \cup {x}]
        /\ disk' = [disk EXCEPT ![p][x] = M(p).hash]
        /\ dirty' = [dirty EXCEPT ![p] = IF phase[p] = "live" THEN @ \cup {x} ELSE @]
        /\ remote' = [remote EXCEPT ![p] = [remote[p] EXCEPT !.pc = "record"]]
        /\ remote[p].pc = "fetch"
    BY <1>3, <1>8 DEF ApplyRemote, Touch, Turns, Doing
  <2>3. /\ suppressed'[p] = suppressed[p] \cup {x} /\ dirty'[p] = dirty[p]
        /\ disk'[p] = [disk[p] EXCEPT ![x] = M(p).hash]
    BY <2>2 DEF TypeInv, TypeOK
  <2>4. /\ remote'[p].pc = "record" /\ remote'[p].snap = remote[p].snap
        /\ remote'[p].item = remote[p].item /\ remote'[p].tr = remote[p].tr
    BY <1>5, <2>2 DEF TypeInv, TypeOK, RemoteFrame
  <2>5. \A y \in AllPath \ {x} : /\ disk'[p][y] = disk[p][y]
                                 /\ y \in suppressed'[p] <=> y \in suppressed[p]
    BY <2>3, PeerTypes
  <2>6. Applied(p, x)'
    BY <1>1, <2>1, <2>3, PeerTypes DEF Applied
  <2>7. ReconcileInv(p)'
    BY <1>1, <1>2, <1>3, <2>1, <2>4, <2>5, <2>6, ReconcileGoesOn
  <2>8. \A y \in AllPath : Own(p, y) => disk'[p][y] = disk[p][y]
    BY <1>4, <2>5
  <2>9. \A y \in Copies : disk'[p][y] = disk[p][y] \/ log[y] # {}
    BY <1>4, <2>5 DEF AllPath
  <2> QED
    BY <1>1, <1>2, <2>3, <2>7, <2>8, <2>9, SessionMover
<1> QED
    BY <1>6, <1>7, <1>8

-----------------------------------------------------------------------------
(***************************************************************************)
(* local-wins: the scan waits while handleLocalChange uploads the file.    *)
(***************************************************************************)
AwaitAt(p, x) ==
    /\ x \in Path /\ policy[p] = "local-wins" /\ disk[p][x] # None
    /\ x \notin suppressed[p] /\ IsFile(view[p][x])
    /\ local[p].pc # "idle" => queue[p] = <<>> /\ local[p].path = x
    /\ queue[p] # <<>> => queue[p] = <<[type |-> "update", path |-> x]>>
    /\ local[p].pc \in {"idle", "read", "lookup", "publish", "record"}
    /\ local[p].pc \in {"lookup", "publish", "record"} => local[p].data = disk[p][x]
    /\ IF Own(p, x)
       THEN /\ queue[p] = <<>>
            /\ local[p].pc = "record" \/ (local[p].pc = "idle" /\ tracked[p][x] = disk[p][x])
       ELSE /\ local[p].pc # "record" /\ (queue[p] = <<>> => local[p].pc # "idle")
            /\ ~Applied(p, x) /\ tracked[p][x] = None

LEMMA AwaitIsAt ==
    ASSUME NEW p, NEW x
    PROVE  /\ X(p) = x => (AwaitInv(p) <=> AwaitAt(p, x))
           /\ X(p)' = x => (AwaitInv(p)' <=> AwaitAt(p, x)')
<1>1. X(p) = x => (AwaitInv(p) <=> AwaitAt(p, x))
    BY DEF AwaitInv, AwaitAt, Own, Applied
<1>2. X(p)' = x => (AwaitInv(p)' <=> AwaitAt(p, x)')
    BY DEF AwaitInv, AwaitAt, Own, Applied
<1> QED
    BY <1>1, <1>2

LEMMA ReconcileYield ==
    ASSUME TypeInv, ConvInv, NEW p \in Peer \ Restarting, phase[p] = "reconcile", OnlyMover(p),
           YieldToLocal(p)
    PROVE  ConvInv'
<1>1. /\ remote[p].pc = "read" /\ log' = log /\ view' = view /\ disk' = disk /\ dirty' = dirty
      /\ tracked' = tracked /\ suppressed' = suppressed /\ local' = local /\ owed' = owed
      /\ phase' = phase /\ policy' = policy /\ policy[p] = "local-wins"
      /\ M(p).kind = "file" /\ C(p) \notin {None, M(p).hash}
    BY DEF YieldToLocal, Differs, Comparing, Doing, JoinPolicy
<1>2. /\ SessionInv(p) /\ ReconcileInv(p) /\ Starting(p) /\ Starting(p)'
    BY <1>1, Reconciling DEF Starting
<1>3. PICK x \in AllPath : x = X(p)
    BY <1>1, Reconciling
<1>4. /\ M(p) \in UserManifestValue /\ M(p) = view[p][x] /\ ~Own(p, x) /\ tracked[p][x] = None
      /\ queue[p] = <<>> /\ local[p].pc = "idle"
    BY <1>1, <1>3, Reconciling
<1>5. /\ remote' = [remote EXCEPT ![p] = [remote[p] EXCEPT !.pc = "await"]]
      /\ queue' = [queue EXCEPT ![p] = Append(@, [type |-> "update", path |-> x])]
    BY <1>3 DEF YieldToLocal, Turns
<1>6. /\ remote'[p].pc = "await" /\ remote'[p].snap = remote[p].snap
      /\ remote'[p].item = remote[p].item /\ remote'[p].tr = remote[p].tr
    BY <1>5 DEF TypeInv, TypeOK, RemoteFrame
<1>7. queue'[p] = <<[type |-> "update", path |-> x]>> /\ queue'[p] # <<>>
  <2>1. queue'[p] = Append(<<>>, [type |-> "update", path |-> x])
    BY <1>4, <1>5 DEF TypeInv, TypeOK
  <2> QED
    BY <2>1
<1>8. X(p)' = x /\ Held(p)' = Held(p) /\ Items(p)' = Items(p)
    BY <1>1, <1>3, <1>6 DEF X, Held, Items
<1>9. \A y : /\ Comparable(p, y)' <=> Comparable(p, y)
             /\ Synced(p, y)' <=> Synced(p, y)
             /\ Own(p, y)' <=> Own(p, y)
             /\ Applied(p, y)' <=> Applied(p, y)
    BY <1>1 DEF Comparable, Synced, Own, Applied
<1>10. AwaitAt(p, x)'
  <2>1. x \in Path /\ x \notin suppressed[p] /\ disk[p][x] # None
    BY <1>1, <1>2, <1>3 DEF ReconcileInv, C, AllPath
  <2>2. IsFile(view[p][x]) /\ ~Applied(p, x)
    BY <1>1, <1>3, <1>4, EntryFacts DEF Applied, C
  <2> QED
    BY <1>1, <1>4, <1>7, <1>9, <2>1, <2>2 DEF AwaitAt
<1>11. NoCopiesOf(p)' /\ OneEach(p)'
    BY <1>1, <1>2, <1>6, <1>8 DEF ReconcileInv, NoCopiesOf, OneEach
<1>12. ReconcileInv(p)'
  <2>1. AwaitInv(p)'
    BY <1>8, <1>10, AwaitIsAt
  <2> QED
    BY <1>1, <1>2, <1>6, <1>8, <1>9, <1>11, <2>1 DEF ReconcileInv
<1> QED
    BY <1>1, <1>2, <1>12, SessionMover

LEMMA ReconcileYielded ==
    ASSUME TypeInv, ConvInv, NEW p \in Peer \ Restarting, phase[p] = "reconcile", OnlyMover(p),
           LocalYielded(p)
    PROVE  ConvInv'
<1>1. /\ remote[p].pc = "await" /\ log' = log /\ view' = view /\ disk' = disk /\ dirty' = dirty
      /\ tracked' = tracked /\ suppressed' = suppressed /\ local' = local /\ owed' = owed
      /\ queue' = queue /\ phase' = phase /\ queue[p] = <<>> /\ local[p].pc = "idle"
      /\ remote'[p] = NextEntry(p)
    BY DEF LocalYielded, Doing, Turns, TypeInv, TypeOK
<1>2. /\ SessionInv(p) /\ ReconcileInv(p) /\ Starting(p) /\ Starting(p)'
    BY <1>1, Reconciling DEF Starting
<1>3. PICK x \in AllPath : x = X(p)
    BY <1>1, PeerTypes
<1>4. AwaitAt(p, x)
    BY <1>1, <1>2, <1>3, AwaitIsAt DEF ReconcileInv
<1>5. Own(p, x) /\ tracked[p][x] = disk[p][x]
    BY <1>1, <1>4 DEF AwaitAt
<1>6. Applied(p, x)
    BY <1>2, <1>5 DEF SessionInv, Uploaded
<1>7. Synced(p, x)'
    BY <1>1, <1>5, <1>6 DEF Synced, Applied
<1>8. ReconcileInv(p)'
    BY <1>1, <1>2, <1>3, <1>7, ReconcileNext
<1> QED
    BY <1>1, <1>2, <1>8, SessionMover

LEMMA ReconcileRemote ==
    ASSUME TypeInv, ConvInv, NEW p \in Peer \ Restarting, phase[p] = "reconcile", OnlyMover(p),
           RemoteStep(p)
    PROVE  ConvInv'
<1>1. ~ScanBegin(p) /\ ~ScanEnd(p) /\ ~ForgetRemote(p)
    BY Reconciling
<1>2. CASE remote[p].pc \in {"pick", "await"}
  <2>1. ~NothingNew(p) /\ ~StartDelete(p) /\ ~AlreadyDeleted(p)
    BY <1>2 DEF NothingNew, StartDelete, AlreadyDeleted, Differs, Comparing, Doing
  <2> QED
    BY <1>1, <2>1, ReconcilePick, ReconcileDone, ReconcileWrite, ReconcileYield,
       ReconcileYielded DEF RemoteStep
<1>3. CASE remote[p].pc \notin {"pick", "await"}
  <2>1. ~NothingNew(p) /\ ~StartDelete(p) /\ ~AlreadyDeleted(p)
    BY <1>3, Reconciling
  <2> QED
    BY <1>1, <2>1, ReconcilePick, ReconcileDone, ReconcileWrite, ReconcileYield,
       ReconcileYielded DEF RemoteStep
<1> QED
    BY <1>2, <1>3

-----------------------------------------------------------------------------
(***************************************************************************)
(* Uploads of initialSync.                                                 *)
(***************************************************************************)
LEMMA FilePut ==
    ASSUME TypeInv, NEW p \in Peer, NEW x \in AllPath, x = local[p].path, PublishFile(p),
           Newest(p, x), local[p].data = disk[p][x], disk[p][x] # None
    PROVE  \E e : Puts(p, x, e) /\ e.kind = "file" /\ Shown(e) = disk[p][x] /\ IsFile(e)
<1>1. disk[p][x] \in Content /\ local[p].base \in Content \cup {None}
    BY PeerTypes DEF TypeInv, TypeOK, LocalFrame
<1>2. PICK n \in FreshPos(p, x) : Put(p, x, File(local[p].data, local[p].base, p, n))
    BY DEF PublishFile
<1>3. n \in Position /\ \A f \in log[x] : f.pos < n
    BY FreshTop
<1> DEFINE e == File(local[p].data, local[p].base, p, n)
<1>4. e \in UserManifestValue /\ e.writerKey = p /\ e.pos = n /\ e.kind = "file"
      /\ e.hash = disk[p][x]
    BY <1>1, <1>3 DEF File, UserManifestValue, FileMetadata
<1> HIDE DEF e
<1>5. Puts(p, x, e)
    BY <1>2, <1>3, <1>4 DEF Puts, Put, e, TypeInv, TypeOK, ManifestTypeOK
<1> QED
    BY <1>4, <1>5, EntryFacts

LEMMA SessionPublish ==
    ASSUME TypeInv, ConvInv, NEW p \in Peer \ Restarting, Starting(p), phase' = phase, OnlyMover(p),
           NEW x \in AllPath, NEW e, Puts(p, x, e), e.kind = "file", Shown(e) = disk[p][x],
           disk'[p] = disk[p], dirty'[p] = dirty[p], owed'[p] = owed[p],
           ~Uploaded(p, x), x \in Copies => x.by = p \/ log[x] # {},
           phase[p] = "reconcile" => ReconcileInv(p)',
           phase[p] = "listing" => ListingInv(p)'
    PROVE  ConvInv'
<1>1. SessionInv(p) /\ PeerInv(p)
    BY DEF ConvInv, PeerInv
<1>2. Newest(p, x) /\ Untouched(p, x)
    BY <1>1 DEF SessionInv
<1>3. \A q \in Peer : Live(q) => q # p /\ Rests(q)
    BY DEF Live, Starting, OnlyMover
<1>4. SessionInv(p)'
  <2>1. \A q \in Peer : (Live(q)' <=> Live(q)) /\ (Starting(q)' <=> Starting(q))
    BY DEF Live, Starting
  <2>2. \A q \in Peer : Live(q) => \A y \in AllPath : ~Editing(q, y)'
    BY <1>1, <1>3, SamePaths DEF SessionInv
  <2>3. Newest(p, x)' /\ Own(p, x)' /\ IsFile(view'[p][x]) /\ Applied(p, x)'
    BY PublisherNewest, EntryFacts DEF Puts, Applied
  <2>4. ASSUME NEW y \in AllPath \ {x}
        PROVE  /\ Newest(p, y)' /\ (Untouched(p, y)' \/ Uploaded(p, y)')
               /\ Own(p, y)' => Uploaded(p, y)'
    <3>1. view'[p][y] = view[p][y] /\ (Newest(p, y)' <=> Newest(p, y))
          /\ (Own(p, y)' <=> Own(p, y))
        BY PublisherNewest DEF Puts
    <3>2. Uploaded(p, y) => Uploaded(p, y)'
        BY <3>1 DEF Uploaded, Applied
    <3>3. ASSUME Untouched(p, y)
          PROVE  Untouched(p, y)'
      <4>1. ASSUME NEW q \in Peer, Live(q)
            PROVE  view'[q][y] = view'[p][y] /\ Settled(q, y)'
        BY <1>3, <3>1, <3>3, <4>1, SamePaths DEF Untouched, Rests
      <4> QED
        BY <2>1, <4>1 DEF Untouched
    <3> QED
        BY <1>1, <3>1, <3>2, <3>3 DEF SessionInv
  <2>5. Uploaded(p, x)'
    BY <2>3 DEF Uploaded
  <2> QED
    BY <1>1, <2>1, <2>2, <2>3, <2>4, <2>5 DEF SessionInv
<1>5. PeerInv(p)'
    BY <1>1, <1>4 DEF PeerInv, JoinInv, Live, Starting
<1>6. \A q \in Peer \ {p} : ~Starting(q)
    BY <1>1 DEF SessionInv
<1>7. \A q \in Peer \ {p} : Live(q) =>
            /\ view[q][x] = view[p][x] /\ Settled(q, x)
            /\ \A y \in AllPath : ~Editing(q, y)
    BY <1>1, <1>2 DEF SessionInv, Untouched
<1>8. Starting(p)'
    BY DEF Starting
<1> QED
    BY <1>2, <1>5, <1>6, <1>7, <1>8, PublishWhole

LEMMA ReconcileLocal ==
    ASSUME TypeInv, ConvInv, NEW p \in Peer \ Restarting, phase[p] = "reconcile", OnlyMover(p),
           LocalStep(p)
    PROVE  ConvInv'
<1>1. SessionInv(p) /\ ReconcileInv(p) /\ Starting(p)
    BY Reconciling
<1>2. remote[p].pc = "await"
  <2>1. queue[p] # <<>> \/ local[p].pc # "idle"
    BY DEF LocalStep, SuppressEvent, TakeEvent, EventReady, ReadLocalFile, SkipUnchanged,
        BaseOnManifest, PublishFile, RecordUpload, FindDeleted, PublishTombstone,
        ForgetDeleted, At
  <2> QED
    BY <1>1, <2>1 DEF ReconcileInv
<1>3. PICK x \in AllPath : x = X(p)
    BY <1>2, PeerTypes
<1>4. AwaitAt(p, x)
    BY <1>1, <1>2, <1>3, AwaitIsAt DEF ReconcileInv
<1>5. /\ x \notin suppressed[p] /\ disk[p][x] # None /\ IsFile(view[p][x]) /\ x \in Path
      /\ Own(p, x) => Applied(p, x)
      /\ local[p].pc # "idle" => queue[p] = <<>> /\ local[p].path = x
      /\ local[p] \in LocalFrame
    BY <1>1, <1>4 DEF AwaitAt, SessionInv, Uploaded, TypeInv, TypeOK
<1>6. ASSUME log' = log, view' = view, disk' = disk, dirty' = dirty, suppressed' = suppressed,
             owed' = owed, remote' = remote, phase' = phase, policy' = policy,
             \A y \in AllPath \ {x} : tracked'[p][y] = tracked[p][y],
             tracked'[p][x] # None => Synced(p, x)',
             AwaitAt(p, x)'
      PROVE  ConvInv'
  <2>1. X(p)' = x
    BY <1>3, <1>6 DEF X
  <2>2. AwaitInv(p)'
    BY <1>6, <2>1, AwaitIsAt
  <2>3. ReconcileInv(p)'
    BY <1>1, <1>2, <1>3, <1>6, <2>2, AwaitGoesOn
  <2>4. Starting(p)' /\ phase'[p] = "reconcile"
    BY <1>6 DEF Starting
  <2> QED
    BY <1>1, <1>6, <2>3, <2>4, SessionMover
<1>7. tracked[p][x] # None => Synced(p, x)
    BY <1>1 DEF ReconcileInv
<1>8. ASSUME queue[p] # <<>>
      PROVE  queue[p] = <<[type |-> "update", path |-> x]>> /\ local[p].pc = "idle"
             /\ Head(queue[p]).type = "update" /\ Head(queue[p]).path = x
             /\ Tail(queue[p]) = <<>>
  <2>1. queue[p] = <<[type |-> "update", path |-> x]>> /\ local[p].pc = "idle"
    BY <1>4, <1>5, <1>8 DEF AwaitAt
  <2> QED
    BY <2>1
<1>9. CASE SuppressEvent(p) \/ TakeEvent(p)
  <2>1. queue[p] # <<>>
    BY <1>9 DEF SuppressEvent, TakeEvent, EventReady
  <2>2. ~SuppressEvent(p)
    BY <1>5, <1>8, <2>1 DEF SuppressEvent
  <2>3. /\ log' = log /\ view' = view /\ disk' = disk /\ dirty' = dirty
        /\ suppressed' = suppressed /\ owed' = owed /\ remote' = remote /\ phase' = phase
        /\ policy' = policy /\ tracked' = tracked
        /\ queue' = [queue EXCEPT ![p] = Tail(@)]
        /\ local' = [local EXCEPT ![p] = [IdleLocal EXCEPT !.pc = "read", !.path = x]]
    BY <1>8, <1>9, <2>1, <2>2 DEF TakeEvent
  <2>4. queue'[p] = <<>> /\ local'[p].pc = "read" /\ local'[p].path = x
    BY <1>8, <2>1, <2>3 DEF TypeInv, TypeOK, IdleLocal
  <2>5. AwaitAt(p, x)'
    BY <1>4, <2>1, <2>3, <2>4 DEF AwaitAt, Own, Applied
  <2>6. Synced(p, x)' <=> Synced(p, x)
    BY <2>3 DEF Synced, Applied
  <2> QED
    BY <1>6, <1>7, <2>3, <2>5, <2>6
<1>10. CASE ReadLocalFile(p)
  <2>1. local[p].pc = "read" /\ local[p].path = x /\ queue[p] = <<>>
    BY <1>5, <1>10 DEF ReadLocalFile, At
  <2>2. /\ log' = log /\ view' = view /\ disk' = disk /\ dirty' = dirty
        /\ suppressed' = suppressed /\ owed' = owed /\ remote' = remote /\ phase' = phase
        /\ policy' = policy /\ tracked' = tracked /\ queue' = queue
        /\ local' = [local EXCEPT ![p] = [local[p] EXCEPT !.pc = "lookup", !.data = disk[p][x]]]
    BY <1>5, <1>10, <2>1 DEF ReadLocalFile, Becomes
  <2>3. local'[p].pc = "lookup" /\ local'[p].path = x /\ local'[p].data = disk[p][x]
    BY <1>5, <2>1, <2>2 DEF TypeInv, TypeOK, LocalFrame
  <2>4. AwaitAt(p, x)'
    BY <1>4, <2>1, <2>2, <2>3 DEF AwaitAt, Own, Applied
  <2>5. Synced(p, x)' <=> Synced(p, x)
    BY <2>2 DEF Synced, Applied
  <2> QED
    BY <1>6, <1>7, <2>2, <2>4, <2>5
<1>11. CASE SkipUnchanged(p)
  <2>1. local[p].pc = "lookup" /\ local[p].path = x /\ view[p][x].hash = local[p].data
    BY <1>5, <1>11 DEF SkipUnchanged, At, SameAsManifest, LookedUp
  <2>2. local[p].data = disk[p][x] /\ ~Applied(p, x)
    BY <1>4, <2>1 DEF AwaitAt
  <2> QED
    BY <1>5, <2>1, <2>2 DEF Applied, Shown
<1>12. CASE BaseOnManifest(p)
  <2>1. local[p].pc = "lookup" /\ local[p].path = x /\ queue[p] = <<>>
    BY <1>5, <1>12 DEF BaseOnManifest, At
  <2>2. /\ log' = log /\ view' = view /\ disk' = disk /\ dirty' = dirty
        /\ suppressed' = suppressed /\ owed' = owed /\ remote' = remote /\ phase' = phase
        /\ policy' = policy /\ tracked' = tracked /\ queue' = queue
        /\ local' = [local EXCEPT ![p] =
                        [local[p] EXCEPT !.pc = "publish", !.base = NextBase(LookedUp(p))]]
    BY <1>12 DEF BaseOnManifest, Becomes
  <2>3. local'[p].pc = "publish" /\ local'[p].path = x /\ local'[p].data = local[p].data
    BY <1>5, <2>1, <2>2 DEF TypeInv, TypeOK, LocalFrame
  <2>4. AwaitAt(p, x)'
    BY <1>4, <2>1, <2>2, <2>3 DEF AwaitAt, Own, Applied
  <2>5. Synced(p, x)' <=> Synced(p, x)
    BY <2>2 DEF Synced, Applied
  <2> QED
    BY <1>6, <1>7, <2>2, <2>4, <2>5
<1>13. CASE PublishFile(p)
  <2>1. local[p].pc = "publish" /\ local[p].path = x /\ queue[p] = <<>>
    BY <1>5, <1>13 DEF PublishFile, At
  <2>2. local[p].data = disk[p][x] /\ ~Applied(p, x) /\ ~Own(p, x) /\ tracked[p][x] = None
    BY <1>4, <2>1 DEF AwaitAt
  <2>3. Newest(p, x)
    BY <1>1 DEF SessionInv
  <2>4. PICK e : Puts(p, x, e) /\ e.kind = "file" /\ Shown(e) = disk[p][x] /\ IsFile(e)
    BY <1>5, <1>13, <2>1, <2>2, <2>3, FilePut
  <2>5. /\ disk' = disk /\ dirty' = dirty /\ suppressed' = suppressed /\ remote' = remote
        /\ phase' = phase /\ policy' = policy /\ tracked' = tracked /\ queue' = queue
        /\ owed'[p] = owed[p]
        /\ local' = [local EXCEPT ![p] = [local[p] EXCEPT !.pc = "record"]]
    BY <1>13 DEF PublishFile, Announce, Becomes, TypeInv, TypeOK
  <2>6. local'[p].pc = "record" /\ local'[p].path = x /\ local'[p].data = local[p].data
    BY <1>5, <2>1, <2>5 DEF TypeInv, TypeOK, LocalFrame
  <2>7. Own(p, x)' /\ view'[p][x] = e
    BY <2>4, PublisherNewest DEF Puts
  <2>8. AwaitAt(p, x)'
    BY <1>4, <2>1, <2>2, <2>4, <2>5, <2>6, <2>7 DEF AwaitAt
  <2>9. AwaitInv(p)'
    BY <1>3, <2>5, <2>8, AwaitIsAt DEF X
  <2>10. ReconcileInv(p)'
    BY <1>1, <1>2, <1>3, <2>2, <2>4, <2>5, <2>9, AwaitGoesOn DEF Puts
  <2> QED
    BY <1>1, <1>5, <2>2, <2>4, <2>5, <2>10, PathAssumption, SessionPublish DEF Uploaded
<1>14. CASE RecordUpload(p)
  <2>1. local[p].pc = "record" /\ local[p].path = x /\ queue[p] = <<>>
    BY <1>5, <1>14 DEF RecordUpload, At
  <2>2. local[p].data = disk[p][x] /\ Own(p, x)
    BY <1>4, <2>1 DEF AwaitAt
  <2>3. /\ log' = log /\ view' = view /\ disk' = disk /\ dirty' = dirty
        /\ suppressed' = suppressed /\ owed' = owed /\ remote' = remote /\ phase' = phase
        /\ policy' = policy /\ queue' = queue
        /\ tracked' = [tracked EXCEPT ![p][x] = disk[p][x]]
        /\ local' = [local EXCEPT ![p] = IdleLocal]
    BY <1>14, <2>1, <2>2 DEF RecordUpload, Becomes
  <2>4. local'[p].pc = "idle" /\ tracked'[p] = [tracked[p] EXCEPT ![x] = disk[p][x]]
    BY <2>3 DEF TypeInv, TypeOK, IdleLocal
  <2>5. AwaitAt(p, x)'
    BY <1>4, <2>1, <2>2, <2>3, <2>4, PeerTypes DEF AwaitAt, Own, Applied
  <2>6. Synced(p, x)'
    BY <1>5, <2>2, <2>3, <2>4, PeerTypes DEF Synced, Applied
  <2>7. \A y \in AllPath \ {x} : tracked'[p][y] = tracked[p][y]
    BY <2>4, PeerTypes
  <2> QED
    BY <1>6, <2>3, <2>5, <2>6, <2>7
<1>15. ~FindDeleted(p) /\ ~PublishTombstone(p) /\ ~ForgetDeleted(p)
    BY <1>4 DEF FindDeleted, PublishTombstone, ForgetDeleted, At, AwaitAt
<1> QED
    BY <1>9, <1>10, <1>11, <1>12, <1>13, <1>14, <1>15 DEF LocalStep

-----------------------------------------------------------------------------
(***************************************************************************)
(* The listing of initialSync.                                             *)
(***************************************************************************)
LEMMA BeginListingKept ==
    ASSUME TypeInv, ConvInv, NEW p \in Peer \ Restarting, OnlyMover(p), BeginListing(p)
    PROVE  ConvInv'
<1>1. /\ phase[p] = "reconcile" /\ remote[p].pc = "pick" /\ remote[p].snap = {}
      /\ log' = log /\ view' = view /\ disk' = disk /\ dirty' = dirty
      /\ tracked' = tracked /\ suppressed' = suppressed /\ local' = local /\ owed' = owed
      /\ queue' = queue /\ phase'[p] = "listing" /\ listing'[p] = OnDisk(p)
      /\ remote'[p] = IdleRemote
    BY DEF BeginListing, Doing, Enter, Turns, TypeInv, TypeOK
<1>2. SessionInv(p) /\ ReconcileInv(p) /\ Starting(p) /\ Starting(p)'
    BY <1>1, Reconciling DEF Starting
<1>3. Items(p) = {}
    BY <1>1 DEF Items, Held
<1>4. queue[p] = <<>> /\ local[p].pc = "idle"
    BY <1>1, <1>2 DEF ReconcileInv
<1>5. ASSUME NEW y \in AllPath
      PROVE  /\ IsFile(view[p][y]) => Synced(p, y)
             /\ ~IsFile(view[p][y]) => tracked[p][y] = None
             /\ disk[p][y] = None => Synced(p, y)
  <2>1. IsFile(view[p][y]) => Synced(p, y)
    BY <1>2, <1>3 DEF ReconcileInv
  <2>2. tracked[p][y] # None => Synced(p, y)
    BY <1>2 DEF ReconcileInv
  <2>3. ~IsFile(view[p][y]) => Shown(view[p][y]) = None
    BY ShownFile, PeerTypes
  <2> QED
    BY <2>1, <2>2, <2>3 DEF Synced, Applied
<1>6. remote'[p].pc = "idle" /\ remote'[p].snap = {}
    BY <1>1 DEF IdleRemote
<1>7. \A y : (Synced(p, y)' <=> Synced(p, y)) /\ (Applied(p, y)' <=> Applied(p, y))
    BY <1>1 DEF Synced, Applied
<1>8. \A y \in AllPath : y \in listing'[p] <=> disk'[p][y] # None
    BY <1>1 DEF OnDisk
<1>9. listing'[p] \subseteq AllPath
    BY <1>1 DEF OnDisk
<1>10. ListingInv(p)'
    BY <1>1, <1>4, <1>5, <1>6, <1>7, <1>8, <1>9 DEF ListingInv, Synced
<1> QED
    BY <1>1, <1>2, <1>10, SessionMover

LEMMA Listing ==
    ASSUME TypeInv, ConvInv, NEW p \in Peer \ Restarting, phase[p] = "listing"
    PROVE  /\ PeerInv(p) /\ SessionInv(p) /\ ListingInv(p) /\ Starting(p)
           /\ remote[p].pc = "idle" /\ remote[p].snap = {} /\ queue[p] = <<>>
           /\ local[p].pc # "idle" => local[p].path \in AllPath
BY PeerTypes DEF ConvInv, PeerInv, JoinInv, Starting, ListingInv

\* The frame works on x, or will, or has done.
LEMMA ListingGoesOn ==
    ASSUME TypeInv, NEW p \in Peer, ListingInv(p), NEW x \in AllPath,
           local[p].pc # "idle" => local[p].path = x,
           local'[p].pc # "idle" => local'[p].path = x,
           remote'[p] = remote[p], queue'[p] = queue[p], disk'[p] = disk[p],
           listing'[p] \subseteq listing[p],
           \A y \in AllPath \ {x} : /\ view'[p][y] = view[p][y]
                                    /\ tracked'[p][y] = tracked[p][y]
                                    /\ y \in listing[p] => y \in listing'[p],
           Synced(p, x)' \/ (disk[p][x] # None /\ (x \in listing'[p] \/ local'[p].pc # "idle")),
           IF IsFile(view'[p][x])
           THEN Applied(p, x)' /\ (tracked'[p][x] = disk[p][x] \/ local'[p].pc # "idle")
           ELSE tracked'[p][x] = None,
           local'[p].pc \in {"idle", "read", "lookup", "publish", "record"},
           local'[p].pc # "idle" => disk[p][x] # None,
           local'[p].pc \in {"lookup", "publish", "record"} => local'[p].data = disk[p][x],
           local'[p].pc = "publish" => ~IsFile(view'[p][x]),
           local'[p].pc = "record" => Uploaded(p, x)'
    PROVE  ListingInv(p)'
<1>1. \A y \in AllPath \ {x} : ~Handled(p, y)
    BY DEF Handled
<1>2. local'[p].pc # "idle" => Handled(p, x)'
    BY DEF Handled
<1>3. \A y \in AllPath \ {x} : /\ Synced(p, y)' <=> Synced(p, y)
                               /\ Applied(p, y)' <=> Applied(p, y)
    BY DEF Synced, Applied
<1>4. ASSUME NEW y \in AllPath
      PROVE  Synced(p, y)' \/ (disk'[p][y] # None /\ (y \in listing'[p] \/ Handled(p, y)'))
  <2>1. CASE y = x
    BY <1>2, <2>1
  <2>2. CASE y # x
    BY <1>1, <1>3, <2>2 DEF ListingInv
  <2> QED
    BY <2>1, <2>2
<1>5. ASSUME NEW y \in AllPath
      PROVE  IF IsFile(view'[p][y])
             THEN Applied(p, y)' /\ (tracked'[p][y] = disk'[p][y] \/ Handled(p, y)')
             ELSE tracked'[p][y] = None
  <2>1. CASE y = x
    BY <1>2, <2>1
  <2>2. CASE y # x
    BY <1>1, <1>3, <2>2 DEF ListingInv
  <2> QED
    BY <2>1, <2>2
<1>6. \A y \in listing'[p] : disk'[p][y] # None
    BY DEF ListingInv
<1>7. local'[p].pc = "record" => Uploaded(p, local[p].path)'
    BY DEF Uploaded, Own, Applied
<1> QED
    BY <1>4, <1>5, <1>6, <1>7 DEF ListingInv

LEMMA ListPickKept ==
    ASSUME TypeInv, ConvInv, NEW p \in Peer \ Restarting, OnlyMover(p), ListPick(p)
    PROVE  ConvInv'
<1>1. PICK x \in listing[p] :
        /\ listing' = [listing EXCEPT ![p] = @ \ {x}]
        /\ local' = [local EXCEPT ![p] = [IdleLocal EXCEPT !.pc = "read", !.path = x]]
    BY DEF ListPick, Becomes
<1>2. /\ phase[p] = "listing" /\ local[p].pc = "idle" /\ log' = log /\ view' = view
      /\ disk' = disk /\ dirty' = dirty /\ tracked' = tracked /\ suppressed' = suppressed
      /\ owed' = owed /\ queue' = queue /\ remote' = remote /\ phase' = phase
    BY DEF ListPick
<1>3. SessionInv(p) /\ ListingInv(p) /\ Starting(p) /\ Starting(p)'
    BY <1>2, Listing DEF Starting
<1>4. x \in AllPath /\ disk[p][x] # None
    BY <1>3, PeerTypes DEF ListingInv
<1>5. /\ local'[p].pc = "read" /\ local'[p].path = x /\ listing'[p] = listing[p] \ {x}
    BY <1>1 DEF TypeInv, TypeOK, IdleLocal
<1>6. ~Handled(p, x)
    BY <1>2 DEF Handled
<1>7. IF IsFile(view[p][x]) THEN Applied(p, x) /\ tracked[p][x] = disk[p][x]
      ELSE tracked[p][x] = None
    BY <1>3, <1>4, <1>6 DEF ListingInv
<1>8. Applied(p, x)' <=> Applied(p, x)
    BY <1>2 DEF Applied
<1>9. ListingInv(p)'
    BY <1>2, <1>3, <1>4, <1>5, <1>7, <1>8, ListingGoesOn
<1>10. phase'[p] = "listing"
    BY <1>2
<1> QED
    BY <1>2, <1>3, <1>9, <1>10, SessionMover

LEMMA ListingLocal ==
    ASSUME TypeInv, ConvInv, NEW p \in Peer \ Restarting, phase[p] = "listing", OnlyMover(p), LocalStep(p)
    PROVE  ConvInv'
<1>1. /\ SessionInv(p) /\ ListingInv(p) /\ Starting(p) /\ queue[p] = <<>>
      /\ local[p].pc # "idle" => local[p].path \in AllPath
      /\ local[p] \in LocalFrame
    BY Listing DEF TypeInv, TypeOK
<1>2. ~SuppressEvent(p) /\ ~TakeEvent(p)
    BY <1>1 DEF SuppressEvent, TakeEvent, EventReady
<1>3. ~FindDeleted(p) /\ ~PublishTombstone(p) /\ ~ForgetDeleted(p)
    BY <1>1 DEF FindDeleted, PublishTombstone, ForgetDeleted, At, ListingInv
<1>4. local[p].pc # "idle"
    BY <1>2, <1>3 DEF LocalStep, ReadLocalFile, SkipUnchanged, BaseOnManifest, PublishFile,
        RecordUpload, At
<1>5. PICK x \in AllPath : x = local[p].path
    BY <1>1, <1>4
<1>6. /\ disk[p][x] # None /\ Handled(p, x)
      /\ local[p].pc \in {"lookup", "publish", "record"} => local[p].data = disk[p][x]
      /\ local[p].pc = "publish" => ~IsFile(view[p][x])
      /\ local[p].pc = "record" => Uploaded(p, x)
      /\ IF IsFile(view[p][x]) THEN Applied(p, x) ELSE tracked[p][x] = None
    BY <1>1, <1>4, <1>5 DEF ListingInv, Handled
<1>7. view[p][x] \in UserManifestValue \cup {None}
    BY PeerTypes
<1>8. ASSUME log' = log, view' = view, disk' = disk, dirty' = dirty, suppressed' = suppressed,
             owed' = owed, phase' = phase, ListingInv(p)'
      PROVE  ConvInv'
    BY <1>1, <1>8, SessionMover DEF Starting
<1>9. CASE ReadLocalFile(p)
  <2>1. /\ log' = log /\ view' = view /\ disk' = disk /\ dirty' = dirty
        /\ suppressed' = suppressed /\ owed' = owed /\ remote' = remote /\ phase' = phase
        /\ tracked' = tracked /\ queue' = queue /\ listing' = listing
        /\ local' = [local EXCEPT ![p] = [local[p] EXCEPT !.pc = "lookup", !.data = disk[p][x]]]
    BY <1>5, <1>6, <1>9 DEF ReadLocalFile, Becomes
  <2>2. local'[p].pc = "lookup" /\ local'[p].path = x /\ local'[p].data = disk[p][x]
    BY <1>1, <1>5, <2>1 DEF TypeInv, TypeOK, LocalFrame
  <2>3. Applied(p, x)' <=> Applied(p, x)
    BY <2>1 DEF Applied
  <2>4. ListingInv(p)'
    BY <1>1, <1>5, <1>6, <2>1, <2>2, <2>3, ListingGoesOn
  <2> QED
    BY <1>8, <2>1, <2>4
<1>10. CASE SkipUnchanged(p)
  <2>1. local[p].pc = "lookup" /\ IsFile(view[p][x]) /\ view[p][x].hash = local[p].data
    BY <1>5, <1>10 DEF SkipUnchanged, At, SameAsManifest, LookedUp
  <2>2. /\ log' = log /\ view' = view /\ disk' = disk /\ dirty' = dirty
        /\ suppressed' = suppressed /\ owed' = owed /\ remote' = remote /\ phase' = phase
        /\ queue' = queue /\ listing' = listing
        /\ tracked' = [tracked EXCEPT ![p][x] = disk[p][x]]
        /\ local' = [local EXCEPT ![p] = IdleLocal]
    BY <1>5, <1>6, <1>10, <2>1 DEF SkipUnchanged, Becomes
  <2>3. local'[p].pc = "idle" /\ tracked'[p] = [tracked[p] EXCEPT ![x] = disk[p][x]]
    BY <2>2 DEF TypeInv, TypeOK, IdleLocal
  <2>4. tracked'[p][x] = disk[p][x] /\ \A y \in AllPath \ {x} : tracked'[p][y] = tracked[p][y]
    BY <2>3, PeerTypes
  <2>5. Applied(p, x)' /\ Synced(p, x)'
    BY <1>6, <2>1, <2>2, <2>4 DEF Applied, Synced
  <2>6. ListingInv(p)'
    BY <1>1, <1>5, <1>6, <2>1, <2>2, <2>3, <2>4, <2>5, ListingGoesOn
  <2> QED
    BY <1>8, <2>2, <2>6
<1>11. CASE BaseOnManifest(p)
  <2>1. local[p].pc = "lookup" /\ local[p].data = disk[p][x]
        /\ ~(IsFile(view[p][x]) /\ view[p][x].hash = disk[p][x])
    BY <1>5, <1>6, <1>11 DEF BaseOnManifest, At, SameAsManifest, LookedUp
  <2>2. ~IsFile(view[p][x])
    BY <1>6, <1>7, <2>1, ShownFile DEF Applied
  <2>3. /\ log' = log /\ view' = view /\ disk' = disk /\ dirty' = dirty
        /\ suppressed' = suppressed /\ owed' = owed /\ remote' = remote /\ phase' = phase
        /\ tracked' = tracked /\ queue' = queue /\ listing' = listing
        /\ local' = [local EXCEPT ![p] =
                        [local[p] EXCEPT !.pc = "publish", !.base = NextBase(LookedUp(p))]]
    BY <1>11 DEF BaseOnManifest, Becomes
  <2>4. local'[p].pc = "publish" /\ local'[p].path = x /\ local'[p].data = local[p].data
    BY <1>1, <1>5, <2>3 DEF TypeInv, TypeOK, LocalFrame
  <2>5. ListingInv(p)'
    BY <1>1, <1>5, <1>6, <2>1, <2>2, <2>3, <2>4, ListingGoesOn
  <2> QED
    BY <1>8, <2>3, <2>5
<1>12. CASE PublishFile(p)
  <2>1. local[p].pc = "publish" /\ local[p].data = disk[p][x] /\ ~IsFile(view[p][x])
    BY <1>6, <1>12 DEF PublishFile, At
  <2>2. Newest(p, x)
    BY <1>1 DEF SessionInv
  <2>3. PICK e : Puts(p, x, e) /\ e.kind = "file" /\ Shown(e) = disk[p][x] /\ IsFile(e)
    BY <1>5, <1>6, <1>12, <2>1, <2>2, FilePut
  <2>4. /\ disk' = disk /\ dirty' = dirty /\ suppressed' = suppressed /\ remote' = remote
        /\ phase' = phase /\ tracked' = tracked /\ queue' = queue /\ listing' = listing
        /\ owed'[p] = owed[p]
        /\ local' = [local EXCEPT ![p] = [local[p] EXCEPT !.pc = "record"]]
    BY <1>1, <1>12 DEF PublishFile, Announce, Becomes, Starting, TypeInv, TypeOK
  <2>5. local'[p].pc = "record" /\ local'[p].path = x /\ local'[p].data = local[p].data
    BY <1>1, <1>5, <2>4 DEF TypeInv, TypeOK, LocalFrame
  <2>6. Own(p, x)' /\ view'[p][x] = e
    BY <2>3, PublisherNewest DEF Puts
  <2>7. Applied(p, x)' /\ Uploaded(p, x)'
    BY <2>3, <2>4, <2>6 DEF Applied, Uploaded
  <2>8. ListingInv(p)'
    BY <1>1, <1>5, <1>6, <2>1, <2>3, <2>4, <2>5, <2>6, <2>7, ListingGoesOn DEF Puts
  <2>9. x \in Copies => x.by = p \/ log[x] # {}
    BY <1>6, <2>1 DEF ConvInv, CopiesInv
  <2> QED
    BY <1>1, <2>1, <2>3, <2>4, <2>8, <2>9, SessionPublish DEF Uploaded
<1>13. CASE RecordUpload(p)
  <2>1. local[p].pc = "record" /\ local[p].data = disk[p][x]
    BY <1>6, <1>13 DEF RecordUpload, At
  <2>2. IsFile(view[p][x]) /\ Applied(p, x)
    BY <1>6, <2>1 DEF Uploaded
  <2>3. /\ log' = log /\ view' = view /\ disk' = disk /\ dirty' = dirty
        /\ suppressed' = suppressed /\ owed' = owed /\ remote' = remote /\ phase' = phase
        /\ queue' = queue /\ listing' = listing
        /\ tracked' = [tracked EXCEPT ![p][x] = disk[p][x]]
        /\ local' = [local EXCEPT ![p] = IdleLocal]
    BY <1>5, <1>13, <2>1 DEF RecordUpload, Becomes
  <2>4. local'[p].pc = "idle" /\ tracked'[p] = [tracked[p] EXCEPT ![x] = disk[p][x]]
    BY <2>3 DEF TypeInv, TypeOK, IdleLocal
  <2>5. tracked'[p][x] = disk[p][x] /\ \A y \in AllPath \ {x} : tracked'[p][y] = tracked[p][y]
    BY <2>4, PeerTypes
  <2>6. Applied(p, x)' /\ Synced(p, x)'
    BY <2>2, <2>3, <2>5 DEF Applied, Synced
  <2>7. ListingInv(p)'
    BY <1>1, <1>5, <1>6, <2>2, <2>3, <2>4, <2>5, <2>6, ListingGoesOn
  <2> QED
    BY <1>8, <2>3, <2>7
<1> QED
    BY <1>2, <1>3, <1>9, <1>10, <1>11, <1>12, <1>13 DEF LocalStep

-----------------------------------------------------------------------------
(***************************************************************************)
(* A peer that may leave, in initialSync.  It is silent: what its local    *)
(* queue would publish ends the claim.                                     *)
(***************************************************************************)
LEMMA PublisherSpeaks ==
    ASSUME TypeInv, NEW p \in Peer, PublishFile(p) \/ PublishTombstone(p), Silent'
    PROVE  p \notin Restarting
<1>1. PICK x \in AllPath : x = local[p].path
    BY PeerTypes DEF PublishFile, PublishTombstone, At
<1>2. \E e : e.writerKey = p /\ Put(p, x, e)
    BY <1>1 DEF PublishFile, PublishTombstone, File, Tombstone
<1>3. PICK e : e.writerKey = p /\ log' = [log EXCEPT ![x] = @ \cup {e}]
    BY <1>2 DEF Put
<1>4. e \in log'[x]
    BY <1>3 DEF TypeInv, TypeOK, ManifestTypeOK
<1> QED
    BY <1>3, <1>4 DEF Silent

LEMMA Restarted ==
    ASSUME TypeInv, ConvInv, Silent, NEW p \in Peer, p \in Restarting, Starting(p)
    PROVE  /\ PeerInv(p) /\ SessionInv(p) /\ KnownViews /\ CopiesInv
           /\ phase[p] = "reconcile" => ComparingInv(p)
           /\ phase[p] = "listing" => NotingInv(p)
           /\ \A x \in AllPath : ~Own(p, x)
<1>1. PeerInv(p) /\ SessionInv(p) /\ KnownViews /\ CopiesInv
    BY DEF ConvInv, PeerInv
<1>2. RestartInv(p)
    BY <1>1 DEF PeerInv
<1>3. \A x \in AllPath : ~Own(p, x)
    BY <1>1 DEF KnownViews, Silent, Own
<1> QED
    BY <1>1, <1>2, <1>3 DEF RestartInv

\* Steps of its scan that publish nothing and drop no file the manifest names.
LEMMA ComparingGoesOn ==
    ASSUME TypeInv, ConvInv, Silent, NEW p \in Peer, p \in Restarting,
           phase[p] = "reconcile", OnlyMover(p),
           log' = log, view' = view, phase' = phase, dirty'[p] = dirty[p], owed'[p] = owed[p],
           remote'[p].pc # "idle", \A i \in remote'[p].snap : i \in remote[p].snap,
           \A x \in AllPath : IsFile(view[p][x]) =>
                \/ disk'[p][x] # None
                \/ disk'[p][x] = disk[p][x] /\ \A i \in Items(p) : i.path = x => i \in Items(p)',
           \A y \in Copies : disk'[p][y] # None => disk'[p][y] = disk[p][y] \/ y.by = p
                                                    \/ log[y] # {},
           remote'[p].pc \notin {"pick", "await"} => M(p)' = view[p][X(p)'],
           remote'[p].pc # "await" => queue'[p] = <<>> /\ local'[p].pc = "idle",
           remote'[p].pc = "copy" => remote'[p].seen # None,
           remote'[p].pc \in {"fetch", "record"} => M(p)'.kind = "file",
           remote'[p].pc \in {"delete", "forget"} => M(p)'.kind = "tombstone",
           remote'[p].pc \in {"await", "record"} => disk'[p][X(p)'] # None,
           local'[p].pc \notin {"record", "forget"}
    PROVE  ConvInv'
<1>1. /\ Starting(p) /\ Starting(p)' /\ ComparingInv(p)
      /\ \A x \in AllPath : ~Own(p, x)
    BY Restarted DEF Starting
<1>2. ASSUME NEW x \in AllPath, IsFile(view[p][x])
      PROVE  disk'[p][x] # None \/ \E i \in Items(p)' : i.path = x
    BY <1>1, <1>2 DEF ComparingInv
<1>3. \A i \in remote'[p].snap : i.metadata = view'[p][i.path]
    BY <1>1 DEF ComparingInv
<1>4. ComparingInv(p)'
    BY <1>2, <1>3 DEF ComparingInv
<1>5. RestartInv(p)'
    BY <1>4 DEF RestartInv
<1> QED
    BY <1>1, <1>5, SessionMover

LEMMA ComparingPick ==
    ASSUME TypeInv, ConvInv, Silent, NEW p \in Peer, p \in Restarting,
           phase[p] = "reconcile", OnlyMover(p), PickEntry(p)
    PROVE  ConvInv'
<1>1. /\ remote[p].pc = "pick" /\ log' = log /\ view' = view /\ disk' = disk /\ dirty' = dirty
      /\ queue' = queue /\ local' = local /\ owed' = owed /\ phase' = phase
    BY DEF PickEntry
<1>2. ComparingInv(p)
    BY Restarted DEF Starting
<1> DEFINE rest(i) == [NextEntry(p) EXCEPT !.snap = @ \ {i}]
<1>3. PICK item \in remote[p].snap :
        remote'[p] = IF DeletionIgnored(p, item) THEN rest(item)
                     ELSE [rest(item) EXCEPT !.pc = "read", !.item = item,
                                             !.tr = tracked[p][item.path]]
    BY DEF PickEntry, Turns, TypeInv, TypeOK
<1>4. /\ remote'[p].snap = remote[p].snap \ {item}
      /\ DeletionIgnored(p, item) => remote'[p].pc = "pick"
      /\ ~DeletionIgnored(p, item) => remote'[p].pc = "read" /\ remote'[p].item = item
    BY <1>3 DEF NextEntry, IdleRemote
<1>5. /\ item.path \in AllPath /\ item.metadata \in UserManifestValue
      /\ item.metadata = view[p][item.path]
    BY <1>2, PeerTypes DEF ComparingInv, ManifestEntry
<1>6. Items(p) = remote[p].snap
    BY <1>1 DEF Items, Held
<1>7. Items(p)' = IF DeletionIgnored(p, item) THEN remote[p].snap \ {item} ELSE remote[p].snap
    BY <1>4 DEF Items, Held
<1>8. DeletionIgnored(p, item) => ~IsFile(view[p][item.path])
    BY <1>5, EntryFacts DEF DeletionIgnored
<1>9. \A x \in AllPath : IsFile(view[p][x]) =>
            \A i \in Items(p) : i.path = x => i \in Items(p)'
    BY <1>6, <1>7, <1>8
<1>10. remote'[p].pc = "read" => M(p)' = view[p][X(p)']
    BY <1>4, <1>5 DEF M, X
<1>11. remote'[p].pc \in {"pick", "read"} /\ queue[p] = <<>> /\ local[p].pc = "idle"
    BY <1>1, <1>2, <1>4 DEF ComparingInv
<1> QED
    BY <1>1, <1>4, <1>9, <1>10, <1>11, ComparingGoesOn

\* Steps that are done with the entry.
LEMMA ComparingDone ==
    ASSUME TypeInv, ConvInv, Silent, NEW p \in Peer, p \in Restarting,
           phase[p] = "reconcile", OnlyMover(p),
           \/ AlreadyInSync(p) \/ NothingNew(p) \/ LocalYielded(p) \/ DeletionVoid(p)
           \/ AlreadyDeleted(p) \/ RecordDownload(p) \/ ForgetRemote(p)
    PROVE  ConvInv'
<1>1. /\ remote[p].pc \notin {"idle", "pick"} /\ remote'[p] = NextEntry(p)
      /\ log' = log /\ view' = view /\ disk' = disk /\ dirty' = dirty
      /\ queue' = queue /\ local' = local /\ owed' = owed /\ phase' = phase
    BY DEF AlreadyInSync, NothingNew, LocalYielded, DeletionVoid, AlreadyDeleted,
        RecordDownload, ForgetRemote, Comparing, Differs, Doing, Turns, TypeInv, TypeOK
<1>2. ComparingInv(p)
    BY Restarted DEF Starting
<1>3. PICK x \in AllPath : x = X(p) /\ M(p) \in UserManifestValue
    BY <1>1, PeerTypes
<1>4. Items(p) = remote[p].snap \cup {remote[p].item} /\ remote[p].item.path = x
    BY <1>1, <1>3 DEF Items, Held, X
<1>5. remote'[p].pc = "pick" /\ remote'[p].snap = remote[p].snap
    BY <1>1 DEF NextEntry, IdleRemote
<1>6. Items(p)' = remote[p].snap
    BY <1>5 DEF Items, Held
<1>7. queue[p] = <<>> /\ local[p].pc = "idle"
    BY <1>2 DEF ComparingInv, LocalYielded, AlreadyInSync, NothingNew, DeletionVoid,
        AlreadyDeleted, RecordDownload, ForgetRemote, Comparing, Differs, Doing
<1>8. disk[p][x] # None \/ ~IsFile(view[p][x])
  <2>1. CASE AlreadyInSync(p)
    <3>1. M(p).kind = "file" /\ disk[p][x] = M(p).hash
        BY <1>3, <2>1 DEF AlreadyInSync, Comparing, C
    <3> QED
        BY <1>3, <3>1, EntryFacts
  <2>2. CASE NothingNew(p)
    BY <1>3, <2>2 DEF NothingNew, Differs, C
  <2>3. CASE LocalYielded(p) \/ RecordDownload(p)
    BY <1>2, <1>3, <2>3 DEF LocalYielded, RecordDownload, Doing, ComparingInv
  <2>4. CASE DeletionVoid(p) \/ AlreadyDeleted(p) \/ ForgetRemote(p)
    <3>1. M(p).kind = "tombstone" /\ M(p) = view[p][x]
        BY <1>2, <1>3, <2>4
        DEF DeletionVoid, AlreadyDeleted, ForgetRemote, Comparing, Doing, ComparingInv
    <3> QED
        BY <1>3, <3>1, EntryFacts
  <2> QED
    BY <2>1, <2>2, <2>3, <2>4
<1>9. ASSUME NEW y \in AllPath, IsFile(view[p][y])
      PROVE  disk[p][y] # None \/ \A i \in Items(p) : i.path = y => i \in Items(p)'
    BY <1>4, <1>6, <1>8, <1>9
<1> QED
    BY <1>1, <1>5, <1>7, <1>9, ComparingGoesOn

\* Steps that go on with the entry.
LEMMA ComparingStarts ==
    ASSUME TypeInv, ConvInv, Silent, NEW p \in Peer, p \in Restarting,
           phase[p] = "reconcile", OnlyMover(p),
           StartDownload(p) \/ StartConflict(p) \/ StartPreserve(p) \/ StartDelete(p)
           \/ YieldToLocal(p)
    PROVE  ConvInv'
<1>1. /\ remote[p].pc = "read" /\ log' = log /\ view' = view /\ disk' = disk /\ dirty' = dirty
      /\ local' = local /\ owed' = owed /\ phase' = phase
    BY DEF StartDownload, StartConflict, StartPreserve, StartDelete, YieldToLocal, Comparing,
        Differs, Doing
<1>2. ComparingInv(p)
    BY Restarted DEF Starting
<1>3. M(p) = view[p][X(p)] /\ queue[p] = <<>> /\ local[p].pc = "idle"
    BY <1>1, <1>2 DEF ComparingInv
<1>4. remote[p] \in RemoteFrame
    BY DEF TypeInv, TypeOK
<1>5. /\ remote'[p].snap = remote[p].snap /\ remote'[p].item = remote[p].item
      /\ remote'[p].pc \in {"fetch", "copy", "delete", "await"}
      /\ remote'[p].pc = "copy" => remote'[p].seen # None
      /\ remote'[p].pc = "fetch" => M(p).kind = "file"
      /\ remote'[p].pc = "delete" => M(p).kind = "tombstone"
      /\ remote'[p].pc = "await" => disk[p][X(p)] # None
      /\ remote'[p].pc # "await" => queue' = queue
  <2>1. CASE StartDownload(p)
    <3>1. remote' = [remote EXCEPT ![p] = [remote[p] EXCEPT !.pc = "fetch", !.seen = C(p)]]
          /\ M(p).kind = "file" /\ queue' = queue
        BY <2>1 DEF StartDownload, Turns, Comparing, Differs
    <3>2. remote'[p].pc = "fetch" /\ remote'[p].snap = remote[p].snap
          /\ remote'[p].item = remote[p].item
        BY <1>4, <3>1 DEF TypeInv, TypeOK, RemoteFrame
    <3> QED
        BY <3>1, <3>2
  <2>2. CASE StartConflict(p) \/ StartPreserve(p)
    <3>1. remote' = [remote EXCEPT ![p] = [remote[p] EXCEPT !.pc = "copy", !.seen = C(p)]]
          /\ C(p) # None /\ queue' = queue
        BY <2>2 DEF StartConflict, StartPreserve, Turns, Differs
    <3>2. remote'[p].pc = "copy" /\ remote'[p].snap = remote[p].snap
          /\ remote'[p].item = remote[p].item /\ remote'[p].seen = C(p)
        BY <1>4, <3>1 DEF TypeInv, TypeOK, RemoteFrame
    <3> QED
        BY <3>1, <3>2
  <2>3. CASE StartDelete(p)
    <3>1. remote' = [remote EXCEPT ![p] = [remote[p] EXCEPT !.pc = "delete", !.seen = C(p)]]
          /\ M(p).kind = "tombstone" /\ queue' = queue
        BY <2>3 DEF StartDelete, Turns, Comparing
    <3>2. remote'[p].pc = "delete" /\ remote'[p].snap = remote[p].snap
          /\ remote'[p].item = remote[p].item
        BY <1>4, <3>1 DEF TypeInv, TypeOK, RemoteFrame
    <3> QED
        BY <3>1, <3>2
  <2>4. CASE YieldToLocal(p)
    <3>1. remote' = [remote EXCEPT ![p] = [remote[p] EXCEPT !.pc = "await"]]
          /\ disk[p][X(p)] # None
        BY <2>4 DEF YieldToLocal, Turns, Differs, C
    <3>2. remote'[p].pc = "await" /\ remote'[p].snap = remote[p].snap
          /\ remote'[p].item = remote[p].item
        BY <1>4, <3>1 DEF TypeInv, TypeOK, RemoteFrame
    <3> QED
        BY <3>1, <3>2
  <2> QED
    BY <2>1, <2>2, <2>3, <2>4
<1>6. X(p)' = X(p) /\ M(p)' = M(p) /\ Items(p)' = Items(p)
    BY <1>1, <1>5 DEF X, M, Items, Held
<1>7. remote'[p].pc # "idle" /\ local'[p].pc \notin {"record", "forget"}
    BY <1>1, <1>3, <1>5
<1> QED
    BY <1>1, <1>3, <1>5, <1>6, <1>7, ComparingGoesOn

LEMMA ComparingWrites ==
    ASSUME TypeInv, ConvInv, Silent, NEW p \in Peer, p \in Restarting,
           phase[p] = "reconcile", OnlyMover(p),
           SaveConflictCopy(p) \/ ApplyRemote(p) \/ DeleteLocal(p)
    PROVE  ConvInv'
<1>1. /\ remote[p].pc \in {"copy", "fetch", "delete"} /\ log' = log /\ view' = view
      /\ queue' = queue /\ local' = local /\ owed' = owed /\ phase' = phase
    BY DEF SaveConflictCopy, ApplyRemote, DeleteLocal, Doing
<1>2. ComparingInv(p) /\ KnownViews
    BY Restarted DEF Starting
<1>3. M(p) = view[p][X(p)] /\ queue[p] = <<>> /\ local[p].pc = "idle"
    BY <1>1, <1>2 DEF ComparingInv
<1>4. PICK x \in AllPath : x = X(p) /\ M(p) \in UserManifestValue
    BY <1>1, PeerTypes
<1>5. log[x] # {}
    BY <1>2, <1>3, <1>4, EntryFacts DEF KnownViews
<1>6. remote[p] \in RemoteFrame
    BY DEF TypeInv, TypeOK
<1>7. CASE SaveConflictCopy(p)
  <2>1. PICK z : z = CopyPath(X(p), p, IF M(p).kind = "tombstone" THEN "tombstone" ELSE "conflict")
    OBVIOUS
  <2>2. x \in Path /\ remote[p].pc = "copy" /\ remote[p].seen # None
    <3>1. remote[p].pc = "copy" /\ remote[p] \in RemoteFrames
        BY <1>7 DEF SaveConflictCopy, Doing, TypeInv
    <3>2. X(p) \in Path
        BY <3>1 DEF RemoteFrames, X
    <3> QED
        BY <1>2, <1>4, <3>1, <3>2 DEF ComparingInv
  <2>3. z \in Copies /\ z.by = p
    BY <1>4, <2>1, <2>2 DEF CopyPath, Copies
  <2>4. /\ disk' = [disk EXCEPT ![p][z] = remote[p].seen]
        /\ dirty' = [dirty EXCEPT ![p] = IF phase[p] = "live" THEN @ \cup {z} ELSE @]
        /\ remote' = [remote EXCEPT ![p] =
                [remote[p] EXCEPT !.pc = IF M(p).kind = "tombstone" THEN "delete" ELSE "fetch"]]
    BY <1>7, <2>1 DEF SaveConflictCopy, Touch, Turns
  <2>5. dirty'[p] = dirty[p] /\ disk'[p] = [disk[p] EXCEPT ![z] = remote[p].seen]
    BY <2>4 DEF TypeInv, TypeOK
  <2>6. /\ remote'[p].pc = IF M(p).kind = "tombstone" THEN "delete" ELSE "fetch"
        /\ remote'[p].snap = remote[p].snap /\ remote'[p].item = remote[p].item
    BY <1>6, <2>4 DEF TypeInv, TypeOK, RemoteFrame
  <2>7. X(p)' = X(p) /\ M(p)' = M(p) /\ Items(p)' = Items(p)
    BY <1>1, <2>6 DEF X, M, Items, Held
  <2>8. \A y \in AllPath : disk'[p][y] = disk[p][y] \/ (y = z /\ disk'[p][y] # None)
    BY <2>2, <2>5, PeerTypes
  <2>9. \A y \in Copies : disk'[p][y] = disk[p][y] \/ y.by = p
    BY <2>3, <2>8 DEF AllPath
  <2>10. M(p).kind = "tombstone" \/ M(p).kind = "file"
    BY <1>4, EntryFacts
  <2> QED
    BY <1>1, <1>3, <2>5, <2>6, <2>7, <2>8, <2>9, <2>10, ComparingGoesOn
<1>8. CASE ApplyRemote(p)
  <2>1. remote[p].pc = "fetch" /\ M(p).kind = "file"
    BY <1>2, <1>8 DEF ApplyRemote, Doing, ComparingInv
  <2>2. M(p).hash # None
    BY <1>4, <2>1, EntryFacts
  <2>3. /\ disk' = [disk EXCEPT ![p][x] = M(p).hash]
        /\ dirty' = [dirty EXCEPT ![p] = IF phase[p] = "live" THEN @ \cup {x} ELSE @]
        /\ remote' = [remote EXCEPT ![p] = [remote[p] EXCEPT !.pc = "record"]]
    BY <1>4, <1>8 DEF ApplyRemote, Touch, Turns
  <2>4. dirty'[p] = dirty[p] /\ disk'[p] = [disk[p] EXCEPT ![x] = M(p).hash]
    BY <2>3 DEF TypeInv, TypeOK
  <2>5. /\ remote'[p].pc = "record" /\ remote'[p].snap = remote[p].snap
        /\ remote'[p].item = remote[p].item
    BY <1>6, <2>3 DEF TypeInv, TypeOK, RemoteFrame
  <2>6. X(p)' = X(p) /\ M(p)' = M(p) /\ Items(p)' = Items(p)
    BY <1>1, <2>5 DEF X, M, Items, Held
  <2>7. \A y \in AllPath : disk'[p][y] = disk[p][y] \/ (y = x /\ disk'[p][y] # None)
    BY <2>2, <2>4, PeerTypes
  <2>8. \A y \in Copies : disk'[p][y] = disk[p][y] \/ log[y] # {}
    BY <1>5, <2>7 DEF AllPath
  <2>9. disk'[p][X(p)'] # None
    BY <1>4, <2>2, <2>4, <2>6, PeerTypes
  <2> QED
    BY <1>1, <1>3, <2>1, <2>4, <2>5, <2>6, <2>7, <2>8, <2>9, ComparingGoesOn
<1>9. CASE DeleteLocal(p)
  <2>1. remote[p].pc = "delete" /\ M(p).kind = "tombstone"
    BY <1>2, <1>9 DEF DeleteLocal, Doing, ComparingInv
  <2>2. ~IsFile(view[p][x])
    BY <1>3, <1>4, <2>1, EntryFacts
  <2>3. /\ disk' = [disk EXCEPT ![p][x] = None]
        /\ dirty' = [dirty EXCEPT ![p] = IF phase[p] = "live" THEN @ \cup {x} ELSE @]
        /\ remote' = [remote EXCEPT ![p] = IF remote[p].tr = None THEN NextEntry(p)
                                           ELSE [remote[p] EXCEPT !.pc = "forget"]]
    BY <1>4, <1>9 DEF DeleteLocal, Touch, Turns
  <2>4. dirty'[p] = dirty[p] /\ disk'[p] = [disk[p] EXCEPT ![x] = None]
    BY <2>3 DEF TypeInv, TypeOK
  <2>5. /\ remote'[p].snap = remote[p].snap /\ remote'[p].pc \in {"pick", "forget"}
        /\ remote'[p].pc = "forget" => remote'[p].item = remote[p].item
    BY <1>6, <2>3 DEF TypeInv, TypeOK, RemoteFrame, NextEntry, IdleRemote
  <2>6. remote'[p].pc = "forget" => X(p)' = X(p) /\ M(p)' = M(p)
    BY <2>5 DEF X, M
  <2>7. Items(p) = remote[p].snap \cup {remote[p].item} /\ remote[p].item.path = x
    BY <1>4, <2>1 DEF Items, Held, X
  <2>8. remote[p].snap \subseteq Items(p)'
    BY <2>5 DEF Items
  <2>9. \A y \in AllPath : disk'[p][y] = IF y = x THEN None ELSE disk[p][y]
    BY <2>4, PeerTypes
  <2>10. ASSUME NEW y \in AllPath, IsFile(view[p][y])
         PROVE  disk'[p][y] = disk[p][y] /\ \A i \in Items(p) : i.path = y => i \in Items(p)'
    BY <2>2, <2>7, <2>8, <2>9, <2>10
  <2>11. \A y \in Copies : disk'[p][y] # None => disk'[p][y] = disk[p][y]
    BY <2>9 DEF AllPath
  <2> QED
    BY <1>1, <1>3, <2>1, <2>4, <2>5, <2>6, <2>10, <2>11, ComparingGoesOn
<1> QED
    BY <1>7, <1>8, <1>9

LEMMA ComparingRemote ==
    ASSUME TypeInv, ConvInv, Silent, NEW p \in Peer, p \in Restarting,
           phase[p] = "reconcile", OnlyMover(p), RemoteStep(p)
    PROVE  ConvInv'
<1>1. ~ScanBegin(p) /\ ~ScanEnd(p)
    BY DEF ScanBegin, ScanEnd
<1> QED
    BY <1>1, ComparingPick, ComparingDone, ComparingStarts, ComparingWrites DEF RemoteStep

\* handleLocalChange inside the scan (331-334), up to the entry it would append.
LEMMA ComparingLocal ==
    ASSUME TypeInv, ConvInv, Silent, Silent', NEW p \in Peer, p \in Restarting,
           phase[p] = "reconcile", OnlyMover(p), LocalStep(p)
    PROVE  ConvInv'
<1>1. ComparingInv(p)
    BY Restarted DEF Starting
<1>2. ~PublishFile(p) /\ ~PublishTombstone(p)
    BY PublisherSpeaks
<1>3. ~RecordUpload(p) /\ ~ForgetDeleted(p)
    BY <1>1 DEF RecordUpload, ForgetDeleted, At, ComparingInv
<1>4. remote[p].pc = "await"
  <2>1. queue[p] # <<>> \/ local[p].pc # "idle"
    BY DEF LocalStep, SuppressEvent, TakeEvent, EventReady, ReadLocalFile, SkipUnchanged,
        BaseOnManifest, PublishFile, RecordUpload, FindDeleted, PublishTombstone,
        ForgetDeleted, At
  <2> QED
    BY <1>1, <2>1 DEF ComparingInv
<1>5. /\ log' = log /\ view' = view /\ disk' = disk /\ dirty' = dirty /\ owed' = owed
      /\ phase' = phase /\ remote' = remote
    BY <1>2, <1>3 DEF LocalStep, SuppressEvent, TakeEvent, ReadLocalFile, SkipUnchanged,
        BaseOnManifest, FindDeleted
<1>6. local'[p].pc \notin {"record", "forget"}
  <2>1. local[p] \in LocalFrame
    BY DEF TypeInv, TypeOK
  <2>2. CASE SuppressEvent(p)
    BY <1>1, <2>2 DEF SuppressEvent, ComparingInv
  <2>3. CASE TakeEvent(p)
    <3>1. local' = [local EXCEPT ![p] = [IdleLocal EXCEPT
                        !.pc = IF Head(queue[p]).type = "update" THEN "read" ELSE "find",
                        !.path = Head(queue[p]).path]]
        BY <2>3 DEF TakeEvent
    <3>2. local'[p].pc \in {"read", "find"}
        BY <3>1 DEF IdleLocal, TypeInv, TypeOK
    <3> QED
        BY <3>2
  <2>4. CASE ReadLocalFile(p)
    <3>1. PICK c : c = disk[p][local[p].path]
        OBVIOUS
    <3>2. local' = [local EXCEPT ![p] =
                        IF c = None THEN IdleLocal
                        ELSE [local[p] EXCEPT !.pc = "lookup", !.data = c]]
        BY <2>4, <3>1 DEF ReadLocalFile, Becomes
    <3>3. local'[p].pc \in {"idle", "lookup"}
        BY <2>1, <3>2 DEF IdleLocal, TypeInv, TypeOK, LocalFrame
    <3> QED
        BY <3>3
  <2>5. CASE SkipUnchanged(p)
    BY <2>5 DEF SkipUnchanged, Becomes, IdleLocal, TypeInv, TypeOK
  <2>6. CASE BaseOnManifest(p)
    <3>1. local' = [local EXCEPT ![p] =
                        [local[p] EXCEPT !.pc = "publish", !.base = NextBase(LookedUp(p))]]
        BY <2>6 DEF BaseOnManifest, Becomes
    <3>2. local'[p].pc = "publish"
        BY <2>1, <3>1 DEF TypeInv, TypeOK, LocalFrame
    <3> QED
        BY <3>2
  <2>7. CASE FindDeleted(p)
    <3>1. local' = [local EXCEPT ![p] =
                        IF IsFile(LookedUp(p))
                        THEN [local[p] EXCEPT !.pc = "entomb", !.base = LookedUp(p).hash]
                        ELSE IdleLocal]
        BY <2>7 DEF FindDeleted, Becomes
    <3>2. local'[p].pc \in {"idle", "entomb"}
        BY <2>1, <3>1 DEF IdleLocal, TypeInv, TypeOK, LocalFrame
    <3> QED
        BY <3>2
  <2> QED
    BY <1>2, <1>3, <2>2, <2>3, <2>4, <2>5, <2>6, <2>7 DEF LocalStep
<1>7. X(p)' = X(p) /\ Items(p)' = Items(p)
    BY <1>5 DEF X, Items, Held
<1>8. disk[p][X(p)] # None
    BY <1>1, <1>4 DEF ComparingInv
<1> QED
    BY <1>4, <1>5, <1>6, <1>7, <1>8, ComparingGoesOn

\* From the scan to the listing: the files it lacked are there.
LEMMA NotingBegins ==
    ASSUME TypeInv, ConvInv, Silent, NEW p \in Peer, p \in Restarting, OnlyMover(p),
           BeginListing(p)
    PROVE  ConvInv'
<1>1. /\ phase[p] = "reconcile" /\ remote[p].pc = "pick" /\ remote[p].snap = {}
      /\ log' = log /\ view' = view /\ disk' = disk /\ dirty' = dirty
      /\ tracked' = tracked /\ local' = local /\ owed' = owed
      /\ queue' = queue /\ phase'[p] = "listing" /\ listing'[p] = OnDisk(p)
      /\ remote'[p] = IdleRemote
    BY DEF BeginListing, Doing, Enter, Turns, TypeInv, TypeOK
<1>2. Starting(p) /\ Starting(p)'
    BY <1>1 DEF Starting
<1>3. ComparingInv(p) /\ \A x \in AllPath : ~Own(p, x)
    BY <1>1, <1>2, Restarted
<1>4. Items(p) = {}
    BY <1>1 DEF Items, Held
<1>5. /\ queue[p] = <<>> /\ local[p].pc = "idle"
      /\ \A x \in AllPath : IsFile(view[p][x]) => disk[p][x] # None
    BY <1>1, <1>3, <1>4 DEF ComparingInv
<1>6. NotingInv(p)'
    BY <1>1, <1>5 DEF NotingInv, OnDisk, IdleRemote
<1>7. RestartInv(p)'
    BY <1>1, <1>6 DEF RestartInv
<1> QED
    BY <1>1, <1>2, <1>3, <1>7, SessionMover

\* The frame works on x, or will, or has done.
LEMMA NotingGoesOn ==
    ASSUME TypeInv, ConvInv, Silent, NEW p \in Peer, p \in Restarting,
           phase[p] = "listing", OnlyMover(p), NEW x \in AllPath,
           local[p].pc # "idle" => local[p].path = x,
           local'[p].pc # "idle" => local'[p].path = x,
           log' = log, view' = view, disk' = disk, phase' = phase,
           dirty' = dirty, owed' = owed, remote' = remote, queue' = queue,
           \A y \in AllPath \ {x} : /\ tracked'[p][y] = tracked[p][y]
                                    /\ y \in listing[p] => y \in listing'[p],
           disk[p][x] # None => Synced(p, x)' \/ x \in listing'[p] \/ local'[p].pc # "idle",
           local'[p].pc \in {"idle", "read", "lookup", "publish"},
           local'[p].pc = "lookup" => local'[p].data = disk[p][x]
    PROVE  ConvInv'
<1>1. /\ Starting(p) /\ Starting(p)' /\ NotingInv(p)
      /\ \A y \in AllPath : ~Own(p, y)
    BY Restarted DEF Starting
<1>2. \A y \in AllPath \ {x} : ~Handled(p, y) /\ (Synced(p, y)' <=> Synced(p, y))
    BY DEF Handled, Synced, Applied
<1>3. local'[p].pc # "idle" => Handled(p, x)'
    BY DEF Handled
<1>4. ASSUME NEW y \in AllPath, disk[p][y] # None
      PROVE  Synced(p, y)' \/ y \in listing'[p] \/ Handled(p, y)'
  <2>1. CASE y = x
    BY <1>3, <1>4, <2>1
  <2>2. CASE y # x
    BY <1>1, <1>2, <1>4, <2>2 DEF NotingInv
  <2> QED
    BY <2>1, <2>2
<1>5. NotingInv(p)'
    BY <1>1, <1>4 DEF NotingInv
<1>6. RestartInv(p)'
    BY <1>5 DEF RestartInv
<1> QED
    BY <1>1, <1>6, SessionMover

LEMMA NotingPick ==
    ASSUME TypeInv, ConvInv, Silent, NEW p \in Peer, p \in Restarting, OnlyMover(p),
           ListPick(p)
    PROVE  ConvInv'
<1>1. PICK x \in listing[p] :
        /\ listing' = [listing EXCEPT ![p] = @ \ {x}]
        /\ local' = [local EXCEPT ![p] = [IdleLocal EXCEPT !.pc = "read", !.path = x]]
    BY DEF ListPick, Becomes
<1>2. /\ phase[p] = "listing" /\ local[p].pc = "idle" /\ log' = log /\ view' = view
      /\ disk' = disk /\ dirty' = dirty /\ tracked' = tracked
      /\ owed' = owed /\ queue' = queue /\ remote' = remote /\ phase' = phase
    BY DEF ListPick
<1>3. x \in AllPath
    BY PeerTypes
<1>4. local'[p].pc = "read" /\ local'[p].path = x /\ listing'[p] = listing[p] \ {x}
    BY <1>1 DEF TypeInv, TypeOK, IdleLocal
<1> QED
    BY <1>2, <1>3, <1>4, NotingGoesOn

LEMMA NotingLocal ==
    ASSUME TypeInv, ConvInv, Silent, Silent', NEW p \in Peer, p \in Restarting,
           phase[p] = "listing", OnlyMover(p), LocalStep(p)
    PROVE  ConvInv'
<1>1. NotingInv(p) /\ local[p] \in LocalFrame
    BY Restarted DEF Starting, TypeInv, TypeOK
<1>2. ~SuppressEvent(p) /\ ~TakeEvent(p)
    BY <1>1 DEF SuppressEvent, TakeEvent, EventReady, NotingInv
<1>3. ~RecordUpload(p) /\ ~FindDeleted(p) /\ ~PublishTombstone(p) /\ ~ForgetDeleted(p)
    BY <1>1 DEF RecordUpload, FindDeleted, PublishTombstone, ForgetDeleted, At, NotingInv
<1>4. ~PublishFile(p)
    BY PublisherSpeaks
<1>5. local[p].pc # "idle"
    BY <1>2, <1>3, <1>4 DEF LocalStep, ReadLocalFile, SkipUnchanged, BaseOnManifest, At
<1>6. PICK x \in AllPath : x = local[p].path
    BY <1>5, PeerTypes
<1>7. CASE ReadLocalFile(p)
  <2>1. /\ log' = log /\ view' = view /\ disk' = disk /\ dirty' = dirty
        /\ owed' = owed /\ remote' = remote /\ phase' = phase
        /\ tracked' = tracked /\ queue' = queue /\ listing' = listing
        /\ local' = [local EXCEPT ![p] =
                IF disk[p][x] = None THEN IdleLocal
                ELSE [local[p] EXCEPT !.pc = "lookup", !.data = disk[p][x]]]
    BY <1>6, <1>7 DEF ReadLocalFile, Becomes
  <2>2. IF disk[p][x] = None THEN local'[p].pc = "idle"
        ELSE local'[p].pc = "lookup" /\ local'[p].path = x /\ local'[p].data = disk[p][x]
    BY <1>1, <1>6, <2>1 DEF TypeInv, TypeOK, LocalFrame, IdleLocal
  <2> QED
    BY <1>6, <2>1, <2>2, NotingGoesOn
<1>8. CASE SkipUnchanged(p)
  <2>1. IsFile(view[p][x]) /\ view[p][x].hash = disk[p][x] /\ local[p].data = disk[p][x]
    BY <1>1, <1>6, <1>8 DEF SkipUnchanged, At, SameAsManifest, LookedUp, NotingInv
  <2>2. /\ log' = log /\ view' = view /\ disk' = disk /\ dirty' = dirty
        /\ owed' = owed /\ remote' = remote /\ phase' = phase
        /\ queue' = queue /\ listing' = listing
        /\ tracked' = [tracked EXCEPT ![p][x] = disk[p][x]]
        /\ local' = [local EXCEPT ![p] = IdleLocal]
    BY <1>6, <1>8, <2>1 DEF SkipUnchanged, Becomes
  <2>3. local'[p].pc = "idle" /\ tracked'[p] = [tracked[p] EXCEPT ![x] = disk[p][x]]
    BY <2>2 DEF TypeInv, TypeOK, IdleLocal
  <2>4. tracked'[p][x] = disk[p][x] /\ \A y \in AllPath \ {x} : tracked'[p][y] = tracked[p][y]
    BY <2>3, PeerTypes
  <2>5. Synced(p, x)'
    BY <2>1, <2>2, <2>4 DEF Applied, Synced, Shown
  <2> QED
    BY <1>6, <2>2, <2>3, <2>4, <2>5, NotingGoesOn
<1>9. CASE BaseOnManifest(p)
  <2>1. /\ log' = log /\ view' = view /\ disk' = disk /\ dirty' = dirty
        /\ owed' = owed /\ remote' = remote /\ phase' = phase
        /\ tracked' = tracked /\ queue' = queue /\ listing' = listing
        /\ local' = [local EXCEPT ![p] =
                        [local[p] EXCEPT !.pc = "publish", !.base = NextBase(LookedUp(p))]]
    BY <1>9 DEF BaseOnManifest, Becomes
  <2>2. local'[p].pc = "publish" /\ local'[p].path = x
    BY <1>1, <1>6, <2>1 DEF TypeInv, TypeOK, LocalFrame
  <2> QED
    BY <1>6, <2>1, <2>2, NotingGoesOn
<1> QED
    BY <1>2, <1>3, <1>4, <1>7, <1>8, <1>9 DEF LocalStep

-----------------------------------------------------------------------------
(***************************************************************************)
(* A peer that leaves: nothing depends on what it leaves behind.           *)
(***************************************************************************)
LEMMA LeavingKept ==
    ASSUME TypeInv, ConvInv, NEW p \in Peer, p \in Restarting, OnlyMover(p),
           Stop(p) \/ Crash(p) \/ StartFails(p) \/ Stopped(p)
    PROVE  ConvInv'
<1>1. log' = log /\ view' = view /\ disk' = disk
    BY DEF Stop, Crash, StartFails, Stopped, Reset
<1>2. phase'[p] = "stopping" \/ (phase'[p] = "down" /\ IdleInv(p)')
  <2>1. CASE Stop(p)
    BY <2>1 DEF Stop, Enter, TypeInv, TypeOK
  <2>2. CASE Crash(p) \/ StartFails(p) \/ Stopped(p)
    <3>1. Reset(p)
        BY <2>2 DEF Crash, StartFails, Stopped
    <3>2. /\ phase'[p] = "down" /\ dirty'[p] = {} /\ queue'[p] = <<>>
          /\ local'[p] = IdleLocal /\ owed'[p] = FALSE /\ remote'[p] = IdleRemote
        BY <3>1 DEF Reset, TypeInv, TypeOK
    <3> QED
        BY <3>2 DEF IdleInv
  <2> QED
    BY <2>1, <2>2
<1>3. PeerInv(p)' /\ ~Live(p)' /\ ~Starting(p)'
    BY <1>2 DEF PeerInv, RestartInv, Live, Starting
<1>4. CopiesInv' /\ \A x \in AllPath : view'[p][x] \in log[x] \cup {None}
    BY <1>1 DEF ConvInv, CopiesInv, KnownViews
<1> QED
    BY <1>1, <1>3, <1>4, UnseenMover

\* stop(): what is under way goes on until both queues are empty.
LEMMA StoppingKept ==
    ASSUME TypeInv, ConvInv, Sound, Silent', NEW p \in Peer, OnlyMover(p),
           phase[p] = "stopping", LocalStep(p) \/ RemoteStep(p)
    PROVE  ConvInv'
<1>1. p \in Restarting /\ KnownViews /\ CopiesInv
    BY DEF ConvInv, PeerInv, JoinInv
<1>2. ~PublishFile(p) /\ ~PublishTombstone(p)
    BY <1>1, PublisherSpeaks
<1>3. log' = log /\ view' = view /\ phase' = phase
    BY <1>2 DEF LocalStep, SuppressEvent, TakeEvent, ReadLocalFile, SkipUnchanged,
        BaseOnManifest, RecordUpload, FindDeleted, ForgetDeleted,
        RemoteStep, ScanBegin, PickEntry, AlreadyInSync, NothingNew, StartDownload,
        YieldToLocal, LocalYielded, StartConflict, StartPreserve, DeletionVoid, StartDelete,
        AlreadyDeleted, SaveConflictCopy, ApplyRemote, RecordDownload, DeleteLocal,
        ForgetRemote, ScanEnd
<1>4. CopiesInv'
  <2>1. CASE disk' = disk
    BY <1>1, <1>3, <2>1 DEF CopiesInv
  <2>2. CASE SaveConflictCopy(p) \/ ApplyRemote(p) \/ DeleteLocal(p)
    <3>1. remote[p].pc \in {"copy", "fetch", "delete"}
        BY <2>2 DEF SaveConflictCopy, ApplyRemote, DeleteLocal, Doing
    <3>2. PICK x \in AllPath : x = X(p)
        BY <3>1, PeerTypes
    <3>3. log[x] # {}
        BY <3>1, <3>2 DEF Sound, RemoteSound, RemoteFrameSound, X
    <3>4. \E z, c : disk' = [disk EXCEPT ![p][z] = c] /\ (z = x \/ z.by = p)
      <4>1. CASE SaveConflictCopy(p)
        <5>1. PICK k : disk' = [disk EXCEPT ![p][CopyPath(x, p, k)] = remote[p].seen]
            BY <3>2, <4>1 DEF SaveConflictCopy, Touch
        <5>2. CopyPath(x, p, k).by = p
            BY DEF CopyPath
        <5> QED
            BY <5>1, <5>2
      <4>2. CASE ApplyRemote(p) \/ DeleteLocal(p)
        BY <3>2, <4>2 DEF ApplyRemote, DeleteLocal, Touch
      <4> QED
        BY <2>2, <4>1, <4>2
    <3>5. PICK z, c : disk' = [disk EXCEPT ![p][z] = c] /\ (z = x \/ z.by = p)
        BY <3>4
    <3>6. ASSUME NEW q \in Peer, NEW y \in Copies, disk'[q][y] # None
          PROVE  y.by = q \/ log'[y] # {}
      <4>1. disk'[q][y] = disk[q][y] \/ (q = p /\ y = z)
        BY <3>5 DEF TypeInv, TypeOK
      <4> QED
        BY <1>1, <1>3, <3>3, <3>5, <3>6, <4>1 DEF CopiesInv
    <3> QED
        BY <3>6 DEF CopiesInv
  <2> QED
    BY <1>2, <2>1, <2>2 DEF LocalStep, SuppressEvent, TakeEvent, ReadLocalFile, SkipUnchanged,
        BaseOnManifest, RecordUpload, FindDeleted, ForgetDeleted,
        RemoteStep, ScanBegin, PickEntry, AlreadyInSync, NothingNew, StartDownload,
        YieldToLocal, LocalYielded, StartConflict, StartPreserve, DeletionVoid, StartDelete,
        AlreadyDeleted, RecordDownload, ForgetRemote, ScanEnd
<1>5. PeerInv(p)' /\ ~Live(p)' /\ ~Starting(p)'
    BY <1>1, <1>3 DEF PeerInv, RestartInv, Live, Starting
<1>6. \A x \in AllPath : view'[p][x] \in log[x] \cup {None}
    BY <1>1, <1>3 DEF KnownViews
<1> QED
    BY <1>1, <1>3, <1>4, <1>5, <1>6, UnseenMover

-----------------------------------------------------------------------------
(***************************************************************************)
(* start() is through: the folder matches the manifest.                    *)
(***************************************************************************)
LEMMA OpenWatcherKept ==
    ASSUME TypeInv, ConvInv, Silent, NEW p \in Peer, OnlyMover(p), OpenWatcher(p)
    PROVE  ConvInv'
<1>1. /\ phase[p] = "listing" /\ listing[p] = {} /\ local[p].pc = "idle"
      /\ log' = log /\ view' = view /\ disk' = disk /\ dirty' = dirty /\ tracked' = tracked
      /\ suppressed' = suppressed /\ local' = local /\ queue' = queue /\ remote' = remote
      /\ phase'[p] = "live" /\ known'[p] = OnDisk(p) /\ owed'[p]
    BY DEF OpenWatcher, Enter, TypeInv, TypeOK
<1>2. /\ PeerInv(p) /\ SessionInv(p) /\ Starting(p)
      /\ p \notin Restarting => ListingInv(p)
      /\ p \in Restarting => NotingInv(p)
    BY <1>1, Listing, Restarted DEF Starting
<1>3. p \in Joining \cup Restarting /\ dirty[p] = {}
    BY <1>1, <1>2 DEF PeerInv, Live, SessionInv
<1>4. remote[p].pc = "idle" /\ remote[p].snap = {} /\ queue[p] = <<>>
    BY <1>2 DEF ListingInv, NotingInv
<1>5. ASSUME NEW x \in AllPath
      PROVE  /\ Applied(p, x)' /\ Noted(p, x)' /\ Newest(p, x)' /\ ~Queued(p, x)'
             /\ ~Handled(p, x)' /\ Clean(p, x)' /\ ~Editing(p, x)'
  <2>1. ~Handled(p, x) /\ ~Handled(p, x)' /\ ~Queued(p, x)'
    BY <1>1, <1>4 DEF Handled, Queued
  <2>2. Synced(p, x) \/ (p \in Restarting /\ disk[p][x] = None /\ ~IsFile(view[p][x]))
    BY <1>1, <1>2, <2>1 DEF ListingInv, NotingInv
  <2>3. Applied(p, x)' /\ Noted(p, x)'
    BY <1>1, <2>2 DEF Synced, Applied, Noted, Shown
  <2>4. Newest(p, x)'
    BY <1>1, <1>2, SameNewest DEF SessionInv
  <2>5. Clean(p, x)' /\ ~Editing(p, x)'
    BY <1>1, <1>3, <2>1 DEF Clean, Editing
  <2> QED
    BY <2>1, <2>3, <2>4, <2>5
<1>6. LiveInv(p)'
  <2>1. Items(p)' = {} /\ Held(p)' = {} /\ \A y : ~Writing(p, y)'
    BY <1>1, <1>4 DEF Items, Held, Writing
  <2>2. ScanInv(p)'
    BY <1>1, <1>4, <2>1 DEF ScanInv, OneEach, FrameInv
  <2>3. QueueInv(p)'
    BY <1>1, <1>3, <1>4, <1>5 DEF QueueInv, OnDisk
  <2>4. \A x \in AllPath : KeptInv(p, x)'
    BY <1>1, <1>3, <1>5 DEF KeptInv
  <2> QED
    BY <1>5, <2>2, <2>3, <2>4 DEF LiveInv
<1>7. ASSUME NEW q \in Peer, q # p
      PROVE  PeerInv(q)'
  <2>1. Rests(q) /\ PeerInv(q) /\ ~Starting(q)
    BY <1>2, <1>7 DEF OnlyMover, ConvInv, SessionInv
  <2>2. Live(q) => LiveInv(q)'
    BY <1>1, <1>2, <2>1, LiveKept DEF PeerInv, SessionInv
  <2> QED
    BY <1>1, <2>1, <2>2, SamePeer
<1>8. PeerInv(p)' /\ Live(p)'
    BY <1>1, <1>3, <1>6 DEF PeerInv, JoinInv, RestartInv, Live, Starting
<1>9. KnownViews' /\ CopiesInv'
    BY <1>1 DEF ConvInv, KnownViews, CopiesInv
<1>10. SomeoneNewest'
    BY <1>1, <1>8, SomeoneStays DEF ConvInv
<1>11. \A q \in Peer : PeerInv(q)'
    BY <1>7, <1>8
<1> QED
    BY <1>9, <1>10, <1>11 DEF ConvInv

-----------------------------------------------------------------------------
(***************************************************************************)
(* ConvInv holds initially, and every step keeps it.                       *)
(***************************************************************************)
LEMMA SeedFacts ==
    ASSUME NEW x \in AllPath
    PROVE  /\ SeedEntry(x) \in UserManifestValue \cup {None}
           /\ Shown(SeedEntry(x)) = Seeded[x]
           /\ SeedEntry(x) # None => SeedEntry(x).writerKey = SeedWriter
<1>1. SeedWriter \in Peer /\ Seed \in Content \cup {None}
    BY ConstantsAssumption
<1>2. CASE x \in Path /\ Seed # None
  <2>1. /\ SeedEntry(x).kind = "file" /\ SeedEntry(x).hash = Seed
        /\ SeedEntry(x) \in UserManifestValue /\ SeedEntry(x).writerKey = SeedWriter
    BY <1>1, <1>2
    DEF SeedEntry, File, UserManifestValue, FileMetadata, Position
  <2> QED
    BY <1>2, <2>1, EntryFacts DEF Seeded
<1>3. CASE ~(x \in Path /\ Seed # None)
    BY <1>3, NoEntry DEF SeedEntry, Seeded
<1> QED
    BY <1>2, <1>3

LEMMA InitConv ==
    ASSUME Orderly, Init
    PROVE  ConvInv
<1>1. ASSUME NEW x \in AllPath
      PROVE  log[x] = {SeedEntry(x)} \ {None}
    BY DEF Init
<1>2. ASSUME NEW p \in Peer \ Joining, NEW x \in AllPath
      PROVE  /\ view[p][x] = SeedEntry(x) /\ disk[p][x] = Seeded[x]
             /\ tracked[p][x] = Seeded[x]
  <2>1. view[p] = [y \in AllPath |-> SeedEntry(y)] /\ disk[p] = Seeded /\ tracked[p] = Seeded
    BY DEF Init
  <2> QED
    BY <2>1
<1>3. ASSUME NEW p \in Joining
      PROVE  /\ p \in Peer /\ view[p] = NoFiles /\ tracked[p] = NoFiles
             /\ \A x \in AllPath : view[p][x] = None
             /\ disk[p] \in Folders
    BY ConstantsAssumption DEF Init, NoFiles
<1>4. ASSUME NEW p \in Peer
      PROVE  /\ dirty[p] = {} /\ suppressed[p] = {} /\ queue[p] = <<>> /\ local[p] = IdleLocal
             /\ ~owed[p] /\ remote[p] = IdleRemote
             /\ phase[p] = IF p \in Joining THEN "down" ELSE "live"
             /\ local[p].pc = "idle" /\ remote[p].pc = "idle" /\ remote[p].snap = {}
             /\ p \notin Joining => known[p] = OnDisk(p)
    BY DEF Init, IdleLocal, IdleRemote
<1>5. ASSUME NEW p \in Peer \ Joining, NEW x \in AllPath
      PROVE  Newest(p, x) /\ Applied(p, x) /\ tracked[p][x] = disk[p][x]
    BY <1>1, <1>2, SeedFacts DEF Newest, Applied
<1>6. KnownViews
    BY <1>1, <1>2, <1>3 DEF KnownViews
<1>7. SomeoneNewest
  <2>1. SeedWriter \in Peer \ Joining /\ SeedWriter \notin Restarting
    BY ConstantsAssumption DEF Orderly
  <2>2. Live(SeedWriter)
    BY <1>4, <2>1 DEF Live
  <2> QED
    BY <1>5, <2>1, <2>2 DEF SomeoneNewest
<1>8. CopiesInv
  <2>1. ASSUME NEW p \in Peer, NEW y \in Copies
        PROVE  disk[p][y] = None
    <3>1. disk[p] \in Folders
        BY DEF Init
    <3> QED
        BY <3>1 DEF Folders
  <2> QED
    BY <2>1 DEF CopiesInv
<1>9. ASSUME NEW p \in Peer \ Joining
      PROVE  PeerInv(p)
  <2>1. \A x : ~Queued(p, x) /\ ~Handled(p, x) /\ Clean(p, x) /\ ~Editing(p, x) /\ ~Writing(p, x)
    BY <1>4 DEF Queued, Handled, Clean, Editing, Writing
  <2>2. ScanInv(p)
    BY <1>4, <2>1 DEF ScanInv, OneEach, FrameInv, Items, Held
  <2>3. QueueInv(p)
    BY <1>4, <2>1 DEF QueueInv, OnDisk
  <2>4. \A x \in AllPath : KeptInv(p, x)
    BY <1>4, <1>5, <2>1 DEF KeptInv, Noted
  <2>5. LiveInv(p)
    BY <2>1, <2>2, <2>3, <2>4 DEF LiveInv
  <2> QED
    BY <1>4, <2>5 DEF PeerInv, JoinInv, RestartInv, Live, Starting
<1>10. ASSUME NEW p \in Joining
       PROVE  PeerInv(p)
  <2>1. ASSUME NEW x \in AllPath, NEW e \in log[x]
        PROVE  e.writerKey # p
    BY <1>1, <2>1, SeedFacts, ConstantsAssumption
  <2>2. \A y \in Copies : log[y] = {} /\ disk[p][y] = None
    BY <1>1, <1>3, PathAssumption DEF AllPath, SeedEntry, Folders
  <2>3. FreshInv(p) /\ NoCopiesOf(p)
    BY <1>3, <1>4, <2>1, <2>2 DEF FreshInv, NoCopiesOf
  <2>4. IdleInv(p)
    BY <1>3, <1>4 DEF IdleInv
  <2> QED
    BY <1>3, <1>4, <2>3, <2>4 DEF PeerInv, JoinInv, RestartInv, Live, Starting
<1> QED
    BY <1>6, <1>7, <1>8, <1>9, <1>10 DEF ConvInv

LEMMA SessionMoves ==
    ASSUME TypeInv, ConvInv, Orderly, Silent, NEW p \in Peer, OnlyMover(p),
           SessionStep(p) \/ Ready(p)
    PROVE  ConvInv'
<1>1. Stopped(p) => p \in Restarting
    BY DEF ConvInv, PeerInv, JoinInv, Stopped
<1>2. Ready(p) => phase[p] = "down"
    BY DEF Ready, Enter
<1>3. CASE p \in Restarting
    BY <1>2, <1>3, StartKept, NotingBegins, NotingPick, OpenWatcherKept, UnseenKept, LeavingKept
    DEF SessionStep
<1>4. CASE p \notin Restarting
    BY <1>1, <1>2, <1>4, StartKept, BeginListingKept, ListPickKept, OpenWatcherKept, UnseenKept
    DEF SessionStep
<1> QED
    BY <1>3, <1>4

\* Queues that are empty do nothing.
LEMMA IdleRests ==
    ASSUME NEW p \in Peer, IdleInv(p)
    PROVE  ~Watch(p) /\ ~LocalStep(p) /\ ~RemoteStep(p)
<1>1. /\ dirty[p] = {} /\ queue[p] = <<>> /\ local[p].pc = "idle" /\ remote[p].pc = "idle"
      /\ ~owed[p]
    BY DEF IdleInv, IdleLocal, IdleRemote
<1>2. ~Watch(p)
    BY <1>1 DEF Watch
<1>3. ~LocalStep(p)
    BY <1>1 DEF LocalStep, SuppressEvent, TakeEvent, EventReady, ReadLocalFile, SkipUnchanged,
        BaseOnManifest, PublishFile, RecordUpload, FindDeleted, PublishTombstone,
        ForgetDeleted, At
<1>4. ~RemoteStep(p)
    BY <1>1 DEF RemoteStep, ScanBegin, PickEntry, AlreadyInSync, NothingNew, StartDownload,
        YieldToLocal, LocalYielded, StartConflict, StartPreserve, DeletionVoid, StartDelete,
        AlreadyDeleted, SaveConflictCopy, ApplyRemote, RecordDownload, DeleteLocal,
        ForgetRemote, ScanEnd, Differs, Comparing, Doing
<1> QED
    BY <1>2, <1>3, <1>4

LEMMA OtherMoves ==
    ASSUME TypeInv, Sound, ConvInv, Orderly, Silent, Silent', NEW p \in Peer, OnlyMover(p),
           \/ Watch(p) \/ LocalStep(p) \/ RemoteStep(p)
           \/ \E r \in Peer : Replicate(p, r)
    PROVE  ConvInv'
<1>1. CASE Live(p)
    BY <1>1, LiveWatch, LiveLocalKept, LiveRemoteKept, LiveReplicate
<1>2. CASE phase[p] \in {"down", "ready"}
  <2>1. IdleInv(p)
    BY <1>2, IdlePeer DEF ConvInv
  <2> QED
    BY <1>2, <2>1, IdleRests, UnseenKept
<1>3. CASE phase[p] \in {"reconcile", "listing"}
  <2>1. ~\E r \in Peer : Replicate(p, r)
    BY <1>3 DEF Replicate, Orderly
  <2>2. dirty[p] = {} /\ ~owed[p]
    BY <1>3 DEF ConvInv, PeerInv, Starting, SessionInv
  <2>3. ~Watch(p)
    BY <2>2 DEF Watch
  <2>4. CASE phase[p] = "reconcile"
    BY <2>1, <2>3, <2>4, ReconcileLocal, ReconcileRemote, ComparingLocal, ComparingRemote
  <2>5. CASE phase[p] = "listing"
    <3>1. remote[p].pc = "idle"
        BY <2>5, Listing, Restarted DEF Starting, NotingInv
    <3>2. ~RemoteStep(p)
        BY <2>2, <3>1 DEF RemoteStep, ScanBegin, PickEntry, AlreadyInSync, NothingNew,
            StartDownload, YieldToLocal, LocalYielded, StartConflict, StartPreserve,
            DeletionVoid, StartDelete, AlreadyDeleted, SaveConflictCopy, ApplyRemote,
            RecordDownload, DeleteLocal, ForgetRemote, ScanEnd, Differs, Comparing, Doing
    <3> QED
        BY <2>1, <2>3, <2>5, <3>2, ListingLocal, NotingLocal
  <2> QED
    BY <1>3, <2>4, <2>5
<1>4. CASE phase[p] = "stopping"
  <2>1. ~Watch(p)
    BY <1>4 DEF Watch, WatchUpdate, WatchDelete, WatchNothing, Emit
  <2> QED
    BY <1>4, <2>1, StoppingKept, UnseenKept
<1>5. phase[p] \in Phases
    BY DEF TypeInv, TypeOK
<1> QED
    BY <1>1, <1>2, <1>3, <1>4, <1>5 DEF Phases, Live

\* Who has been silent after a step was silent before.
LEMMA StillSilent ==
    ASSUME TypeInv, [Next]_vars, Silent'
    PROVE  Silent
<1>1. \A x \in AllPath : log[x] \subseteq log'[x]
  <2>1. CASE Next
    BY <2>1, SharedGrows
  <2>2. CASE UNCHANGED vars
    BY <2>2 DEF vars
  <2> QED
    BY <2>1, <2>2
<1> QED
    BY <1>1 DEF Silent

LEMMA ConvKept ==
    ASSUME Orderly, TypeInv, Sound, Silent => ConvInv, [Next]_vars, Silent'
    PROVE  ConvInv'
<1>0. Silent /\ ConvInv
    BY StillSilent
<1>1. CASE Next
  <2>1. PICK p \in Peer : Moves(p) \/ (p \in Restarting /\ Leaves(p))
    BY <1>1, Mover
  <2>2. OnlyMover(p)
    BY <2>1, OthersRest DEF Leaves, Disturbs
  <2>3. CASE Moves(p)
    BY <1>0, <2>2, <2>3, UserKept, SessionMoves, OtherMoves DEF Moves
  <2>4. CASE p \in Restarting /\ Leaves(p)
    BY <1>0, <2>2, <2>4, LeavingKept DEF Leaves
  <2> QED
    BY <2>1, <2>3, <2>4
<1>2. CASE UNCHANGED vars
  <2>1. PICK p \in Peer : TRUE
    BY ConstantsAssumption
  <2>2. /\ log' = log /\ \A q \in Peer : Rests(q)
    BY <1>2 DEF vars, Rests
  <2>3. \A q \in Peer : /\ Live(q)' <=> Live(q)
                        /\ Starting(q)' <=> Starting(q)
    BY <2>2 DEF Rests, Live, Starting
  <2>4. ASSUME NEW q \in Peer
        PROVE  PeerInv(q)'
    <3>1. Rests(q) /\ PeerInv(q)
        BY <1>0, <2>2 DEF ConvInv
    <3>2. ASSUME NEW x \in AllPath, AloneAt(q, x)
          PROVE  AloneAt(q, x)'
      <4>1. \A r \in Peer : Live(r)' =>
                /\ Resting(r)' /\ view'[r] = view'[q]
                /\ \A y \in AllPath : r # q \/ y # x => Clean(r, y)'
        BY <2>2, <2>3, <3>2, SamePaths DEF AloneAt, Rests, Resting
      <4> QED
        BY <2>3, <3>2, <4>1 DEF AloneAt
    <3>3. Live(q) => LiveInv(q)'
        BY <2>2, <3>1, <3>2, LiveKept DEF PeerInv
    <3>4. ASSUME SessionInv(q)
          PROVE  SessionInv(q)'
      <4>1. ASSUME NEW x \in AllPath, Untouched(q, x)
            PROVE  Untouched(q, x)'
        <5>1. ASSUME NEW r \in Peer, Live(r)
              PROVE  view'[r][x] = view'[q][x] /\ Settled(r, x)'
            BY <2>2, <4>1, <5>1, SamePaths DEF Untouched, Rests
        <5> QED
            BY <2>3, <5>1 DEF Untouched
      <4>2. \A x \in AllPath : /\ Newest(q, x)' <=> Newest(q, x)
                               /\ Own(q, x)' <=> Own(q, x)
                               /\ Uploaded(q, x)' <=> Uploaded(q, x)
        BY <2>2, SameNewest, SamePaths DEF Rests
      <4>3. \A r \in Peer : Live(r)' => \A x \in AllPath : ~Editing(r, x)'
        BY <2>2, <2>3, <3>4, SamePaths DEF SessionInv
      <4> QED
        BY <2>2, <2>3, <3>4, <4>1, <4>2, <4>3 DEF SessionInv, Rests
    <3> QED
        BY <2>2, <3>1, <3>3, <3>4, SamePeer DEF PeerInv
  <2>5. KnownViews' /\ CopiesInv'
    BY <1>0, <2>2 DEF ConvInv, KnownViews, CopiesInv, Rests
  <2>6. SomeoneNewest'
    BY <1>0, <2>2, <2>3, SameNewest DEF ConvInv, SomeoneNewest, Rests
  <2> QED
    BY <2>4, <2>5, <2>6 DEF ConvInv
<1> QED
    BY <1>1, <1>2

-----------------------------------------------------------------------------
(***************************************************************************)
(* What follows from the invariant.                                        *)
(***************************************************************************)
LEMMA Converge ==
    ASSUME Orderly
    PROVE  Spec => [](Silent => ConvInv)
<1>1. Init => (Silent => ConvInv)
    BY InitConv
<1>2. TypeInv /\ Sound /\ (Silent => ConvInv) /\ [Next]_vars => (Silent => ConvInv)'
    BY ConvKept
<1> QED
    BY <1>1, <1>2, Invariance, PTL DEF Spec

LEMMA ConvergeUndisturbed ==
    ASSUME Undisturbed
    PROVE  Spec => []ConvInv
<1>1. Orderly /\ Silent
    BY DEF Undisturbed, Silent
<1>2. Spec => [](Silent => ConvInv)
    BY <1>1, Converge
<1> QED
    BY <1>1, <1>2, PTL

(***************************************************************************)
(* Whoever stops, crashes, gives up a start and comes back, has published  *)
(* nothing so far: then every folder at rest holds what the manifest       *)
(* names.  Whatever was cut off, initialSync (551-620) fetches the files   *)
(* that are missing, and lists every file there is, so that one the        *)
(* manifest does not name (575) is published sooner than passed over.      *)
(***************************************************************************)
THEOREM RestartsConverge ==
    ASSUME Orderly
    PROVE  Spec => [](Silent => FoldersMatchManifest)
<1>1. TypeInv /\ ConvInv => FoldersMatchManifest
    BY RestMatches DEF FoldersMatchManifest, Settled, Applied
<1>2. Spec => [](Silent => ConvInv)
    BY Converge
<1> QED
    BY <1>1, <1>2, Invariance, PTL

(***************************************************************************)
(* Followers that are silent keep up: whatever restarts, crashes and       *)
(* abandoned starts they went through (stop at 156-166, start at 111-154), *)
(* at rest their folders match the manifest.                               *)
(***************************************************************************)
THEOREM FollowersCatchUp ==
    ASSUME Orderly
    PROVE  Spec => []FollowersKeepUp
<1>1. OnlyEditorsPublished => Silent
    BY DEF OnlyEditorsPublished, Silent, Orderly
<1>2. Spec => [](Silent => FoldersMatchManifest)
    BY RestartsConverge
<1> QED
    BY <1>1, <1>2, PTL DEF FollowersKeepUp

(***************************************************************************)
(* While no engine is stopped, crashes or fails to fetch, and users act    *)
(* only at rest, every folder at rest holds what the manifest names: each  *)
(* entry handleRemoteUpdate (298-386) and handleRemoteDeletion (388-461)   *)
(* were to bring has arrived, each change handleLocalChange (190-270) was  *)
(* to publish is published, and initialSync (551-620) has merged the       *)
(* folder of every peer that joined.                                       *)
(***************************************************************************)
THEOREM FoldersConverge ==
    ASSUME Undisturbed
    PROVE  Spec => []FoldersMatchManifest
<1>1. TypeInv /\ ConvInv => FoldersMatchManifest
    BY RestMatches DEF FoldersMatchManifest, Settled, Applied
<1>2. Spec => []ConvInv
    BY ConvergeUndisturbed
<1> QED
    BY <1>1, <1>2, Invariance, PTL

(***************************************************************************)
(* Who publishes over an entry of another.  A live engine does so for an   *)
(* edit of its user, and had brought the entry into its folder before; an  *)
(* engine in initialSync does so in the scan, under local-wins, and lists  *)
(* its folder when it has all the files of others already.                 *)
(***************************************************************************)
Publishes(p) == PublishFile(p) \/ PublishTombstone(p)

LEMMA PublisherIs ==
    ASSUME TypeInv, Sound, Next, NEW p \in Peer, NEW x \in AllPath,
           log'[x] # log[x], view'[p][x] # view[p][x]
    PROVE  Publishes(p) /\ x = local[p].path
<1>1. ~\E r, s \in Peer : Replicate(r, s)
    BY DEF Replicate
<1>2. PICK r \in Peer : Publishes(r)
    BY <1>1, WhoWritesManifest DEF Publishes
<1>3. PICK e : /\ log' = [log EXCEPT ![local[r].path] = @ \cup {e}]
               /\ view' = [view EXCEPT ![r][local[r].path] = e]
    BY <1>2, PublishedEntry DEF Publishes
<1>4. view \in [Peer -> [AllPath -> UserManifestValue \cup {None}]]
    BY DEF TypeInv, TypeOK, ManifestTypeOK
<1>5. x = local[r].path
    BY <1>3, <1>4 DEF TypeInv, TypeOK, ManifestTypeOK
<1>6. r = p
    BY <1>3, <1>4
<1> QED
    BY <1>2, <1>5, <1>6

LEMMA Incorporated ==
    ASSUME Undisturbed, TypeInv, ConvInv, Sound, Next, NEW p \in Peer, NEW x \in AllPath,
           Replaces(p, x)
    PROVE  \/ tracked[p][x] = view[p][x].hash
           \/ tracked[p][x] = None /\ policy[p] = "local-wins"
<1>1. /\ local[p].pc \in {"publish", "entomb"} /\ x = local[p].path
      /\ IsFile(view[p][x]) /\ view[p][x].writerKey # p
    BY PublisherIs DEF Replaces, Publishes, PublishFile, PublishTombstone, At
<1>2. CASE Live(p)
  <2>1. Unpublished(p, x)
    BY <1>1, <1>2, FrameEdit
  <2> QED
    BY <1>1, <2>1 DEF Unpublished, Shown
<1>3. CASE phase[p] = "reconcile"
  <2>1. ReconcileInv(p)
    BY <1>3 DEF Undisturbed, ConvInv, PeerInv, JoinInv
  <2>2. PICK y \in AllPath : X(p) = y
    BY <1>1, <2>1, PathAssumption DEF ReconcileInv, AwaitInv, AllPath
  <2>3. AwaitAt(p, y)
    BY <1>1, <2>1, <2>2, AwaitIsAt DEF ReconcileInv
  <2> QED
    BY <1>1, <2>3 DEF AwaitAt, Own
<1>4. CASE phase[p] = "listing"
    BY <1>1, <1>4 DEF Undisturbed, ConvInv, PeerInv, JoinInv, ListingInv
<1>5. CASE phase[p] \in {"down", "ready"}
    BY <1>1, <1>5 DEF Undisturbed, ConvInv, PeerInv, JoinInv, FreshInv, IdleLocal
<1>6. phase[p] \in Phases /\ phase[p] # "stopping"
    BY DEF Undisturbed, TypeInv, TypeOK, ConvInv, PeerInv, JoinInv
<1> QED
    BY <1>2, <1>3, <1>4, <1>5, <1>6 DEF Phases, Live

(***************************************************************************)
(* Among undisturbed engines nobody replaces a file entry of another       *)
(* unless its own file descends from it: handleLocalChange (217, 254) and  *)
(* initialSync (592) take the entry they find as the base, and by then the *)
(* engine has applied it, or the peer joins under local-wins.              *)
(***************************************************************************)
THEOREM ReplacedAfterIncorporated ==
    ASSUME Undisturbed
    PROVE  Spec => IncorporatedBeforeReplaced
<1> DEFINE Descends == \A p \in Peer, x \in AllPath :
                Replaces(p, x) =>
                    \/ tracked[p][x] = view[p][x].hash
                    \/ tracked[p][x] = None /\ policy[p] = "local-wins"
<1>1. TypeInv /\ Sound /\ ConvInv /\ [Next]_vars => [Descends]_vars
    BY Incorporated
<1>2. Spec => []ConvInv
    BY ConvergeUndisturbed
<1> QED
    BY <1>1, <1>2, Invariance, PTL DEF Spec, IncorporatedBeforeReplaced

(***************************************************************************)
(* A session has a policy it may be started with (EngineManager), or the   *)
(* default one.                                                            *)
(***************************************************************************)
ChosenPolicies == \A p \in Peer : policy[p] \in Policy \cup {DefaultPolicy}

LEMMA PoliciesChosen == Spec => []ChosenPolicies
<1>1. Init => ChosenPolicies
    BY DEF Init, ChosenPolicies
<1>2. ASSUME TypeInv, ChosenPolicies, [Next]_vars
      PROVE  ChosenPolicies'
  <2>0. policy \in [Peer -> Policies]
    BY <1>2 DEF TypeInv, TypeOK
  <2>1. ASSUME NEW p \in Peer, Ready(p)
        PROVE  ChosenPolicies'
    BY <1>2, <2>0, <2>1 DEF Ready, ChosenPolicies
  <2>2. ASSUME NEW p \in Peer, Stopped(p) \/ Crash(p) \/ StartFails(p)
        PROVE  ChosenPolicies'
    BY <1>2, <2>0, <2>2 DEF Stopped, Crash, StartFails, Reset, ChosenPolicies
  <2>3. ASSUME policy' = policy
        PROVE  ChosenPolicies'
    BY <1>2, <2>3 DEF ChosenPolicies
  <2>4. ASSUME NEW p \in Peer,
               \/ UserWrite(p) \/ UserDelete(p) \/ PublishFile(p) \/ PublishTombstone(p)
               \/ ScanBegin(p) \/ Start(p) \/ BeginListing(p) \/ ListPick(p)
               \/ OpenWatcher(p) \/ Stop(p) \/ ScanFails(p) \/ UnrelatedUpdate(p)
               \/ \E q \in Peer : Replicate(p, q)
        PROVE  policy' = policy
    BY <2>4
    DEF UserWrite, UserDelete, UserEdit, PublishFile, PublishTombstone, ScanBegin,
        Start, BeginListing, ListPick, OpenWatcher, Stop, ScanFails, UnrelatedUpdate,
        Replicate
  <2> QED
    BY <1>2, <2>1, <2>2, <2>3, <2>4, WhoWritesSession DEF vars
<1> QED
    BY <1>1, <1>2, Invariance, PTL DEF Spec

-----------------------------------------------------------------------------
(***************************************************************************)
(* Followers that are stopped and start again, until someone crashes.      *)
(***************************************************************************)
LEMMA FollowerRests ==
    ASSUME NEW q \in Peer, Rests(q), FollowerInv(q)
    PROVE  FollowerInv(q)'
<1> USE DEF Rests
<1>1. \A x : /\ Recorded(q, x)' <=> Recorded(q, x)
             /\ Recording(q, x)' <=> Recording(q, x)
             /\ Followed(q, x)' <=> Followed(q, x)
    BY SamePaths DEF Recorded, Followed, DeletedUnseen
<1>2. /\ M(q)' = M(q) /\ X(q)' = X(q) /\ Items(q)' = Items(q)
    BY DEF M, X, Items, Held
<1>3. DrainInv(q)' <=> DrainInv(q)
    BY <1>2 DEF DrainInv
<1> QED
    BY <1>1, <1>2, <1>3 DEF FollowerInv

\* stop() finds a live follower that has applied or recorded what it downloaded.
LEMMA FollowerStops ==
    ASSUME TypeInv, ConvInv, Orderly, NEW p \in Peer, p \in Restarting, Stop(p)
    PROVE  FollowerInv(p)'
<1>1. /\ phase[p] = "live" /\ phase'[p] = "stopping"
      /\ view' = view /\ disk' = disk /\ tracked' = tracked /\ suppressed' = suppressed
      /\ queue' = queue /\ local' = local /\ remote' = remote
    BY DEF Stop, Enter, TypeInv, TypeOK
<1>2. Live(p) /\ LiveInv(p) /\ QueueInv(p) /\ FrameInv(p)
    BY <1>1 DEF Live, ConvInv, PeerInv, LiveInv, ScanInv
<1>3. \A x \in AllPath : ~Editing(p, x) /\ KeptInv(p, x)
    BY <1>2 DEF Orderly, LiveInv, EditInv
<1>4. local[p].pc = "idle"
    BY <1>2, <1>3, FrameEdit
<1>5. \A x \in AllPath : Recorded(p, x) \/ Recording(p, x)
    BY <1>3 DEF KeptInv, Noted, Recorded
<1>6. ASSUME NEW i \in DOMAIN queue[p]
      PROVE  queue[p][i].path \in suppressed[p]
  <2>0. queue[p] \in Seq(Event)
    BY PeerTypes
  <2>1. queue[p][i] \in Event /\ queue[p][i].path \in AllPath
    <3>1. queue[p][i] \in Event
        BY <2>0
    <3> QED
        BY <3>1 DEF Event
  <2>2. ~Clean(p, queue[p][i].path)
    BY DEF Clean, Queued
  <2> QED
    BY <1>3, <2>1, <2>2 DEF Editing
<1>7. ASSUME remote[p].pc = "record"
      PROVE  disk[p][X(p)] = M(p).hash
  <2>1. Applied(p, X(p)) /\ M(p) = view[p][X(p)] /\ M(p).kind = "file"
    BY <1>2, <1>7 DEF FrameInv, Writing
  <2>2. M(p) \in UserManifestValue
    BY <1>7, PeerTypes
  <2> QED
    BY <2>1, <2>2, EntryFacts DEF Applied
<1>8. DrainInv(p)'
    BY <1>1, <1>2, <1>4, <1>6 DEF DrainInv, QueueInv, FrameInv, M
<1>9. \A x \in AllPath : (Recorded(p, x) \/ Recording(p, x))'
    BY <1>1, <1>5 DEF Recorded, Recording, X
<1> QED
    BY <1>1, <1>2, <1>7, <1>8, <1>9 DEF FollowerInv, FrameInv, X, M

\* Where no download waits for its record, every file is as recorded.
LEMMA FollowerLeaves ==
    ASSUME TypeInv, NEW p \in Peer, FollowerInv(p), Stopped(p) \/ StartFails(p)
    PROVE  FollowerInv(p)'
<1>1. Reset(p) /\ remote[p].pc \in {"idle", "fetch"}
    BY DEF Stopped, StartFails, QueuesIdle, Doing
<1>2. /\ phase'[p] = "down" /\ remote'[p] = IdleRemote /\ disk' = disk /\ tracked' = tracked
    BY <1>1 DEF Reset, TypeInv, TypeOK
<1>3. \A x \in AllPath : Recorded(p, x)'
    BY <1>1, <1>2 DEF FollowerInv, Recording, Recorded
<1>4. remote'[p].pc = "idle"
    BY <1>2 DEF IdleRemote
<1> QED
    BY <1>2, <1>3, <1>4 DEF FollowerInv

LEMMA FollowerReady ==
    ASSUME TypeInv, ConvInv, NEW p \in Peer, p \in Restarting, FollowerInv(p), Ready(p)
    PROVE  FollowerInv(p)'
<1>1. /\ phase[p] = "down" /\ phase'[p] = "ready"
      /\ disk' = disk /\ tracked' = tracked /\ remote' = remote
    BY DEF Ready, Enter, TypeInv, TypeOK
<1>2. remote[p].pc = "idle"
    BY <1>1 DEF ConvInv, PeerInv, RestartInv, IdleInv, IdleRemote
<1> QED
    BY <1>1, <1>2 DEF FollowerInv, Recorded, Recording

\* Every entry of the manifest is one of the first scan.
LEMMA FollowerStarts ==
    ASSUME TypeInv, ConvInv, Silent, NEW p \in Peer, p \in Restarting, FollowerInv(p), Start(p)
    PROVE  FollowerInv(p)'
<1>1. /\ phase[p] = "ready" /\ phase'[p] = "reconcile" /\ remote'[p] = Begun(p)
      /\ view' = view /\ disk' = disk /\ tracked' = tracked
    BY DEF Start, Enter, Turns, TypeInv, TypeOK
<1>2. remote[p].pc = "idle"
    BY <1>1 DEF ConvInv, PeerInv, RestartInv, IdleInv, IdleRemote
<1>3. remote'[p].pc = "pick" /\ remote'[p].snap = List(p)
    BY <1>1 DEF Begun, IdleRemote
<1>4. \A x \in AllPath : Recorded(p, x)'
    BY <1>1, <1>2 DEF FollowerInv, Recorded, Recording
<1>5. ASSUME NEW x \in AllPath, ~(\E i \in Items(p)' : i.path = x)
      PROVE  Followed(p, x)'
  <2>0. SUFFICES ASSUME view[p][x] # None
                 PROVE  FALSE
    BY <1>1 DEF Followed, IsFile, IsTombstone
  <2>1. view[p][x] \in log[x] /\ view[p][x] # None
    BY <2>0 DEF ConvInv, KnownViews
  <2>2. view[p][x].writerKey # p
    BY <2>1 DEF Silent
  <2>3. Entry(p, x) \in List(p) /\ Entry(p, x).path = x
    BY <2>1, <2>2 DEF List, Entry
  <2> QED
    BY <1>3, <1>5, <2>3 DEF Items
<1> QED
    BY <1>1, <1>3, <1>4, <1>5 DEF FollowerInv

-----------------------------------------------------------------------------
(***************************************************************************)
(* Its scans, in initialSync and while it stops.                           *)
(***************************************************************************)
Scanning(p) == phase[p] \in {"reconcile", "stopping"}

LEMMA FollowerGoesOn ==
    ASSUME NEW p \in Peer, FollowerInv(p), Scanning(p), phase' = phase, view' = view,
           queue' = queue, local' = local, suppressed[p] \subseteq suppressed'[p],
           \A x \in AllPath : (Recorded(p, x) \/ Recording(p, x))',
           remote'[p].pc # "await",
           remote'[p].pc = "read" => /\ remote'[p].tr = tracked'[p][X(p)']
                                     /\ phase[p] = "stopping" /\ M(p)'.kind = "tombstone" =>
                                            remote'[p].tr # None,
           remote'[p].pc = "record" => disk'[p][X(p)'] = M(p)'.hash,
           phase[p] = "stopping" => remote'[p].pc # "copy",
           phase[p] = "reconcile" => \A x \in AllPath :
                Followed(p, x)' \/ \E i \in Items(p)' : i.path = x
    PROVE  FollowerInv(p)'
<1>1. phase[p] = "stopping" => DrainInv(p)'
    BY DEF FollowerInv, DrainInv
<1> QED
    BY <1>1 DEF FollowerInv, Scanning

LEMMA FollowerPicks ==
    ASSUME TypeInv, ConvInv, Silent, NEW p \in Peer, p \in Restarting, FollowerInv(p),
           Scanning(p), PickEntry(p)
    PROVE  FollowerInv(p)'
<1>1. /\ remote[p].pc = "pick" /\ view' = view /\ disk' = disk /\ tracked' = tracked
      /\ queue' = queue /\ local' = local /\ suppressed' = suppressed /\ phase' = phase
    BY DEF PickEntry
<1> DEFINE rest(i) == [NextEntry(p) EXCEPT !.snap = @ \ {i}]
<1>2. PICK item \in remote[p].snap :
        remote'[p] = IF DeletionIgnored(p, item) THEN rest(item)
                     ELSE [rest(item) EXCEPT !.pc = "read", !.item = item,
                                             !.tr = tracked[p][item.path]]
    BY DEF PickEntry, Turns, TypeInv, TypeOK
<1>3. /\ remote'[p].snap = remote[p].snap \ {item}
      /\ DeletionIgnored(p, item) => remote'[p].pc = "pick"
      /\ ~DeletionIgnored(p, item) =>
            /\ remote'[p].pc = "read" /\ remote'[p].item = item
            /\ remote'[p].tr = tracked[p][item.path]
    BY <1>2 DEF NextEntry, IdleRemote
<1>4. item.path \in AllPath /\ item.metadata \in UserManifestValue
    BY PeerTypes DEF ManifestEntry
<1>5. \A x \in AllPath : Recorded(p, x)'
    BY <1>1 DEF FollowerInv, Recording, Recorded
<1>6. remote'[p].pc = "read" => /\ X(p)' = item.path /\ M(p)' = item.metadata
                                /\ remote'[p].tr = tracked'[p][X(p)']
    BY <1>1, <1>3 DEF X, M
<1>7. ASSUME phase[p] = "stopping", remote'[p].pc = "read", M(p)'.kind = "tombstone"
      PROVE  remote'[p].tr # None
  <2>1. ~DeletionIgnored(p, item) /\ item.metadata.kind = "tombstone"
    BY <1>3, <1>6, <1>7
  <2>2. JoinPolicy(p) = "remote-wins"
    BY <1>7 DEF JoinPolicy
  <2> QED
    BY <1>3, <2>1, <2>2 DEF DeletionIgnored
<1>8. ASSUME phase[p] = "reconcile", NEW x \in AllPath
      PROVE  Followed(p, x)' \/ \E i \in Items(p)' : i.path = x
  <2>1. Followed(p, x) \/ \E i \in remote[p].snap : i.path = x
    BY <1>1, <1>8 DEF FollowerInv, Items, Held
  <2>2. remote[p].snap \subseteq Items(p)' \/ DeletionIgnored(p, item)
    BY <1>3 DEF Items, Held
  <2>3. DeletionIgnored(p, item) /\ item.path = x => Followed(p, x)
    <3>1. item.metadata = view[p][item.path]
        BY <1>8, Restarted DEF Starting, ComparingInv
    <3> QED
        BY <1>4, <1>8, <3>1, EntryFacts DEF DeletionIgnored, Followed, DeletedUnseen
  <2>4. remote[p].snap \ {item} \subseteq Items(p)'
    BY <1>3 DEF Items
  <2>5. Followed(p, x)' <=> Followed(p, x)
    BY <1>1 DEF Followed, Applied, DeletedUnseen
  <2> QED
    BY <2>1, <2>2, <2>3, <2>4, <2>5
<1>9. remote'[p].pc \in {"pick", "read"}
    BY <1>3
<1> QED
    BY <1>1, <1>5, <1>6, <1>7, <1>8, <1>9, FollowerGoesOn

\* Steps that are done with the entry: the file is as the entry names it.
LEMMA FollowerDone ==
    ASSUME TypeInv, ConvInv, Silent, NEW p \in Peer, p \in Restarting, FollowerInv(p),
           Scanning(p),
           \/ AlreadyInSync(p) \/ NothingNew(p) \/ DeletionVoid(p)
           \/ AlreadyDeleted(p) \/ RecordDownload(p) \/ ForgetRemote(p)
    PROVE  FollowerInv(p)'
<1>1. /\ remote[p].pc \in {"read", "record", "forget"} /\ remote'[p] = NextEntry(p)
      /\ view' = view /\ disk' = disk
      /\ queue' = queue /\ local' = local /\ suppressed' = suppressed /\ phase' = phase
    BY DEF AlreadyInSync, NothingNew, DeletionVoid, AlreadyDeleted,
        RecordDownload, ForgetRemote, Comparing, Differs, Doing, Turns, TypeInv, TypeOK
<1>2. PICK x \in AllPath : x = X(p) /\ M(p) \in UserManifestValue
    BY <1>1, PeerTypes
<1>3. remote'[p].pc = "pick" /\ Items(p)' = remote[p].snap
    BY <1>1 DEF NextEntry, IdleRemote, Items, Held
<1>4. ~NothingNew(p)
  <2>1. SUFFICES ASSUME NothingNew(p)
                 PROVE  FALSE
    OBVIOUS
  <2>2. /\ M(p).kind = "file" /\ remote[p].pc = "read" /\ remote[p].tr = M(p).hash
        /\ disk[p][x] # None /\ disk[p][x] # M(p).hash
    BY <1>2, <2>1 DEF NothingNew, Differs, Comparing, Doing, C
  <2>3. tracked[p][x] = M(p).hash /\ M(p).hash # None
    BY <1>2, <2>2, EntryFacts DEF FollowerInv
  <2>4. Recorded(p, x)
    BY <2>2 DEF FollowerInv, Recording
  <2> QED
    BY <2>2, <2>3, <2>4 DEF Recorded
<1>5. /\ \A y \in AllPath \ {x} : tracked'[p][y] = tracked[p][y]
      /\ Recorded(p, x)'
      /\ phase[p] = "reconcile" /\ M(p).kind = "file" => disk[p][x] = M(p).hash
      /\ phase[p] = "reconcile" /\ M(p).kind = "tombstone" =>
            disk[p][x] = None \/ tracked'[p][x] = None \/ tracked'[p][x] # M(p).baseHash
  <2>1. CASE AlreadyInSync(p)
    <3>1. /\ disk[p][x] = M(p).hash /\ tracked' = [tracked EXCEPT ![p][x] = disk[p][x]]
          /\ M(p).kind = "file"
        BY <1>2, <2>1 DEF AlreadyInSync, C, Comparing
    <3>2. tracked'[p][x] = disk[p][x] /\ \A y \in AllPath \ {x} : tracked'[p][y] = tracked[p][y]
        BY <3>1 DEF TypeInv, TypeOK
    <3> QED
        BY <1>1, <3>1, <3>2 DEF Recorded
  <2>2. CASE DeletionVoid(p)
    <3>1. M(p).kind = "tombstone" /\ tracked' = tracked /\ remote[p].pc = "read"
        BY <2>2 DEF DeletionVoid, Comparing, Doing
    <3>2. Recorded(p, x) /\ remote[p].tr = tracked[p][x]
        BY <1>2, <3>1 DEF FollowerInv, Recording
    <3>3. disk[p][x] = None \/ tracked[p][x] = None
        BY <1>2, <2>2, <3>2 DEF DeletionVoid, Recorded, C
    <3> QED
        BY <1>1, <3>1, <3>2, <3>3 DEF Recorded
  <2>3. CASE AlreadyDeleted(p) \/ ForgetRemote(p)
    <3>1. tracked' = [tracked EXCEPT ![p][x] = None]
        BY <1>2, <2>3 DEF AlreadyDeleted, ForgetRemote
    <3>2. tracked'[p][x] = None /\ \A y \in AllPath \ {x} : tracked'[p][y] = tracked[p][y]
        BY <3>1 DEF TypeInv, TypeOK
    <3>3. phase[p] = "reconcile" => M(p).kind = "tombstone"
      <4>1. CASE AlreadyDeleted(p)
        BY <4>1 DEF AlreadyDeleted, Comparing
      <4>2. CASE ForgetRemote(p)
        BY <4>2, Restarted DEF ForgetRemote, Doing, Starting, ComparingInv
      <4> QED
        BY <2>3, <4>1, <4>2
    <3> QED
        BY <1>1, <3>2, <3>3 DEF Recorded
  <2>4. CASE RecordDownload(p)
    <3>1. disk[p][x] = M(p).hash /\ tracked' = [tracked EXCEPT ![p][x] = M(p).hash]
        BY <1>2, <2>4 DEF RecordDownload, Doing, FollowerInv
    <3>3. phase[p] = "reconcile" => M(p).kind = "file"
        BY <2>4, Restarted DEF RecordDownload, Doing, Starting, ComparingInv
    <3>2. tracked'[p][x] = M(p).hash /\ \A y \in AllPath \ {x} : tracked'[p][y] = tracked[p][y]
        BY <3>1 DEF TypeInv, TypeOK
    <3> QED
        BY <1>1, <3>1, <3>2, <3>3 DEF Recorded
  <2> QED
    BY <1>4, <2>1, <2>2, <2>3, <2>4
<1>6. ASSUME NEW y \in AllPath
      PROVE  Recorded(p, y)'
  <2>1. y # x => Recorded(p, y)
    BY <1>2 DEF FollowerInv, Recording
  <2> QED
    BY <1>1, <1>5, <2>1 DEF Recorded
<1>7. ASSUME phase[p] = "reconcile", NEW y \in AllPath
      PROVE  Followed(p, y)' \/ \E i \in Items(p)' : i.path = y
  <2>1. CASE y = x
    <3>1. M(p) = view[p][x]
        BY <1>1, <1>2, <1>7, Restarted DEF Starting, ComparingInv
    <3>2. /\ IsFile(view[p][x]) => disk[p][x] = Shown(view[p][x])
          /\ IsTombstone(view[p][x]) => \/ disk[p][x] = None \/ tracked'[p][x] = None
                                        \/ tracked'[p][x] # view[p][x].baseHash
        BY <1>2, <1>5, <1>7, <3>1, EntryFacts
    <3> QED
        BY <1>1, <2>1, <3>2 DEF Followed, Applied, DeletedUnseen
  <2>2. CASE y # x
    <3>1. Items(p) = remote[p].snap \cup {remote[p].item} /\ remote[p].item.path = x
        BY <1>1, <1>2 DEF Items, Held, X
    <3>2. Followed(p, y) \/ \E i \in Items(p)' : i.path = y
        BY <1>3, <1>7, <2>2, <3>1 DEF FollowerInv
    <3>3. Followed(p, y)' <=> Followed(p, y)
        BY <1>1, <1>5, <2>2 DEF Followed, Applied, DeletedUnseen
    <3> QED
        BY <3>2, <3>3
  <2> QED
    BY <2>1, <2>2
<1> QED
    BY <1>1, <1>3, <1>6, <1>7, FollowerGoesOn

\* Steps that go on with the entry.  While it stops, nothing diverges.
LEMMA FollowerPursues ==
    ASSUME TypeInv, ConvInv, NEW p \in Peer, p \in Restarting, FollowerInv(p), Scanning(p),
           StartDownload(p) \/ StartConflict(p) \/ StartPreserve(p) \/ StartDelete(p)
    PROVE  FollowerInv(p)'
<1>1. /\ remote[p].pc = "read" /\ view' = view /\ disk' = disk /\ tracked' = tracked
      /\ queue' = queue /\ local' = local /\ suppressed' = suppressed /\ phase' = phase
    BY DEF StartDownload, StartConflict, StartPreserve, StartDelete, Comparing, Differs, Doing
<1>2. \E pc \in {"fetch", "copy", "delete"} :
            /\ remote' = [remote EXCEPT ![p] = [remote[p] EXCEPT !.pc = pc, !.seen = C(p)]]
            /\ pc = "copy" => StartConflict(p) \/ StartPreserve(p)
    BY DEF StartDownload, StartConflict, StartPreserve, StartDelete, Turns
<1>3. PICK pc \in {"fetch", "copy", "delete"} :
            /\ remote' = [remote EXCEPT ![p] = [remote[p] EXCEPT !.pc = pc, !.seen = C(p)]]
            /\ pc = "copy" => StartConflict(p) \/ StartPreserve(p)
    BY <1>2
<1>4. /\ remote'[p].pc = pc /\ remote'[p].snap = remote[p].snap
      /\ remote'[p].item = remote[p].item
    BY <1>3 DEF TypeInv, TypeOK, RemoteFrame
<1>5. PICK x \in AllPath : x = X(p)
    BY <1>1, PeerTypes
<1>6. \A y \in AllPath : Recorded(p, y)'
    BY <1>1 DEF FollowerInv, Recording, Recorded
<1>7. ASSUME phase[p] = "stopping"
      PROVE  ~StartConflict(p) /\ ~StartPreserve(p)
  <2>1. /\ Recorded(p, x) /\ remote[p].tr = tracked[p][x]
        /\ M(p).kind = "tombstone" => remote[p].tr # None
    BY <1>1, <1>5, <1>7 DEF FollowerInv, DrainInv, Recording
  <2>2. JoinPolicy(p) = "remote-wins"
    BY <1>7 DEF JoinPolicy
  <2>3. C(p) = None \/ remote[p].tr = None \/ C(p) = remote[p].tr
    BY <1>5, <2>1 DEF Recorded, C
  <2>4. Differs(p) => C(p) # None
    BY DEF Differs
  <2>5. ~StartConflict(p)
    BY <2>2, <2>3, <2>4 DEF StartConflict, RemoteChanged, LocalChanged
  <2> QED
    BY <2>1, <2>5 DEF StartPreserve, Comparing
<1>8. ASSUME phase[p] = "reconcile", NEW y \in AllPath
      PROVE  Followed(p, y)' \/ \E i \in Items(p)' : i.path = y
  <2>1. Items(p)' = Items(p)
    BY <1>1, <1>4 DEF Items, Held
  <2>2. Followed(p, y)' <=> Followed(p, y)
    BY <1>1 DEF Followed, Applied, DeletedUnseen
  <2> QED
    BY <1>8, <2>1, <2>2 DEF FollowerInv
<1> QED
    BY <1>1, <1>3, <1>4, <1>6, <1>7, <1>8, FollowerGoesOn

\* A conflict copy is a file nobody has an entry for.
LEMMA FollowerSaves ==
    ASSUME TypeInv, Sound, ConvInv, Silent, CopiesUnpublished, NEW p \in Peer,
           p \in Restarting, FollowerInv(p), Scanning(p), SaveConflictCopy(p)
    PROVE  FollowerInv(p)'
<1>1. /\ remote[p].pc = "copy" /\ view' = view /\ tracked' = tracked
      /\ queue' = queue /\ local' = local /\ phase' = phase
    BY DEF SaveConflictCopy, Doing
<1>2. phase[p] = "reconcile"
    BY <1>1 DEF FollowerInv, DrainInv, Scanning
<1>3. PICK z : z = CopyPath(X(p), p, IF M(p).kind = "tombstone" THEN "tombstone" ELSE "conflict")
    OBVIOUS
<1>4. z \in Copies /\ z.by = p
  <2>1. remote[p] \in RemoteFrames
    BY DEF TypeInv
  <2>2. X(p) \in Path
    BY <1>1, <2>1 DEF RemoteFrames, X
  <2> QED
    BY <1>3, <2>2 DEF CopyPath, Copies
<1>5. /\ disk' = [disk EXCEPT ![p][z] = remote[p].seen]
      /\ suppressed' = [suppressed EXCEPT ![p] = @ \cup {z}]
      /\ remote' = [remote EXCEPT ![p] =
            [remote[p] EXCEPT !.pc = IF M(p).kind = "tombstone" THEN "delete" ELSE "fetch"]]
    BY <1>3 DEF SaveConflictCopy, Touch, Turns
<1>6. /\ remote'[p].pc \in {"delete", "fetch"} /\ remote'[p].snap = remote[p].snap
      /\ remote'[p].item = remote[p].item
  <2>1. remote[p] \in RemoteFrame
    BY DEF TypeInv, TypeOK
  <2> QED
    BY <1>5, <2>1 DEF TypeInv, TypeOK, RemoteFrame
<1>7. suppressed[p] \subseteq suppressed'[p]
    BY <1>5 DEF TypeInv, TypeOK
<1>8. \A y \in AllPath \ {z} : disk'[p][y] = disk[p][y]
    BY <1>5 DEF TypeInv, TypeOK
<1>9. z \in AllPath /\ tracked[p][z] = None /\ view[p][z] = None
  <2>1. z \in AllPath /\ log[z] = {}
    BY <1>4 DEF CopiesUnpublished, AllPath
  <2>2. view[p][z] = None
    BY <2>1 DEF ConvInv, KnownViews
  <2>3. Shared[z] = {}
    BY <2>1 DEF Shared, Published
  <2> QED
    BY <2>1, <2>2, <2>3 DEF Sound, TrackedShared
<1>10. ASSUME NEW y \in AllPath
       PROVE  Recorded(p, y)'
  <2>1. Recorded(p, y)
    BY <1>1 DEF FollowerInv, Recording
  <2> QED
    BY <1>1, <1>8, <1>9, <2>1 DEF Recorded
<1>11. ASSUME NEW y \in AllPath
       PROVE  Followed(p, y)' \/ \E i \in Items(p)' : i.path = y
  <2>1. y = z => Followed(p, y)'
    BY <1>1, <1>9 DEF Followed, IsFile, IsTombstone
  <2>2. Items(p)' = Items(p)
    BY <1>1, <1>6 DEF Items, Held
  <2>3. y # z => (Followed(p, y)' <=> Followed(p, y))
    BY <1>1, <1>8 DEF Followed, Applied, DeletedUnseen
  <2> QED
    BY <1>2, <2>1, <2>2, <2>3 DEF FollowerInv
<1> QED
    BY <1>1, <1>2, <1>6, <1>7, <1>10, <1>11, FollowerGoesOn

\* A download, which is to be recorded, or a deletion.
LEMMA FollowerWrites ==
    ASSUME TypeInv, ConvInv, Silent, NEW p \in Peer, p \in Restarting, FollowerInv(p),
           Scanning(p), ApplyRemote(p) \/ DeleteLocal(p)
    PROVE  FollowerInv(p)'
<1>1. /\ remote[p].pc \in {"fetch", "delete"} /\ view' = view /\ tracked' = tracked
      /\ queue' = queue /\ local' = local /\ phase' = phase
    BY DEF ApplyRemote, DeleteLocal, Doing
<1>2. PICK x \in AllPath : x = X(p) /\ M(p) \in UserManifestValue
    BY <1>1, PeerTypes
<1>3. /\ suppressed' = [suppressed EXCEPT ![p] = @ \cup {x}]
      /\ disk' = [disk EXCEPT ![p][x] = IF ApplyRemote(p) THEN M(p).hash ELSE None]
    BY <1>1, <1>2 DEF ApplyRemote, DeleteLocal, Touch, Doing
<1>4. suppressed[p] \subseteq suppressed'[p]
    BY <1>3 DEF TypeInv, TypeOK
<1>5. \A y \in AllPath \ {x} : disk'[p][y] = disk[p][y]
    BY <1>3 DEF TypeInv, TypeOK
<1>6. disk'[p][x] = IF ApplyRemote(p) THEN M(p).hash ELSE None
    BY <1>3 DEF TypeInv, TypeOK
<1>7. remote[p] \in RemoteFrame
    BY DEF TypeInv, TypeOK
<1>8. /\ remote'[p].snap = remote[p].snap
      /\ ApplyRemote(p) => remote'[p].pc = "record" /\ remote'[p].item = remote[p].item
      /\ ~ApplyRemote(p) => remote'[p].pc \in {"pick", "forget"}
  <2>1. CASE ApplyRemote(p)
    <3>1. remote' = [remote EXCEPT ![p] = [remote[p] EXCEPT !.pc = "record"]]
        BY <2>1 DEF ApplyRemote, Turns
    <3> QED
        BY <1>7, <2>1, <3>1 DEF TypeInv, TypeOK, RemoteFrame
  <2>2. CASE ~ApplyRemote(p)
    <3>1. remote' = [remote EXCEPT ![p] = IF remote[p].tr = None THEN NextEntry(p)
                                          ELSE [remote[p] EXCEPT !.pc = "forget"]]
        BY <2>2 DEF DeleteLocal, Turns
    <3> QED
        BY <1>7, <2>2, <3>1 DEF TypeInv, TypeOK, RemoteFrame, NextEntry, IdleRemote
  <2> QED
    BY <2>1, <2>2
<1>9. ApplyRemote(p) => X(p)' = x /\ M(p)' = M(p) /\ Recording(p, x)'
    BY <1>2, <1>8 DEF X, M, Recording
<1>10. ASSUME NEW y \in AllPath
       PROVE  (Recorded(p, y) \/ Recording(p, y))'
  <2>1. Recorded(p, y)
    BY <1>1 DEF FollowerInv, Recording
  <2> QED
    BY <1>1, <1>5, <1>6, <1>9, <2>1 DEF Recorded
<1>11. ASSUME phase[p] = "reconcile", NEW y \in AllPath
       PROVE  Followed(p, y)' \/ \E i \in Items(p)' : i.path = y
  <2>1. ComparingInv(p) /\ M(p) = view[p][x]
    BY <1>1, <1>2, <1>11, Restarted DEF Starting, ComparingInv
  <2>2. CASE y = x
    <3>1. disk'[p][x] = Shown(M(p))
      <4>1. ApplyRemote(p) => M(p).kind = "file"
        BY <2>1 DEF ApplyRemote, Doing, ComparingInv
      <4>2. ~ApplyRemote(p) => M(p).kind = "tombstone"
        BY <2>1 DEF DeleteLocal, Doing, ComparingInv
      <4> QED
        BY <1>2, <1>6, <4>1, <4>2, EntryFacts
    <3>2. M(p).kind = "tombstone" => disk'[p][x] = None
        BY <1>2, <3>1, EntryFacts
    <3> QED
        BY <1>1, <2>1, <2>2, <3>1, <3>2 DEF Followed, Applied, IsTombstone
  <2>3. CASE y # x
    <3>1. Items(p) = remote[p].snap \cup {remote[p].item} /\ remote[p].item.path = x
        BY <1>1, <1>2 DEF Items, Held, X
    <3>2. Followed(p, y) \/ \E i \in remote[p].snap : i.path = y
        BY <1>11, <2>3, <3>1 DEF FollowerInv
    <3>3. remote[p].snap \subseteq Items(p)'
        BY <1>8 DEF Items
    <3>4. Followed(p, y)' <=> Followed(p, y)
        BY <1>1, <1>5, <2>3 DEF Followed, Applied, DeletedUnseen
    <3> QED
        BY <3>2, <3>3, <3>4
  <2> QED
    BY <2>2, <2>3
<1>12. remote'[p].pc = "record" => disk'[p][X(p)'] = M(p)'.hash
    BY <1>6, <1>8, <1>9
<1>13. remote'[p].pc \in {"record", "pick", "forget"}
    BY <1>8
<1> QED
    BY <1>1, <1>4, <1>10, <1>11, <1>12, <1>13, FollowerGoesOn

LEMMA FollowerRemote ==
    ASSUME TypeInv, Sound, ConvInv, Silent, CopiesUnpublished, "local-wins" \notin Policy,
           ChosenPolicies, NEW p \in Peer, p \in Restarting, FollowerInv(p), Scanning(p),
           RemoteStep(p)
    PROVE  FollowerInv(p)'
<1>1. ~YieldToLocal(p)
    BY DEF YieldToLocal, JoinPolicy, ChosenPolicies, DefaultPolicy
<1>2. ~LocalYielded(p)
    BY DEF LocalYielded, Doing, FollowerInv
<1>3. CASE ScanBegin(p) \/ ScanEnd(p)
  <2>1. /\ phase[p] = "stopping" /\ remote[p].pc \in {"idle", "pick"}
        /\ view' = view /\ disk' = disk /\ tracked' = tracked /\ queue' = queue
        /\ local' = local /\ suppressed' = suppressed /\ phase' = phase
    BY <1>3 DEF ScanBegin, ScanEnd, Scanning, Doing
  <2>2. remote'[p] = Begun(p) \/ remote'[p] = IdleRemote
    BY <1>3 DEF ScanBegin, ScanEnd, Turns, TypeInv, TypeOK
  <2>3. remote'[p].pc \in {"idle", "pick"}
    <3>1. Begun(p).pc = "pick" /\ IdleRemote.pc = "idle"
        BY DEF Begun, IdleRemote
    <3> QED
        BY <2>2, <3>1
  <2>4. \A y \in AllPath : Recorded(p, y)'
    BY <2>1 DEF FollowerInv, Recording, Recorded
  <2> QED
    BY <2>1, <2>3, <2>4, FollowerGoesOn
<1> QED
    BY <1>1, <1>2, <1>3, FollowerPicks, FollowerDone, FollowerPursues, FollowerSaves,
       FollowerWrites DEF RemoteStep

-----------------------------------------------------------------------------
(***************************************************************************)
(* Its local queue, and its listing.                                       *)
(***************************************************************************)
\* While it stops, the events left are of its own writes (194-197).
LEMMA FollowerDrains ==
    ASSUME TypeInv, NEW p \in Peer, FollowerInv(p), phase[p] = "stopping", LocalStep(p)
    PROVE  FollowerInv(p)'
<1>1. DrainInv(p) /\ queue[p] \in Seq(Event)
    BY PeerTypes DEF FollowerInv
<1>2. ~TakeEvent(p)
  <2>1. SUFFICES ASSUME TakeEvent(p)
                 PROVE  FALSE
    OBVIOUS
  <2>2. queue[p] # <<>> /\ Head(queue[p]).path \notin suppressed[p]
    BY <2>1 DEF TakeEvent, EventReady
  <2>3. 1 \in DOMAIN queue[p] /\ Head(queue[p]) = queue[p][1]
    BY <1>1, <2>2
  <2> QED
    BY <1>1, <2>2, <2>3 DEF DrainInv
<1>3. SuppressEvent(p)
    BY <1>1, <1>2 DEF DrainInv, LocalStep, ReadLocalFile, SkipUnchanged, BaseOnManifest,
        PublishFile, RecordUpload, FindDeleted, PublishTombstone, ForgetDeleted, At
<1>4. /\ queue[p] # <<>> /\ queue' = [queue EXCEPT ![p] = Tail(@)]
      /\ suppressed' = [suppressed EXCEPT ![p] = @ \ {Head(queue[p]).path}]
      /\ view' = view /\ disk' = disk /\ tracked' = tracked /\ local' = local
      /\ remote' = remote /\ phase' = phase
    BY <1>3 DEF SuppressEvent, EventReady
<1>5. /\ queue'[p] = Tail(queue[p])
      /\ suppressed'[p] = suppressed[p] \ {Head(queue[p]).path}
    BY <1>4 DEF TypeInv, TypeOK
<1>6. /\ OneEvent(Tail(queue[p]))
      /\ \A i \in DOMAIN Tail(queue[p]) :
            \E j \in DOMAIN queue[p] :
                /\ Tail(queue[p])[i] = queue[p][j]
                /\ queue[p][j].path # Head(queue[p]).path
    BY <1>1, <1>4, TailEvent DEF DrainInv, OneEvent
<1>7. \A i \in DOMAIN queue'[p] : queue'[p][i].path \in suppressed'[p]
    BY <1>1, <1>5, <1>6 DEF DrainInv
<1>8. DrainInv(p)'
    BY <1>1, <1>4, <1>5, <1>6, <1>7 DEF DrainInv, OneEvent, M
<1>9. \A x \in AllPath : (Recorded(p, x) \/ Recording(p, x))'
    BY <1>4 DEF FollowerInv, Recorded, Recording, X
<1> QED
    BY <1>4, <1>8, <1>9 DEF FollowerInv, X, M

LEMMA FollowerListingGoesOn ==
    ASSUME NEW p \in Peer, FollowerInv(p), phase'[p] = "listing", view' = view,
           disk' = disk, remote'[p].pc = "idle",
           \A x \in AllPath : Recorded(p, x)',
           \A x \in AllPath : Followed(p, x)',
           local'[p].pc \in {"lookup", "publish"} => disk[p][local'[p].path] # None,
           local'[p].pc = "publish" => ~IsFile(view[p][local'[p].path])
    PROVE  FollowerInv(p)'
BY DEF FollowerInv

LEMMA FollowerLists ==
    ASSUME TypeInv, ConvInv, Silent, NEW p \in Peer, p \in Restarting, FollowerInv(p),
           BeginListing(p) \/ ListPick(p)
    PROVE  FollowerInv(p)'
<1>1. view' = view /\ disk' = disk /\ tracked' = tracked
    BY DEF BeginListing, ListPick
<1>2. CASE BeginListing(p)
  <2>1. /\ phase[p] = "reconcile" /\ phase'[p] = "listing"
        /\ remote[p].pc = "pick" /\ remote[p].snap = {} /\ remote'[p] = IdleRemote
        /\ local' = local
    BY <1>2 DEF BeginListing, Doing, Enter, Turns, TypeInv, TypeOK
  <2>2. Items(p) = {}
    BY <2>1 DEF Items, Held
  <2>3. \A x \in AllPath : Followed(p, x)'
    BY <1>1, <2>1, <2>2 DEF FollowerInv, Followed, Applied, DeletedUnseen
  <2>4. \A x \in AllPath : Recorded(p, x)'
    BY <1>1, <2>1 DEF FollowerInv, Recording, Recorded
  <2>5. local'[p].pc = "idle" /\ remote'[p].pc = "idle"
    BY <2>1, Restarted DEF Starting, ComparingInv, IdleRemote
  <2> QED
    BY <1>1, <2>1, <2>3, <2>4, <2>5, FollowerListingGoesOn
<1>3. CASE ListPick(p)
  <2>1. phase[p] = "listing" /\ phase' = phase /\ remote' = remote
    BY <1>3 DEF ListPick
  <2>2. remote[p].pc = "idle"
    BY <2>1, Restarted DEF Starting, NotingInv
  <2>3. local'[p].pc = "read"
    <3>1. PICK x : local' = [local EXCEPT ![p] = [IdleLocal EXCEPT !.pc = "read", !.path = x]]
        BY <1>3 DEF ListPick, Becomes
    <3> QED
        BY <3>1 DEF TypeInv, TypeOK, IdleLocal
  <2>4. \A x \in AllPath : Recorded(p, x)'
    BY <1>1, <2>2 DEF FollowerInv, Recording, Recorded
  <2>5. \A x \in AllPath : Followed(p, x)'
    BY <1>1, <2>1 DEF FollowerInv, Followed, Applied, DeletedUnseen
  <2> QED
    BY <1>1, <2>1, <2>2, <2>3, <2>4, <2>5, FollowerListingGoesOn
<1> QED
    BY <1>2, <1>3

\* The listing bases an upload on the manifest's file only if it differs (575).
LEMMA FollowerLooksUp ==
    ASSUME TypeInv, ConvInv, Silent, NEW p \in Peer, p \in Restarting, FollowerInv(p),
           phase[p] = "listing", LocalStep(p), Silent'
    PROVE  FollowerInv(p)'
<1>1. NotingInv(p)
    BY Restarted DEF Starting
<1>2. ~SuppressEvent(p) /\ ~TakeEvent(p)
    BY <1>1 DEF SuppressEvent, TakeEvent, EventReady, NotingInv
<1>3. ~RecordUpload(p) /\ ~FindDeleted(p) /\ ~PublishTombstone(p) /\ ~ForgetDeleted(p)
    BY <1>1 DEF RecordUpload, FindDeleted, PublishTombstone, ForgetDeleted, At, NotingInv
<1>4. CASE ReadLocalFile(p) \/ SkipUnchanged(p) \/ BaseOnManifest(p)
  <2>1. /\ local[p].pc \in {"read", "lookup"} /\ view' = view /\ disk' = disk
        /\ remote' = remote /\ phase' = phase
    BY <1>4 DEF ReadLocalFile, SkipUnchanged, BaseOnManifest, At
  <2>2. PICK x \in AllPath : x = local[p].path
    BY <2>1, PeerTypes
  <2>3. local[p] \in LocalFrame
    BY DEF TypeInv, TypeOK
  <2>4. ASSUME local'[p].pc = "publish"
        PROVE  local'[p].path = x /\ ~IsFile(view[p][x])
    <3>1. BaseOnManifest(p)
      <4>1. ~ReadLocalFile(p)
        <5>1. SUFFICES ASSUME ReadLocalFile(p)
                       PROVE  FALSE
            OBVIOUS
        <5>2. local' = [local EXCEPT ![p] =
                    IF disk[p][x] = None THEN IdleLocal
                    ELSE [local[p] EXCEPT !.pc = "lookup", !.data = disk[p][x]]]
            BY <2>2, <5>1 DEF ReadLocalFile, Becomes
        <5> QED
            BY <2>3, <2>4, <5>2 DEF TypeInv, TypeOK, LocalFrame, IdleLocal
      <4>2. ~SkipUnchanged(p)
        BY <2>4 DEF SkipUnchanged, Becomes, TypeInv, TypeOK, IdleLocal
      <4> QED
        BY <1>4, <4>1, <4>2
    <3>2. local' = [local EXCEPT ![p] =
                        [local[p] EXCEPT !.pc = "publish", !.base = NextBase(LookedUp(p))]]
        BY <3>1 DEF BaseOnManifest, Becomes
    <3>3. local'[p].path = x
        BY <2>2, <2>3, <3>2 DEF TypeInv, TypeOK, LocalFrame
    <3>4. local[p].data = disk[p][x] /\ ~(IsFile(view[p][x]) /\ view[p][x].hash = local[p].data)
        BY <1>1, <2>2, <3>1 DEF BaseOnManifest, At, NotingInv, SameAsManifest, LookedUp
    <3>5. IsFile(view[p][x]) => disk[p][x] = view[p][x].hash
        BY <2>2 DEF FollowerInv, Followed, Applied, Shown
    <3> QED
        BY <3>3, <3>4, <3>5
  <2>5. \A y \in AllPath : Recorded(p, y)
    BY <1>1 DEF NotingInv, FollowerInv, Recording
  <2>6. tracked' = tracked \/ tracked' = [tracked EXCEPT ![p][x] = disk[p][x]]
    BY <1>1, <1>4, <2>2
    DEF ReadLocalFile, SkipUnchanged, BaseOnManifest, At, NotingInv
  <2>7. \A y \in AllPath : tracked'[p][y] \in {tracked[p][y], disk[p][y]}
    BY <2>6 DEF TypeInv, TypeOK
  <2>8. \A y \in AllPath : Recorded(p, y)'
    BY <2>1, <2>5, <2>7 DEF Recorded
  <2>9. remote'[p].pc = "idle"
    BY <1>1, <2>1 DEF NotingInv
  <2>10. ASSUME NEW y \in AllPath
         PROVE  Followed(p, y)'
    <3>1. Followed(p, y)
        BY DEF FollowerInv
    <3>2. tracked'[p][y] = tracked[p][y] \/ IsFile(view[p][y])
      <4>1. CASE SkipUnchanged(p)
        <5>1. IsFile(view[p][x])
            BY <2>2, <4>1 DEF SkipUnchanged, SameAsManifest, LookedUp
        <5>2. tracked' = [tracked EXCEPT ![p][x] = local[p].data]
            BY <2>2, <4>1 DEF SkipUnchanged
        <5> QED
            BY <5>1, <5>2 DEF TypeInv, TypeOK
      <4> QED
        BY <1>4, <4>1 DEF ReadLocalFile, BaseOnManifest
    <3>3. IsFile(view[p][y]) => ~IsTombstone(view[p][y])
        BY DEF IsFile, IsTombstone
    <3> QED
        BY <2>1, <3>1, <3>2, <3>3 DEF Followed, Applied, DeletedUnseen
  <2>11. local'[p].pc \in {"lookup", "publish"} => disk[p][local'[p].path] # None
    <3>1. CASE ReadLocalFile(p)
      <4>1. local' = [local EXCEPT ![p] =
                IF disk[p][x] = None THEN IdleLocal
                ELSE [local[p] EXCEPT !.pc = "lookup", !.data = disk[p][x]]]
        BY <2>2, <3>1 DEF ReadLocalFile, Becomes
      <4> QED
        BY <2>2, <2>3, <4>1 DEF TypeInv, TypeOK, LocalFrame, IdleLocal
    <3>2. CASE SkipUnchanged(p)
        BY <3>2 DEF SkipUnchanged, Becomes, TypeInv, TypeOK, IdleLocal
    <3>3. CASE BaseOnManifest(p)
      <4>1. /\ local[p].pc = "lookup"
            /\ local' = [local EXCEPT ![p] =
                    [local[p] EXCEPT !.pc = "publish", !.base = NextBase(LookedUp(p))]]
        BY <3>3 DEF BaseOnManifest, Becomes, At
      <4>2. local'[p].path = x
        BY <2>2, <2>3, <4>1 DEF TypeInv, TypeOK, LocalFrame
      <4> QED
        BY <2>2, <4>1, <4>2 DEF FollowerInv
    <3> QED
        BY <1>4, <3>1, <3>2, <3>3
  <2> QED
    BY <2>1, <2>4, <2>8, <2>9, <2>10, <2>11, FollowerListingGoesOn
<1>5. ~PublishFile(p)
    BY PublisherSpeaks
<1> QED
    BY <1>2, <1>3, <1>4, <1>5 DEF LocalStep

-----------------------------------------------------------------------------
(***************************************************************************)
(* The whole: one step per operation of its own.                           *)
(***************************************************************************)
\* What arrives reaches the view, and is compared by a later scan.
LEMMA FollowerReceives ==
    ASSUME TypeInv, ConvInv, Orderly, NEW p \in Peer, FollowerInv(p),
           NEW q \in Peer, Replicate(p, q)
    PROVE  FollowerInv(p)'
<1>1. /\ phase[p] \notin {"reconcile", "listing"} /\ phase' = phase
      /\ disk' = disk /\ tracked' = tracked /\ suppressed' = suppressed
      /\ queue' = queue /\ local' = local /\ remote' = remote
    BY DEF Replicate, Orderly
<1>2. DrainInv(p)' <=> DrainInv(p)
    BY <1>1 DEF DrainInv, M
<1>3. \A x \in AllPath : (Recorded(p, x) \/ Recording(p, x))'
    BY <1>1 DEF FollowerInv, Recorded, Recording, X
<1> QED
    BY <1>1, <1>2, <1>3 DEF FollowerInv, X, M

LEMMA FollowerSteps ==
    ASSUME TypeInv, Sound, ConvInv, Orderly, Silent, Silent', "local-wins" \notin Policy,
           ChosenPolicies, CopiesUnpublished, NEW p \in Peer, p \in Restarting, ~Live(p),
           FollowerInv(p), Watch(p) \/ LocalStep(p) \/ RemoteStep(p)
    PROVE  FollowerInv(p)'
<1>1. ~Watch(p)
    BY DEF Watch, WatchUpdate, WatchDelete, WatchNothing, Emit, Live
<1>2. CASE phase[p] \in {"down", "ready"}
  <2>1. IdleInv(p)
    BY <1>2 DEF ConvInv, PeerInv, RestartInv
  <2> QED
    BY <2>1, IdleRests
<1>3. CASE phase[p] = "reconcile"
  <2>1. queue[p] = <<>> /\ local[p].pc = "idle"
    BY <1>3, Restarted DEF Starting, ComparingInv, FollowerInv
  <2>2. ~LocalStep(p)
    BY <2>1 DEF LocalStep, SuppressEvent, TakeEvent, EventReady, ReadLocalFile,
        SkipUnchanged, BaseOnManifest, PublishFile, RecordUpload, FindDeleted,
        PublishTombstone, ForgetDeleted, At
  <2> QED
    BY <1>1, <1>3, <2>2, FollowerRemote DEF Scanning
<1>4. CASE phase[p] = "stopping"
    BY <1>1, <1>4, FollowerDrains, FollowerRemote DEF Scanning
<1>5. CASE phase[p] = "listing"
  <2>1. remote[p].pc = "idle" /\ ~owed[p]
    BY <1>5, Restarted DEF Starting, NotingInv, SessionInv
  <2>2. ~RemoteStep(p)
    BY <2>1 DEF RemoteStep, ScanBegin, PickEntry, AlreadyInSync, NothingNew,
        StartDownload, YieldToLocal, LocalYielded, StartConflict, StartPreserve,
        DeletionVoid, StartDelete, AlreadyDeleted, SaveConflictCopy, ApplyRemote,
        RecordDownload, DeleteLocal, ForgetRemote, ScanEnd, Differs, Comparing, Doing
  <2> QED
    BY <1>1, <1>5, <2>2, FollowerLooksUp
<1>6. phase[p] \in Phases
    BY DEF TypeInv, TypeOK
<1> QED
    BY <1>2, <1>3, <1>4, <1>5, <1>6 DEF Phases, Live

\* A copy is published by the peer whose folder has it.
LEMMA CopiesStayUnpublished ==
    ASSUME Orderly, TypeInv, Sound, ConvInv, Silent', CopiesUnpublished, Next
    PROVE  CopiesUnpublished'
<1>1. SUFFICES ASSUME NEW y \in Copies, y.by \in Restarting, log[y] = {}, log'[y] # {}
               PROVE  FALSE
    BY DEF CopiesUnpublished
<1>2. ~\E p, q \in Peer : Replicate(p, q)
    BY <1>1 DEF Replicate
<1>3. PICK p \in Peer : PublishFile(p) \/ PublishTombstone(p)
    BY <1>1, <1>2, WhoWritesManifest
<1>4. p \notin Restarting /\ y \in AllPath
    BY <1>3, PublisherSpeaks DEF AllPath
<1>5. local[p].pc \in {"publish", "entomb"} /\ y = local[p].path
  <2>1. PICK e : log' = [log EXCEPT ![local[p].path] = @ \cup {e}]
    BY <1>3, PublishedEntry
  <2>2. y = local[p].path
    BY <1>1, <1>4, <2>1 DEF TypeInv, TypeOK, ManifestTypeOK
  <2> QED
    BY <1>3, <2>2 DEF PublishFile, PublishTombstone, At
<1>6. view[p][y] = None /\ disk[p][y] = None
    BY <1>1, <1>4 DEF ConvInv, KnownViews, CopiesInv
<1>7. JoinInv(p) \/ Live(p)
    BY <1>4 DEF ConvInv, PeerInv
<1>8. CASE Live(p)
  <2>1. ~Applied(p, y)
    BY <1>5, <1>8, FrameEdit DEF Unpublished
  <2> QED
    BY <1>6, <2>1, NoEntry DEF Applied
<1>9. CASE phase[p] = "reconcile"
  <2>1. ReconcileInv(p)
    BY <1>7, <1>9 DEF JoinInv, Live
  <2>2. local[p].path \in Path
    BY <1>5, <2>1 DEF ReconcileInv, AwaitInv
  <2> QED
    BY <1>1, <1>5, <2>2, PathAssumption
<1>10. CASE phase[p] = "listing"
    BY <1>5, <1>6, <1>7, <1>10 DEF JoinInv, Live, ListingInv
<1>11. CASE phase[p] \in {"down", "ready"}
    BY <1>5, <1>7, <1>11 DEF JoinInv, Live, FreshInv, IdleLocal
<1>12. phase[p] \in Phases /\ phase[p] # "stopping"
    BY <1>7 DEF TypeInv, TypeOK, JoinInv, Live
<1> QED
    BY <1>8, <1>9, <1>10, <1>11, <1>12 DEF Phases, Live

\* A session that is live ends by stop() or with the process.
LEMMA LiveLeaves ==
    ASSUME NEW p \in Peer, Live(p), ~Live(p)', Moves(p) \/ Leaves(p)
    PROVE  Stop(p) \/ Crash(p)
<1>1. phase' # phase
    BY DEF Live
<1>2. ~LocalStep(p)
    BY <1>1 DEF LocalStep, SuppressEvent, TakeEvent, ReadLocalFile, SkipUnchanged,
        BaseOnManifest, PublishFile, RecordUpload, FindDeleted, PublishTombstone, ForgetDeleted
<1>3. ~RemoteStep(p)
    BY <1>1 DEF RemoteStep, ScanBegin, PickEntry, AlreadyInSync, NothingNew, StartDownload,
        YieldToLocal, LocalYielded, StartConflict, StartPreserve, DeletionVoid, StartDelete,
        AlreadyDeleted, SaveConflictCopy, ApplyRemote, RecordDownload, DeleteLocal,
        ForgetRemote, ScanEnd
<1>4. ~UserWrite(p) /\ ~UserDelete(p) /\ ~Watch(p) /\ ~\E q \in Peer : Replicate(p, q)
    BY <1>1 DEF UserWrite, UserDelete, UserEdit, Watch, WatchUpdate, WatchDelete, WatchNothing,
        Emit, Replicate
<1>5. ~SessionStep(p) /\ ~Ready(p) /\ ~StartFails(p)
    BY DEF SessionStep, Start, BeginListing, ListPick, OpenWatcher, Stopped, Ready, StartFails,
        Enter, Live
<1> QED
    BY <1>2, <1>3, <1>4, <1>5 DEF Moves, Leaves

LEMMA FollowersKept ==
    ASSUME Orderly, "local-wins" \notin Policy, TypeInv, Sound, ConvInv, ChosenPolicies,
           Silent, Silent', FollowersInv, Next, used'.crashes = 0
    PROVE  FollowersInv'
<1>1. PICK p \in Peer : Moves(p) \/ (p \in Restarting /\ Leaves(p))
    BY Mover
<1>2. OnlyMover(p)
    BY <1>1, OthersRest DEF Leaves, Disturbs
<1>3. ~Crash(p)
  <2>1. used \in Budgets
    BY DEF TypeInv, TypeOK, Budgets
  <2> QED
    BY <2>1 DEF Crash, Spend, Budgets
<1>4. ASSUME NEW q \in Peer, q \in Restarting, ~Live(q)', q # p
      PROVE  FollowerInv(q)'
  <2>1. Rests(q) /\ ~Live(q)
    BY <1>2, <1>4 DEF OnlyMover, Rests, Live
  <2> QED
    BY <1>4, <2>1, FollowerRests DEF FollowersInv
<1>5. ASSUME p \in Restarting, ~Live(p)'
      PROVE  FollowerInv(p)'
  <2>1. CASE Live(p)
    <3>1. Stop(p)
        BY <1>1, <1>3, <1>5, <2>1, LiveLeaves
    <3> QED
        BY <1>5, <3>1, FollowerStops
  <2>2. CASE ~Live(p)
    <3>1. FollowerInv(p) /\ CopiesUnpublished
        BY <1>5, <2>2 DEF FollowersInv
    <3>2. ~UserWrite(p) /\ ~UserDelete(p)
        BY <1>5 DEF UserWrite, UserDelete, UserEdit, Orderly
    <3>3. ~OpenWatcher(p)
        BY <1>5 DEF OpenWatcher, Enter, Live, TypeInv, TypeOK
    <3>4. ~Stop(p)
        BY <2>2 DEF Stop, Enter, Live
    <3> QED
        BY <1>1, <1>3, <1>5, <2>2, <3>1, <3>2, <3>3, <3>4, FollowerSteps, FollowerReceives,
           FollowerReady, FollowerStarts, FollowerLists, FollowerLeaves
        DEF Moves, Leaves, SessionStep
  <2> QED
    BY <2>1, <2>2
<1>6. CopiesUnpublished'
    BY CopiesStayUnpublished DEF FollowersInv
<1>7. Restarting \subseteq Peer
    BY ConstantsAssumption
<1> QED
    BY <1>4, <1>5, <1>6, <1>7 DEF FollowersInv

LEMMA FollowersBegin == Init => FollowersInv
<1> SUFFICES ASSUME Init PROVE FollowersInv
    OBVIOUS
<1>1. \A y \in Copies : log[y] = {}
  <2>1. SUFFICES ASSUME NEW y \in Copies
                 PROVE  log[y] = {}
    OBVIOUS
  <2>2. y \in AllPath /\ SeedEntry(y) = None
    BY PathAssumption DEF AllPath, SeedEntry
  <2> QED
    BY <2>2 DEF Init
<1>2. ASSUME NEW p \in Restarting, ~Live(p)
      PROVE  FollowerInv(p)
  <2>1. p \in Peer
    BY ConstantsAssumption
  <2>2. phase[p] = "down" /\ remote[p] = IdleRemote /\ tracked[p] = NoFiles
    BY <1>2, <2>1 DEF Init, Live
  <2>3. \A x \in AllPath : Recorded(p, x)
    BY <2>2 DEF NoFiles, Recorded
  <2> QED
    BY <2>2, <2>3 DEF FollowerInv, IdleRemote
<1> QED
    BY <1>1, <1>2 DEF FollowersInv, CopiesUnpublished

LEMMA CrashesCounted ==
    ASSUME TypeInv, [Next]_vars, used'.crashes = 0
    PROVE  used.crashes = 0
<1>1. used \in Budgets
    BY DEF TypeInv, TypeOK, Budgets
<1>2. ASSUME NEW limit,
             Spend("edits", limit) \/ Spend("stops", limit) \/ Spend("crashes", limit)
             \/ Spend("faults", limit) \/ Spend("aborts", limit) \/ Spend("updates", limit)
      PROVE  used.crashes = 0
    BY <1>1, <1>2 DEF Spend, Budgets
<1>3. CASE used' = used
    BY <1>3
<1>4. ASSUME Next, used' # used
      PROVE  used.crashes = 0
  <2>1. \E p \in Peer :
            \/ UserWrite(p) \/ UserDelete(p) \/ Stop(p) \/ Crash(p)
            \/ ScanFails(p) \/ StartFails(p) \/ UnrelatedUpdate(p)
    BY <1>4, WhoWritesSession
    DEF PublishFile, PublishTombstone, ScanBegin, Start, BeginListing, ListPick, OpenWatcher,
        Stopped, Ready, Replicate
  <2> QED
    BY <1>2, <2>1
    DEF UserWrite, UserDelete, UserEdit, Stop, Crash, ScanFails, StartFails, UnrelatedUpdate
<1> QED
    BY <1>3, <1>4 DEF vars

LEMMA FollowersGoOn ==
    ASSUME Orderly, "local-wins" \notin Policy
    PROVE  Spec => [](Silent /\ used.crashes = 0 => FollowersInv)
<1> DEFINE I == Silent /\ used.crashes = 0 => FollowersInv
<1>1. Init => I
    BY FollowersBegin
<1>2. ASSUME TypeInv, Sound, Silent => ConvInv, ChosenPolicies, I, [Next]_vars,
             Silent', used'.crashes = 0
      PROVE  FollowersInv'
  <2>1. Silent /\ ConvInv /\ FollowersInv
    BY <1>2, StillSilent, CrashesCounted
  <2>2. CASE Next
    BY <1>2, <2>1, <2>2, FollowersKept
  <2>3. CASE UNCHANGED vars
    <3>1. log' = log /\ \A q \in Peer : Rests(q)
        BY <2>3 DEF vars, Rests
    <3>2. ASSUME NEW q \in Restarting, ~Live(q)'
          PROVE  FollowerInv(q)'
      <4>1. q \in Peer /\ ~Live(q)
        BY <3>1, <3>2, ConstantsAssumption DEF Rests, Live
      <4> QED
        BY <2>1, <3>1, <4>1, FollowerRests DEF FollowersInv
    <3> QED
        BY <2>1, <3>1, <3>2 DEF FollowersInv, CopiesUnpublished
  <2> QED
    BY <1>2, <2>2, <2>3
<1>3. TypeInv /\ Sound /\ (Silent => ConvInv) /\ ChosenPolicies /\ I /\ [Next]_vars => I'
    BY <1>2
<1>4. Spec => [](Silent => ConvInv)
    BY Converge
<1> QED
    BY <1>1, <1>3, <1>4, PoliciesChosen, Invariance, PTL DEF Spec

LEMMA FollowerSilent ==
    ASSUME Orderly, "local-wins" \notin Policy, TypeInv, ConvInv, Sound, ChosenPolicies,
           Silent, FollowersInv, Next, NEW p \in Peer, NEW x \in AllPath,
           FollowerPublishes(p, x)
    PROVE  ~RollsBack(p, x)
<1>1. /\ p \notin Editors
      /\ local[p].pc \in {"publish", "entomb"} /\ x = local[p].path
    BY PublisherIs DEF FollowerPublishes, Publishes, PublishFile, PublishTombstone, At
<1>2. ~Live(p)
    BY <1>1, FrameEdit DEF EditInv
<1>3. CASE p \in Restarting
  <2>1. FollowerInv(p) /\ RestartInv(p)
    BY <1>2, <1>3 DEF FollowersInv, ConvInv, PeerInv
  <2>2. phase[p] \notin {"down", "ready"}
    BY <1>1, <2>1 DEF RestartInv, IdleInv, IdleLocal
  <2>3. phase[p] \notin {"reconcile", "stopping"}
    BY <1>1, <2>1 DEF FollowerInv, DrainInv, RestartInv, ComparingInv
  <2>4. phase[p] = "listing"
    BY <1>2, <2>2, <2>3 DEF TypeInv, TypeOK, Phases, Live
  <2>5. local[p].pc = "publish"
    BY <1>1, <2>1, <2>4 DEF RestartInv, NotingInv
  <2>6. x \in AllPath /\ ~IsFile(view[p][x]) /\ disk[p][x] # None /\ Followed(p, x)
    BY <1>1, <2>1, <2>4, <2>5 DEF FollowerInv
  <2> QED
    BY <2>6 DEF Followed, RollsBack
<1>4. CASE p \notin Restarting
  <2>1. JoinInv(p)
    BY <1>4 DEF ConvInv, PeerInv
  <2>2. phase[p] # "reconcile"
    <3>1. SUFFICES ASSUME phase[p] = "reconcile"
                   PROVE  FALSE
        OBVIOUS
    <3>2. ReconcileInv(p)
        BY <2>1, <3>1 DEF JoinInv
    <3>3. policy[p] = "local-wins"
        BY <1>1, <3>2 DEF ReconcileInv, AwaitInv
    <3> QED
        BY <3>3 DEF ChosenPolicies, DefaultPolicy
  <2>3. phase[p] \notin {"down", "ready"}
    BY <1>1, <2>1 DEF JoinInv, FreshInv, IdleLocal
  <2>4. phase[p] = "listing"
    BY <1>2, <2>1, <2>2, <2>3 DEF JoinInv, TypeInv, TypeOK, Phases, Live
  <2>5. ~IsFile(view[p][x]) /\ tracked[p][x] = None
    BY <1>1, <2>1, <2>4 DEF JoinInv, ListingInv
  <2> QED
    BY <2>5 DEF RollsBack, DeletedUnseen
<1> QED
    BY <1>3, <1>4

(***************************************************************************)
(* Unless sessions may begin under local-wins, and until someone crashes,  *)
(* a peer whose user touches nothing replaces no file entry, and no        *)
(* tombstone of the version it had, whether it joins, stays, or stops and  *)
(* starts again: no download is answered with an upload (194-197, 214),    *)
(* the stop drains its queues (156-166), and the scan of initialSync       *)
(* brings or removes what it has to before the listing uploads (551-620).  *)
(* Nothing is said of what follows an upload by a peer that restarts.      *)
(***************************************************************************)
THEOREM RestartsRollNoneBack ==
    ASSUME Orderly, "local-wins" \notin Policy
    PROVE  Spec => [][Silent => \A p \in Peer, x \in AllPath :
                FollowerPublishes(p, x) /\ used.crashes = 0 => ~RollsBack(p, x)]_vars
<1> DEFINE Quiets == \A p \in Peer, x \in AllPath :
                FollowerPublishes(p, x) /\ used.crashes = 0 => ~RollsBack(p, x)
<1>1. TypeInv /\ Sound /\ (Silent => ConvInv) /\ ChosenPolicies
        /\ (Silent /\ used.crashes = 0 => FollowersInv) /\ [Next]_vars
        => [Silent => Quiets]_vars
  <2>1. ASSUME TypeInv, Sound, Silent => ConvInv, ChosenPolicies, Silent,
               Silent /\ used.crashes = 0 => FollowersInv, Next
        PROVE  Quiets
    BY <2>1, FollowerSilent
  <2> QED
    BY <2>1
<1>2. Spec => [](Silent => ConvInv)
    BY Converge
<1>3. Spec => [](Silent /\ used.crashes = 0 => FollowersInv)
    BY FollowersGoOn
<1> QED
    BY <1>1, <1>2, <1>3, PoliciesChosen, Invariance, PTL DEF Spec

(***************************************************************************)
(* Where no engine is stopped or crashes, that is the whole of it: a peer  *)
(* whose user touches nothing never rolls others back.                     *)
(***************************************************************************)
THEOREM FollowersSilent ==
    ASSUME Undisturbed, "local-wins" \notin Policy
    PROVE  Spec => FollowersNeverRollBack
<1> DEFINE Quiets == \A p \in Peer, x \in AllPath :
                FollowerPublishes(p, x) /\ used.crashes = 0 => ~RollsBack(p, x)
<1>1. Orderly /\ Silent
    BY DEF Undisturbed, Silent
<1>2. Spec => [][Silent => Quiets]_vars
    BY <1>1, RestartsRollNoneBack
<1>3. [Silent => Quiets]_vars => [Quiets]_vars
    BY <1>1
<1> QED
    BY <1>2, <1>3, PTL DEF FollowersNeverRollBack

=============================================================================
