# PearSync in TLA+

PearSync keeps a folder the same on several devices, peer to peer. This
directory holds TLA+ models of the parts of it that are hard to test, the TLC
configurations that check them on small instances, and proofs, checked by
TLAPS, of what holds on every instance. Paths below are relative to the
repository; line numbers without a file are of the component's own file.

    tlc -workers 2 -config engine_races.cfg MCSync      # a run
    tlapm ConvergenceProofs.tla                         # proofs, some ten minutes

## The system

| component | state | operations | met by |
|---|---|---|---|
| SyncEngine (`src/lib/sync-engine.ts`) | two promise queues, `suppressedPaths`, whether it runs | `ready`, `start` (with `initialSync`), `stop`, `close`, `handleLocalChange`, `handleRemoteChanges` and the handlers under it | watcher events, manifest `update` events, its owner |
| ManifestStore (`src/lib/manifest-store.ts`) | none of its own: an Autopass database replicated to all peers | `put`, `putTombstone`, `get`, `list`, `remove`; peer and config entries; invites and pairing | the engine, EngineManager, EngineBridge |
| LocalStateStore (`src/lib/local-state-store.ts`) | the map of last synced hashes, `writeQueue`, `state.json` and its backup | `load`, `get`, `set`, `remove` | the engine |
| FileStore (`src/lib/file-store.ts`) | one append-only core of blocks | `writeFile`, `readFile` | the engine; other peers read its core |
| file-utils (`src/lib/file-utils.ts`) | none | hashing, chunking, path normalisation | FileStore, the engine |
| Folder and watcher (localdrive, watch-drive, localwatch; external) | the files; what the watcher saw last | `get`, `put`, `del`, `list`; `data` events | the engine, the user |
| EngineManager (`src/engine-manager.ts`) | none; writes `__config` in the manifest | resolve the startup policy, preview a join, make and start an engine | WebServer, the Pear worker |
| WebServer (`src/web-server.ts`, `src/server.ts`) | engine, bridge, store, folder, the pending join preview | setup, preview, stop, shutdown | HTTP requests |
| EngineBridge, RingBuffer (`src/engine-bridge.ts`, `src/ring-buffer.ts`) | the last 1000 events, the listeners | record, fan out, page | engine events |
| Pear worker (`index.js`) | engine and bridge | answers requests over one pipe | PipeTransport |
| PipeTransport (`web/src/pipe-transport.ts`) | pending requests with timers, a receive buffer | `get`, `post`, `subscribe` | the web interface |
| Web hooks (`web/src/hooks`) | the list of events, its next id, the socket | initial fetch, pushes, reconnection | the web interface |
| Web interface (`web/src`) | the status last polled, the setup form | poll, submit, switch between setup screen and dashboard | the user |
| last-folder-config (`src/last-folder-config.ts`) | one folder on disk | save, load | WebServer, the Pear worker |
| scripts, compiled `lib/` | none | build | |

**How they meet.** The watcher feeds the engine's local queue, replication
feeds its remote queue. Both queues read and write the same folder, the same
LocalStateStore and the same manifest, and each may be overtaken by the other,
by the user and by replication wherever it awaits. Engines of different peers
meet only in the manifest (and, for content, in each other's cores). The other
components start and stop the engine and show what it does.

**What makes each correct.**

- *SyncEngine*: it loses no edit nobody else has; folders converge on the
  manifest; the engines come to rest; a peer that is behind catches up and does
  not roll the others back; a joining peer's files survive under the policy
  chosen.
- *LocalStateStore*: what was acknowledged is loaded after any crash; the last
  change is not left unwritten; a failed write does not end the service.
- *FileStore*: what is read at an offset is what was written there, for ever,
  also when writes overlap and blocks arrive late.
- *EngineManager*: the preview says what the engine will do; the policy a user
  chose is the one that runs.
- *WebServer, worker*: one session at most, whole until it is closed in order; a
  prepared join is used or closed, once; the folder saved is one that ran.
- *EngineBridge, RingBuffer*: the log is the last events, none missing or twice;
  whoever listens hears.
- *PipeTransport, hooks*: a request is settled once, with its own answer; an
  event is shown once.

**The hard behaviours** are listed, each at its line, under `hazards` in
`PROJECT.json`: the two queues interleave at every await; a manifest list is read
once and used entry by entry; watcher events arrive late, once for several
changes, or not at all; marks are spent by the wrong event; two peers edit at
once; entries arrive during the startup listing; a process dies between a
download and its record; a write of the local state fails; writes to one core
overlap; requests to the server read and write the same variables around their
awaits; answers are late, lost or overtaken by pushes.

## The modules

| module | content |
|---|---|
| `Manifest` | entries, paths, linearisation and replication of the manifest |
| `SyncEngine` | the engines of all peers, their folders, watchers and users |
| `SyncProperties` | what the engines promise |
| `SyncClaims` | promises of the documents that the engine does not keep |
| `JoinPreview` | what a preview announces and the startup audit counts, beside the engine that joins |
| `JoinPreviewProofs` | theorems that a joining engine does what was announced, and counts it right |
| `SyncEngineProofs` | the inductive invariants and the theorems about the engine that hold however it is disturbed |
| `Convergence`, `ConvergenceProofs` | what holds between any two steps of engines whose users act at rest, while followers stop and crash; the theorems that they converge |
| `LocalStateStore`, `LocalStateProofs` | the local state of one peer, in memory and on disk, its properties and theorems |
| `WriteOnce` | abstract: a store of contents that stay as they were stored |
| `FileStore` | one peer's core of blocks, its writers and readers; implements `WriteOnce` |
| `FileStoreProofs` | theorems about it, the refinement among them |
| `EngineManager` | starting a session and preparing a join, one step per await |
| `Sessions` | the process around it (web server or Pear worker), its requests, ends and starts |
| `SessionsProofs` | theorems about its status and session, about policies and what is open |
| `RecentLog` | abstract: the log of the last events |
| `RingBuffer` | the ring; implements `RecentLog` |
| `Calls` | abstract: calls that settle once, with their own answer |
| `Transport` | the pipe and HTTP transports; implement `Calls` |
| `EngineBridge` | the backend as the page meets it: bridge, routes, web socket |
| `Page` | the page over all of these: status, form, dashboard, list of events |
| `PageProofs` | theorems about the ring and the calls |
| `EventListProofs` | theorems about the dashboard and its list of events |
| `MCSync`, `MCJoin`, `MCLocalState`, `MCFileStore`, `MCSessions`, `MCPage` | instances for TLC |

Three compositions: `Manifest`, `SyncEngine` and `JoinPreview` are all peers
together, a peer being an index of every variable; `EngineManager` and
`Sessions` are one process; `RingBuffer`, `Transport`, `EngineBridge` and `Page`
are one page and its backend. Where two meet, one sees the other from outside:
to the engine a session is `Ready`, `Start`, `Stop`, to `Sessions` an engine is on
or off, to the page a session is up or not.

### Manifest

`log[x]` is every entry ever written at path `x`, `view[p][x]` the last one in
`p`'s linearised view. Autopass is external; the code relies on this of it: an
entry follows what its writer had seen, concurrent entries have one order on all
peers, the last entry of a key wins, and an `update` event says the view may
have changed. The order is a position per entry. An entry that follows all
others takes the next even position; an odd position below the last is for an
entry that loses to one its writer had not seen (`FreshPos`). `Replicate(p, q)`
gives `p` all that `q` has; a view that has only part of what another peer wrote
is one that replicated before the rest was written.

A content stands for its SHA-256 digest; `size`, `mtime`, `seq`, block offsets
are written by the engine and decide nothing in it. `baseHash` does, and is kept.

### SyncEngine

Each queue is a frame with a program counter. One action is what the code runs
between two awaits that others can use; the frame carries the values read before
the await. `handleLocalChange` (190-270) is `SuppressEvent` or `TakeEvent`, then
`ReadLocalFile`, `SkipUnchanged` or `BaseOnManifest`, `PublishFile`,
`RecordUpload`; or `FindDeleted`, `PublishTombstone`, `ForgetDeleted`.
`handleRemoteChanges` (278-296) is `ScanBegin`, then for each entry of the list
it read `PickEntry` and one branch of `handleRemoteUpdate` (298-377) or
`handleRemoteDeletion` (404-464); a conflict copy (379-402) is
`SaveConflictCopy`, `downloadFile` (466-479) is `ApplyRemote` and
`RecordDownload`. `initialSync` (546-621) uses the same two frames: the scan in
the phase "reconcile", and in the phase "listing" an upload for each file
`ListPick` finds, before `OpenWatcher`. `Ready` takes the policy of the session
from `Policy`, the set of those a user or another peer's `__config` may have left.

The user writes or deletes a file whenever `Editors` and the bounds allow. The
watcher (`Watch`) looks at a changed path once, later, and reports it as it is
then. `Stop` and `Stopped` are `stop()` with its wait for both queues; `Crash`
ends the process anywhere; `ScanFails` is a block that cannot be fetched and
`StartFails` the same in `start()`, which it rejects; `UnrelatedUpdate` is an
event that brings nothing for these paths.

Abstractions, each with what it leaves out:

- The model lives within one day, so a peer has one conflict copy and one
  tombstone copy of a file, as `buildConflictPath` names them, and a second
  conflict overwrites the first copy, as in the code.
- Users do not touch conflict copies, and a copy has no conflict of its own.
  `StartConflict` and `StartPreserve` require a user path; TLC confirmed on the
  instances of the passing runs that no step is lost by it.
- `lastSyncedHash` and `lastManifestHash` are always written together and equal,
  so `tracked` is one hash.
- `localState.set` is atomic here. A crash during its await is a crash before
  it. Its own steps are the subject of `LocalStateStore`.
- `suppressedPaths.add` and the `put` or `del` after it are one step: nothing
  else reads the mark until an event of the path is handled.
- `drive.put` writes a whole file or none; a torn write is not modelled.
- `list` of the folder and of the manifest are snapshots, as the code collects
  them before it awaits anything about an entry (279, 567).
- `Announce`: whether Autopass announces a peer's own append is left open.
- A fetch is answered or fails; one that hangs forever is outside the model.

### LocalStateStore

The contents of the map are a version number: how many changes it has had.
`waiting` is `writeQueue`, the version of each call that is not answered yet.
`Serialize`, `RenamePrimary`, `RenameBackup`, `Resolve` are the steps of
`doPersist` (80-94 of `local-state-store.ts`); `WriteFails` rejects the queue for
good, because `persist` chains on the rejected promise (75-78); `LoadFails` is
the same within `load`. `DamagePrimary` is what the backup is for. Files are
renamed into place and never synced; power failure beyond a damaged primary is
not modelled.

### JoinPreview

`PrepareJoinPreview` notes the folder's hashes and the manifest's entries, and
the counts (163-261 of `engine-manager.ts`) are operators on these two:
`FileConflicts`, `TombstoneConflicts`, `RemoteOnly`, `LocalOnly`,
`TotalAffected`, and `PolicyImpact` with all the numbers of each policy that the
setup screen shows, the `delete` of remote-wins (242) among them, which the engine
does not keep (see the findings). `CountAffected` is `startupPolicyAffectedPaths`,
counted along the steps of the engine. The manifest of a preview is paired and
replicates, so it is taken in the phase "ready". A preview that folder or
manifest have left behind when the engine starts is dropped: it promises
nothing.

### FileStore

`core` is the sequence of blocks, appended to by whatever writers are under way
(`AppendChunks`, then `ReturnWrite` of the offset computed from the length after
the own append); readers go block by block on the own core, or on a remote copy
that has some of the blocks (`have`). Contents are sequences of bytes, so the last
block may be short and the empty content has none. `FilesKept` maps what
`writeFile` has returned, read through the core, to the entries of `WriteOnce`.

### EngineManager and Sessions

A request (a setup, a preview, a shutdown, or the start of the process) is a
record with a program counter, and one action is what runs between two awaits.
`OpenStore`, `OpenManifest`, `ResolvePolicy`, `PersistConfig`, `ReadyEngine` are
`startEngine` and `startEngineFromManifest`; any of them may reject
(`StartRejects`), which closes nothing, or `PreviewRejects`, which does; where a
store would be opened, so may the making of its directory before. A policy may come
with any setup, whether it creates or joins. A store
is known by the request that opened it, and its lock keeps a folder from being
opened twice. `config` is the policy in each folder's `__config`, which a peer may
set at any time (`PeerPersists`).

`Sessions` adds the variables of the process that every request shares: `engine`,
`bridge`, `resolvedFolder`, `pending`, `shutdownCalled`, and the saved folder.
`clearPendingJoinPreview` is `ClearManifest`, `ClearStore`, `Cleared`, which read
`pending` anew after each await, or `ClearThrows` when it is gone. `host` is the web
server or the worker: the worker has no preview, does not await the automatic
start before it serves, and its shutdown ends the process without closing the
manifest. `Exit` ends the process anywhere and releases what it held; `Start` is
a new one, with the saved folder, a folder given, or the setup screen.

History variables: `leaked` (stores of failed starts), `ran` (folders whose
session started), `chosen` (a user's choice of policy, until a peer sets another)
and `overlapped` (two requests were under way at once).

### RingBuffer, Transport, EngineBridge, Page

`RingBuffer` has the array, `head` and `count` of the code. `Transport` is both
transports: over the pipe the first message of either direction is the next
(`Arrivals`), a call is in `pending` until its answer or its timer settles it
(`Receive`, `Timeout`), a late answer is dropped (`ReceiveLate`), pushes and
answers share the pipe; over HTTP any message may be next, there is no timer, and
a call is rejected when the server is gone (`ConnectionLost`). `answered` is a
history variable. Status and events are answered in the step that reads the
request; a setup is begun and finished later (`BeginSetup`, `FinishSetup`), so
others overtake it.

`EngineBridge` adds the event counter, the ring, the web socket of the page with
its registration at the bridge, and the end of the server and its new start.
`starting` is a start no call of this page began: the automatic one of the worker,
which serves the pipe meanwhile (`index.js:196-219`), or a setup from another tab.
Starts overlap, as in `Sessions`: each was refused only if there was a session when
it began, and the last to end takes the place of the bridge (`NewBridge`;
`web-server.ts:147-155`, `index.js:102-111`). The one before stays attached and goes
on pushing: it is in `strays`, with whether it knows the page's socket
(`LeaveBridge`, `StrayEvent`). The catch of the automatic start takes the bridge away
also when a setup has set it meanwhile (`StartFails`; `index.js:212-217`). Whether
two starts meet the lock of one folder is not told apart here, so more of them
succeed together than in the code.

`Page` is `useApi` (polling whether or not the last poll was answered), the form, and
the dashboard with the list of `useEvents`: fetched once when mounted, replaced when
the answer arrives, extended by pushes with ids of the page's own.

An event is its number. The bodies of files and peers lists, stats pushes, invites
and the folder dialog are left out; their routes are reads.

## The runs

| run | bounds | shows |
|---|---|---|
| `engine_races` | 2 peers edit at any moment, 2 edits, 1 failed fetch, 1 unrelated update | `TypeOK`, `TrackedPublished`, `UnpublishedEditsSurvive`: however the handlers interleave, no content that exists nowhere else is overwritten knowingly |
| `calm_convergence` | 3 peers: one joins with any folder under local-wins, 1 edit by either of the others, each when all is at rest | `FoldersMatchManifest`, `IncorporatedBeforeReplaced`, `EventuallyAtRest` |
| `followers` | 1 editor with 3 edits; a follower that stops once, crashes anywhere twice, fails to start once | `FollowersKeepUp`, `FollowersNeverRollBack` (until a crash it publishes over no file, nor over the deletion of the version it had), `EventuallyAtRest` |
| `joining` | a peer joins with any folder, under any policy, which may be another at its second attempt; 2 edits by the other, 1 abandoned start | `FoldersMatchManifest`, `IncorporatedBeforeReplaced`, `BroughtFilesSurvive`; `PreviewKeptSaveDeletions`, `OneSidedFilesMerged`, `AuditMatchesSaveDeletions`: the engine does to the folder what was announced and counts it, but the deletions announced for remote-wins, each of which it answers with an upload |
| `local_state` | 3 changes, 2 crashes, 1 failed write, 2 damaged primaries | `StoreTypeOK`, `AckedSurvives`, `BackupHoldsAcked`, `IdleIsPersisted`, `CallsAnswered` |
| `file_store` | 2 writers, 1 reader, contents of 0, 1 and 1½ blocks, 3 blocks | `FileStoreTypeOK`, `ReadBack`, `RangesApart`, `FilesKept` |
| `sessions` | 2 folders, 2 policies, 3 requests, 2 under way at once, 2 starts of the process | `SessionsTypeOK`, `BridgeAgrees`, `SavedHasRun`, `SessionsWhole`, `NothingOrphaned`, `ChosenPolicyRuns`, `StoreClosedLast`, `EngineKept` |
| `page` | a ring of 2, 3 events of any bridges, 3 calls, 1 end of the server, either transport, a start under way besides | `PageTypeOK`, `KeysUnique`, `PipeShowsRecent`, `DashboardStays`, `RingKept`, `CallsKept`, `FormComesBack`, `SocketHears` |
| `claim_...` | | the four findings below |

*Sync runs* use one file and three contents, and no more than two events in a
watcher's queue (a third can only be a repetition of a path that is already
there). Two peers are enough for every race between a peer's two queues, its
user and one remote writer; what a third adds is another source of the same
entry, which `calm_convergence` has: its two writes are the edit and what the
joiner uploads over it, in either order. Three edits reach every pair of successive
entries (file over file, tombstone over file, file over tombstone) and an entry
that is missed between two others; two stops or crashes reach a second start on
what the first left half done. In `joining` nobody stops: a local-wins joiner that
stops before the others have its upload has made a concurrent edit, which no run
with `Calm` is about.

*`file_store`*: two writers suffice for a mix of blocks, three blocks for a file
of two beside one of one; one reader meets every state of the core.

*`sessions`*: two requests overlap in every way two can; the third comes after
what they left. The second start is the one that finds a saved folder. A state
constraint follows overlapping requests in the first process only, up to its end,
and only those that choose no policy: all a later process meets of them is the saved
folder, the subject of `claim_saved_folder`, and no property but the type invariant
is about what they do to a policy. (Without that last restriction there are
2.1 million states instead of 0.8 million, and the properties hold too.) Folders and
policies are symmetric.

*`page`*: a ring of two wraps with three events. Three calls are a status, the
events, and one that is late: a setup, or a status asked before the session was
there and answered after, since a session may begin without a call (`StartSucceeds`);
so also two setups that overlap, or a setup and a start. A setup that is overtaken
by a status, the events and another status needs four: the invariants and
`DashboardStays` were checked with four calls and two events too (1.9 million
states), which is more than the liveness properties of the same run allow, and
`ListIsRecent` and `DashboardIsKept` are proved for any number. The one end of the
server comes at any moment, with a new event count after it. Events and ends
share one bound.

`CHECK_DEADLOCK FALSE` is set because every one of these systems stops when nobody
asks anything of it and every bound is used.

**Calm and SteadyStart.** Convergence does not hold of this code without
assumptions, and the runs that need one say so in their .cfg. `Calm`: users act
only while nothing is under way. `SteadyStart`: a peer starts when the others
are at rest and its manifest has caught up, and no entry comes before it is
live. `engine_races` has neither. Where an assumption is dropped the property
fails, and the findings below show how.

**Fairness.** In `SyncEngine` each promise queue runs while it has work: a queue
is a promise chain and every external call in it is assumed to be answered. The
watcher looks at a changed path in the end. Replication goes on between running
peers. A session that has begun to start or stop goes on. There is no fairness on
the user, on faults, on stops and crashes, on `Ready` (nobody is obliged to
launch the program) or on unrelated updates. In the local state store the writer
and `load` proceed. In `Page` timers fire (the one of `send`, the retry of the
socket), messages on the way arrive, requests that wait for nothing are answered,
and React mounts what the state asks for; nothing obliges a setup to end, a server
to come back, an engine to emit or a user to act. `FileStore` and `Sessions` are
checked for safety only.

**Mutants.** Every property has a mutated definition beside the original
(`Mutant of ...` in its comment) with which its run fails; they are plausible
mistakes in the code: the record of a download forgotten, the policy not passed
on, tombstones skipped by the scan, a ring whose head wraps late, an offset read
off the core too late, a promise forgotten by its timer, sockets not given to the
new bridge, a preview that is not reset.

## Findings

Four runs end in a violation of what a document of the repository says:

- `claim_loser_saved`: of two concurrent edits the loser is saved only if its
  upload had not been recorded yet. Recorded, it counts as unmodified and is
  overwritten with no copy (still in the core, in no folder).
- `claim_edits_published`: files written during the initial scan stay marked in
  `suppressedPaths`, since no watcher is there to spend the mark. The user's
  first edit of such a file is dropped.
- `claim_set_persists` (a bug): after one failed write of the local state no
  later change of the session is written.
- `claim_saved_folder`: a setup reads `resolvedFolder` after its awaits
  (`web-server.ts:150,156`), when a preview or setup of another folder has
  replaced it; the bridge shows that folder and the next launch starts it,
  although it never ran. The form allows it: its preview button stays enabled
  while a setup is loading.

Others were met on the way. In the engine (lines of `sync-engine.ts`):

- The scan compares against a list read before its awaits (279): the only editor
  uploads a newer version meanwhile, its file then equals the tracked hash, and
  the scan downloads the stale entry's content over it (`PLAN.md:84`).
- A follower that missed an update and the deletion after it while it was stopped
  ignores the tombstone (440), whose base it never had, and its next start uploads
  the old file over it, without any crash, although "Restarting after remote delete
  does not resurrect deleted files" (`docs/reconciliation-hardening-plan.md:66`).
  `FollowersNeverRollBack` holds of the deletions whose version the follower had
  (`DeletedUnseen` names the others).
- A crash between a download and its record (473), then an edit of the others
  that brings the old content back: the restarted follower finds its local state
  agreeing with the manifest, takes the downloaded file for an edit of its user
  and uploads it over the others'. This is why `FollowersNeverRollBack` speaks of
  the time until a crash.
- A joiner that crashes between a download and its record (473) has at the next
  start an untracked file, which the next conflict saves as its own: under the name of
  the copy made the same day of what it really brought (46), which is lost if it had
  not been listed yet. This is why `BroughtFilesReachManifest` is about joiners that do
  not crash.
- An entry that arrives between the first scan and the listing of `initialSync`
  is replaced by the restarting peer's old file
  (`docs/reconciliation-hardening-plan.md:65`); a file deleted while its engine was
  down comes back (`prompts/layer4-folder-watcher.md:296`); an edit already
  uploaded loses to a concurrent deletion ordered after it (`PLAN.md:86`); a
  conflict copy made while the engine is live is not uploaded until it restarts
  (`docs/syncthing-comparison.md:143`); a mark spent by another event of its path
  makes a download be answered with an upload
  (`docs/reconciliation-hardening-plan.md:112`).
- The preview announces that remote-wins deletes the files at deleted paths
  (`engine-manager.ts:242`) and counts them as affected (243, shown in
  `web/src/components/Setup.tsx`); the engine lets these tombstones be (409-441) and
  uploads the files (567-600), and its audit does not count them.
  `PreviewKeptSaveDeletions` says that this happens to every one of the announced
  deletions, and to nothing else; `AuditMatchesSaveDeletions` that the audit falls
  short of the announced total by just their number.
- An engine's "error" event without a listener, before `attach` and after
  `detach`, throws inside the `catch` of a queue (129-135, 147-153) and leaves
  that queue rejected; "audit" is emitted only before `attach`, so it never
  reaches the event log.

Around it:

- A start that fails leaves its store open (`engine-manager.ts:310`), and so does
  a failed start of a prepared join (`web-server.ts:134-136`): a second attempt at
  the folder meets the lock. A shutdown during a setup finds no engine
  (`web-server.ts:264`), and the engine started afterwards outlives the server.
  Concurrent calls of `clearPendingJoinPreview` can throw (51) or drop a newer
  preview (52). `NothingOrphaned`, `SessionsWhole` and `BridgeAgrees` therefore
  speak of behaviours in which no two requests were under way at once.
- Two setups of different folders that overlap, or a setup during the automatic
  start of the worker, both succeed (`web-server.ts:104`, `index.js:94` are read
  before the awaits). The engine and the bridge of the first are never closed nor
  detached: its events go on reaching the page beside those of the other, whose ring
  the page fetches, so the list then has the events of two sessions, with gaps. And
  an automatic start that fails takes away the bridge a setup has set meanwhile
  (`index.js:212-217`): over the pipe too the user is then taken back to the setup
  screen, while the session runs. `PipeShowsRecent` and `DashboardStays` promise the
  latest events, and the dashboard, until a bridge has lost its place (`strays`);
  that no event is shown twice or out of order holds after that as well.
- The Pear worker closes the store under an open manifest (`index.js:143-147`);
  `StoreClosedLast` is about the web server. The worker knows no preview.
- Over HTTP the list of events can miss or repeat events, when one is pushed
  around the snapshot, and is not fetched again after a reconnect; a stale
  status answer can take the user from the dashboard back to the setup screen;
  and a setup has no timeout. `PipeShowsRecent`, `DashboardStays` and
  `FormComesBack` are about the pipe. There a setup that times out after 30 s
  goes on in the worker while the form is enabled again.

## The proofs

All proofs about the engine are for any sets of peers, paths and contents and any
policies; those of `SyncEngineProofs` for any bounds and both values of `Calm` and
`SteadyStart`. They rest on the named assumptions of the modules: `None` is neither a
content, a peer nor an entry (`NoneAssumption`, `EntryAssumption`), no user path is a
copy's path (`PathAssumption`), the constants have their types (`ConstantsAssumption`,
`BoundsAssumption`, `EventAssumption`), an unusable file is not a version
(`StoreAssumption`), a ring has room for one item (`CapacityAssumption`), and
the page shows as many events as it fetches (`ShownAssumption`). In
`FileStore` contents are sequences of bytes and a block has at least one byte
(`StoreAssumption`); in `EngineManager` and `Sessions` the bounds are numbers
(`RequestAssumption`, `BootsAssumption`), and `None` is no folder, policy, number
or session (`NoneAssumption`, `SessionAssumption`).

`SyncEngineProofs`:

- `TypeCorrect`: `Spec => []TypeOK`. `TypeOK` is not inductive: that
  `ApplyRemote` writes a content depends on the frame, at "fetch", holding a file
  entry. `TypeInv` adds what each program counter implies (`LocalFrames`,
  `RemoteFrames`).
- `TrackedIsPublished`: `Spec => []TrackedPublished`, and
  `EditsSurvive`: `Spec => UnpublishedEditsSurvive`. Both follow from `Sound`:
  a view shows entries that were written; the base of every entry, every tracked
  hash, and what a frame is about to record or use as a base is published at its
  path (`Shared`); every entry a scan still holds was written; and at "fetch" and
  "delete" the content compared is still saved (`SeenSaved`). The last part is
  the heart: between comparison and write others may publish, edit, crash and
  replicate, so the proof shows that publishing only grows (`SharedGrows`), that
  nobody but the engine itself touches its conflict copies (`CopiesKept`), and
  that the policy it applied stays in force (`PolicyKept`).
- `BroughtFilesReachManifest`: `Spec => BroughtFilesSurvive`, where nobody crashes
  and who joins with files does not edit them later (the others edit, stop, restart
  and fail to fetch at any time; nothing need be calm or steady). The property
  begins with a file in a folder nobody has started on and ends with an entry, so
  the invariant (`Waiting`) says where the content is until then: not yet live, the
  peer has it at its path with no tracked hash, or in the conflict copy of that path;
  what it holds of an entry it compares agrees with the folder (`JoinFrames`); and the
  listing has yet to visit the place, or the upload of it is under way. Remote-wins is
  excluded by the property, so what a scan overwrites is saved first: that is
  `SeenSaved` again. That the copy stays until the listing takes it needs that nobody
  else has to do with it: no peer but its maker has an entry, a queued event or a frame
  at its path (`CopiesStayPrivate`). The bound on crashes is needed, as the findings
  say.

The `WhoWrites...` lemmas say once which operations change which part of the
state, so each later lemma treats only those.

`ConvergenceProofs`, for any number of peers, editors, files, contents and edits, any
number of peers that join with folders of their own under any policies, together or
one after the other, and any number of followers that stop, crash, give up starts and
come back, however often:

- `FollowersCatchUp`: `Spec => []FollowersKeepUp`.
- `RestartsConverge`: `Spec => [](Silent => FoldersMatchManifest)`.
- `FoldersConverge`: `Spec => []FoldersMatchManifest`.
- `ReplacedAfterIncorporated`: `Spec => IncorporatedBeforeReplaced`.
- `RestartsRollNoneBack`: `Spec => [][Silent => ...]_vars`, the body of
  `FollowersNeverRollBack`, over the deletions of versions it had as over files, unless
  sessions may begin under local-wins, whose purpose is to replace what others have.
- `FollowersSilent`: `Spec => FollowersNeverRollBack`, under the same condition.

They assume `Orderly` (in `Convergence`): `Calm`, `SteadyStart`, no unrelated update
event, that who joins with files or restarts does not edit, and that no scan is given
up. Each has its reason in the code. An unrelated update between the user's deletion
and its tombstone lists the deleted file's entry and downloads it again; the marks
`initialSync` leaves swallow a joiner's later edits (`claim_edits_published`), and
those of who restarts; a scan that fails is repeated by nothing; and an edit beside an
entry under way is a conflict, whose copy is not uploaded while live. `followers` is an
instance. `FoldersConverge`, `ReplacedAfterIncorporated` and `FollowersSilent` assume
`Undisturbed`, which adds that nobody restarts (`Restarting = {}`); `calm_convergence`
is an instance of them.

With restarts the theorems reach as far as the first entry a restarting peer publishes
(`Silent`; of the others it demands nothing). A follower that crashes between the
download and its record, or misses an update and the deletion after it, publishes what
it has (the findings), and then two entries are under way at once. What
`RestartsConverge` says is that nothing else can go wrong: a restart that the others do
not notice leaves the peer in step, whatever was unrecorded or half done when it went
down.

The argument is that, users acting at rest, engines do one thing at a time, and
`ConvInv` says which. At each path of a live peer, either no user's change waits there
(`KeptInv`: the folder shows the last entry, or a scan is at work on it or owed; and
what the view lacks is one entry that follows the one it has), or a change waits
(`Unpublished`) and then it is the only thing under way anywhere: every live peer is at
rest with the same view (`AloneAt`). A joiner's invariant follows its scan and its
listing (`ReconcileInv`, `ListingInv`); meanwhile the live peers receive only its
uploads.

Of a peer that restarts nothing is known when it goes down (`IdleInv`), and nothing
that its local state records is of use, since a crash may have lost it. What is known
is established anew: in the scan, every file the manifest names is on the disk or still
to be fetched (`ComparingInv`); in the listing, every file on the disk is the
manifest's, or still to be visited, or being handled (`NotingInv`). A file that is
neither would be published, and the peer were not silent. So when the watcher opens
(`OpenWatcherKept`) the folder matches and the live invariant begins. Manifest entries
that arrive during a start would break this, which is what `SteadyStart` excludes.
That some peer has the newest entry of each path (`SomeoneNewest`) is asked of the
peers that do not restart.

`RestartsRollNoneBack` needs more of a follower than that, and gets it as long as
nobody has crashed. `FollowersInv` says of each follower that is not live that a file
it tracks is as it was recorded, or gone, except while a download waits for its record
(`Recorded`, `Recording`). Then no scan finds a divergence; the scan of `initialSync`
leaves every file the manifest names as it names it, and takes every file whose
deletion the manifest has, if the peer had the version that was deleted (`Followed`);
the listing finds nothing to put in their place; and a stop drains nothing but events
of the engine's own writes (`DrainInv`). The watcher's part of this comes from the
live invariant at the moment of the stop (`FollowerStops`). A conflict copy under
keep-both is a file nobody has an entry for (`CopiesUnpublished`), so writing it
disturbs no record. A crash between a download and its record breaks `Recorded`, and
the finding above is what follows.

Most of the length is the product of the actions of one peer with the invariants of
another; `OnlyMover` and `OthersRest` say once that a step moves one peer, and the
lemmas `Live...`, `Reconcile...`, `Comparing...`, `Noting...` and `Follower...` treat
one action each. `ConvInv` and `FollowersInv` were checked with TLC on instances with
two and three peers, with and without stops, crashes, abandoned starts and joiners,
before they were proved. At rest `ConvInv` leaves `KeptInv` with nothing owed, which is
`FoldersMatchManifest`; for the action properties it says what the base is at the moment
of an upload.

`JoinPreviewProofs`, for any peers and any paths, contents and policies, any number
of joiners at once, of edits by the others, of failed scans of theirs and of starts
that are abandoned and tried again with another policy:

- `PreviewIsKeptSaveDeletions`: `JoinSpec => PreviewKeptSaveDeletions`.
- `OneSidedFilesAreMerged`: `JoinSpec => OneSidedFilesMerged`.
- `AuditIsForetoldSaveDeletions`: `JoinSpec => AuditMatchesSaveDeletions`.

They assume `SteadyStart`, no stop or crash, and that who joins leaves the folder
alone (`Joining \cap Editors = {}`); the two that count also that `Path` is finite.
`joining` is an instance; unlike the theorems of convergence these need no `Calm`. An
entry that arrives during the scan is not in the preview, and an edit by the user
overtakes it. Stops and crashes are excluded for the proof's sake: a session after one
has a preview only if the folder is still untracked, and then the queues of the session
before are gone, but the scans of a live session are not in `NotYetJoined`.

`NotYetJoined` says of a peer before it is live what holds whatever was announced: the
folder has everything tracked, a copy holds what is at the path it is a copy of, no
entry of its own is untracked, none of the scan's entries has changed. That is what
makes a second attempt after an abandoned one harmless. `Told` ties the state to the
preview path by path: until the scan has written a path (`Unwritten`) its file is the
one announced, thereafter it is the `Outcome` under the policy; its copy is there once
it is copied (`Uncopied`); the audit has counted the affected paths that are compared
(`Uncompared`). `Foretold` carries it from the start to going live, when nothing is
left to compare or to list (`GoneLive`). What is left is counting: `OneCopyEach` gives
the bijection between copies and conflicts, `PreviewCounts` that nothing is counted
twice. `OwnSeen`, that a peer has seen everything it has published itself, keeps
replication from bringing it an entry of its own.

`LocalStateProofs`: `StoreTypes`, `AckedIsDurable`, `BackupIsEnough` and
`DrainedIsPersisted`, from `StoreInv`. The properties alone are not inductive: whether the next rename or
the next answer keeps them depends on the version in the writer's hands
(`WriterInv`: not older than the call it serves nor than anything acknowledged,
already in the files renamed so far, and the map itself when one call is left)
and on the map being as new as anything acknowledged (`VersionInv`).

`PageProofs`:

- `RingIsLog`: `Spec => RingKept`, for every capacity. The invariant (`RingInv`)
  is that `head` and `count` are in range and that the slots behind `head`, as
  many as `count`, have been written. One lemma says what `ToArray` is after a push,
  by cases on whether the ring was full; every other step leaves the ring alone or
  begins a new one.
- `CallsAreKept`: `Spec => CallsKept`. The invariant (`TransportInv`) says that the
  promise of every call in the table waits, that every message on its way to the
  page carries the answer given to its call, and that a call is at one place only:
  on its way, being served, or answered. Without the last, a second answer to one
  call cannot be excluded.

`EventListProofs` goes on from it.

- `RowsAreDistinct`: `Spec => []KeysUnique`. The invariant (`EventsInv`) says that
  ids fall from the newest event to the oldest in the ring, in every list on its
  way to the page and in the list shown, and that `nextId` is above every id
  shown. A fetched list keeps the ids of the ring, a pushed event gets the page's
  own, and a new bridge begins again at 1 with an empty ring: it is the next id,
  set anew by each fetch, that keeps the two kinds of id apart.
- `DashboardIsKept`: `Spec => DashboardStays`. The invariant (`DashboardInv`) orders the
  answers still in the pipe: none that tells of no session comes after one that tells of
  a session, nor is one on its way once the page has seen a session, as long as no
  bridge has lost its place. That needs the
  route of each answer (`ShapesInv`): a setup that ends late must not be taken for a
  status.
- `ListIsRecent`: `Spec => []PipeShowsRecent`. The i-th newest event in the ring is the
  i-th last emitted (`RingRecent`), and what an answer, a push or the list lags behind is
  the number of pushes behind it in the pipe (`LineRecent`, `ShownRecent`). The lemmas
  `PushesAppended` and `PushesTaken` count them as messages come and go. Once there
  are strays this no longer holds, and what remains is that every list on its way, the
  pushes behind it and the list shown descend: no event comes twice or out of order.
- `PageTypeCorrect`: `Spec => []PageTypeOK`. That a fetched list fits the shown one
  depends on what a message answers, which is in `ShapesInv`.

`FileStoreProofs`, for every block size and any number of overlapping calls:
`FileStoreTypes`, `ReadsAreWhole`, `NoBlockShared`, and the refinement
`FilesAreKept`: `Spec => FilesKept`. The invariant (`StoreInv`) says that every
file is in the core as it was written, that so is what an upload has appended and
not returned yet, that no two of these share a block, and that a reader has the
content as far as it has come. The second part is why uploads may overlap: the
range of an upload is its own from the append on, before anyone is told of it. The
arithmetic of blocks is in lemmas of its own (`DivisionBounds`, `BlockBegins`,
`BlockEnds`, `NextBlock`).

`SessionsProofs`, for any folders, policies, requests and starts: `SessionTypes`,
`StatusIsTheSession`, `SavedFolderHasRun`, `SessionIsKept`. `SessionsInv` adds to the
types what a request may be at by its kind (`Shape`), that a process that has ended
holds nothing, and, while requests do not overlap, that the one request there is
has the folder of `resolvedFolder` and that no session runs while it starts one.
The last is what makes status and saved folder right: both are written from
`resolvedFolder`, which belongs to the process and not to the request.

In the second part of the module:

- `ChosenPolicyIsRun`, from `PoliciesInv`: the policy is settled in one await and
  written in the next, so what a request carries between them is part of it.
- `SessionIsWhole`, `OpenIsOwned` and `StoreIsLast` (`Spec => StoreClosedLast`), from
  `WholeInv`: what is open by the place a request is at (`StartWhole`,
  `ShutdownWhole`), and that a prepared session is cleared before anything else is
  opened (`ClearWhole`), so that the catch of a setup never finds one left. A request
  has a number that nothing open has (`IdsFresh`), the start of a process only
  because everything was closed before.

All but the types are about requests that do not overlap, as the properties say;
what overlapping ones do is in the findings.

The inductive invariants were checked with TLC before they were proved.

Only model-checked: that a follower that restarts goes on rolling nobody back after it
has published something itself (`FollowersNeverRollBack` in `followers`; the theorem
reaches as far as the first such upload); convergence with a start that is abandoned by
a peer that publishes before or after (`joining`); and everything that must eventually happen
(`EventuallyAtRest`, `CallsAnswered`, `FormComesBack`, `SocketHears`), which is
beyond this prover: it has no rules for ENABLED and fairness.

## Not modelled, and why

- Autopass, Hypercore, Corestore, localdrive, watch-drive and localwatch are
  libraries, modelled from how the code uses them. What `drive.put` leaves behind
  when the process dies inside it is theirs; the model writes a whole file or none.
- Invites and pairing are a wrapper of Autopass, of which only the result, an
  open manifest, matters here. `remove` of the manifest has no caller. Peer names
  serve only to name copies; two peers of one name would share a copy's path, in
  their own folders until they upload it.
- Several days of conflict copies, EMFILE handling, event payloads and mtimes.
- Lists of files and peers, stats, the folder dialog and the rest of the web
  interface read state and render it.
- `file-utils` computes digests and spells paths; `lib/` is the compiled form of
  `src/`; scripts and build files.
- A fetch that never ends: it hangs its queue, and with it `stop()`; nothing in
  the code ends it.
