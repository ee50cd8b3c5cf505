# A verification of discordrive's drive core

discordrive is a private drive whose bytes are encrypted fragments in Discord
messages and whose tree (folders, names, versions, trash) is a log of encrypted
operations. The server only orders operations and holds leases; every client
replays the log with the same rules. This directory holds TLA+ models of that
core, the TLC runs that check them on small instances, and TLAPS proofs of what
must hold for every instance. `PROJECT.json` lists the components, the runs,
for every definition the lines it stands for, the hazards with the properties
that are about them, and the theorems.

## 1. The system

| Part | State it keeps | Operations | Talks to |
|---|---|---|---|
| Drive rules (`packages/sync-core/src/apply.ts`, `names.ts`, `store.ts`) | nodes (kind, name, parent, trashed, marks, content), uploads (status, binding, end), head of the log | one `op*` per operation, `applyGroup`, `applyEntry` | called by every replica, in log order |
| Arbiter (`sequencer.ts`, `metadata-client/src/node/server.ts`) | the log, operations by ID, leases (memory only) | submit, read, renew, release | answers clients; wakes them by `notify` |
| Replica and drive client (`replica.ts`, `metadata-client/src/drive-client.ts`) | index up to `headSeq`, outbox, acknowledged operations (memory only) | enqueue, pull, `commitOp`, upload, download | arbiter, blob stores |
| Blob store of an instance (`server-discord/src/blobs-ext.ts`, `channels.ts`) | upload states, blobs and their messages, aliases, moves in progress | put, finalize, cancel, reap, release, purge, move of a channel | Discord, the log's `onAppend` |
| Snapshots (`metadata-client/src/snapshots.ts`) | a pointer in the vault and one in Discord, a chain of base and deltas | write, restore, prune, rehome | arbiter, Discord, vault |
| Cleanup (`cleanup.ts`, `policies.ts`, `sync-core/src/gc.ts`) | uploads already deleted, time of the last run | purge of expired trash, deletion of fragments | arbiter, snapshots' retention |
| Channel moves (`channels.ts`) | progress of a move, drains | copy, relocate, drain | arbiter, Discord, vault |
| Safe (`safe.ts`, `safe-tree.ts`, `safe-copy.ts`), vault (`vault.ts`) | an encrypted tree in one slot with a revision | compare-and-swap commits, moves in and out | server slot, drive client |
| Virtual disk (`apps/desktop/src/vdisk.ts`) | a queue of written files and their copies on the computer | add, rename, remove, upload, retry | the app's operations on the account |
| Transfers (`net.ts`, `rate-limit.ts`, `link-ahead.ts`, `backends.ts`) | windows, buckets, fresh links | acquire, adapt, refresh | Discord |
| Accounts (`node/auth.ts`, `pairing.ts`, `shares.ts`, `invites.ts`, ...) | sessions, pairings, shares | request handlers | SQLite |
| Apps (`apps/web-mo`, `apps/desktop`, `apps/android`) | user interface | | drive client |

How they interact. A client builds an operation on its replica (its base is the
replica's head), queues it, and sends it; the arbiter gives it the next
position. Every replica applies entry after entry; the rules compare the entry's
base with the marks in the index to see what its author did not know. Bytes
never pass through the log: an upload takes a lease, posts fragments, and one
group of two operations commits the upload and makes the file. Deletion of bytes
follows the index: only fragments of aborted and released uploads may go.

Accounts come in two kinds. With an *instance* the server posts to Discord and
deletes (`InstanceBlobs`); a *metadata-only* account has webhooks of its own, and
every device posts and deletes itself (`SnapshotChain`, `DirectBlobs`).

What is hard, and what makes each part correct:

- *Rules.* Entries are built on views of any age. Correct: the tree stays a tree
  with unique names; nobody destroys what he had not seen; files and uploads
  name each other one to one.
- *Log.* Retries, lost answers, concurrent `commitOp` calls on one outbox,
  restarts of either side. Correct: an operation enters the log at most once, in
  its author's order, and every replica is a beginning of one log.
- *Uploads.* The lease expires, the reaper and the committer race, a fragment
  arrives late, the channel is being moved. Correct: no file points at deleted
  fragments; what a client was told is stored stays stored.
- *Snapshots.* Two writers, a crash between steps, pruning what a pointer still
  needs. Correct: the pointer always leads to a complete chain.
- *Cleanup, channel moves, the Safe, the virtual disk.* Long client procedures
  over a moving log: what was read before an `await` is used after it.

## 2. The modules

| Component | Specification | Small instances | Proofs |
|---|---|---|---|
| Drive rules | `IndexRules` (the rules), `DriveIndex` (the machine) | `MCDriveIndex` | `IndexProofs`, `DriveIndexProofs` |
| Arbiter, replicas, `commitOp` | `SyncLog`, and `SharedLog`, which it implements | `MCSyncLog`, `MCSyncOrder` | `SyncLogProofs` |
| Blobs of an instance | `InstanceBlobs` | `MCInstanceBlobs` | `InstanceBlobsProofs` |
| Snapshots of a metadata-only account | `SnapshotChain` | `MCSnapshotChain` | `SnapshotChainProofs` |
| Fragments of a metadata-only account | `DirectBlobs` | `MCDirectBlobs` | `DirectBlobsProofs` |
| The Safe | `SafeTree` (on `IndexRules`) | `MCSafeTree` | `SafeTreeProofs` (on `IndexProofs`) |
| The virtual disk's queue | `DiskOutbox` | `MCDiskOutbox` | `DiskOutboxProofs` |

A module takes from the others what it needs in the form of their result:
`SafeTree` applies `IndexRules` to both trees; `DirectBlobs` takes which bases
are kept as any set (that is `SnapshotChain`'s subject); `InstanceBlobs` and
`DirectBlobs` take the log as one that grows (`SyncLog`'s subject). An `MC`
module gives constants their values, and where one instance has several scenes,
restricts `Next` in each; the scenes of a run add up to the whole next-state
relation.

Common to all: a step runs from one `await` to the next; what a failing call may
have done before it failed is a choice; histories (named so where they are
declared) serve the properties only; `MaxX` constants bound what is otherwise
unbounded, and the bounds are in the guards.

| Run | Result | Distinct states |
|---|---|---|
| `DriveTree` | holds | 42,462 |
| `DriveContent` | holds | 67,781 |
| `SyncOrder` | holds | 827,900 |
| `SyncLive` | holds | 91,488 |
| `SyncDisk` | disagreement with a comment | |
| `InstanceMove` | holds | 3,522,379 |
| `SnapshotChain` | holds | 1,167,474 |
| `DirectMove` | holds | 516,221 |
| `Safe` | holds | 95,221 |
| `SafeLost` | disagreement with a comment | |
| `DiskOutbox` | holds | 359,524 |
| `DiskStale` | disagreement with a comment | |

Deadlock is not checked in any of them: calls are made a bounded number of times
and logs have a bounded length, so every system stops.

## 3. The models

### 3.1 The drive rules: `IndexRules`, `DriveIndex`

`IndexRules.tla` is the function from an index and an entry to an index:
`Member`, with one operator per operation (`OpCreate` for `opCreate`, and so
on), the placement rules (`PlaceLive`, `PlaceRecovered`, `FreeName`), what the
author had not seen (`Unseen`), and the well-formedness that
`sync-core/src/invariants.ts` checks (`Rooted`, `Acyclic`, `Unambiguous`,
`Bound`). The loops of the code that walk up or down the tree are sets here
(`Chain`, `Subtree`, `Path`), so nothing is recursive and the module can be
proved about.

`DriveIndex.tla` is the state machine: `index`, `head` (length of the log) and
`last` (the entry just applied, for the action properties). There is one index
because all replicas compute the same one. The author's view is the entry's
base, any position up to the head: that is exactly what `validateEnvelope`
admits, and more than honest timing needs. Operations come from what clients
send: single operations, `upload_commit` with `create` or
`new_content_version`, trash with purge, and selections of two.

Abstractions. A version is identified with the upload that carries it; its hash
is a constant per upload. Names are a word and a list of suffixes, so that rule
2's result may itself be a name somebody chose; all conflict copies of a file
get the same name (as two do that one device makes in one minute). Server time
is the position. Notices appear only where a property needs them (`Told`).
Nodes' `recoveredFrom`, `conflictOf`, `created` and `nameChanged` are left out:
no rule reads them, except the notice about renames.

| Property | What could go wrong |
|---|---|
| `TypeOK` | a mark, a clock or a binding ahead of the log |
| `IsTree`, `UniqueNames` | purges that orphan, crossing moves, names that collide after folding or suffixing |
| `Bindings` | a file whose fragments may be deleted, an upload shared by two files, a bound upload nobody can reach |
| `NoUnseenLoss` | an entry destroying a version or a node its author did not know |
| `AppliedIsLive` | "applied", but the user finds the file in the trash |
| `SpaceKept` | photos recovered into the drive |
| `UnseenTrashIsTold` | a device whose change went to the trash with a folder is never told |
| `KeptStartsAgain` | what a purge kept is still expired, and goes with the next run |
| `VersionsKeep` | a relocation that makes a version look new, or moves bytes from where they no longer are |

Runs. Four entries (`MaxSeq = 4`) are enough for each hazard: one or two to
build the scene, one change that is unseen, one that meets it. Two devices are
enough since every rule compares one author with one mark. `DriveTree` has three
scenes: two folders under the names `a` and `A`, with selections; two folders
under rules 3 and 4, where the Gallery appears; a folder with a file in it.
`DriveContent` has two: one file and three uploads, two with one plaintext; one
file, two uploads and two places, with relocations under rules 2 and 3.

### 3.2 The log and its replicas: `SyncLog`, `SharedLog`

`SharedLog.tla` is the promise: one log that only grows and holds an operation
at most once, and for each device a beginning of it that only grows.
`SyncLog.tla` is how the code keeps it, and `SharesLog` (`known` is `applied`)
says that it does.

| State | In the code |
|---|---|
| `log`, `disk`, `lease`, `minRules` | `Sequencer.log`, the table `log`, `Sequencer.leases`, `minRulesVersion` |
| `applied[d]` | the device's index up to `headSeq`; it survives a restart |
| `outbox[d]`, `acked[d]` | `Replica.outbox`, `Replica.acked`; they do not. `made[d]` is the order of the outbox |
| `base[o]`, `pc[o]`, `sent[o]` | the envelope's `baseSeq`, where its `commitOp` awaits, the envelope the await is for |
| `requests`, `answer` | HTTP requests and answers on their way |
| `refused`, `lost` | history, for the properties |

Each operation has its own call of `commitOp`. A step of a call runs from one
await to the next: `Call` (enqueue, first pull), `ReadLog` and `Receive` (one
batch of a pull), `Send`, then `Acknowledged`, `Refused` or `Errored`,
`AllSent`, and pulls again until the batch is empty. Calls of one device
interleave at every await and send each other's operations, as `nextToSend`
makes them do. A device in `Followers` also pulls by itself (the app's
subscription). A guarded operation needs the lease of its author. A read is
answered with the log of the moment, and its answer may arrive after other pulls
have moved the head. `Submit` has the INSERT that may fail after the entry is in
memory; `NetworkFails` loses a request, or only its answer; `RestartServer`
reads the rows, perhaps with a build that accepts fewer rules; `RestartDevice`
forgets the outbox and the calls, while what was sent may still arrive. What an
entry does to the index is 3.1's subject: here a call is "ok" when its entry has
been applied, whatever the outcome.

| Property | What could go wrong |
|---|---|
| `TypeOK` | a head, a batch or an answer that does not fit the log |
| `SharesLog` | an operation sent twice enters twice; a batch read at an old head is applied again or leaves a gap; a restart changes what devices have read |
| `OwnOrder` | an operation overtakes one the same device made before |
| `OkIsApplied` | a call ends well without its entry; an operation disappears from the outbox |
| `NeverPastUnreadable` | an old build skips an entry it cannot read |
| `CallsEnd`, `Converges` | the loop of `commitOp` runs for ever because of other calls; a follower stops short |

Runs. `SyncOrder`: operations `a`, `b` of one device and `c` of another with a
newer build, batches of two; either an INSERT may fail, or there are two
failures of the network or of a program. Two operations of one device are the
least that can overtake each other or be sent by each other's call; the third
makes entries appear that nobody waits for; two failures give a restart of one
side after a loss on the other. `SyncLive`: a guarded operation before another
one, leases that end and are taken over, a failure, a follower. Nothing else is
bounded: each operation is called once.

Fairness (`SyncLive`). The server takes every request that is not lost (it is a
single-threaded event loop); a call that is not failed goes on (promises
settle); a follower keeps pulling (the subscription polls again after every
answer). Nothing is assumed of leases, failures and restarts.

### 3.3 Blobs of an instance: `InstanceBlobs`

The server's side of an upload and of a channel's life, and the client as far as
its requests.

| State | In the code |
|---|---|
| `uploads`, `blobs`, `aliases`, `hooks` | the tables `s_uploads`, `s_blobs`, `s_blob_alias` and the webhooks of `InstanceHooks` |
| `messages` | what Discord has received, in that order |
| `leased` | `Sequencer.leases`, as far as the device holds one |
| `client[u]` | `DriveClient.upload`: where it is, whether it ends in the log or the Safe, the placements it was answered |
| `put[p]` | a request in `putBlob`, between its awaits; with it the webhooks it was noted for (`InFlight`) |
| `tick`, `eraser[e]` | the background pass and each run of `deleteBlobs` |
| `job` | the row of `ChannelMover`, and where its loop is |
| `torn`, `raced` | history: a stop between the log's INSERT and `onAppend`; two puts of one piece at once |

A put reads the upload's row and the blob's row (`PutStart`), hashes and posts
(`PutBody`, `PutLands`, `PutFails`), and after the post looks again: it drops
what it posted, takes the place of the old row's message, or stores its own
(`PutPosted`, `PutDropped`, `PutReplaces`, `PutReplaced`). A client that hangs
up does not stop it (`HangUp`). `deleteBlobs` reads its rows once and then
deletes message by message (`EraseMessage`, `EraseSkips`, `EraseMarks`,
`EraseThrows`), for the pass, a cancel and the mover alike. The mover settles
with the puts that chose its webhook, copies a batch row by row, switches a row
to its copy if the row is still the one it read, erases what is garbage, checks
that nothing is left, and deletes the replaced messages (`JobSettled` to
`JobFinishes`; `JobFails` pauses it). A restart of the server loses `put`,
`tick`, `eraser` and where the job was.

| Property | What could go wrong |
|---|---|
| `BytesStay` | the reaper, a cancel or the mover takes a message a bound upload needs |
| `AnswerStands` | an answered placement stops resolving: the row was replaced or moved and no alias leads on |
| `MovedIsEmpty` | a put lands on a webhook after the move has looked at what is left |

Two situations are excepted by name, because the code does lose there (section
6): `torn` (a stop inside an append) from `BytesStay`, and `raced` (two puts of
one piece) from `BytesStay` and `AnswerStands`.

Run `InstanceMove`: one upload of one piece, two webhooks, three messages, two
sessions, a restart. In one scene a channel is moved while one put at a time
runs; in the other there are two puts at once, a resumed upload, and a server
that stops inside an append. Rows, messages and puts of different pieces meet
only in the counts `leftover` reads, which the proofs have for any number.

### 3.4 The snapshot chain: `SnapshotChain`

The chain of a metadata-only account: `messages` (segments and bases),
`slots` (the pointers), `vault.pointer`, and per device the scheduler with the
pointer it knows. A write is read the pointer (`check`), post, read again,
compare, write (`land`), prune (`prune`, `remove`); a device may also move the
chain to another channel (`rehomeChain`) and drain the old one. There is no
compare-and-swap, and any call may fail. `Restores(p, s)` says that the state
at position `s` comes back from what pointer `p` reaches.

| Property | What could go wrong |
|---|---|
| `RestoresSinceOldest` | a prune, a drain or a cut run deletes what the pointer needs |
| `CrossingKeepsChain` | two writers cross, and the pointer they leave has a hole |
| `RetentionWindow` | the choice of kept bases opens a gap in the days and weeks it promises |

`crossed` records that a writer replaced a pointer that had changed since it
read it; without a compare-and-swap that cannot be excluded, and what it may
cost is section 6's subject. Run `SnapshotChain`, three scenes: two devices
write at once (two entries, six messages); one writes while the chain is moved
and drained; one writes a base after an entry on any of six days, with two daily
and two weekly bases and weeks of two days: enough for bases to leave the days,
to enter weeks, and to leave those.

### 3.5 Fragments of a metadata-only account: `DirectBlobs`

Every device posts and deletes for itself. An upload posts a fragment and a
manifest and commits them; a move copies every current version off a webhook
and relocates it in batches, checks that nothing is left, and marks the webhook
for draining; the cleaner deletes versions released long ago and records them;
the drain deletes what a finished move left and takes the webhook out of the
vault. All of these run on their own device, a call at a time; any call may fail
and any device may be opened again.

| Property | What could go wrong |
|---|---|
| `CurrentReadable` | a drain or a cleaner takes a message a current version names |
| `KeptBasesReadable` | the same of a version that only a kept base names |
| `CleanedIsGone` | an upload is recorded as cleaned though a delete failed |
| `LeftoversGone` | a paused and resumed move forgets what it replaced, which then stays for ever |

Their exceptions name what the code does not prevent: a version that came into
the log after its webhook was marked (`Strays`), a drain that could not read the
pointer, one that ended after another device had marked the webhook anew, an old
manifest that could not be read (`missed`). Run `DirectMove`, three scenes: a webhook is moved while the
other device uploads; while versions are released, cleaned and drained, with
failures and restarts; two devices move two webhooks. Two versions, three
webhooks, five entries: one version that moves, one that gets in the way.

### 3.6 The Safe: `SafeTree`

The Safe is a tree under the same rules as the account's, kept whole in one slot
that devices write by compare-and-swap. `account` is the account's index and the
length of its log, `slot` the Safe on the instance, `open[d]` the Safe as device
`d` shows it, `job[d]` what it is doing, `delayed` the writes that may still
arrive, `stored` what the instance knows of the uploads outside the log. Jobs
are moves into and out of the Safe (file by file, a new upload each), adds,
deletes, and the cleanup that tells the instance which uploads to let go.

| Property | What could go wrong |
|---|---|
| `EditsStay` | a write that loses the compare-and-swap undoes the one that won |
| `BoundStays` | the instance deletes the pieces of a file that is in the Safe |
| `MovedIsInOne` | a move takes a file away before its copy is where it goes |
| `NotesAreHandled` | a cleanup sweeps away a note another device has just added |

Run `Safe`: two devices, a folder with a file, five scenes (a move in with a
delete and a failure; a move in with an edit; a move in and out at once; a move
out with adds and deletes; adds, deletes and cleanups with two failures). Two
jobs are enough for one to happen between any two steps of the other.

### 3.7 The virtual disk: `DiskOutbox`

`items` is the queue, `disk` the copies it is stored as, `upload` the upload
under way, `call` and `after` the account's part of a request of the helper and
of what follows an upload, `nodes` and `folders` the account. The user writes,
renames and removes files; the loop uploads one copy at a time, retries those
that failed when their time comes, and tells the account what was renamed or
removed meanwhile; the app may end and start again with what is on disk.

| Property | What could go wrong |
|---|---|
| `UndisturbedSettles` | a file renamed or removed while it uploads ends under the old name, or twice |
| `LeavesUploaded` | the last copy of a file is deleted before the account has it |
| `OneNeverHoldsOthers` | an upload that fails for ever holds the queue |

`UndisturbedSettles` speaks of behaviours in which nothing failed, no rename
took a queued name and no folder took one (`troubled`); in the others the code
may leave a file under a made-up name or an old one in place, and `LeavesUploaded`
is what still holds. Run `DiskOutbox`, three scenes: three saves and two renames
or removals with no failure; two saves of which the first may fail for ever,
with a failed call and a restart; a folder that takes a name. Three names, one
of them temporary, are a source, a target, and an editor's temporary file.

Fairness. The loop takes its next step and a call to the account ends (weak);
the moment a program has to set a file's time ends (weak); the time of a failed
copy comes (strong: the timer is armed again and again, each time after an
attempt, and runs whatever else the loop is doing).

## 4. Findings

Where the code and its own comments differ, as a run TLC finds violated
(`findings` in `PROJECT.json` has the quotes):

- `SyncDisk`: the entry is appended in memory before the INSERT. When that
  fails, the next accepted entry is stored one position further, and a restart
  finds a log with a gap, which the constructor refuses.
- `SafeLost`: a move into the Safe copies a version and purges with whatever
  base the replica has by then. A newer version another device wrote meanwhile
  and the mover has pulled is purged though nobody copied it.
- `DiskStale`: a file is saved again while its first copy uploads; that upload
  fails and is tried again after the newer copy: the older content wins.

## 5. What is proved

Every theorem holds for any number of devices, nodes, uploads, messages,
operations, failures and restarts: no bound of a run is used. `theorems` in
`PROJECT.json` lists them with the property each states.

### 5.1 The drive rules

`IndexProofs.tla` proves first facts about the tree operators: the chain of a node is
the least upward-closed set, chains compose, a free name exists (a pigeonhole
over the finite set of nodes), putting a node below a node that is not below it
keeps the tree acyclic, deleting a downward-closed set keeps it a tree.
Then it has one lemma per operation: it keeps the index well formed.
The first part of `DriveIndexProofs.tla` puts them together.

The invariant `Inv` is `TypeOK`, `IsTree`, `UniqueNames` and `Bindings` together
(none is inductive alone: a free name needs a finite tree, the release on purge
needs the bindings, the chain of a node needs acyclicity) with one fact more,
`Made`: no node with an ID derived from a later position exists yet, which is
why a conflict copy never overwrites a node. From `Invariance` follow
`TypeCorrect`, `TreeStaysATree`, `NamesStayUnique` and `FilesKeepTheirUploads`.
The assumptions are those named in the modules: IDs are distinct, names are
typed, there is a location, uploads begun before are uploads, and "no upload" is
not one.

The second part of the module proves the six action properties. Most of the work is to
say once what an operation may touch. The operations that tidy the tree
(rename, move, trash, restore, purge) *reshape* it: contents stay, only a purge
deletes, and only what was seen, only a move changes a space. A create *adds*
one live node. New content *renews*: it changes one file, which is live, and the
version that was there was the base, has the same bytes or is in a live copy. A
relocation moves the bytes of one version. Each is an operator (`Reshapes`,
`Adds`, `Renews`, `Relocates`), and `StepKinds` says that every step of `Next`,
the selections and groups included, is one of those kinds. From there:

- `UnseenStays` (`NoUnseenLoss`): a selection needs that its first operation left
  the marks alone that its second one reads; new content needs that its base is
  the current version only for an author who had seen it (`MayBase`), and that
  "no base" is no upload (`NoneIsNoUpload`).
- `VersionsStay` (`VersionsKeep`): two files never share an upload (`Bindings`),
  so the version of an upload can be followed from step to step.
- `AppliedStaysLive` (`AppliedIsLive`): a node put below a live one is live if
  nothing on that chain changed, and it never lies on it itself (`PutLive`).
- `SpacesAreKept` (`SpaceKept`): a node is in the Gallery exactly if the root of
  its chain is; a chain whose links each stay in their space ends at the same
  root (`SpacesStay`).
- `TrashIsTold` and `KeptRestarts` (`UnseenTrashIsTold`, `KeptStartsAgain`): of the
  marked nodes on a chain one is topmost (`TopmostOnChain`), and a chain is linear
  (`ChainIsLinear`): there is somebody to tell, something was kept, and the clock
  that counts is the one the purge set.

### 5.2 The log

`SyncLogProofs.tla` proves `TypesHold` (with INSERTs that fail) and
`ImplementsSharedLog`, under the assumption that no INSERT fails
(`MaxDiskFaults = 0`; with one, a restart loses what devices have read, see
`SyncDisk`). The invariant `IInv` says that operations are in the log once, that
the rows hold the log, that every index is a beginning of it, and that a batch
on its way is the part of the log behind some position that is not ahead of the
device's head. The last one is what overlapping pulls need: `Fresh` cuts off what
other pulls have applied, and `FreshContinues` shows that the rest continues the
index. The lemmas about parts of a sequence (`PartGrows`, `PartsJoin`,
`PartEnd`, `SliceIsPart`) carry the arithmetic. `StepIsShared` maps each step to
`Add`, `Learn` or a stutter.

The second part of the module proves from the same assumption `AuthorsOrder`,
`AcknowledgementsLast`, `CallsKeepTheirWord`, `BasesLieBehind` and
`ReadersStop`. The invariant `OrderInv` adds to `IInv` that every operation of a
call is in the outbox or *settled* (in the log, refused or lost with a restart),
that an acknowledgement on its way is for an entry, and, for the order, that
whatever was made before an operation on its way to the server is settled: that
holds when it is sent, because the first one that waits is sent, and nothing
settled is ever unsettled. `StepKeeps` covers the steps that neither begin a
call nor send or order an operation; the three that do have a lemma each.

### 5.3 Blobs of an instance

`InstanceBlobsProofs.tla` proves all four properties of `InstanceBlobs`.

`TypesHold` is `TypeOK` with `InHand`: messages named anywhere have been posted,
and a request at a given step has what that step needs.

`MovedHold` needs `MoveInv`: what is posted lies on a webhook its put was noted
for (`PutsNoted`); the webhook of a job stays retired, and from the copying on no
request is noted for it (`JobHolds`). A put cannot be noted for a retired
webhook, so after the first settling none is left to arrive, and what the check
finds empty stays so.

`BytesHold` and `AnswersHold` share one invariant in two layers.

- `UploadInv`: what the server has counted agrees with how far the client is,
  and only uploads that have ended are erased. A tombstone is set only on an
  upload without a lease whose commit is not counted, which is why a bound one
  is never erased, the stop inside an append excepted (`torn`).
- `PiecesInv`, about messages: what a put or the mover has just posted belongs
  to it alone (`NewInv`); the message in a row is named for no other piece by any
  row, answer, put, eraser or trash (`RowInv`); hashes are those of sessions so
  far (`HashInv`); a put alone with its piece meets no answer and no row of its
  own session (`PutInv`); a row that was answered has its bytes, and the answer
  is the row's or is led there by an alias (`PieceInv`).

Neither layer mentions the other's variables much, so the proof goes by what a
step does rather than which it is: most steps *bind nothing* (`BindsNothing`:
they only end uses, name what was named, or delete what is not needed), and one
lemma, `BindsNothingKeeps`, covers them all. Four kinds of steps bind a message
and have a lemma each: a post that lands, a put that stores its row, a copy, and
the switch of a row to its copy.

### 5.4 Fragments of a metadata-only account

`DirectBlobsProofs.tla` proves all five properties of `DirectBlobs`: `TypesHold`,
`CurrentIsReadable`, `KeptBasesAreReadable`, `CleanedStaysGone` and
`LeftoversAreGone`. It assumes `ConstantsAreTyped` only: that numbers are
numbers, at least one upload is allowed, and "none" is neither a number nor a webhook.

- *Names.* A message is the fragment or the manifest of one upload only
  (`OwnInv`), and the log relocates a version from a manifest it had been bound
  to (`LogInv`, `PendInv`, `UploadInv`). Steps either *tell* the log what was
  pending (`Tells`), post for an upload (`PostsFor`) or copy a version
  (`Copies`); each kind has its lemmas, and `Next` is sorted into them once.
- *Gone.* `GoneSince(p, s)`: since position `s` no version has named message `p`,
  no copy that can still be relocated names it and no upload has it. It is kept by every step
  (`GoneStays`): that is why a decision to delete may be carried out any time
  later. `LiveInv` says that only messages that are gone since the oldest kept base have
  been deleted; `MarksInv` says of a mark that the fragments its range replaced
  are gone since its end, and that what is on the webhook later came later
  (`Strays`). With both, a version that a position names is readable
  (`ReadableSince`), which gives `CurrentReadable` and `KeptBasesReadable`.
- *Cleaned.* `CleanInv` follows a run of the cleaner or of a drain: what it is at
  was released before the kept bases or is replaced for good, the manifest goes
  after its fragment, and what is finished is off the vault.
- *Left.* `RangeInv`: unless two devices began to move a webhook, one move is on
  its way at it, and the range of the mark begins where the move first began.
  `LeftInv`: once a mark is worked out nothing is relocated any more, so its
  range is the whole of what was replaced; a drain has put all of that range off
  the webhook but what it has still to do, and a manifest that is gone was
  deleted after its fragment (`Loose`), which is why a drain that is repeated
  need not read it.

### 5.5 The snapshot chain

`SnapshotChainProofs.tla` proves `TypesHold`, `ChainIsWhole`
(`CrossingKeepsChain`), `SinceOldest` (`RestoresSinceOldest`) and `PromiseIsKept`
(`RetentionWindow`), for any number of devices, entries, days and moves. It assumes `ConstantsAreTyped` and
`NoneIsNoRecord`: "none" is no base, pointer or drain.

The walk along the segments is a recursive function, so the first lemmas say
what it is without induction over data: there is a function that obeys the
walk's equation, namely the least set of messages that is closed under "the one
before" (`LeastWalkStep`), so the one that `CHOOSE` picks obeys it too
(`WalkStep`), and what a smallest counterexample rules out holds of every
walk: it is in each closed set it starts in, it is closed, it stays the same when
messages are added, and without a gap it covers what it goes back over
(`WalkIsIn`, `WalkGoesOn`, `WalkStays`, `WalkCovers`).

The invariant has three layers.

- `IInv`: every pointer, whether it is in a slot, known to a scheduler, read by a
  write or about to be written, names one whole chain (`Sound`): its segments
  follow one another, its bases lie on them, and none is below what was pruned.
  A write is checked against the pointer it replaces but not against a third
  one, so `Sound` must not depend on what is in the slot: it speaks of the pointer and the
  messages only, which never change but for being deleted. Each kind of write
  makes a sound pointer of one (what a snapshot posts, what a prune keeps, what a move
  posts again: three parts of the module). `Invariance` is this layer;
  `ChainIsWhole` follows as long as nothing is deleted, however writers cross.
- `KInv`: as long as no writer built on a pointer that had changed
  (`~crossed`), what is deleted is nobody's. No two slots share a message, what a write
  brings is in no slot and no other write, what a prune has still to remove is
  in no slot, and what a drain has still to delete, or has deleted, is only in the
  slot it drains. These are facts about disjoint sets, so each step has a lemma
  that is only about sets (`TidyLands`, `TidyDeletes`, `TidyCopies`, ...) and one
  that shows it is such a step. With `IInv` they give `SinceOldest`: from any kept
  base on, the walk to a target is live and leaves no gap.
- `WInv`: how far back the bases of a pointer go. A base holds only entries made by
  its day, and a later base is not of an earlier day (`Dated`). Every write under way
  goes back as far as the pointer it was built from, or to the promised weeks
  (`AsFarBack`), whether or not it lands and whatever the day is by then: days only pass,
  so a choice of bases made yesterday keeps more than is promised today. Nobody
  writes a move's copy before the vault names it (`CopyInv`), so the account's
  pointer reaches back to the day of the first base or to the promised weeks
  (`AnchorInv`). The prune's part is a fact about counting: the chosen bases are the newest of
  as many days and weeks as there are to keep, so for each base there was, either
  one that is not of a later day is kept, or one of a promised week
  (`RetainedReachBack`). The run shows `RetentionWindow` for one writer
  that leaves a base after each entry; the theorem needs no such scene.

### 5.6 The Safe

`SafeTreeProofs.tla` proves all five properties of `SafeTree`: `TypesHold`,
`EditsHold`, `BoundHold`, `MovedHolds` and `NotesHold`. It assumes what the
modules name: the assumptions of the drive rules, that the scenes' file has an
upload and "none" is not one, that the IDs devices mint are theirs alone, and
that there is a name and a place.

The Safe's tree is an index, so the lemmas of `IndexProofs` say that every group
keeps it well formed. `StoredEntry`, `FolderEntry` and `DeletesEntry` add what
the groups that devices write bind: a new file its own upload, a new folder
nothing, a delete nothing. `Changed` puts that together for a change of the
slot's state (`FileComes`, `NoFileComes`, `NoteIsAdded`, `NotesLeave`), and as it
is said of any state, it holds too when a write that lost is made again on the
state that won (`WriteMakes`).

The invariant `IInv` has three ideas besides the types.

- `MayBeBound`: the uploads of the Safe's files, of writes of the current
  revision that may still arrive, and of jobs about to write one. All are
  committed unless they are old (`BoundKept`), no state that was in the slot
  notes one (`VersionOK`), and what a cleanup is about to let go is none of them
  or old (`PhaseOK`). The set only grows by uploads that nobody has listed yet
  (`Frame`): that is why a list made some time ago may still be used.
- `AccountHas` and `SafeHas`: the contents that are in a tree or went from it by
  a purge. They only grow, so what a move has seen land (`MovedIsThere`) is
  there, or accounted for, when the purge comes.
- `DelayedOK`: a late write that can still win was made on the state that is in
  the slot, hence it removes only notes whose uploads have been let go.

Most steps only read what is shared (`Reads`); one lemma, `ReadsKeep`, covers
them. The others append to the account (`Appends`), write the slot (`Advances`)
or change the uploads (`OffSlot`), with a lemma each.

### 5.7 The virtual disk

`DiskOutboxProofs.tla` proves `QueueIsTyped` (with `StoredIsThere`: what an
upload has sent is in the account by the time it is done) and
`CopiesLeaveUploaded`: action by action, what leaves the queue was stored, or is
no longer what its name is for.

The second part proves `AccountEndsAsTheDisk` (`UndisturbedSettles`): while
nothing fails and no rename takes a name still in the queue, the account ends
with what the user put on the disk, for any names and any number of saves and
moves. `UndisturbedSettles` speaks of the end only; its invariant, `Undisturbed`,
says in every state what each name is `Promised`, and that it is what the user
put there (`Kept`):

- the newest copy waiting under the name, when there is one;
- else what is `Coming` to it: nothing when an upload or a call is about to take
  its file away (`Leaving`), the content of the node that the move after an
  upload, or the helper's call, is bringing; else what the account has there.

A step moves a promise from one of these places to the next. That it arrives
whole needs to know, at each step of an upload, where the upload's node is
(`UploadMoves`): a copy nothing happened to goes to the file of its name
(`UploadStays`); of one renamed or removed meanwhile, either the account's call
has not been answered and is that very move of that very node (`UploadToMove`),
or it has, and the node is under the new name or in the trash, from where the
commit brings it back to the name it was uploaded under (`UploadMoved`). A move
after an upload and a call under way are the same move (`AfterMoves`), so that
either order ends alike (`FitsAfterSameMove`); nothing waits under a name that a
call takes away (`CallMoves`); of one name the copy uploading is the oldest
(`QueueFits`). Before it was proved, TLC found that every step from a state that
satisfies `Undisturbed` leads to one that does, in instances of up to three
names, three nodes and two copies in the queue.

### 5.8 Only model-checked

- Liveness (`CallsEnd`, `Converges`, `OneNeverHoldsOthers`): fairness is out of
  the prover's reach.

What recursion over data computes for every input is not proved anywhere; the
models are written without it, except for the walk along a chain (5.5) and the
numbers of a move's copies.

## 6. Disagreements without a run

Met while modelling; the models have the behaviour, unless said otherwise.

- `server.ts:359`, `blobs-ext.ts:935`: the INSERT of a commit and the count in
  `onAppend` are two transactions. If the server stops between them the upload
  looks abandoned, and the pass reaps a committed upload (`CommitTorn`; `torn`
  excepts it from `BytesStay`).
- `server-blobs.ts:6` says the same piece and hash again "returns the stored
  placement without posting twice". A retry that arrives while the first is
  being posted posts again (`raced`), and the first answer's message may be
  deleted as replaced.
- `drive-client.ts:435`: "the op will never be in the log" of a refused
  operation. Another copy of it, sent by a second call, may be accepted once the
  lease is held again.
- `server.ts:342`: an old client never writes after an entry it cannot read ("it
  pulls before it sends"); pull and submit are two requests, and the entry may
  come between.
- After a restart `apply.ts:398` counts a device's earlier entries as known to
  it ("own earlier ops are always known"), also those its lost outbox had sent.
- `snapshots.ts:21`: "A client never replaces a pointer that covers more of the
  log." Two writers that both passed the comparison may (`crossed`); no state is
  lost by that alone, which is `CrossingKeepsChain`.
- `metadata-only.ts:316`: the scheduler keeps the pointer and channel it was made
  with, and goes on writing the old pointer after the chain was moved, though
  `channels.ts:16` says "the old one names a pointer that is no longer updated".
- `channels.ts:297`: a webhook is checked to be free of files and then marked;
  a version committed on it in between goes when it is drained (`Strays`), though
  line 7 says "nothing new lands there while it is emptied".
- `vault.ts:300`, `channels.ts:393`: two devices may both move a webhook. When the
  second marks it while a cleaner drains it under the first mark, the drain takes
  it out of the vault without judging the new mark, though line 393 waits for
  every kept base to be newer than the mark (`missed`).
- `metadata-only.ts:362`: a drain that cannot read the pointer judges that no
  base is kept, and goes on (`missed`).
- `channels.ts:450`: a drain of an old chain that is cut after its first delete
  cannot read the chain any more, and fails on every later run.
- `cleanup.ts:104` reads the entry an upload's record names. A version that was
  moved into a conflict copy is bound by another upload's entry, so nothing is
  found, the upload is recorded as cleaned and its fragments stay (not in the
  model: conflicts are `DriveIndex`'s).
- `safe-tree.ts:222`: a cleanup with a stale read may tell the instance to keep
  an upload that was released meanwhile; the next cleanup lets it go.
- `drive-client.ts:979`: the download's loop awaits `launch()`, which returns at
  once while another launch is waiting; the piece it then reads from `inflight`
  may not be there yet (not modelled).
- `drive-client.ts:511`: the renewal of a lease does not wait at the gate for the
  network as posts do (`backends.ts:327`), so an upload may fail for a moment
  without network (not modelled).

## 7. What is not modelled

Cryptography, formats, payload checks, wording of notices, the tuning of
transfers, accounts and sessions, shares, the user interface, set-up and
administration, and the Android client (see `components` in `PROJECT.json` for
the reason of each). They are most of the repository's lines: the models cover
the parts in which steps of several actors meet, and `map` names the lines they
stand for.

Of the hazards in `PROJECT.json` two have no property, because the code does go
wrong there and section 6 says how: the stop inside an append, and the scheduler
that keeps the old pointer. Also looked at and left: the byte budget of the
sender and the windows of the network (numbers rather than order), the trash's
schedule (a purge may name any node in `DriveIndex`), and pairing (one SQL
statement per step).
