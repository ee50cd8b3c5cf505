---------------------------- MODULE DirectBlobs ----------------------------
(***************************************************************************)
(* The fragments of a metadata-only account: every device posts them to    *)
(* the account's webhooks itself, and deletes them itself                  *)
(* (packages/metadata-client/src/drive-client.ts, cleanup.ts, channels.ts).*)
(*                                                                         *)
(* The log says where a version is: the operation that binds an upload     *)
(* names its manifest, a relocate names another. Four things work on the   *)
(* messages, each on its own device, a call to Discord at a time: an       *)
(* upload posts them; a move empties a webhook by copying every current    *)
(* version off it; the cleaner deletes the versions released long ago; the *)
(* drain deletes what a finished move left, and takes the webhook out of   *)
(* the vault. Any call may fail and any device may be closed and opened    *)
(* again.                                                                  *)
(*                                                                         *)
(* A version has one fragment and one manifest. A message is its number,   *)
(* and so is an upload. The bases that are kept are a set of log positions *)
(* (how they are kept is SnapshotChain's); the log is read whole.          *)
(***************************************************************************)
EXTENDS Integers, Sequences, FiniteSets, FiniteSetsExt

CONSTANTS
  Device, Hook, None,
  PieceOn, ManifestOn, \* where the first upload is
  Retention,   \* days a released version stays
  DrainAfter,  \* days a moved webhook stays
  RelocateBatch, RecordEvery,
  MaxUploads, MaxMessages, MaxLog, MaxDay, MaxFaults

ASSUME ConstantsAreTyped ==
  /\ {PieceOn, ManifestOn} \subseteq Hook /\ None \notin Hook \cup Nat
  /\ {Retention, DrainAfter, MaxMessages, MaxLog, MaxDay, MaxFaults} \subseteq Nat
  /\ {RelocateBatch, RecordEvery, MaxUploads} \subseteq Nat \ {0}
  /\ Retention < DrainAfter

VARIABLES
  log,      \* entries: the manifests bound or moved to, the uploads released, the day
  day, bases,
  messages, \* as posted: [hook, piece]; a manifest names its fragment
  live,     \* the messages not deleted
  vault,    \* of each webhook: what the vault says, and its drain
  client,   \* of each device: the webhooks it knows, and those it posts to
  upload,   \* of each device: the upload it runs, or None
  mover,    \* of each device: the saved state of its move, and what runs
  cleaner,  \* of each device: what its cleanup is at, or None
  done,     \* the uploads recorded as cleaned
  faults,   \* failed calls and restarts so far
  missed,   \* (history) <<what, webhook>>: a drain did not wait for the kept bases, or ended under a
            \* mark that had not ("bases"); it did not read an old manifest ("manifest"); a move
            \* began anew where another had begun ("range")
  began     \* (history) of each webhook: where its first move began, or None

account == <<log, day, bases>>
discord == <<messages, live>>
history == <<missed, began>>
vars == <<account, discord, vault, client, upload, mover, cleaner, done, faults, history>>

Fault == faults < MaxFaults /\ faults' = faults + 1

Upload == 1..MaxUploads
Message == DOMAIN messages
HeadSeq == Len(log)

-----------------------------------------------------------------------------
(* What the log says, and where the messages are                           *)

Entry(moves, ended) == [moves |-> moves, ended |-> ended, day |-> day]

\* (mutant) The new manifest is taken for the one it replaces.
BindSwapped(u, manifest) == [upload |-> u, from |-> manifest, to |-> 0, stale |-> FALSE]

Bind(u, manifest) == [upload |-> u, from |-> 0, to |-> manifest, stale |-> FALSE]

\* The manifest an upload was last bound or moved to, as of entry s (0: none).
\* This is findUploadContent, too.
Bound(u, s) ==
  LET moves == UNION {log[i].moves : i \in 1..s}
      of == {m.to : m \in {n \in moves : n.upload = u /\ ~n.stale}}
  IN  IF of = {} THEN 0 ELSE Max(of)

Released(u, s) == \E i \in 1..s : u \in log[i].ended
ReleasedAt(u) == CHOOSE i \in 1..HeadSeq : u \in log[i].ended
Current(u, s) == IF Released(u, s) THEN 0 ELSE Bound(u, s)

\* The messages of a version, and the webhooks it is on (content.pieces).
Parts(manifest) == {manifest, messages[manifest].piece}
HooksOf(manifest) == {messages[p].hook : p \in Parts(manifest)}

InVault(h) == vault[h].state # "moved"
Readable(manifest) ==
  \A p \in Parts(manifest) : p \in live /\ InVault(messages[p].hook)

\* versionsAt: the current versions with a piece on a webhook.
VersionsAt(h) ==
  {u \in Upload : Current(u, HeadSeq) # 0 /\ h \in HooksOf(Current(u, HeadSeq))}

Oldest == Min(bases)
-----------------------------------------------------------------------------

Kept(state) == [state |-> state, from |-> 0, to |-> 0, at |-> 0]
NoMove == [at |-> "none", hook |-> None, from |-> 0, todo |-> {}, moves |-> {}, drain |-> None]

\* What is left of a move that stops: the state saved in the local index.
Paused(d) == [NoMove EXCEPT !.at = "paused", !.hook = mover[d].hook, !.from = mover[d].from]

\* One upload is there; a base was taken of it.
Init ==
  /\ day = 0 /\ bases = {1}
  /\ messages = <<[hook |-> PieceOn, piece |-> 1], [hook |-> ManifestOn, piece |-> 1]>>
  /\ live = {1, 2}
  /\ log = <<Entry({Bind(1, 2)}, {})>>
  /\ vault = [h \in Hook |-> Kept("active")]
  /\ client = [d \in Device |-> [knows |-> Hook, posts |-> Hook]]
  /\ upload = [d \in Device |-> None]
  /\ mover = [d \in Device |-> NoMove]
  /\ cleaner = [d \in Device |-> None]
  /\ done = {} /\ faults = 0 /\ missed = {} /\ began = [h \in Hook |-> None]

\* commitOp: the entry is appended, and pulled.
Commits(entry) == HeadSeq < MaxLog /\ log' = Append(log, entry)

Post(d, hook, piece) ==
  /\ hook \in client[d].posts /\ Len(messages) < MaxMessages
  /\ messages' = Append(messages, [hook |-> hook, piece |-> piece])
  /\ live' = live \cup {Len(messages) + 1}

Loadable(d, m) == m \in live /\ messages[m].hook \in client[d].knows

\* deleteMessage: with a webhook the device does not know nothing is deleted.
Delete(d, m) ==
  live' = IF messages[m].hook \in client[d].knows THEN live \ {m} ELSE live

-----------------------------------------------------------------------------
(* Uploads and releases                                                    *)

Begun == {u \in Upload : Bound(u, HeadSeq) # 0} \cup
         {upload[d].id : d \in {e \in Device : upload[e] # None}}

UploadPiece(d, hook) ==
  /\ upload[d] = None /\ Upload \ Begun # {}
  /\ Post(d, hook, Len(messages) + 1)
  /\ upload' = [upload EXCEPT ![d] =
       [id |-> Min(Upload \ Begun), piece |-> Len(messages) + 1, manifest |-> 0]]
  /\ UNCHANGED <<account, vault, client, mover, cleaner, done, faults, history>>

UploadManifest(d, hook) ==
  /\ upload[d] # None /\ upload[d].manifest = 0
  /\ Post(d, hook, upload[d].piece)
  /\ upload' = [upload EXCEPT ![d].manifest = Len(messages) + 1]
  /\ UNCHANGED <<account, vault, client, mover, cleaner, done, faults, history>>

UploadCommit(d) ==
  /\ upload[d] # None /\ upload[d].manifest # 0
  /\ Commits(Entry({Bind(upload[d].id, upload[d].manifest)}, {}))
  /\ upload' = [upload EXCEPT ![d] = None]
  /\ UNCHANGED <<day, bases, discord, vault, client, mover, cleaner, done, faults, history>>

\* A version is superseded or purged: its upload is released.
Release(d, u) ==
  /\ Current(u, HeadSeq) # 0
  /\ Commits(Entry({}, {u}))
  /\ UNCHANGED <<day, bases, discord, vault, client, upload, mover, cleaner, done, faults, history>>

-----------------------------------------------------------------------------
(* The world around                                                        *)

NextDay ==
  /\ day < MaxDay
  /\ day' = day + 1
  /\ UNCHANGED <<log, bases, discord, vault, client, upload, mover, cleaner, done, faults, history>>

\* Some device takes a base of its replica, and drops some of the oldest.
TakeBase(at) ==
  /\ at \in (Max(bases) + 1)..HeadSeq
  /\ \E k \in bases \cup {at} : bases' = {b \in bases : b >= k} \cup {at}
  /\ UNCHANGED <<log, day, discord, vault, client, upload, mover, cleaner, done, faults, history>>

\* The client is closed and opened: it posts to what the vault has as active
\* now; an unfinished upload keeps its journal of fragments, a move its state.
Reopen(d) ==
  /\ Fault
  /\ client' = [client EXCEPT ![d].knows = {h \in Hook : InVault(h)},
                              ![d].posts = {h \in Hook : vault[h].state = "active"}]
  /\ upload' = [upload EXCEPT ![d] = IF @ = None THEN None ELSE [@ EXCEPT !.manifest = 0]]
  /\ mover' = [mover EXCEPT ![d] = IF @.at \in {"none", "done"} THEN @
                                   ELSE Paused(d)]
  /\ cleaner' = [cleaner EXCEPT ![d] = None]
  /\ UNCHANGED <<account, discord, vault, done, history>>

-----------------------------------------------------------------------------
(* A webhook is moved (ChannelMover)                                       *)

Resumes(d, h) == mover[d].hook = h /\ mover[d].at = "paused"

\* (mutant) A move that is resumed begins its range where the log is now.
StartsHere(d, h) == HeadSeq

\* The position before the first relocate; a resumed move keeps its own.
MoveFrom(d, h) == IF Resumes(d, h) THEN mover[d].from ELSE HeadSeq

MoveStart(d, h) ==
  /\ mover[d].at \in {"none", "paused", "done"}
  /\ vault[h].state \in {"active", "retired"} /\ \E g \in Hook \ {h} : vault[g].state = "active"
  /\ vault' = [vault EXCEPT ![h].state = "retired"]
  /\ client' = [client EXCEPT ![d].posts = @ \ {h}]
  /\ mover' = [mover EXCEPT ![d] = [NoMove EXCEPT !.at = "files", !.hook = h, !.from = MoveFrom(d, h)]]
  /\ missed' = IF vault[h].state = "retired" /\ ~Resumes(d, h) THEN missed \cup {<<"range", h>>} ELSE missed
  /\ began' = [began EXCEPT ![h] = IF @ = None THEN HeadSeq ELSE @]
  /\ UNCHANGED <<account, discord, upload, cleaner, done, faults>>

\* The next versions that are on the webhook, or none are left.
MoveBatch(d) ==
  LET on == VersionsAt(mover[d].hook)
      batch == {u \in on : Cardinality({v \in on : v < u}) < RelocateBatch}
  IN
  /\ mover[d].at = "files"
  /\ mover' = [mover EXCEPT ![d].at = IF batch = {} THEN "settle" ELSE "copy",
                            ![d].todo = {[upload |-> u, from |-> Current(u, HeadSeq)] : u \in batch}]
  /\ UNCHANGED <<account, discord, vault, client, upload, cleaner, done, faults, history>>

\* copyVersion: the fragment if it is there, and a new manifest.
MoveCopy(d, hook, other) ==
  LET next == CHOOSE v \in mover[d].todo : \A w \in mover[d].todo : v.upload <= w.upload
      old == messages[next.from].piece
      copied == IF messages[old].hook = mover[d].hook
                THEN <<[hook |-> other, piece |-> Len(messages) + 1]>> ELSE <<>>
      piece == IF copied = <<>> THEN old ELSE Len(messages) + 1
      manifest == Len(messages) + Len(copied) + 1
      moved == [upload |-> next.upload, from |-> next.from, to |-> manifest]
  IN
  /\ mover[d].at = "copy" /\ mover[d].todo # {}
  /\ Loadable(d, next.from) /\ (copied # <<>> => Loadable(d, old))
  /\ {hook, other} \subseteq client[d].posts /\ (copied = <<>> => hook = other)
  /\ manifest <= MaxMessages
  /\ messages' = messages \o copied \o <<[hook |-> hook, piece |-> piece]>>
  /\ live' = live \cup {Len(messages) + 1, manifest}
  /\ mover' = [mover EXCEPT ![d].todo = @ \ {next}, ![d].moves = @ \cup {moved}]
  /\ UNCHANGED <<account, vault, client, upload, cleaner, done, faults, history>>

\* opRelocate: released meanwhile, or moved by another.
Stale(m) == Current(m.upload, HeadSeq) # m.from

MoveCommit(d) ==
  LET judged == {[upload |-> m.upload, from |-> m.from, to |-> m.to, stale |-> Stale(m)] : m \in mover[d].moves}
  IN
  /\ mover[d].at = "copy" /\ mover[d].todo = {}
  /\ Commits(Entry(judged, {}))
  /\ mover' = [mover EXCEPT ![d].at = "files", ![d].moves = {}]
  /\ UNCHANGED <<day, bases, discord, vault, client, upload, cleaner, done, faults, history>>

Drained(from) == [state |-> "drain", from |-> from, to |-> HeadSeq, at |-> day]

\* (mutant) The webhook is marked as soon as one look has found it empty.
MarksUnchecked(d) ==
  LET m == mover[d] IN
  /\ m.at = "settle"
  /\ mover' = [mover EXCEPT ![d] =
       [m EXCEPT !.at = "mark", !.drain = Drained(m.from)]]
  /\ UNCHANGED <<account, discord, vault, client, upload, cleaner, done, faults, history>>

\* Nothing current on the webhook: what the drain will say is worked out ...
MoveCheck(d) ==
  LET m == mover[d] IN
  /\ m.at = "settle"
  /\ mover' = [mover EXCEPT ![d] =
       IF VersionsAt(m.hook) # {} THEN [m EXCEPT !.at = "paused"]
       ELSE [m EXCEPT !.at = "mark", !.drain = Drained(m.from)]]
  /\ UNCHANGED <<account, discord, vault, client, upload, cleaner, done, faults, history>>

\* ... and written to the vault, if the webhook is still in it.
MoveMark(d) ==
  LET m == mover[d] IN
  /\ m.at = "mark"
  /\ vault' = [vault EXCEPT ![m.hook] = IF InVault(m.hook) THEN m.drain ELSE @]
  /\ mover' = [mover EXCEPT ![d] = [NoMove EXCEPT !.at = "done", !.hook = m.hook]]
  /\ UNCHANGED <<account, discord, client, upload, cleaner, done, faults, history>>

MoveFails(d) ==
  /\ mover[d].at \in {"files", "copy", "settle", "mark"}
  /\ mover' = [mover EXCEPT ![d] = Paused(d)]
  /\ Fault
  /\ UNCHANGED <<account, discord, vault, client, upload, cleaner, done, history>>

-----------------------------------------------------------------------------
(* The cleaner                                                             *)

\* (mutant) The kept bases are not looked at.
DeletableByAge == {u \in Upload : Released(u, HeadSeq) /\ log[ReleasedAt(u)].day + Retention <= day}

\* deletableUploadsWithRetention
Deletable ==
  {u \in Upload : /\ Released(u, HeadSeq) /\ log[ReleasedAt(u)].day + Retention <= day
                  /\ ReleasedAt(u) <= Oldest}

Cleaning(at, todo) ==
  [at |-> at, todo |-> todo, upload |-> 0, finished |-> {}, hook |-> None, manifest |-> 0]

\* A device with operations still unsent leaves the fragments alone.
CleanStart(d, unsent) ==
  /\ cleaner[d] = None
  /\ cleaner' = [cleaner EXCEPT ![d] = Cleaning("clean", IF unsent THEN {} ELSE Deletable \ done)]
  /\ UNCHANGED <<account, discord, vault, client, upload, mover, done, faults, history>>

Finished(c, u) == [c EXCEPT !.at = "clean", !.todo = @ \ {u}, !.finished = @ \cup {u}]

\* deleteVersion: the manifest is loaded; one that is gone is a version whose
\* fragments went before.
CleanNext(d) ==
  LET c == cleaner[d]
      u == Min(c.todo)
      manifest == Bound(u, HeadSeq)
  IN
  /\ c # None /\ c.at = "clean" /\ c.todo # {} /\ Cardinality(c.finished) < RecordEvery
  /\ cleaner' = [cleaner EXCEPT ![d] =
       IF messages[manifest].hook \notin client[d].knows THEN [c EXCEPT !.todo = @ \ {u}]
       ELSE IF manifest \notin live THEN Finished(c, u)
       ELSE [c EXCEPT !.at = "piece", !.upload = u, !.manifest = manifest]]
  /\ UNCHANGED <<account, discord, vault, client, upload, mover, done, faults, history>>

CleanPiece(d) ==
  LET c == cleaner[d] IN
  /\ c # None /\ c.at = "piece"
  /\ Delete(d, messages[c.manifest].piece)
  /\ cleaner' = [cleaner EXCEPT ![d].at = "manifest"]
  /\ UNCHANGED <<account, messages, vault, client, upload, mover, done, faults, history>>

CleanManifest(d) ==
  LET c == cleaner[d] IN
  /\ c # None /\ c.at = "manifest"
  /\ Delete(d, c.manifest)
  /\ cleaner' = [cleaner EXCEPT ![d] = Finished(c, c.upload)]
  /\ UNCHANGED <<account, messages, vault, client, upload, mover, done, faults, history>>

\* (mutant) What failed is recorded with the rest.
FailsFinished(d) ==
  LET c == cleaner[d] IN
  /\ c # None /\ c.at \in {"piece", "manifest"}
  /\ cleaner' = [cleaner EXCEPT ![d] = Finished(c, c.upload)]
  /\ Fault
  /\ UNCHANGED <<account, discord, vault, client, upload, mover, done, history>>

\* A call fails: the upload is left for a later run.
CleanFails(d) ==
  LET c == cleaner[d] IN
  /\ c # None /\ c.at \in {"piece", "manifest"}
  /\ cleaner' = [cleaner EXCEPT ![d] = [c EXCEPT !.at = "clean", !.todo = @ \ {c.upload}]]
  /\ Fault
  /\ UNCHANGED <<account, discord, vault, client, upload, mover, done, history>>

\* The finished uploads are recorded as it goes; when the call fails they are forgotten.
CleanRecord(d) ==
  LET c == cleaner[d] IN
  /\ c # None /\ c.at = "clean" /\ Cardinality(c.finished) >= RecordEvery
  /\ \/ done' = done \cup c.finished /\ faults' = faults
     \/ done' = done /\ Fault
  /\ cleaner' = [cleaner EXCEPT ![d].finished = {}]
  /\ UNCHANGED <<account, discord, vault, client, upload, mover, history>>

\* At the end they must be; then come the drains.
CleanEnd(d) ==
  LET c == cleaner[d] IN
  /\ c # None /\ c.at = "clean" /\ c.todo = {} /\ Cardinality(c.finished) < RecordEvery
  /\ \/ /\ done' = done \cup c.finished /\ faults' = faults
        /\ cleaner' = [cleaner EXCEPT ![d] = Cleaning("drains", {})]
     \/ done' = done /\ Fault /\ cleaner' = [cleaner EXCEPT ![d] = None]
  /\ UNCHANGED <<account, discord, vault, client, upload, mover, history>>

-----------------------------------------------------------------------------
(* The drain (finishDrain)                                                 *)

\* The time since the move has passed.
DrainsByAge(h) == vault[h].state = "drain" /\ day - vault[h].at >= DrainAfter

\* And every kept base is newer.
MayDrain(h) == DrainsByAge(h) /\ vault[h].to <= Oldest

\* What the relocates of the move's range replaced.
Replaced(h) ==
  {m.from : m \in UNION {log[i].moves : i \in (vault[h].from + 1)..vault[h].to}} \ {0}

\* A pointer that cannot be read counts as one without bases.
DrainStart(d, h, unread) ==
  /\ cleaner[d] # None /\ cleaner[d].at = "drains"
  /\ IF unread THEN DrainsByAge(h) ELSE MayDrain(h)
  /\ cleaner' = [cleaner EXCEPT ![d] = [Cleaning("drain", Replaced(h)) EXCEPT !.hook = h]]
  /\ IF unread THEN Fault ELSE faults' = faults
  /\ missed' = IF unread /\ vault[h].to > Oldest THEN missed \cup {<<"bases", h>>} ELSE missed
  /\ UNCHANGED <<account, discord, vault, client, upload, mover, done, began>>

\* The old manifest is loaded. One that cannot be is taken for one without fragments.
DrainLoad(d, loads) ==
  LET c == cleaner[d]
      m == Min(c.todo)
  IN
  /\ c # None /\ c.at = "drain" /\ c.todo # {}
  /\ loads => Loadable(d, m)
  /\ cleaner' = [cleaner EXCEPT ![d].manifest = m,
       ![d].at = IF loads /\ messages[messages[m].piece].hook = c.hook THEN "drainPiece" ELSE "drainManifest"]
  /\ IF ~loads /\ Loadable(d, m) THEN Fault ELSE faults' = faults
  /\ missed' = IF ~loads /\ m \in live THEN missed \cup {<<"manifest", c.hook>>} ELSE missed
  /\ UNCHANGED <<account, discord, vault, client, upload, mover, done, began>>

DrainPiece(d) ==
  LET c == cleaner[d] IN
  /\ c # None /\ c.at = "drainPiece"
  /\ Delete(d, messages[c.manifest].piece)
  /\ cleaner' = [cleaner EXCEPT ![d].at = "drainManifest"]
  /\ UNCHANGED <<account, messages, vault, client, upload, mover, done, faults, history>>

DrainManifest(d) ==
  LET c == cleaner[d] IN
  /\ c # None /\ c.at = "drainManifest"
  /\ Delete(d, c.manifest)
  /\ cleaner' = [cleaner EXCEPT ![d].at = "drain", ![d].todo = @ \ {c.manifest}]
  /\ UNCHANGED <<account, messages, vault, client, upload, mover, done, faults, history>>

\* The webhook leaves the vault, also when another device's move has marked it anew meanwhile.
DrainFinish(d) ==
  LET c == cleaner[d] IN
  /\ c # None /\ c.at = "drain" /\ c.todo = {}
  /\ vault' = [vault EXCEPT ![c.hook].state = "moved"]
  /\ cleaner' = [cleaner EXCEPT ![d] = Cleaning("drains", {})]
  /\ missed' = IF vault[c.hook].to > Oldest THEN missed \cup {<<"bases", c.hook>>} ELSE missed
  /\ UNCHANGED <<account, discord, client, upload, mover, done, faults, began>>

\* A drain that fails is left for a later run; the next one may follow.
DrainFails(d) ==
  /\ cleaner[d] # None /\ cleaner[d].at \in {"drain", "drainPiece", "drainManifest"}
  /\ cleaner' = [cleaner EXCEPT ![d] = Cleaning("drains", {})]
  /\ Fault
  /\ UNCHANGED <<account, discord, vault, client, upload, mover, done, history>>

DrainsEnd(d) ==
  /\ cleaner[d] # None /\ cleaner[d].at = "drains"
  /\ cleaner' = [cleaner EXCEPT ![d] = None]
  /\ UNCHANGED <<account, discord, vault, client, upload, mover, done, faults, history>>

-----------------------------------------------------------------------------

Uploading(d) ==
  \/ \E h \in Hook : UploadPiece(d, h) \/ UploadManifest(d, h)
  \/ UploadCommit(d)

Moving(d) ==
  \/ \E h \in Hook : MoveStart(d, h) \/ \E g \in Hook : MoveCopy(d, h, g)
  \/ MoveBatch(d) \/ MoveCommit(d) \/ MoveCheck(d) \/ MoveMark(d) \/ MoveFails(d)

CleaningUp(d) ==
  \/ \E unsent \in BOOLEAN : CleanStart(d, unsent)
  \/ CleanNext(d) \/ CleanPiece(d) \/ CleanManifest(d)
  \/ CleanFails(d) \/ CleanRecord(d) \/ CleanEnd(d)

Draining(d) ==
  \/ \E h \in Hook, unread \in BOOLEAN : DrainStart(d, h, unread)
  \/ \E loads \in BOOLEAN : DrainLoad(d, loads)
  \/ DrainPiece(d) \/ DrainManifest(d) \/ DrainFinish(d) \/ DrainFails(d) \/ DrainsEnd(d)

Next ==
  \/ NextDay \/ \E at \in 1..MaxLog : TakeBase(at)
  \/ \E d \in Device :
       \/ Reopen(d)
       \/ \E u \in Upload : Release(d, u)
       \/ Uploading(d) \/ Moving(d) \/ CleaningUp(d) \/ Draining(d)

Spec == Init /\ [][Next]_vars
-----------------------------------------------------------------------------
(* What must hold                                                          *)

\* Every variable has its type.
TypeOK ==
  LET Seqs == 0..HeadSeq
      Hooks == Hook \cup {None}
      Move == [upload : Upload, from : {0} \cup Message, to : Message]
  IN
  /\ \A i \in 1..HeadSeq :
       /\ log[i].day \in 0..day /\ log[i].ended \subseteq Upload
       /\ log[i].moves \subseteq [upload : Upload, from : {0} \cup Message, to : Message, stale : BOOLEAN]
  /\ day \in 0..MaxDay /\ bases \subseteq Seqs /\ bases # {}
  /\ \A m \in Message : messages[m] \in [hook : Hook, piece : 1..m]
  /\ live \subseteq Message /\ done \subseteq Upload /\ faults \in 0..MaxFaults
  /\ vault \in [Hook -> [state : {"active", "retired", "drain", "moved"},
                        from : Seqs, to : Seqs, at : 0..day]]
  /\ client \in [Device -> [knows : SUBSET Hook, posts : SUBSET Hook]]
  /\ \A d \in Device :
       /\ client[d].posts \subseteq client[d].knows
       /\ upload[d] = None \/ upload[d] \in [id : Upload, piece : Message, manifest : {0} \cup Message]
       /\ mover[d].at \in {"none", "files", "copy", "settle", "mark", "paused", "done"}
       /\ mover[d].hook \in Hooks /\ mover[d].from \in Seqs /\ mover[d].moves \subseteq Move
       /\ cleaner[d] # None =>
            /\ cleaner[d].at \in {"clean", "piece", "manifest", "drains", "drain", "drainPiece", "drainManifest"}
            /\ cleaner[d].hook \in Hooks /\ cleaner[d].finished \subseteq Upload
  /\ missed \subseteq {"bases", "manifest", "range"} \X Hook

\* A version that came into the log after the webhook it is on was marked for draining.
Strays(manifest) ==
  \E h \in HooksOf(manifest), i \in 1..HeadSeq :
    /\ vault[h].state = "moved" /\ i > vault[h].to
    /\ \E m \in log[i].moves : m.to = manifest

\* However moves, copies, releases, cleaning and draining meet: every current
\* version is whole and on webhooks of the vault, unless it strayed onto one
\* that was already marked for draining.
CurrentReadable ==
  \A u \in Upload : LET m == Current(u, HeadSeq) IN m # 0 => Readable(m) \/ Strays(m)

\* And so is every version that a kept base names, unless a drain went ahead without having read
\* which bases are kept, or a second move marked the webhook anew while it was drained.
KeptBasesReadable ==
  (\A h \in Hook : <<"bases", h>> \notin missed) =>
    \A b \in bases, u \in Upload :
      LET m == Current(u, b) IN m # 0 => Readable(m) \/ Strays(m)

\* An upload recorded as cleaned has no message left on a webhook of the vault, though runs were cut
\* and calls failed - unless a move tried to relocate it too late, so that a drain took its manifest
\* for one that was replaced.
CleanedIsGone ==
  \A u \in done :
    LET manifest == Bound(u, HeadSeq) IN
    \/ \E i \in 1..HeadSeq : \E m \in log[i].moves : m.stale /\ m.from = manifest
    \/ \A p \in Parts(manifest) : p \in live => ~InVault(messages[p].hook)

\* When a webhook leaves the vault, and it is the only one that was moved, nothing is on it that was
\* replaced since the move first began, though the move was paused and the drain repeated - unless an
\* old manifest could not be read or another device had begun the move.
LeftoversGone ==
  \A h \in Hook :
    /\ vault[h].state = "moved" /\ \A g \in Hook \ {h} : began[g] = None
    /\ <<"manifest", h>> \notin missed /\ <<"range", h>> \notin missed
    => \A m \in UNION {log[i].moves : i \in (began[h] + 1)..HeadSeq} :
         ~m.stale /\ m.from # 0 => \A p \in Parts(m.from) \cap live : messages[p].hook # h
=============================================================================
