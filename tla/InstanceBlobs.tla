--------------------------- MODULE InstanceBlobs ---------------------------
(***************************************************************************)
(* Blobs stored through the instance (the e2ee and plain modes): the       *)
(* server's BlobsExtension (packages/server-discord/src/blobs-ext.ts), the *)
(* job that moves a channel (ChannelMover in channels.ts) and the client   *)
(* that uploads (DriveClient.upload, ServerBlobStore.put).                 *)
(*                                                                         *)
(* A blob is a piece of an upload: a fragment or the manifest. The server  *)
(* keeps one row per blob, naming the Discord message that holds its bytes *)
(* (messages are numbered in the order Discord received them, attachments  *)
(* with them). The server is one thread: what it does between two awaits   *)
(* is one action, and puts, the background tick, a cancel and the move     *)
(* interleave at the awaits. Discord may fail any call.                    *)
(*                                                                         *)
(* One account with one device; its uploads end in the log, or in the Safe *)
(* (outside the log). Extra blobs (previews) and the snapshot chains that  *)
(* a move rewrites are left out.                                           *)
(***************************************************************************)
EXTENDS Integers, Sequences, FiniteSets

CONSTANTS
  Upload, Piece, Hook, None,
  Put,         \* the requests the server works on at once
  MaxSessions, \* how often a client begins or resumes an upload
  MaxMessages, \* how many messages are posted
  MaxRestarts, \* how often the server restarts
  MaxTorn      \* how often it does so between the two writes of an append

ASSUME ConstantsAreTyped ==
  /\ MaxSessions \in Nat /\ MaxMessages \in Nat
  /\ MaxRestarts \in Nat /\ MaxTorn \in Nat
  /\ None \notin Upload \cup Piece \cup Hook \cup Put \cup Nat

VARIABLES
  uploads,   \* s_uploads: [state, guarded, idle]; idle: not active for long
  blobs,     \* s_blobs: the row of a blob, or None
  aliases,   \* s_blob_alias: [msg, blob] of the blobs moved
  messages,  \* what Discord has received: [hook, hash, live]
  hooks,     \* the webhooks: "active", "retired", or gone: "moved", "removed"
  leased,    \* the uploads whose unexpired lease the device holds
  client,    \* what the client knows of an upload: [at, safe, session, got]
  put,       \* the requests in progress
  tick,      \* the background pass: [at, todo, on]
  eraser,    \* deleteBlobs in progress, by caller
  job,       \* the channel move, or None
  restarts,
  torn,      \* (history) uploads whose commit is in the log and not counted
  raced      \* (history) blobs with two puts in progress at once

db == <<uploads, blobs, aliases, hooks>>
tasks == <<put, tick, eraser, job>>
history == <<restarts, torn, raced>>
vars == <<db, messages, leased, client, tasks, history>>

Blob == Upload \X Piece
Eraser == {"tick", "cancel", "mover"}

NoUpload == [state |-> "none", guarded |-> 0, idle |-> FALSE]
NoTick == [at |-> "off", todo |-> {}, on |-> None]
NoAnswers == [i \in Piece |-> None]

Init ==
  /\ uploads = [u \in Upload |-> NoUpload]
  /\ blobs = [b \in Blob |-> None]
  /\ aliases = {} /\ messages = <<>>
  /\ hooks = [h \in Hook |-> "active"]
  /\ leased = {}
  /\ \E safe \in [Upload -> BOOLEAN] :
       client = [u \in Upload |-> [at |-> "new", safe |-> safe[u], session |-> 1, got |-> NoAnswers]]
  /\ put = [p \in Put |-> None]
  /\ tick = NoTick
  /\ eraser = [e \in Eraser |-> None]
  /\ job = None
  /\ restarts = 0 /\ torn = {} /\ raced = {}

-----------------------------------------------------------------------------
(* Rows, webhooks and messages                                             *)

State(u) == uploads[u].state
Tombstones == {"aborted", "reaped", "purged"}

Stored(b) == blobs[b] # None /\ ~blobs[b].deleted
HookOf(m) == messages[m].hook

\* InstanceHooks.hook: a webhook that is gone can neither read nor delete.
Present(h) == hooks[h] \in {"active", "retired"}

\* InstanceHooks.hooksFor: where new blobs go.
HooksFor == {h \in Hook : hooks[h] = "active"}

\* The rows of an upload that are not marked deleted, as deleteBlobs reads them.
RowsOf(u) == {<<i, blobs[<<u, i>>].msg>> : i \in {j \in Piece : Stored(<<u, j>>)}}

\* A message is deleted, or the call fails and it stays.
Deleted(m) == [messages EXCEPT ![m].live = FALSE]
MayDelete(m) ==
  \/ Present(HookOf(m)) /\ messages' = Deleted(m)
  \/ UNCHANGED messages

Post(h, x) ==
  /\ Len(messages) < MaxMessages
  /\ messages' = Append(messages, [hook |-> h, hash |-> x, live |-> TRUE])

\* ChannelStore.resolveBlob: the blob an attachment stands for now, itself or
\* as the one it was moved to.
Resolve(m) ==
  LET own == {b \in Blob : Stored(b) /\ blobs[b].msg = m}
  IN  IF own # {} THEN own
      ELSE {b \in Blob : Stored(b) /\ [msg |-> m, blob |-> b] \in aliases}

-----------------------------------------------------------------------------
(* The lease, and the entries of the log that name the upload              *)

\* leaseGate: an upload with a tombstone gets no lease again.
RenewLease(u) ==
  /\ client[u].at \in {"new", "sending", "final"}
  /\ State(u) \notin Tombstones
  /\ leased' = leased \cup {u}
  /\ uploads' = [uploads EXCEPT ![u].idle = FALSE]
  /\ UNCHANGED <<blobs, aliases, hooks, messages, client, tasks, history>>

\* The lease runs out, or the client releases it when its upload has ended.
EndLease(u) ==
  /\ u \in leased
  /\ leased' = leased \ {u}
  /\ UNCHANGED <<db, messages, client, tasks, history>>

\* Nothing happened to the upload for abandonAfterMs.
GoIdle(u) ==
  /\ State(u) \in {"open", "final"} /\ ~uploads[u].idle
  /\ uploads' = [uploads EXCEPT ![u].idle = TRUE]
  /\ UNCHANGED <<blobs, aliases, hooks, messages, leased, client, tasks, history>>

\* (mutant) An entry does not keep the upload from being reaped.
OnAppendOnce(up) ==
  [state |-> IF up.state = "none" THEN "open" ELSE up.state,
   guarded |-> 1, idle |-> FALSE]

\* onAppend: the second entry guarded by an upload ends it.
OnAppend(up) ==
  [state |-> IF up.state = "none" THEN "open"
             ELSE IF up.guarded >= 1 /\ up.state \in {"open", "final"} THEN "committed"
             ELSE up.state,
   guarded |-> up.guarded + 1, idle |-> FALSE]

\* DriveClient.upload takes the lease and begins the upload in the log.
Begin(u) ==
  /\ client[u].at = "new" /\ u \in leased
  /\ client' = [client EXCEPT ![u].at = "sending"]
  /\ uploads' = [uploads EXCEPT ![u] = IF client[u].safe THEN @ ELSE OnAppend(@)]
  /\ UNCHANGED <<blobs, aliases, hooks, messages, leased, tasks, history>>

\* A new session takes the upload up again with the answers its journal kept
\* and encrypts the other pieces anew.
Resume(u) ==
  /\ client[u].at \in {"sending", "final"} /\ ~client[u].safe
  /\ client[u].session < MaxSessions
  /\ \A p \in Put : put[p] # None => put[p].blob[1] # u \/ ~put[p].heard
  /\ \E kept \in SUBSET Piece :
       client' = [client EXCEPT ![u].at = "sending", ![u].session = @ + 1,
                    ![u].got = [i \in Piece |-> IF i \in kept THEN @[i] ELSE None]]
  /\ UNCHANGED <<db, messages, leased, tasks, history>>

\* The commit: its entry is guarded by the lease, and in one go with it the
\* server counts it. In the log the version names the answers.
Commit(u) ==
  /\ client[u].at = "final" /\ ~client[u].safe /\ u \in leased
  /\ client' = [client EXCEPT ![u].at = "bound"]
  /\ uploads' = [uploads EXCEPT ![u] = OnAppend(@)]
  /\ UNCHANGED <<blobs, aliases, hooks, messages, leased, tasks, history>>

\* The Safe is written with the file in it (one device, no conflict).
CommitOutside(u) ==
  /\ client[u].at = "final" /\ client[u].safe
  /\ client' = [client EXCEPT ![u].at = "bound"]
  /\ UNCHANGED <<db, messages, leased, tasks, history>>

\* The file is purged or gets a newer version, in the log or in the Safe.
Drop(u) ==
  /\ client[u].at \in {"bound", "kept"}
  /\ client' = [client EXCEPT ![u].at = "dropped"]
  /\ UNCHANGED <<db, messages, leased, tasks, history>>

\* The Safe is restored to a revision that refers to the upload.
Restore(u) ==
  /\ client[u].at = "dropped" /\ client[u].safe
  /\ client' = [client EXCEPT ![u].at = "restored"]
  /\ UNCHANGED <<db, messages, leased, tasks, history>>

-----------------------------------------------------------------------------
(* Putting a blob                                                          *)

Sending(u, i) ==
  /\ client[u].at = "sending" /\ client[u].got[i] = None
  /\ \A p \in Put : put[p] # None => put[p].blob # <<u, i>> \/ ~put[p].heard

\* The client takes the answer, if it still listens and the answer arrives.
Answer(b, a, heard) ==
  \/ UNCHANGED client
  \/ /\ heard /\ client[b[1]].at = "sending"
     /\ client' = [client EXCEPT ![b[1]].got[b[2]] = a]

\* putBlob needs the device's lease and an upload that has not ended.
MayPut(u) == u \in leased /\ State(u) \in {"none", "open", "final"}

\* touch: the server knows the upload from its first put on.
Touched(up) == [up EXCEPT !.state = IF @ = "none" THEN "open" ELSE @, !.idle = FALSE]

\* The request arrives. The same ciphertext again is answered with the blob
\* that is stored; else its body is read.
PutStart(p, u, i) ==
  LET b == <<u, i>>
      x == client[u].session
  IN
  /\ put[p] = None /\ Sending(u, i) /\ MayPut(u)
  /\ uploads' = [uploads EXCEPT ![u] = Touched(@)]
  /\ IF Stored(b) /\ blobs[b].hash = x
     THEN /\ Answer(b, [msg |-> blobs[b].msg, hash |-> x], TRUE)
          /\ UNCHANGED put
     ELSE /\ put' = [put EXCEPT ![p] =
                       [blob |-> b, hash |-> x, at |-> "reading",
                        old |-> IF Stored(b) THEN blobs[b].msg ELSE None,
                        hooks |-> {}, msg |-> None, heard |-> TRUE]]
          /\ UNCHANGED client
  /\ raced' = IF \E q \in Put : put[q] # None /\ put[q].blob = b THEN raced \cup {b} ELSE raced
  /\ UNCHANGED <<blobs, aliases, hooks, messages, leased, tick, eraser, job, restarts, torn>>

\* The body is complete: the webhooks the blob may land on are noted before
\* it is posted.
PutBody(p) ==
  /\ put[p] # None /\ put[p].at = "reading" /\ HooksFor # {}
  /\ put' = [put EXCEPT ![p].at = "posting", ![p].hooks = HooksFor]
  /\ UNCHANGED <<db, messages, leased, client, tick, eraser, job, history>>

\* Discord receives the message; the sender learns it, or posts again.
PutLands(p) ==
  /\ put[p] # None /\ put[p].at = "posting"
  /\ \E h \in put[p].hooks : Post(h, put[p].hash)
  /\ \/ put' = [put EXCEPT ![p].at = "posted", ![p].msg = Len(messages) + 1]
     \/ UNCHANGED put
  /\ UNCHANGED <<db, leased, client, tick, eraser, job, history>>

\* The request fails: the body is short, Discord refuses, the client is gone.
PutFails(p) ==
  /\ put[p] # None /\ put[p].at \in {"reading", "posting"}
  /\ put' = [put EXCEPT ![p] = None]
  /\ UNCHANGED <<db, messages, leased, client, tick, eraser, job, history>>

\* (mutant) The row goes on naming the message that was replaced.
StoreOld(p) ==
  LET r == put[p] IN
  /\ blobs' = [blobs EXCEPT ![r.blob] = [msg |-> r.old, hash |-> r.hash, deleted |-> FALSE]]
  /\ Answer(r.blob, [msg |-> r.msg, hash |-> r.hash], r.heard)
  /\ put' = [put EXCEPT ![p] = None]

\* The row is written, and the placement is the answer.
Store(p) ==
  LET r == put[p] IN
  /\ blobs' = [blobs EXCEPT ![r.blob] = [msg |-> r.msg, hash |-> r.hash, deleted |-> FALSE]]
  /\ Answer(r.blob, [msg |-> r.msg, hash |-> r.hash], r.heard)
  /\ put' = [put EXCEPT ![p] = None]

Gone(u) == State(u) \notin {"open", "final"}

\* After the post: the blob of an upload that has ended is deleted again; the
\* message it replaces goes first; else it is stored.
PutPosted(p) ==
  /\ put[p] # None /\ put[p].at = "posted"
  /\ IF ~Gone(put[p].blob[1]) /\ put[p].old = None
     THEN Store(p)
     ELSE /\ put' = [put EXCEPT ![p].at = IF Gone(put[p].blob[1]) THEN "dropping" ELSE "replacing"]
          /\ UNCHANGED <<blobs, client>>
  /\ UNCHANGED <<uploads, aliases, hooks, messages, leased, tick, eraser, job, history>>

PutDropped(p) ==
  /\ put[p] # None /\ put[p].at = "dropping"
  /\ MayDelete(put[p].msg)
  /\ put' = [put EXCEPT ![p] = None]
  /\ UNCHANGED <<db, leased, client, tick, eraser, job, history>>

PutReplaces(p) ==
  /\ put[p] # None /\ put[p].at = "replacing"
  /\ MayDelete(put[p].old)
  /\ put' = [put EXCEPT ![p].at = "replaced"]
  /\ UNCHANGED <<db, leased, client, tick, eraser, job, history>>

PutReplaced(p) ==
  /\ put[p] # None /\ put[p].at = "replaced"
  /\ Store(p)
  /\ UNCHANGED <<uploads, aliases, hooks, messages, leased, tick, eraser, job, history>>

\* The client loses its connection (or closes) and the server has not noticed.
HangUp(p) ==
  /\ put[p] # None /\ put[p].heard
  /\ put' = [put EXCEPT ![p].heard = FALSE]
  /\ UNCHANGED <<db, messages, leased, client, tick, eraser, job, history>>

-----------------------------------------------------------------------------
(* The other requests about an upload                                      *)

\* finalize: all pieces are stored. What goes to the Safe is committed now.
\* When the answer is lost the client gives up or comes back later.
Finalize(u) ==
  /\ client[u].at = "sending" /\ \A i \in Piece : client[u].got[i] # None
  /\ u \in leased /\ State(u) \in {"open", "final"}
  /\ uploads' = [uploads EXCEPT ![u].state = IF client[u].safe THEN "committed" ELSE "final",
                                ![u].idle = FALSE]
  /\ \/ client' = [client EXCEPT ![u].at = "final"]
     \/ UNCHANGED client
  /\ UNCHANGED <<blobs, aliases, hooks, messages, leased, tasks, history>>

\* deleteBlobs reads the rows, and then deletes one after the other.
Erase(e, u) ==
  eraser' = [eraser EXCEPT ![e] =
               IF RowsOf(u) = {} THEN None
               ELSE [upload |-> u, rows |-> RowsOf(u), hit |-> None]]

MayCancel(u) == State(u) \in {"open"} \cup Tombstones

\* The client gives the upload up; the request may come late.
Cancel(u) ==
  /\ client[u].at \in {"sending", "gone"}
  /\ client' = [client EXCEPT ![u].at = "gone"]
  /\ put' = [p \in Put |-> IF put[p] # None /\ put[p].blob[1] = u
                           THEN [put[p] EXCEPT !.heard = FALSE] ELSE put[p]]
  /\ uploads' = [uploads EXCEPT ![u].state =
                   IF @ = "none" \/ (MayCancel(u) /\ @ \notin Tombstones) THEN "aborted" ELSE @]
  /\ IF MayCancel(u) THEN eraser["cancel"] = None /\ Erase("cancel", u) ELSE UNCHANGED eraser
  /\ UNCHANGED <<blobs, aliases, hooks, messages, leased, tick, job, history>>

\* released: the client reports what its index (or the Safe) let go.
Released(u) ==
  /\ client[u].at = "dropped" /\ State(u) \in {"final", "committed"}
  /\ uploads' = [uploads EXCEPT ![u].state = "released"]
  /\ UNCHANGED <<blobs, aliases, hooks, messages, leased, client, tasks, history>>

\* kept: a released upload outside the log is committed again.
Kept(u) ==
  /\ client[u].at = "restored"
  /\ State(u) \in {"committed", "released"}
  /\ uploads' = [uploads EXCEPT ![u].state = "committed"]
  /\ client' = [client EXCEPT ![u].at = "kept"]
  /\ UNCHANGED <<blobs, aliases, hooks, messages, leased, tasks, history>>

-----------------------------------------------------------------------------
(* deleteBlobs, for the tick, a cancel or the move                         *)

\* What an eraser has left to do; it has finished when nothing is.
Left(e, rows, hit) ==
  eraser' = [eraser EXCEPT ![e] = IF rows = {} /\ hit = None THEN None
                                  ELSE [@ EXCEPT !.rows = rows, !.hit = hit]]

EraseMessage(e) ==
  /\ eraser[e] # None /\ eraser[e].hit = None
  /\ \E r \in eraser[e].rows :
       /\ Present(HookOf(r[2]))
       /\ messages' = Deleted(r[2])
       /\ Left(e, eraser[e].rows \ {r}, r)
  /\ UNCHANGED <<db, leased, client, put, tick, job, history>>

\* A message that cannot be deleted now is left for later.
EraseSkips(e) ==
  /\ eraser[e] # None /\ eraser[e].hit = None
  /\ \E r \in eraser[e].rows : Left(e, eraser[e].rows \ {r}, None)
  /\ UNCHANGED <<db, messages, leased, client, put, tick, job, history>>

\* After the delete: the row of that piece is marked, whatever it names by now.
EraseMarks(e) ==
  /\ eraser[e] # None /\ eraser[e].hit # None
  /\ blobs' = [blobs EXCEPT ![<<eraser[e].upload, eraser[e].hit[1]>>].deleted = TRUE]
  /\ Left(e, eraser[e].rows, None)
  /\ UNCHANGED <<uploads, aliases, hooks, messages, leased, client, put, tick, job, history>>

Paused == [job EXCEPT !.state = "paused", !.at = "off", !.rows = {}, !.row = None, !.msg = None]

\* Discord is out of reach: the whole pass, request or job ends with an error.
EraseThrows(e) ==
  /\ eraser[e] # None /\ eraser[e].hit = None
  /\ eraser' = [eraser EXCEPT ![e] = None]
  /\ tick' = IF e = "tick" THEN NoTick ELSE tick
  /\ job' = IF e = "mover" THEN Paused ELSE job
  /\ UNCHANGED <<db, messages, leased, client, put, history>>

-----------------------------------------------------------------------------
(* The background pass (tick): abandoned uploads, released ones, leftovers *)

Abandoned == {u \in Upload : State(u) \in {"open", "final"} /\ uploads[u].guarded < 2 /\ uploads[u].idle}
Leftover == {u \in Upload : State(u) \in Tombstones /\ RowsOf(u) # {}}

TickFree(at) == tick.at = at /\ eraser["tick"] = None /\ tick.on = None

TickStart ==
  /\ TickFree("off")
  /\ tick' = [at |-> "reap", todo |-> Abandoned, on |-> None]
  /\ UNCHANGED <<db, messages, leased, client, put, eraser, job, history>>

MayReap(u) ==
  u \notin leased /\ State(u) \in {"open", "final"} /\ uploads[u].guarded < 2

\* The tombstone is set before anything is deleted.
TickReap ==
  /\ TickFree("reap")
  /\ \E u \in tick.todo :
       /\ tick' = [tick EXCEPT !.todo = @ \ {u}]
       /\ IF MayReap(u)
          THEN uploads' = [uploads EXCEPT ![u].state = "reaped"] /\ Erase("tick", u)
          ELSE UNCHANGED <<uploads, eraser>>
  /\ UNCHANGED <<blobs, aliases, hooks, messages, leased, client, put, job, history>>

\* The retention of any of the released uploads may have passed.
TickPurges ==
  /\ TickFree("reap") /\ tick.todo = {}
  /\ \E due \in SUBSET {u \in Upload : State(u) = "released"} :
       tick' = [tick EXCEPT !.at = "purge", !.todo = due]
  /\ UNCHANGED <<db, messages, leased, client, put, eraser, job, history>>

TickPurge ==
  /\ TickFree("purge")
  /\ \E u \in tick.todo :
       tick' = [tick EXCEPT !.todo = @ \ {u}, !.on = u] /\ Erase("tick", u)
  /\ UNCHANGED <<db, messages, leased, client, put, job, history>>

TickPurged ==
  /\ tick.on # None /\ eraser["tick"] = None
  /\ uploads' = [uploads EXCEPT ![tick.on].state = "purged"]
  /\ tick' = [tick EXCEPT !.on = None]
  /\ UNCHANGED <<blobs, aliases, hooks, messages, leased, client, put, eraser, job, history>>

TickLeftovers ==
  /\ TickFree("purge") /\ tick.todo = {}
  /\ tick' = [tick EXCEPT !.at = "leftover", !.todo = Leftover]
  /\ UNCHANGED <<db, messages, leased, client, put, eraser, job, history>>

TickLeftover ==
  /\ TickFree("leftover")
  /\ \/ /\ tick.todo = {} /\ tick' = NoTick /\ UNCHANGED eraser
     \/ \E u \in tick.todo : tick' = [tick EXCEPT !.todo = @ \ {u}] /\ Erase("tick", u)
  /\ UNCHANGED <<db, messages, leased, client, put, job, history>>

-----------------------------------------------------------------------------
(* Channels: retire, remove, paste again, and the move                     *)

Others(h) == {g \in Hook : g # h /\ hooks[g] = "active"}
JobOn(h) == job # None /\ job.hook = h

Retire(h) ==
  /\ ~JobOn(h)
  /\ \/ hooks[h] = "active" /\ Others(h) # {} /\ hooks' = [hooks EXCEPT ![h] = "retired"]
     \/ hooks[h] = "retired" /\ hooks' = [hooks EXCEPT ![h] = "active"]
  /\ UNCHANGED <<uploads, blobs, aliases, messages, leased, client, tasks, history>>

\* removeAnyway: its blobs cannot be read until it is pasted again.
RemoveAnyway(h) ==
  /\ ~JobOn(h) /\ Present(h) /\ Others(h) # {}
  /\ hooks' = [hooks EXCEPT ![h] = "removed"]
  /\ UNCHANGED <<uploads, blobs, aliases, messages, leased, client, tasks, history>>

\* InstanceHooks.add of a webhook that had left.
Paste(h) ==
  /\ ~Present(h)
  /\ hooks' = [hooks EXCEPT ![h] = "active"]
  /\ UNCHANGED <<uploads, blobs, aliases, messages, leased, client, tasks, history>>

\* enqueueMove: the channel is retired at once, so nothing new lands on it.
EnqueueMove(h) ==
  /\ job = None /\ Present(h) /\ Others(h) # {}
  /\ hooks' = [hooks EXCEPT ![h] = "retired"]
  /\ job' = [hook |-> h, state |-> "queued", at |-> "off",
             rows |-> {}, row |-> None, msg |-> None, trash |-> {}]
  /\ UNCHANGED <<uploads, blobs, aliases, messages, leased, client, put, tick, eraser, history>>

MoverAt(at) == job # None /\ job.at = at
JobGoes(at) == job' = [job EXCEPT !.at = at]

\* A queued job, an interrupted one, or a paused one whose retry is due.
JobRuns ==
  /\ MoverAt("off")
  /\ job' = [job EXCEPT !.state = "running", !.at = "settle"]
  /\ UNCHANGED <<db, messages, leased, client, put, tick, eraser, history>>

\* (mutant) A put is waited for only once its message has been sent.
MayLandPosted(p, h) == put[p] # None /\ put[p].at = "posted" /\ h \in put[p].hooks

\* A put in progress that may land on the webhook (inflight).
MayLand(p, h) == put[p] # None /\ h \in put[p].hooks

IdleFor(h) == \A p \in Put : ~MayLand(p, h)

JobSettled ==
  /\ MoverAt("settle") /\ IdleFor(job.hook)
  /\ JobGoes("copy")
  /\ UNCHANGED <<db, messages, leased, client, put, tick, eraser, history>>

OnHook(h) == {b \in Blob : Stored(b) /\ HookOf(blobs[b].msg) = h}
Movable(h) == {b \in OnHook(h) : State(b[1]) \notin Tombstones}
Garbage(h) == {b[1] : b \in {c \in OnHook(h) : State(c[1]) \in Tombstones}}
Remaining(h) == OnHook(h) # {}

\* The next batch of rows, or on to the garbage.
JobBatch ==
  /\ MoverAt("copy") /\ job.rows = {}
  /\ job' = IF Movable(job.hook) = {} THEN [job EXCEPT !.at = "garbage", !.rows = Garbage(job.hook)]
            ELSE [job EXCEPT !.rows = {[blob |-> b, msg |-> blobs[b].msg] : b \in Movable(job.hook)}]
  /\ UNCHANGED <<db, messages, leased, client, put, tick, eraser, history>>

\* moveBlob: the bytes are read and posted to another webhook. Bytes that are
\* gone, or nowhere to post, end the job for good.
JobCopies ==
  /\ MoverAt("copy") /\ job.rows # {}
  /\ \E r \in job.rows :
       IF messages[r.msg].live /\ HooksFor # {}
       THEN /\ \E h \in HooksFor : Post(h, messages[r.msg].hash)
            /\ job' = [job EXCEPT !.at = "switch", !.rows = @ \ {r}, !.row = r,
                                  !.msg = Len(messages) + 1]
       ELSE job' = None /\ UNCHANGED messages
  /\ UNCHANGED <<db, leased, client, put, tick, eraser, history>>

StillThere(r) == Stored(r.blob) /\ blobs[r.blob].msg = r.msg

\* (mutant) The attachment a client was answered is forgotten.
AliasedNot(r) == aliases

\* The old attachment stays an alias of the blob.
Aliased(r) == {a \in aliases : a.msg # r.msg} \cup {r}

\* The row is switched to the copy if it is still the one that was copied;
\* else the copy goes.
JobSwitches ==
  /\ MoverAt("switch")
  /\ IF StillThere(job.row)
     THEN /\ blobs' = [blobs EXCEPT ![job.row.blob].msg = job.msg]
          /\ aliases' = Aliased(job.row)
          /\ job' = [job EXCEPT !.at = "copy", !.row = None, !.msg = None,
                                !.trash = @ \cup {job.row.msg}]
          /\ UNCHANGED messages
     ELSE /\ MayDelete(job.msg)
          /\ job' = [job EXCEPT !.at = "copy", !.row = None, !.msg = None]
          /\ UNCHANGED <<blobs, aliases>>
  /\ UNCHANGED <<uploads, hooks, leased, client, put, tick, eraser, history>>

JobErases ==
  /\ MoverAt("garbage") /\ eraser["mover"] = None
  /\ \/ \E u \in job.rows :
          /\ Erase("mover", u) /\ job' = [job EXCEPT !.rows = @ \ {u}]
     \/ job.rows = {} /\ JobGoes("settle2") /\ UNCHANGED eraser
  /\ UNCHANGED <<db, messages, leased, client, put, tick, history>>

\* Another round when something is left (it pauses when a round changed nothing).
JobChecks ==
  /\ MoverAt("settle2") /\ IdleFor(job.hook)
  /\ \/ ~Remaining(job.hook) /\ JobGoes("trash")
     \/ Remaining(job.hook) /\ (JobGoes("settle") \/ job' = Paused)
  /\ UNCHANGED <<db, messages, leased, client, put, tick, eraser, history>>

\* The old messages go, one by one.
JobTrash ==
  /\ MoverAt("trash")
  /\ \E m \in job.trash :
       /\ messages' = IF Present(HookOf(m)) THEN Deleted(m) ELSE messages
       /\ job' = [job EXCEPT !.trash = @ \ {m}]
  /\ UNCHANGED <<db, leased, client, put, tick, eraser, history>>

\* Checked and done in one step: the webhook leaves the instance.
JobFinishes ==
  /\ MoverAt("trash") /\ job.trash = {}
  /\ IF ~Remaining(job.hook)
     THEN hooks' = [hooks EXCEPT ![job.hook] = "moved"] /\ job' = None
     ELSE JobGoes("settle") /\ UNCHANGED hooks
  /\ UNCHANGED <<uploads, blobs, aliases, messages, leased, client, put, tick, eraser, history>>

\* A call to Discord fails: the job pauses and is retried.
JobFails ==
  /\ job # None /\ job.at \in {"copy", "trash"}
  /\ job' = Paused
  /\ UNCHANGED <<db, messages, leased, client, put, tick, eraser, history>>

-----------------------------------------------------------------------------
(* Restarts                                                                *)

\* What is in memory is gone: requests, leases, the pass, the place of the job.
Stopped ==
  /\ put' = [p \in Put |-> None]
  /\ tick' = NoTick
  /\ eraser' = [e \in Eraser |-> None]
  /\ job' = IF job = None THEN None
            ELSE [job EXCEPT !.at = "off", !.rows = {}, !.row = None, !.msg = None]
  /\ leased' = {}

RestartServer ==
  /\ restarts < MaxRestarts /\ restarts' = restarts + 1
  /\ Stopped
  /\ UNCHANGED <<db, messages, client, torn, raced>>

\* The server stops after the entry of the commit is in the log and before
\* onAppend has counted it (two transactions).
CommitTorn(u) ==
  /\ Cardinality(torn) < MaxTorn /\ torn' = torn \cup {u}
  /\ client[u].at = "final" /\ ~client[u].safe /\ u \in leased
  /\ client' = [client EXCEPT ![u].at = "bound"]
  /\ Stopped
  /\ UNCHANGED <<db, messages, restarts, raced>>

-----------------------------------------------------------------------------

OfUpload(u) ==
  \/ RenewLease(u) \/ EndLease(u) \/ GoIdle(u)
  \/ Begin(u) \/ Resume(u) \/ Commit(u) \/ CommitOutside(u) \/ CommitTorn(u)
  \/ Drop(u) \/ Restore(u)
  \/ Finalize(u) \/ Cancel(u) \/ Released(u) \/ Kept(u)

OfPut(p) ==
  \/ \E u \in Upload, i \in Piece : PutStart(p, u, i)
  \/ PutBody(p) \/ PutLands(p) \/ PutFails(p)
  \/ PutPosted(p) \/ PutDropped(p) \/ PutReplaces(p) \/ PutReplaced(p) \/ HangUp(p)

OfEraser(e) == EraseMessage(e) \/ EraseSkips(e) \/ EraseMarks(e) \/ EraseThrows(e)

Tick ==
  \/ TickStart \/ TickReap \/ TickPurges \/ TickPurge \/ TickPurged
  \/ TickLeftovers \/ TickLeftover

OfHook(h) == Retire(h) \/ RemoveAnyway(h) \/ Paste(h) \/ EnqueueMove(h)

Mover ==
  \/ JobRuns \/ JobSettled \/ JobBatch \/ JobCopies \/ JobSwitches
  \/ JobErases \/ JobChecks \/ JobTrash \/ JobFinishes \/ JobFails

Next ==
  \/ \E u \in Upload : OfUpload(u)
  \/ \E p \in Put : OfPut(p)
  \/ \E e \in Eraser : OfEraser(e)
  \/ \E h \in Hook : OfHook(h)
  \/ Tick \/ Mover \/ RestartServer

Spec == Init /\ [][Next]_vars

-----------------------------------------------------------------------------
(* What must hold                                                          *)

Msg == 1..MaxMessages
Hash == 1..(MaxSessions + 1)
Placement == [msg : Msg, hash : Hash]
Row == [msg : Msg, hash : Hash, deleted : BOOLEAN]
OldRow == [msg : Msg, blob : Blob]

UploadType == [state : {"none", "open", "final", "committed", "released"} \cup Tombstones,
               guarded : Nat, idle : BOOLEAN]
MessageType == [hook : Hook, hash : Hash, live : BOOLEAN]
Stage == {"new", "sending", "final", "bound", "dropped", "restored", "kept", "gone"}
ClientType == [at : Stage, safe : BOOLEAN, session : Hash, got : [Piece -> Placement \cup {None}]]
PutType == [blob : Blob, hash : Hash, hooks : SUBSET Hook, old : Msg \cup {None}, msg : Msg \cup {None},
            at : {"reading", "posting", "posted", "dropping", "replacing", "replaced"},
            heard : BOOLEAN]
TickType == [at : {"off", "reap", "purge", "leftover"}, todo : SUBSET Upload, on : Upload \cup {None}]
EraserType == [upload : Upload, rows : SUBSET (Piece \X Msg), hit : (Piece \X Msg) \cup {None}]
JobType == [hook : Hook, state : {"queued", "running", "paused"},
            at : {"off", "settle", "copy", "switch", "garbage", "settle2", "trash"},
            rows : SUBSET (OldRow \cup Upload), row : OldRow \cup {None},
            msg : Msg \cup {None}, trash : SUBSET Msg]

ASSUME NoneIsNoRecord ==
  None \notin Row \cup Placement \cup PutType \cup EraserType \cup JobType \cup OldRow \cup (Piece \X Msg)

\* Every variable has its type.
TypeOK ==
  /\ uploads \in [Upload -> UploadType]
  /\ blobs \in [Blob -> Row \cup {None}]
  /\ aliases \subseteq OldRow
  /\ messages \in Seq(MessageType) /\ Len(messages) <= MaxMessages
  /\ hooks \in [Hook -> {"active", "retired", "moved", "removed"}]
  /\ leased \subseteq Upload
  /\ client \in [Upload -> ClientType]
  /\ put \in [Put -> PutType \cup {None}]
  /\ tick \in TickType
  /\ eraser \in [Eraser -> EraserType \cup {None}]
  /\ job \in JobType \cup {None}
  /\ restarts \in 0..MaxRestarts /\ torn \subseteq Upload /\ raced \subseteq Blob

\* An upload the log (or the Safe) names keeps its rows and their bytes: it is
\* neither reaped as abandoned nor cancelled, its pieces are not deleted, and
\* no message is deleted before its copy is in its place. (Not when the server
\* stopped inside the append of its commit, or two puts of a piece crossed.)
BytesStay ==
  \A u \in Upload : client[u].at = "bound" /\ u \notin torn =>
    /\ State(u) \in {"final", "committed"}
    /\ \A i \in Piece : <<u, i>> \notin raced =>
         Stored(<<u, i>>) /\ messages[blobs[<<u, i>>].msg].live

Answered(u, i) ==
  /\ client[u].got[i] # None
  /\ client[u].at \in {"sending", "final", "bound"}
  /\ State(u) \in {"open", "final", "committed"}

Stands(a) == \E b \in Resolve(a.msg) : blobs[b].hash = a.hash

\* What a client was answered for a piece goes on standing for a stored blob
\* with the same bytes, however often the blob is moved, for as long as the
\* upload may still be committed or is - unless two puts of the piece crossed.
AnswerStands ==
  \A u \in Upload, i \in Piece :
    Answered(u, i) /\ <<u, i>> \notin raced => Stands(client[u].got[i])

\* A webhook that left as moved holds no blob any more, and no request in
\* progress can put one there.
MovedIsEmpty ==
  \A h \in Hook : hooks[h] = "moved" => OnHook(h) = {} /\ IdleFor(h)
=============================================================================
