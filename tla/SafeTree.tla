------------------------------ MODULE SafeTree ------------------------------
(***************************************************************************)
(* The Safe (packages/metadata-client/src/safe.ts, safe-tree.ts): a tree   *)
(* under the rules of the drive index (IndexRules.tla), kept whole in one  *)
(* sealed slot of the instance that devices write by compare-and-swap, and *)
(* files that move between it and the account, each sent again as a new    *)
(* upload. Uploads of the Safe are outside the account's log: notes in the *)
(* slot and a cleanup tell the instance which of them to let go.           *)
(*                                                                         *)
(* A device has one job at a time, edits the account between jobs and      *)
(* pulls its log in the background. A job carries the open Safe it works   *)
(* on (`safe'); what it writes may lose against another device's write,    *)
(* and is then applied again to the state that won (`cur'). The log of the *)
(* account is only its index and its length: an entry is appended in one   *)
(* step, after any entries its author has not seen (SyncLog.tla has the    *)
(* way there); the three entries of an upload are one.                     *)
(*                                                                         *)
(* Left out: passwords and seals, the size limit, the Safe's trash (the    *)
(* app deletes for good), the pieces on the account's own webhooks, and    *)
(* copies and earlier revisions of the slot.                               *)
(***************************************************************************)
EXTENDS IndexRules

CONSTANTS
  Top, Inside,  \* a folder, and the file in it
  Holds,        \* the file's upload
  Scenes        \* [inSafe: whether they begin in the Safe, else in the account,
                \* kinds: the jobs devices start, jobs: how many of them, edits:
                \* other changes of the account, faults: failed calls, and hours
                \* that pass]

\* The IDs a device mints, nodes and uploads alike.
MaxIds == 4
Minted(d) == {d} \X (1 .. MaxIds)

ASSUME TopAndInside == {Top, Inside} \subseteq UserNode /\ Top # Inside
ASSUME HoldsAnUpload == Holds \in Upload /\ None \notin Upload
ASSUME DevicesMint ==
  \A d \in Device : /\ Minted(d) \subseteq UserNode \cap Upload
                    /\ {Top, Inside, Holds} \cap Minted(d) = {}
ASSUME SomeNameAndPlace == UserName # {} /\ Loc # {}
ASSUME ScenesAreBounded ==
  \A c \in Scenes : c.inSafe \in BOOLEAN /\ {c.jobs, c.edits, c.faults} \subseteq Nat

VARIABLES
  account,   \* [ix, head]: the account's index and the length of its log
  seen,      \* per device, what it has pulled of that
  slot,      \* [rev, state]: the Safe on the instance
  open,      \* per device, the Safe as it shows it
  job,       \* per device, what it is doing
  delayed,   \* writes of the slot that may still arrive
  stored,    \* uploads outside the log: none, committed or released
  aged,      \* those committed more than SAFE_ORPHAN_GRACE_MS ago
  minted,    \* per device, the IDs it has minted
  carries,   \* the file content an upload carries: the first upload of it
  left,      \* the scene, with what is left of its jobs, edits and faults
  fate       \* history: contents acked to their author, given up by their
             \* owner, taken by the purges of moves; uploads the instance was
             \* told to let go

vars == <<account, seen, slot, open, job, delayed, stored, aged, minted, carries, left, fate>>

-----------------------------------------------------------------------------
(* Indexes and states of the Safe                                          *)

BoundRefs(ix) == Contents(ix.nodes, DOMAIN ix.nodes)

EmptyIndex == [nodes |-> [r \in {ROOT, RECOVERED} |-> SystemFolder],
               uploads |-> [u \in {} |-> NewUpload]]

\* One more operation of an entry.
Took(before, r) == [outs |-> before.outs \cup {r.out}, ix |-> r.ix]

\* The entry as a whole: applied, or nothing of it.
Whole(ix, out, after) == [out |-> out, ix |-> IF out = "applied" THEN after.ix ELSE ix]

\* The entry e with the operations ops, applied whole or not at all.
Apply(ix, e, ops) ==
  LET run[i \in 0 .. Len(ops)] ==
        IF i = 0 THEN [outs |-> {}, ix |-> WithGallery(ix, e)]
        ELSE Took(run[i - 1], Member(run[i - 1].ix, e, ops, i))
  IN  CHOOSE r \in {Whole(ix, Outcome(x.outs), x) : x \in {run[Len(ops)]}} : TRUE

\* The state of the Safe after an entry of its log; what that released is noted.
After(s, seq, r, gone) ==
  [out |-> r.out, let |-> gone, state |-> [ix |-> r.ix, head |-> seq, gone |-> s.gone \cup gone]]

ReleasedBy(s, ix) == {u \in BoundRefs(s.ix) : ix.uploads[u].status = "released"}

\* A change of the Safe's state: one entry of its own log, whose author had
\* seen it up to w.base.
Enter(s, d, w) ==
  LET e == [seq |-> s.head + 1, dev |-> d, sub |-> 0, rules |-> 4,
            base |-> IF w.base < s.head THEN w.base ELSE s.head]
  IN  CHOOSE c \in {After(s, e.seq, r, ReleasedBy(s, r.ix)) : r \in {Apply(s.ix, e, w.ops)}} : TRUE

\* (mutant) Notes added since leave with those the cleanup saw.
DropAllNotes(s, ups) == [s EXCEPT !.gone = {}]

\* The notes of these uploads leave, and the records of the released ones.
DropLetGo(s, ups) ==
  LET out == {u \in ups \cap DOMAIN s.ix.uploads :
                /\ u \notin BoundRefs(s.ix)
                /\ s.ix.uploads[u].status \notin {"open", "committed"}}
  IN  [s EXCEPT !.gone = @ \ ups,
                !.ix = [nodes |-> @.nodes, uploads |-> Drop(@.uploads, out)]]

Note(s, up) == IF up \in BoundRefs(s.ix) THEN s ELSE [s EXCEPT !.gone = @ \cup {up}]

Quiet(s) == [out |-> "applied", let |-> {}, state |-> s]

Change(s, d, w) ==
  CASE w.type = "entry" -> Enter(s, d, w)
    [] w.type = "note"  -> Quiet(Note(s, w.up))
    [] w.type = "drop"  -> Quiet(DropLetGo(s, w.ups))

-----------------------------------------------------------------------------
(* Operations                                                              *)

\* The ID a device mints next, for a node or an upload.
Fresh(d) == <<d, minted[d] + 1>>
Mints(d) == /\ minted[d] < MaxIds
            /\ minted' = [minted EXCEPT ![d] = @ + 1]

Stores(up) == <<[type |-> "upload_begin", up |-> up], [type |-> "upload_commit", up |-> up]>>

CreateFile(id, name, parent, up) ==
  [type |-> "create", kind |-> "file", node |-> id, parent |-> parent, name |-> name,
   up |-> up, loc |-> CHOOSE l \in Loc : TRUE, space |-> "drive"]
CreateFolder(id, name, parent) ==
  [type |-> "create", kind |-> "folder", node |-> id, parent |-> parent, name |-> name,
   space |-> "drive"]
NewVersion(id, name, up, base) ==
  [type |-> "new_content_version", node |-> id, baseVersion |-> base, name |-> name,
   up |-> up, loc |-> CHOOSE l \in Loc : TRUE, space |-> "drive"]
Delete(id) == <<[type |-> "trash", node |-> id], [type |-> "purge", node |-> id]>>

Entered(base, ops) == [type |-> "entry", base |-> base, ops |-> ops, up |-> None, ups |-> {}]
Noted(up)  == [type |-> "note", base |-> 0, ops |-> <<>>, up |-> up, ups |-> {}]
Dropped(ups) == [type |-> "drop", base |-> 0, ops |-> <<>>, up |-> None, ups |-> ups]

\* An entry of the account, as the log has it by then; its author had seen
\* what the device has pulled.
InAccount(d, ops) ==
  Apply(account.ix, [seq |-> account.head + 1, dev |-> d, sub |-> 0, rules |-> 3,
                     base |-> seen[d].head], ops)

\* Append an entry to the account's log; its author then has all of it.
Submit(d, r) ==
  /\ account' = [ix |-> r.ix, head |-> account.head + 1]
  /\ seen' = [seen EXCEPT ![d] = account']

Lost(before, after) == {carries[u] : u \in BoundRefs(before) \ BoundRefs(after)}

-----------------------------------------------------------------------------
(* Jobs                                                                    *)

Idle ==
  [kind |-> "none", phase |-> "idle",
   safe |-> [rev |-> 0, state |-> [ix |-> EmptyIndex, head |-> 0, gone |-> {}]],
   cur |-> [rev |-> 0, state |-> [ix |-> EmptyIndex, head |-> 0, gone |-> {}]],
   write |-> Entered(0, <<>>),
   items |-> {}, tops |-> {}, item |-> None, where |-> [f \in {} |-> ROOT],
   up |-> None, release |-> {}, keep |-> {}]

File(id, kind, name, parent, up) ==
  [id |-> id, kind |-> kind, name |-> name, parent |-> parent, up |-> up]

UpOf(ns, n) == IF ns[n].content = None THEN None ELSE ns[n].content.up

\* What a move takes: `top' and all below it, as the tree has it now.
Walk(ns, top) ==
  {File(n, ns[n].kind, ns[n].name, IF n = top THEN None ELSE ns[n].parent, UpOf(ns, n))
     : n \in {x \in Subtree(ns, top) : \A a \in Path(ns, top, x) : ns[a].trashed = 0}}

\* The move of what is at or below `top' in this tree.
Moving(d, kind, ns, top) ==
  [Idle EXCEPT !.kind = kind, !.phase = "next", !.safe = open[d],
               !.items = Walk(ns, top), !.tops = {top}]

Start(d, kind) ==
  /\ job[d].phase = "idle"
  /\ kind \in left.kinds
  /\ left.jobs > 0
  /\ left' = [left EXCEPT !.jobs = @ - 1]

Ends(d) == job' = [job EXCEPT ![d] = Idle]

\* The job's Safe is the one the device shows from now on.
EndsWith(d, safe) == /\ Ends(d)
                     /\ open' = [open EXCEPT ![d] = safe]

\* Write to the slot, from the Safe the job carries.
Writing(j, w) == [j EXCEPT !.phase = "put", !.cur = j.safe, !.write = w, !.up = None]

Live(ns, n) == n \in DOMAIN ns /\ ~InTrash(ns, n)

\* moveIn: the account as it is now is walked.
MoveIn(d) ==
  /\ Start(d, "in")
  /\ \E top \in {n \in DOMAIN account.ix.nodes \ Roots : Live(account.ix.nodes, n)} :
       job' = [job EXCEPT ![d] = Moving(d, "in", account.ix.nodes, top)]
  /\ seen' = [seen EXCEPT ![d] = account]
  /\ UNCHANGED <<account, slot, open, delayed, stored, aged, minted, carries, fate>>

\* moveOut: the open Safe is walked, once.
MoveOut(d) ==
  /\ Start(d, "out")
  /\ \E ns \in {open[d].state.ix.nodes} :
     \E top \in {n \in DOMAIN ns \ Roots : Live(ns, n)} :
       job' = [job EXCEPT ![d] = Moving(d, "out", ns, top)]
  /\ UNCHANGED <<account, seen, slot, open, delayed, stored, aged, minted, carries, fate>>

\* A new file, into a folder of the Safe.
AddToSafe(d) ==
  /\ Start(d, "add")
  /\ \E ns \in {open[d].state.ix.nodes} :
     \E n \in {x \in DOMAIN ns \ {RECOVERED, GALLERY} : ns[x].kind = "folder" /\ Live(ns, x)} :
     \E name \in UserName :
       job' = [job EXCEPT ![d] = [Idle EXCEPT !.kind = "add", !.phase = "send", !.safe = open[d],
                                              !.item = File(n, "file", name, n, None)]]
  /\ UNCHANGED <<account, seen, slot, open, delayed, stored, aged, minted, carries, fate>>

DeleteFromSafe(d) ==
  /\ Start(d, "delete")
  /\ \E n \in DOMAIN open[d].state.ix.nodes \ Roots :
       job' = [job EXCEPT ![d] = Writing([Idle EXCEPT !.kind = "delete", !.safe = open[d]],
                                         Entered(open[d].state.head, Delete(n)))]
  /\ UNCHANGED <<account, seen, slot, open, delayed, stored, aged, minted, carries, fate>>

\* The cleanup at the Safe's opening.
Unlock(d) ==
  /\ Start(d, "sweep")
  /\ job' = [job EXCEPT ![d] = [Idle EXCEPT !.kind = "sweep", !.phase = "read", !.safe = slot]]
  /\ open' = [open EXCEPT ![d] = slot]
  /\ UNCHANGED <<account, seen, slot, delayed, stored, aged, minted, carries, fate>>

-----------------------------------------------------------------------------
(* The items of a move, folders before what is in them                     *)

\* The folder an item goes to.
Into(d, it) == IF it.parent = None THEN ROOT ELSE job[d].where[it.parent]

Ready(d) == {it \in job[d].items : it.parent = None \/ it.parent \in DOMAIN job[d].where}

Without(j, it) == [j EXCEPT !.items = @ \ {it}, !.item = it]

Placed(j, it, id) == [j EXCEPT !.where = Put(@, it.id, id), !.phase = "next"]

\* A folder into the Safe: the one of that name that is there, or a new one.
FolderIn(d) ==
  /\ job[d].phase = "next" /\ job[d].kind = "in"
  /\ \E it \in {i \in Ready(d) : i.kind = "folder"} :
     \E ns \in {job[d].safe.state.ix.nodes} :
     \E same \in {{n \in DOMAIN ns : /\ ns[n].parent = Into(d, it) /\ ns[n].trashed = 0
                                     /\ ns[n].kind = "folder" /\ Key(ns[n].name) = Key(it.name)}} :
       IF same # {}
       THEN /\ \E n \in same : job' = [job EXCEPT ![d] = Placed(Without(@, it), it, n)]
            /\ UNCHANGED minted
       ELSE /\ job' = [job EXCEPT ![d] = Writing(Placed(Without(@, it), it, Fresh(d)),
                         Entered(job[d].safe.state.head,
                                 <<CreateFolder(Fresh(d), it.name, Into(d, it))>>))]
            /\ Mints(d)
  /\ UNCHANGED <<account, seen, slot, open, delayed, stored, aged, carries, left, fate>>

\* A file into the Safe: the version this device has of it now is read and
\* sent. One that is gone ends the job.
FileIn(d) ==
  /\ job[d].phase = "next" /\ job[d].kind = "in"
  /\ \E it \in {i \in Ready(d) : i.kind = "file"} :
       IF it.id \in DOMAIN seen[d].ix.nodes
       THEN job' = [job EXCEPT ![d] = [Without(@, it) EXCEPT !.phase = "send",
                                         !.item.up = UpOf(seen[d].ix.nodes, it.id)]]
       ELSE Ends(d)
  /\ UNCHANGED <<account, seen, slot, open, delayed, stored, aged, minted, carries, left, fate>>

\* The file is stored (finalized, outside the log); then the Safe's entry.
Sent(d) ==
  /\ job[d].phase = "send" /\ job[d].kind \in {"in", "add"}
  /\ \E up \in {Fresh(d)} : \E it \in {job[d].item} :
     \E parent \in {IF job[d].kind = "add" THEN it.id ELSE Into(d, it)} :
       /\ stored' = [stored EXCEPT ![up] = "committed"]
       /\ carries' = [carries EXCEPT ![up] = IF it.up = None THEN up ELSE carries[it.up]]
       /\ job' = [job EXCEPT ![d] = [Writing(@, Entered(job[d].safe.state.head,
                    Stores(up) \o <<CreateFile(Fresh(d), it.name, parent, up)>>)) EXCEPT !.up = up]]
  /\ Mints(d)
  /\ UNCHANGED <<account, seen, slot, open, delayed, aged, left, fate>>

\* Out of the account goes what the device knows of the file by now. An entry
\* that is skipped is an error, which ends the job.
Purge(d) ==
  /\ job[d].phase = "purge"
  /\ \E r \in {InAccount(d, Delete(job[d].item.id))} :
       /\ Submit(d, r)
       /\ fate' = [fate EXCEPT !.taken = @ \cup Lost(account.ix, r.ix)]
       /\ IF r.out \in {"applied", "noop"} THEN job' = [job EXCEPT ![d].phase = "next"] ELSE Ends(d)
  /\ UNCHANGED <<slot, open, delayed, stored, aged, minted, carries, left>>

\* All files are in the Safe: the moved folder goes, with what was in it.
FoldersLeft(d) ==
  /\ job[d].phase = "next" /\ job[d].kind = "in" /\ job[d].items = {}
  /\ IF \E n \in job[d].tops \cap DOMAIN seen[d].ix.nodes : seen[d].ix.nodes[n].kind = "folder"
     THEN job' = [job EXCEPT ![d].phase = "tops"] /\ UNCHANGED open
     ELSE EndsWith(d, job[d].safe)
  /\ UNCHANGED <<account, seen, slot, delayed, stored, aged, minted, carries, left, fate>>

PurgeFolders(d) ==
  /\ job[d].phase = "tops" /\ job[d].kind = "in"
  /\ \E r \in {InAccount(d, Delete(CHOOSE n \in job[d].tops : TRUE))} :
       /\ Submit(d, r)
       /\ fate' = [fate EXCEPT !.taken = @ \cup Lost(account.ix, r.ix)]
       /\ IF r.out \in {"applied", "noop"} THEN EndsWith(d, job[d].safe)
          ELSE Ends(d) /\ UNCHANGED open
  /\ UNCHANGED <<slot, delayed, stored, aged, minted, carries, left>>

-----------------------------------------------------------------------------
(* Out of the Safe                                                         *)

FolderOut(d) ==
  /\ job[d].phase = "next" /\ job[d].kind = "out"
  /\ \E it \in {i \in Ready(d) : i.kind = "folder"} :
     \E r \in {InAccount(d, <<CreateFolder(Fresh(d), it.name, Into(d, it))>>)} :
       /\ Submit(d, r)
       /\ IF r.out = "applied" THEN job' = [job EXCEPT ![d] = Placed(Without(@, it), it, Fresh(d))]
          ELSE Ends(d)
  /\ Mints(d)
  /\ UNCHANGED <<slot, open, delayed, stored, aged, carries, left, fate>>

\* The file goes to the account, then out of the Safe.
FileOut(d) ==
  /\ job[d].phase = "next" /\ job[d].kind = "out"
  /\ \E it \in {i \in Ready(d) : i.kind = "file"} : \E up \in {Fresh(d)} :
     \E r \in {InAccount(d,
                 Stores(up) \o <<CreateFile(Fresh(d), it.name, Into(d, it), up)>>)} :
       /\ Submit(d, r)
       /\ carries' = [carries EXCEPT ![up] = carries[it.up]]
       /\ IF r.out = "applied"
          THEN job' = [job EXCEPT ![d] = Writing(Without(@, it),
                         Entered(job[d].safe.state.head, Delete(it.id)))]
          ELSE Ends(d)
  /\ Mints(d)
  /\ UNCHANGED <<slot, open, delayed, stored, aged, left, fate>>

FoldersOut(d) ==
  /\ job[d].phase = "next" /\ job[d].kind = "out" /\ job[d].items = {}
  /\ IF \E n \in job[d].tops : n \in DOMAIN job[d].where
     THEN /\ job' = [job EXCEPT ![d] = Writing([@ EXCEPT !.tops = {}],
                       Entered(job[d].safe.state.head, Delete(CHOOSE n \in job[d].tops : TRUE)))]
          /\ UNCHANGED open
     ELSE EndsWith(d, job[d].safe)
  /\ UNCHANGED <<account, seen, slot, delayed, stored, aged, minted, carries, left, fate>>

-----------------------------------------------------------------------------
(* Writing the slot                                                        *)

\* (mutant) Nothing is compared.
WinsAlways(rev) == TRUE

Wins(rev) == slot.rev = rev

\* What a write takes out of the Safe its owner gave up, unless it is the
\* purge of a move.
Accounted(f, kind, lost) ==
  IF kind = "out" THEN [f EXCEPT !.taken = @ \cup lost] ELSE [f EXCEPT !.given = @ \cup lost]

\* After the answer. A cleanup that is done gives its job the Safe it left.
SweepDone(d, safe) ==
  IF job[d].kind = "out"
  THEN job' = [job EXCEPT ![d].phase = "next", ![d].safe = safe] /\ UNCHANGED open
  ELSE EndsWith(d, safe)

Answered(d, safe, r) ==
  \E j \in {job[d]} :
    CASE j.write.type = "note" -> Ends(d) /\ UNCHANGED open
      [] j.write.type = "drop" -> SweepDone(d, safe)
      [] j.write.type = "entry" /\ j.kind = "in" /\ j.item.kind = "folder" ->
           /\ IF r.out = "applied" THEN job' = [job EXCEPT ![d].phase = "next", ![d].safe = safe]
              ELSE Ends(d)
           /\ UNCHANGED open
      [] j.write.type = "entry" /\ j.kind = "in" /\ j.item.kind = "file" ->
           /\ job' = [job EXCEPT ![d] = IF r.out = "applied"
                                        THEN [j EXCEPT !.phase = "purge", !.safe = safe]
                                        ELSE [j EXCEPT !.phase = "note"]]
           /\ UNCHANGED open
      [] j.write.type = "entry" /\ j.kind = "add" ->
           IF r.out = "applied" THEN EndsWith(d, safe)
           ELSE job' = [job EXCEPT ![d].phase = "note"] /\ UNCHANGED open
      [] j.write.type = "entry" /\ j.kind \in {"out", "delete"} ->
           IF r.let # {}
           THEN job' = [job EXCEPT ![d].phase = "read", ![d].safe = safe] /\ UNCHANGED open
           ELSE SweepDone(d, safe)

\* Its author is told that a new file is in the Safe.
Confirmed(f, j, r) ==
  IF j.kind = "add" /\ j.write.type = "entry" /\ r.out = "applied"
  THEN [f EXCEPT !.acked = @ \cup {carries[j.up]}] ELSE f

\* (mutant) Only the revision that won is taken, the change applied to the
\* state that lost.
ReopenRevision(j) == [rev |-> slot.rev, state |-> j.cur.state]

Reopen(j) == slot

\* The write is compared with the slot: stored, or the state that won is
\* opened and the change applied to it.
PutSlot(d) ==
  /\ job[d].phase = "put"
  /\ \E r \in {Change(job[d].cur.state, d, job[d].write)} :
     \E safe \in {[rev |-> job[d].cur.rev + 1, state |-> r.state]} :
       IF Wins(job[d].cur.rev)
       THEN /\ slot' = safe
            /\ \E lost \in {Lost(job[d].cur.state.ix, r.state.ix)} :
                 fate' = Confirmed(Accounted(fate, job[d].kind, lost), job[d], r)
            /\ Answered(d, safe, r)
       ELSE /\ job' = [job EXCEPT ![d].cur = Reopen(job[d])]
            /\ UNCHANGED <<slot, open, fate>>
  /\ UNCHANGED <<account, seen, delayed, stored, aged, minted, carries, left>>

Fault == left.faults > 0 /\ left' = [left EXCEPT !.faults = @ - 1]

\* (mutant) A write of the Safe that failed is taken for done.
FailsToPurge(d) ==
  IF job[d].kind = "in" /\ job[d].phase = "put" /\ job[d].up # None
  THEN job' = [job EXCEPT ![d].phase = "purge"] /\ UNCHANGED open
  ELSE Ends(d) /\ UNCHANGED open

\* A failed call ends the job; a file whose entry failed is noted, a cleanup
\* after a purge is not missed.
FailsTo(d) ==
  \E j \in {job[d]} :
    CASE j.phase = "put" /\ j.write.type = "entry" /\ j.up # None ->
           job' = [job EXCEPT ![d].phase = "note"] /\ UNCHANGED open
      [] j.kind # "sweep" /\ (\/ j.phase \in {"read", "list", "release", "keep"}
                              \/ j.phase = "put" /\ j.write.type = "drop") ->
           SweepDone(d, j.safe)
      [] OTHER -> Ends(d) /\ UNCHANGED open

\* The device gives up waiting; the write may still arrive.
GiveUp(d) ==
  /\ job[d].phase = "put"
  /\ Fault
  /\ \E r \in {Change(job[d].cur.state, d, job[d].write)} :
       delayed' = delayed \cup {[rev |-> job[d].cur.rev, state |-> r.state, kind |-> job[d].kind,
                               lost |-> Lost(job[d].cur.state.ix, r.state.ix)]}
  /\ FailsTo(d)
  /\ UNCHANGED <<account, seen, slot, stored, aged, minted, carries, fate>>

Arrives ==
  /\ \E p \in delayed :
       /\ delayed' = delayed \ {p}
       /\ Wins(p.rev)
       /\ slot' = [rev |-> p.rev + 1, state |-> p.state]
       /\ fate' = Accounted(fate, p.kind, p.lost)
  /\ UNCHANGED <<account, seen, open, job, stored, aged, minted, carries, left>>

Fails(d) ==
  /\ job[d].phase \notin {"idle", "put"}
  /\ Fault
  /\ FailsTo(d)
  /\ UNCHANGED <<account, seen, slot, delayed, stored, aged, minted, carries, fate>>

\* noteGone: a version that no file of the Safe may have. Whether one has is
\* asked again when the note is written.
NoteGone(d) ==
  /\ job[d].phase = "note"
  /\ IF job[d].up \in BoundRefs(slot.state.ix) THEN Ends(d)
     ELSE job' = [job EXCEPT ![d] = [Writing(@, Noted(job[d].up)) EXCEPT !.cur = slot]]
  /\ UNCHANGED <<account, seen, slot, open, delayed, stored, aged, minted, carries, left, fate>>

-----------------------------------------------------------------------------
(* cleanup, through the instance                                           *)

SweepRead(d) ==
  /\ job[d].phase = "read"
  /\ job' = [job EXCEPT ![d].phase = "list", ![d].cur = slot]
  /\ UNCHANGED <<account, seen, slot, open, delayed, stored, aged, minted, carries, left, fate>>

\* (mutant) Any upload the Safe does not refer to.
MayLetGoAtOnce(s, u) == stored[u] = "committed" /\ u \notin BoundRefs(s.ix)

MayLetGo(s, u) ==
  /\ stored[u] = "committed"
  /\ u \notin BoundRefs(s.ix)
  /\ u \in s.gone \/ u \in aged

SweepList(d) ==
  /\ job[d].phase = "list"
  /\ \E s \in {job[d].cur.state} :
     \E release \in {{u \in Upload : MayLetGo(s, u)}} :
       job' = [job EXCEPT ![d].phase = IF release = {} THEN "keep" ELSE "release",
                 ![d].release = release,
                 ![d].keep = {u \in Upload : stored[u] = "released" /\ u \in BoundRefs(s.ix)}]
  /\ UNCHANGED <<account, seen, slot, open, delayed, stored, aged, minted, carries, left, fate>>

SweepRelease(d) ==
  /\ job[d].phase = "release"
  /\ stored' = [u \in Upload |-> IF u \in job[d].release /\ stored[u] = "committed"
                                 THEN "released" ELSE stored[u]]
  /\ fate' = [fate EXCEPT !.told = @ \cup job[d].release]
  /\ job' = [job EXCEPT ![d].phase = "keep"]
  /\ UNCHANGED <<account, seen, slot, open, delayed, aged, minted, carries, left>>

SweepKeep(d) ==
  /\ job[d].phase = "keep"
  /\ stored' = [u \in Upload |-> IF u \in job[d].keep /\ stored[u] = "released"
                                 THEN "committed" ELSE stored[u]]
  /\ \E noted \in {job[d].cur.state.gone} :
       IF noted # {}
       THEN /\ job' = [job EXCEPT ![d] = [@ EXCEPT !.phase = "put", !.write = Dropped(noted)]]
            /\ UNCHANGED open
       ELSE SweepDone(d, job[d].cur)
  /\ UNCHANGED <<account, seen, slot, delayed, aged, minted, carries, left, fate>>

-----------------------------------------------------------------------------
(* The rest of the account, and time                                       *)

\* In the background; where nothing is left to do with it, it is left out. An
\* entry that is queued keeps the base it was queued with.
Pull(d) ==
  /\ seen[d] # account
  /\ job[d].phase \notin {"purge", "tops"}
  /\ job[d].kind \in {"in", "out"} \/ left.edits > 0
  /\ seen' = [seen EXCEPT ![d] = account]
  /\ UNCHANGED <<account, slot, open, job, delayed, stored, aged, minted, carries, left, fate>>

\* safeRefresh: only forward. What a running job ends with replaces it.
Refresh(d) ==
  /\ slot.rev > open[d].rev
  /\ job[d].phase = "idle" /\ left.jobs > 0
  /\ open' = [open EXCEPT ![d] = slot]
  /\ UNCHANGED <<account, seen, slot, job, delayed, stored, aged, minted, carries, left, fate>>

\* A new version of a file, or a new file next to the one that was there.
Edit(d, ops, up) ==
  /\ left.edits > 0
  /\ job[d].phase = "idle"
  /\ \E r \in {InAccount(d, Stores(up) \o ops)} :
       /\ r.out = "applied"
       /\ Submit(d, r)
       /\ carries' = [carries EXCEPT ![up] = up]
       /\ fate' = [fate EXCEPT !.acked = @ \cup {up},
                               !.given = @ \cup Lost(account.ix, r.ix)]
  /\ left' = [left EXCEPT !.edits = @ - 1]
  /\ UNCHANGED <<slot, open, job, delayed, stored, aged>>

Rewrite(d) ==
  /\ \E n \in {x \in DOMAIN seen[d].ix.nodes : seen[d].ix.nodes[x].content # None} :
       Edit(d, <<NewVersion(n, seen[d].ix.nodes[n].name, Fresh(d), UpOf(seen[d].ix.nodes, n))>>,
            Fresh(d))
  /\ Mints(d)

AddFile(d) ==
  /\ \E n \in {x \in DOMAIN seen[d].ix.nodes \ Roots : seen[d].ix.nodes[x].kind = "folder"} :
     \E name \in UserName :
       Edit(d, <<CreateFile(Fresh(d), name, n, Fresh(d))>>, Fresh(d))
  /\ Mints(d)

\* SAFE_ORPHAN_GRACE_MS pass for what is stored.
HourPasses ==
  /\ Fault
  /\ aged' = {u \in Upload : stored[u] # "none"}
  /\ aged' # aged
  /\ UNCHANGED <<account, seen, slot, open, job, delayed, stored, minted, carries, fate>>

-----------------------------------------------------------------------------
(* The machine                                                             *)

\* The folder with its file, as an entry of long ago left it.
Held(author) ==
  LET name == CHOOSE x \in UserName : TRUE
      old  == [seq |-> 0, dev |-> System]
  IN  [nodes |-> Put(Put(EmptyIndex.nodes,
         Top, [kind |-> "folder", name |-> name, parent |-> ROOT, trashed |-> 0,
               placed |-> old, content |-> None]),
         Inside, [kind |-> "file", name |-> name, parent |-> Top, trashed |-> 0, placed |-> old,
                  content |-> [up |-> Holds, seq |-> 0, dev |-> author,
                               loc |-> CHOOSE l \in Loc : TRUE]]),
       uploads |-> [u \in {Holds} |-> [NewUpload EXCEPT !.status = "bound", !.node = Inside]]]

Init ==
  /\ left \in Scenes
  /\ \E author \in Device :
       /\ account = [ix |-> IF left.inSafe THEN EmptyIndex ELSE Held(author), head |-> 0]
       /\ slot = [rev |-> 1, state |-> [ix |-> IF left.inSafe THEN Held(author) ELSE EmptyIndex,
                                        head |-> 0, gone |-> {}]]
  /\ seen = [d \in Device |-> account]
  /\ open = [d \in Device |-> slot]
  /\ job = [d \in Device |-> Idle]
  /\ delayed = {}
  /\ stored = [u \in Upload |-> IF left.inSafe /\ u = Holds THEN "committed" ELSE "none"]
  /\ aged = {}
  /\ minted = [d \in Device |-> 0]
  /\ carries = [u \in Upload |-> IF u = Holds THEN u ELSE None]
  /\ fate = [acked |-> {Holds}, given |-> {}, taken |-> {}, told |-> {}]

Moves(d) ==
  \/ MoveIn(d) \/ FolderIn(d) \/ FileIn(d) \/ Purge(d) \/ FoldersLeft(d) \/ PurgeFolders(d)
  \/ MoveOut(d) \/ FolderOut(d) \/ FileOut(d) \/ FoldersOut(d)

Writes(d) ==
  AddToSafe(d) \/ DeleteFromSafe(d) \/ Sent(d) \/ PutSlot(d) \/ NoteGone(d) \/ Refresh(d)

Sweeps(d) ==
  Unlock(d) \/ SweepRead(d) \/ SweepList(d) \/ SweepRelease(d) \/ SweepKeep(d)

Next ==
  \/ \E d \in Device : \/ Moves(d) \/ Writes(d) \/ Sweeps(d)
                       \/ Pull(d) \/ Rewrite(d) \/ AddFile(d)
                       \/ GiveUp(d) \/ Fails(d)
  \/ Arrives \/ HourPasses

Spec == Init /\ [][Next]_vars

-----------------------------------------------------------------------------
(* Properties                                                              *)

SafeState == slot.state

\* The slot and the jobs are of their kinds: in particular the Safe's tree keeps
\* the shape the rules of the index promise (safe-tree.ts commit, dropLetGo).
TypeOK ==
  /\ slot.rev \in Nat /\ SafeState.head \in Nat /\ SafeState.gone \subseteq Upload
  /\ Rooted(SafeState.ix.nodes) /\ Acyclic(SafeState.ix.nodes)
  /\ Unambiguous(SafeState.ix.nodes) /\ Bound(SafeState.ix)
  /\ \A d \in Device : /\ seen[d].head \in 0 .. account.head
                       /\ open[d].rev \in 1 .. slot.rev
                       /\ job[d].phase \in {"idle", "next", "send", "put", "purge", "tops", "note",
                                            "read", "list", "release", "keep"}
  /\ stored \in [Upload -> {"none", "committed", "released"}]
  /\ aged \subseteq Upload /\ minted \in [Device -> 0 .. MaxIds]
  /\ carries \in [Upload -> Upload \cup {None}]

\* The contents some file has, in the account or in the Safe.
Present == {carries[u] : u \in BoundRefs(account.ix) \cup BoundRefs(SafeState.ix)}

\* No write of the slot undoes another: what its author was told is in the
\* Safe (or in the account) is there until its owner gives it up or the purge
\* of a move takes it (safe.ts update: a lost compare-and-swap applies the
\* change to the state that won).
EditsStay == fate.acked \subseteq Present \cup fate.given \cup fate.taken

\* When a move takes a file away from where it was, the version it had read is
\* where it goes, whatever failed on the way and whatever other devices wrote,
\* unless its owner has given it up there (safe-tree.ts moveIn, moveOut).
MovedIsInOne ==
  [][\A d \in Device :
       /\ job'[d] # job[d]
       /\ job[d].item # None
       /\ job[d].item.up # None
       /\ carries[job[d].item.up] \in fate'.taken \ fate.taken
       => carries[job[d].item.up] \in Present' \cup fate'.given]_vars

\* The instance deletes no piece of a file that is in the Safe: its upload is
\* not let go, even if the write that added it arrived after its sender had
\* given it up and noted it, unless that write took more than an hour
\* (safe-tree.ts noteGone, cleanupInstance).
BoundStays == \A u \in BoundRefs(SafeState.ix) \ aged : stored[u] = "committed"

\* A note leaves the Safe only when the instance has been told to let the
\* upload go, or a file uses it: no note another device added during a cleanup
\* is swept away with those it saw (safe-tree.ts cleanupInstance, dropLetGo).
NotesAreHandled ==
  [][\A u \in SafeState.gone \ SafeState'.gone :
       u \in fate.told \/ u \in BoundRefs(SafeState'.ix)]_vars

\* Nothing its author was told is stored leaves both the account and the Safe
\* unless its owner gave it up: "the same file never ends up in neither"
\* (safe-tree.ts moveIn).
NothingLost == fate.acked \subseteq Present \cup fate.given
=============================================================================
