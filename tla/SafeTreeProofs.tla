--------------------------- MODULE SafeTreeProofs ---------------------------
(***************************************************************************)
(* What holds of the Safe for any number of devices, files and jobs.       *)
(***************************************************************************)
EXTENDS SafeTree, IndexProofs, SequenceTheorems

-----------------------------------------------------------------------------
(* The inductive invariant                                                 *)

\* The uploads that exist: no device is yet to mint them.
Known(u) ==
  u \in Upload /\ \A d \in Device : \A i \in 1 .. MaxIds : u = <<d, i>> => i <= minted[d]

\* An index that has taken its log up to h.
IndexAt(ix, h) == h \in Nat /\ IndexOK(ix, h) /\ Made(ix.nodes, h)

\* A state of the Safe. A noted upload is one no file of it has.
StateOK(s) ==
  /\ s \in [ix : {s.ix}, head : Nat, gone : SUBSET Upload]
  /\ IndexAt(s.ix, s.head)
  /\ s.gone \cap BoundRefs(s.ix) = {}

\* The uploads a state of the Safe names.
Names(s) == BoundRefs(s.ix) \cup s.gone

IsStored(u) == u \in Upload /\ stored[u] # "none"

NamesStored(s) == \A u \in Names(s) : IsStored(u)

\* A job whose write brings a new file into the Safe.
Putting(j) == j.phase = "put" /\ j.write.type = "entry" /\ j.up # None

\* The uploads that a file of the Safe has or may come to have.
MayBeBound ==
  BoundRefs(slot.state.ix)
    \cup (UNION {BoundRefs(p.state.ix) : p \in {q \in delayed : q.rev = slot.rev}})
    \cup {job[d].up : d \in {x \in Device : Putting(job[x])}}

\* The versions of the slot that devices have; a job is idle with none.
Shown ==
  {slot} \cup {open[d] : d \in Device} \cup {job[d].safe : d \in Device}
         \cup {job[d].cur : d \in Device}

\* The uploads that the states of the Safe name, wherever they are.
AllNames == UNION {Names(v.state) : v \in Shown \cup delayed}

\* The contents that are in the account, or in the Safe, or went from there.
AccountHas == {carries[u] : u \in BoundRefs(account.ix)} \cup fate.given \cup fate.taken
SafeHas == {carries[u] : u \in BoundRefs(slot.state.ix)} \cup fate.given \cup fate.taken

\* A revision of the slot is one state; what a state that was in the slot notes
\* stays out of the Safe.
VersionOK(v) ==
  /\ v.rev \in 0 .. slot.rev
  /\ v.rev = slot.rev => v = slot
  /\ StateOK(v.state)
  /\ NamesStored(v.state)
  /\ v.state.gone \cap MayBeBound = {}

\* A write that may still arrive: what it would remove has been let go, and
\* what it would lose is accounted for.
DelayedOK(p) ==
  /\ p.rev \in 0 .. slot.rev
  /\ StateOK(p.state)
  /\ NamesStored(p.state)
  /\ p.rev = slot.rev => /\ slot.state.gone \ p.state.gone \subseteq fate.told
                         /\ Lost(slot.state.ix, p.state.ix) \subseteq p.lost

SlotOK ==
  /\ slot.rev \in Nat \ {0}
  /\ \A v \in Shown : VersionOK(v)
  /\ \A d \in Device : open[d].rev # 0
  /\ \A p \in delayed : DelayedOK(p)

AccountOK ==
  /\ IndexAt(account.ix, account.head)
  /\ \A u \in BoundRefs(account.ix) : Known(u)
  /\ \A d \in Device : /\ IndexAt(seen[d].ix, seen[d].head)
                       /\ seen[d].head <= account.head
                       /\ \A u \in BoundRefs(seen[d].ix) : Known(u)

UploadsKept ==
  /\ stored \in [Upload -> {"none", "committed", "released"}]
  /\ \A u \in Upload : stored[u] # "none" => Known(u)
  /\ \A u \in Upload : stored[u] = "released" => u \in fate.told
  /\ \A u \in aged : IsStored(u)
  /\ minted \in [Device -> 0 .. MaxIds]
  /\ carries \in [Upload -> Upload \cup {None}]

\* An item of a move; the file a job works on.
ItemOK(it) ==
  /\ it = File(it.id, it.kind, it.name, it.parent, it.up)
  /\ it.name \in NameSet
  /\ it.kind \in {"file", "folder"}
  /\ it.up = None \/ Known(it.up)
  /\ it.kind = "folder" => it.up = None

\* The groups that devices write: a stored upload and the operation that uses
\* it, a new folder, a node that goes.
UsesStored(ops, up) ==
  /\ Len(ops) = 3
  /\ ops[1] = [type |-> "upload_begin", up |-> up]
  /\ ops[2] = [type |-> "upload_commit", up |-> up]
  /\ ops[3].up = up

StoresFile(ops, up) ==
  /\ UsesStored(ops, up)
  /\ ops[3].type = "create" /\ ops[3].kind = "file" /\ OpOK(ops[3])

AddsFolder(ops) ==
  /\ Len(ops) = 1
  /\ ops[1].type = "create" /\ ops[1].kind = "folder" /\ OpOK(ops[1])

Deletes(ops) ==
  /\ Len(ops) = 2
  /\ ops[1].type = "trash"
  /\ ops[2].type = "purge"

\* An entry that brings a file with the upload `up', and one that brings none.
BringsFile(w, up) == w.type = "entry" /\ w.base \in Nat /\ StoresFile(w.ops, up)

BringsNone(w) ==
  w.type = "entry" /\ w.base \in Nat /\ (Deletes(w.ops) \/ AddsFolder(w.ops))

\* The entry of a new file.
FilesEntry(j, d) ==
  /\ j.kind \in {"in", "add"}
  /\ j.up \in Minted(d) /\ IsStored(j.up) /\ j.up \notin AllNames
  /\ BringsFile(j.write, j.up)
  /\ j.kind = "in" => /\ j.item.kind = "file"
                      /\ j.item.up # None => /\ Known(j.item.up)
                                             /\ carries[j.up] = carries[j.item.up]

\* The entry of a new folder, or of one that goes.
FoldersEntry(j) ==
  /\ j.kind \in {"in", "out", "delete"}
  /\ BringsNone(j.write)
  /\ j.kind = "in" => j.item.kind = "folder" /\ j.item.up = None

WriteOK(j, d) ==
  \/ /\ j.write.type = "entry"
     /\ IF j.up = None THEN FoldersEntry(j) ELSE FilesEntry(j, d)
  \/ /\ j.write.type = "note" /\ j.kind \in {"in", "add"}
     /\ j.write.up \in Minted(d) /\ IsStored(j.write.up)
  \/ /\ j.write.type = "drop"
     /\ j.write.ups \subseteq fate.told

Phases == {"idle", "next", "send", "put", "purge", "tops", "note", "read", "list", "release", "keep"}

PhaseOK(j, d) ==
  /\ j.phase \in Phases
  /\ j.phase # "idle" => j.safe.rev # 0
  /\ j.phase \in {"put", "list", "release", "keep"} => j.cur.rev # 0
  /\ j.phase = "next" => j.kind \in {"in", "out"}
  /\ j.phase = "send" => /\ ItemOK(j.item)
                         /\ j.kind \in {"in", "add"}
                         /\ j.kind = "in" => j.item.kind = "file"
  /\ j.phase = "put" => WriteOK(j, d)
  /\ j.phase \in {"purge", "tops"} => j.kind = "in"
  /\ j.phase = "note" => j.up \in Minted(d) /\ IsStored(j.up) /\ j.kind \in {"in", "add"}
  /\ j.phase = "release" => /\ j.cur.state.gone \subseteq fate.told \cup j.release
                            /\ j.release \cap MayBeBound \subseteq aged
                            /\ \A u \in j.release : IsStored(u)
  /\ j.phase = "keep" => j.cur.state.gone \subseteq fate.told

\* What a move has put in its new place is there, or its owner has given it up,
\* or another move has taken it.
PutThere(j) ==
  \/ j.kind = "out"
  \/ j.kind = "in" /\ j.phase \in {"next", "purge", "tops"}

MovedIsThere(j) ==
  j.item # None =>
    /\ j.item.up = None \/ Known(j.item.up)
    /\ j.item.up # None /\ PutThere(j) =>
         carries[j.item.up] \in IF j.kind = "out" THEN AccountHas ELSE SafeHas

ItemsOK(j) == \A it \in j.items : ItemOK(it) /\ (it.up = None => it.kind = "folder")

JobOK(j, d) == ItemsOK(j) /\ PhaseOK(j, d) /\ MovedIsThere(j)

JobsOK == \A d \in Device : JobOK(job[d], d)

BoundKept == \A u \in MayBeBound \ aged : stored[u] = "committed"

\* The variables that have an entry per device, and the records.
FieldsOK ==
  /\ DOMAIN seen = Device /\ DOMAIN open = Device /\ DOMAIN job = Device
  /\ \A d \in Device : DOMAIN job[d] = DOMAIN Idle
  /\ DOMAIN fate = {"acked", "given", "taken", "told"}

IInv ==
  FieldsOK /\ SlotOK /\ AccountOK /\ UploadsKept /\ JobsOK /\ BoundKept /\ EditsStay

-----------------------------------------------------------------------------
(* Entries of an index                                                     *)

\* What a group of one, two or three operations comes to.
LEMMA ApplyIs ==
  ASSUME NEW ix, NEW e, NEW ops, Len(ops) \in {1, 2, 3}
  PROVE  LET r0 == [outs |-> {}, ix |-> WithGallery(ix, e)]
             r1 == Took(r0, Member(r0.ix, e, ops, 1))
             r2 == Took(r1, Member(r1.ix, e, ops, 2))
             r3 == Took(r2, Member(r2.ix, e, ops, 3))
             r  == IF Len(ops) = 1 THEN r1 ELSE IF Len(ops) = 2 THEN r2 ELSE r3
         IN  Apply(ix, e, ops) = Whole(ix, Outcome(r.outs), r)
<1> DEFINE r0 == [outs |-> {}, ix |-> WithGallery(ix, e)]
           r1 == Took(r0, Member(r0.ix, e, ops, 1))
           r2 == Took(r1, Member(r1.ix, e, ops, 2))
           r3 == Took(r2, Member(r2.ix, e, ops, 3))
           step(f) == [i \in 0 .. Len(ops) |->
                         IF i = 0 THEN r0 ELSE Took(f[i - 1], Member(f[i - 1].ix, e, ops, i))]
           g == [i \in 0 .. Len(ops) |->
                   IF i = 0 THEN r0 ELSE IF i = 1 THEN r1 ELSE IF i = 2 THEN r2 ELSE r3]
           h == CHOOSE f : f = step(f)
<1>1. g = step(g)
  <2>1. ASSUME NEW i \in 0 .. Len(ops)  PROVE g[i] = step(g)[i]
    <3>1. i = 0 \/ i = 1 \/ i = 2 \/ i = 3
      BY <2>1
    <3> HIDE DEF r0
    <3>2. CASE i = 0
      BY <2>1, <3>2
    <3>3. CASE i = 1
      BY <2>1, <3>3
    <3>4. CASE i = 2
      BY <2>1, <3>4
    <3>5. CASE i = 3
      BY <2>1, <3>5
    <3> QED  BY <3>1, <3>2, <3>3, <3>4, <3>5
  <2> QED  BY <2>1
<1> HIDE DEF g
<1>2. h = step(h)
  <2>1. \E f : f = step(f)
    BY <1>1
  <2> QED  BY <2>1
<1> HIDE DEF h
<1>3. h[0] = r0 /\ h[1] = r1
  <2>1. 0 \in 0 .. Len(ops) /\ 1 \in 0 .. Len(ops)
    OBVIOUS
  <2> HIDE DEF r0
  <2>2. h[0] = r0
    BY <1>2, <2>1
  <2>3. h[1] = r1
    BY <1>2, <2>1, <2>2
  <2> QED  BY <2>2, <2>3
<1>4. Len(ops) \in {2, 3} => h[2] = r2
  <2> SUFFICES ASSUME Len(ops) \in {2, 3}  PROVE h[2] = r2
    OBVIOUS
  <2>1. 2 \in 0 .. Len(ops)
    OBVIOUS
  <2> HIDE DEF r0, r1
  <2> QED  BY <1>2, <1>3, <2>1
<1>5. Len(ops) = 3 => h[3] = r3
  <2> SUFFICES ASSUME Len(ops) = 3  PROVE h[3] = r3
    OBVIOUS
  <2>1. 3 \in 0 .. Len(ops)
    OBVIOUS
  <2> HIDE DEF r0, r1, r2
  <2> QED  BY <1>2, <1>4, <2>1
<1>6. Apply(ix, e, ops) = Whole(ix, Outcome(h[Len(ops)].outs), h[Len(ops)])
  BY DEF Apply, h
<1> QED  BY <1>3, <1>4, <1>5, <1>6

\* The uploads that are bound: in a well-formed index, those of the files.
BoundUploads(ix) == {u \in DOMAIN ix.uploads : ix.uploads[u].status = "bound"}

\* Files and bound uploads name each other.
LEMMA RefsAreBound ==
  ASSUME NEW ix, Bound(ix)
  PROVE  BoundRefs(ix) = BoundUploads(ix)
<1>1. ASSUME NEW u \in BoundRefs(ix)  PROVE u \in BoundUploads(ix)
  <2>1. PICK n \in DOMAIN ix.nodes : ix.nodes[n].content # None /\ ix.nodes[n].content.up = u
    BY <1>1 DEF BoundRefs, Contents
  <2> QED  BY <2>1 DEF Bound, BoundUploads
<1>2. ASSUME NEW u \in BoundUploads(ix)  PROVE u \in BoundRefs(ix)
  <2>1. /\ ix.uploads[u].node \in DOMAIN ix.nodes
        /\ ix.nodes[ix.uploads[u].node].content # None
        /\ ix.nodes[ix.uploads[u].node].content.up = u
    BY <1>2 DEF Bound, BoundUploads
  <2> QED  BY <2>1 DEF BoundRefs, Contents
<1> QED  BY <1>1, <1>2

\* An operation that is rejected changes nothing; a new file's upload is bound,
\* and no other.
LEMMA CreateBinds ==
  ASSUME NEW ix, NEW e, NEW op, EntryOK(e), IndexOK(ix, e.seq), OpOK(op), op.type = "create"
  PROVE  LET r == ApplyOp(ix, e, op)
         IN  /\ r.out \in {"rejected", "applied"}
             /\ r.out = "rejected" => r.ix = ix
             /\ op.kind = "folder" => BoundUploads(r.ix) = BoundUploads(ix)
             /\ op.kind = "file" /\ r.out = "applied" =>
                  BoundUploads(r.ix) = BoundUploads(ix) \cup {op.up}
<1> DEFINE r == OpCreate(ix, e, op)
           bs == Bind(ix.uploads, e, op.up, op.node)
<1>1. ApplyOp(ix, e, op) = r
  BY DEF ApplyOp
<1>2. r.out \in {"rejected", "applied"} /\ (r.out = "rejected" => r.ix = ix)
  BY DEF OpCreate, Applied, Unchanged
<1>3. op.kind = "folder" => r.ix.uploads = ix.uploads
  BY DEF OpCreate, Applied, Unchanged
<1>4. CASE op.kind = "file" /\ r.out = "applied"
  <2>1. r.ix.uploads = bs /\ Usable(ix.uploads, op.up)
    BY <1>4 DEF OpCreate, Applied, Unchanged
  <2>2. op.node \in NodeId /\ e.seq \in Nat /\ UploadsOK(ix.uploads, e.seq)
    BY DEF OpOK, NodeId, EntryOK, IndexOK
  <2>3. /\ DOMAIN bs = DOMAIN ix.uploads /\ op.up \in DOMAIN ix.uploads
        /\ bs[op.up].status = "bound"
        /\ \A u \in DOMAIN ix.uploads \ {op.up} : bs[u] = ix.uploads[u]
    BY <2>1, <2>2, BindFacts DEF Usable
  <2> HIDE DEF bs
  <2>4. BoundUploads(r.ix) = BoundUploads(ix) \cup {op.up}
    BY <2>1, <2>3 DEF BoundUploads
  <2> QED  BY <1>1, <1>2, <1>4, <2>4
<1>5. CASE ~(op.kind = "file" /\ r.out = "applied")
  BY <1>1, <1>2, <1>3, <1>5 DEF BoundUploads
<1> QED  BY <1>4, <1>5

\* To the trash: no upload changes.
LEMMA TrashBinds ==
  ASSUME NEW ix, NEW e, NEW op, op.type = "trash"
  PROVE  ApplyOp(ix, e, op).ix.uploads = ix.uploads
BY DEF ApplyOp, OpTrash, Applied, Unchanged

\* A purge binds nothing.
LEMMA PurgeBinds ==
  ASSUME NEW ix, NEW e, NEW op, EntryOK(e), IndexOK(ix, e.seq), op.type = "purge"
  PROVE  BoundUploads(ApplyOp(ix, e, op).ix) \subseteq BoundUploads(ix)
<1> DEFINE r  == OpPurge(ix, e, op)
           rs == Release(ix.uploads, e, Contents(ix.nodes, Doomed(ix.nodes, e, op.node)))
<1>1. ApplyOp(ix, e, op) = r
  BY DEF ApplyOp
<1>2. r.ix.uploads = ix.uploads \/ r.ix.uploads = rs
  BY DEF OpPurge, Applied, Unchanged
<1>3. e.seq \in Nat /\ UploadsOK(ix.uploads, e.seq)
  BY DEF EntryOK, IndexOK
<1>4. /\ DOMAIN rs = DOMAIN ix.uploads
      /\ \A u \in DOMAIN ix.uploads : rs[u].status = "bound" => rs[u] = ix.uploads[u]
  BY <1>3, ReleaseFacts
<1> HIDE DEF rs
<1> QED  BY <1>1, <1>2, <1>4 DEF BoundUploads

\* Beginning and committing an upload bind nothing and unbind nothing.
LEMMA UploadBinds ==
  ASSUME NEW ix, NEW e, NEW op, op.type \in {"upload_begin", "upload_commit"}
  PROVE  BoundUploads(ApplyOp(ix, e, op).ix) = BoundUploads(ix)
<1> DEFINE us == ix.uploads
           r  == ApplyOp(ix, e, op)
<1>1. CASE r.ix.uploads = us
  BY <1>1 DEF BoundUploads
<1>2. CASE r.ix.uploads # us /\ op.type = "upload_begin"
  <2>1. op.up \notin DOMAIN us /\ r.ix.uploads = Put(us, op.up, NewUpload)
    BY <1>2 DEF ApplyOp, OpUploadBegin, Applied, Unchanged
  <2> QED  BY <2>1 DEF BoundUploads, Put, NewUpload
<1>3. CASE r.ix.uploads # us /\ op.type = "upload_commit"
  <2>1. /\ op.up \in DOMAIN us /\ us[op.up].status = "open"
        /\ r.ix.uploads = [us EXCEPT ![op.up].status = "committed"]
    BY <1>3 DEF ApplyOp, OpUploadCommit, Applied, Unchanged
  <2>2. r.ix.uploads[op.up].status # "bound" \/ op.up \notin BoundUploads(r.ix)
    BY <2>1 DEF BoundUploads
  <2> QED  BY <2>1 DEF BoundUploads
<1> QED  BY <1>1, <1>2, <1>3

\* New content binds its upload and no other; what it replaces is released or
\* goes on in a conflict copy.
LEMMA NewContentBinds ==
  ASSUME NEW ix, NEW e, NEW op, EntryOK(e), IndexOK(ix, e.seq), Unmade(ix.nodes, e),
         OpOK(op), op.type = "new_content_version"
  PROVE  LET r == ApplyOp(ix, e, op)
         IN  /\ r.out \in {"rejected", "applied"}
             /\ r.out = "applied" => op.up \in BoundUploads(r.ix)
             /\ BoundUploads(r.ix) \subseteq BoundUploads(ix) \cup {op.up}
<1> DEFINE ns == ix.nodes
           us == ix.uploads
           id == op.node
           r  == OpNewContent(ix, e, op)
           back == Awake(ns, e, id)
           cur  == back[id].content
           recovered == <<"recovered", e.seq, e.sub>>
           copyId == <<"conflict", e.seq, e.sub>>
<1>1. ApplyOp(ix, e, op) = r
  BY DEF ApplyOp
<1>2. r.out \in {"rejected", "applied"} /\ (r.out = "rejected" => r.ix = ix)
  BY DEF OpNewContent, Applied, Unchanged
<1>3. CASE r.out = "rejected"
  BY <1>1, <1>2, <1>3
<1>4. CASE r.out = "applied"
  <2>1. e.seq \in Nat /\ UploadsOK(us, e.seq) /\ TreeOK(ns, e.seq) /\ Bound(ix)
    BY DEF EntryOK, IndexOK
  <2>2. Usable(us, op.up) /\ ~IsSystem(ns, id)
    BY <1>4 DEF OpNewContent, Unchanged
  <2>3. op.up \in DOMAIN us
    BY <2>2 DEF Usable
  <2>4. copyId \in NodeId /\ recovered \in NodeId
    BY NewIdFacts
  <2> HIDE DEF copyId, recovered, back
  <2>5. CASE id \notin DOMAIN ns
    <3>1. r.ix.uploads = Bind(us, e, op.up, recovered)
      BY <1>4, <2>2, <2>5 DEF OpNewContent, Applied, Unchanged, recovered
    <3> DEFINE bs == Bind(us, e, op.up, recovered)
    <3>2. /\ DOMAIN bs = DOMAIN us /\ bs[op.up].status = "bound"
          /\ \A u \in DOMAIN us \ {op.up} : bs[u] = us[u]
      BY <2>1, <2>3, <2>4, BindFacts
    <3> HIDE DEF bs
    <3> QED  BY <1>1, <1>2, <2>3, <3>1, <3>2 DEF BoundUploads, bs
  <2>6. CASE id \in DOMAIN ns
    <3>1. id \in DOMAIN ns \ Roots /\ ns[id].kind = "file"
      BY <1>4, <2>2, <2>6, NotSystem DEF OpNewContent, Unchanged
    <3>2. cur = ns[id].content
      <4>1. PlacedAt(ns, Revive(ns, e, id), id, ns[id])
        BY <2>1, <3>1, ReviveKeepsTree DEF IndexOK
      <4>2. PlacedAt(ns, back, id, ns[id])
        BY <3>1, <4>1 DEF PlacedAt, Awake, back
      <4> QED  BY <4>2 DEF PlacedAt
    <3>3. cur.up \in BoundUploads(ix) /\ cur.up \in DOMAIN us /\ id \in NodeId
      BY <2>1, <3>1, <3>2 DEF Bound, BoundUploads, TreeOK
    <3> HIDE DEF cur
    <3> DEFINE cs == Bind(us, e, cur.up, copyId)
               rs == Release(us, e, {cur.up})
    <3>4. \/ r.ix.uploads = Bind(cs, e, op.up, id)
          \/ r.ix.uploads = Bind(rs, e, op.up, id)
      BY <1>4, <2>2, <3>1 DEF OpNewContent, Applied, Unchanged, copyId, back, cur
    <3>5. /\ UploadsOK(cs, e.seq) /\ DOMAIN cs = DOMAIN us
          /\ \A u \in DOMAIN us \ {cur.up} : cs[u] = us[u]
      BY <2>1, <2>4, <3>3, BindFacts
    <3>6. /\ UploadsOK(rs, e.seq) /\ DOMAIN rs = DOMAIN us
          /\ \A u \in DOMAIN us \ {cur.up} : rs[u] = us[u]
      BY <2>1, ReleaseFacts
    <3> HIDE DEF cs, rs
    <3>7. PICK ms : /\ r.ix.uploads = Bind(ms, e, op.up, id)
                    /\ UploadsOK(ms, e.seq) /\ DOMAIN ms = DOMAIN us
                    /\ \A u \in DOMAIN us \ {cur.up} : ms[u] = us[u]
      BY <3>4, <3>5, <3>6
    <3> DEFINE bs == Bind(ms, e, op.up, id)
    <3>8. /\ DOMAIN bs = DOMAIN ms /\ bs[op.up].status = "bound"
          /\ \A u \in DOMAIN ms \ {op.up} : bs[u] = ms[u]
      BY <2>1, <2>3, <3>3, <3>7, BindFacts
    <3>9. op.up \in BoundUploads(r.ix)
      BY <2>3, <3>7, <3>8 DEF BoundUploads
    <3>10. BoundUploads(r.ix) \subseteq BoundUploads(ix) \cup {op.up}
      <4>1. ASSUME NEW u \in BoundUploads(r.ix), u # op.up, u # cur.up
            PROVE  u \in BoundUploads(ix)
        BY <3>7, <3>8, <4>1 DEF BoundUploads
      <4> QED  BY <3>3, <4>1
    <3> QED  BY <1>1, <1>2, <3>9, <3>10
  <2> QED  BY <2>5, <2>6
<1> QED  BY <1>2, <1>3, <1>4

-----------------------------------------------------------------------------
(* Entries of the account and of the Safe                                  *)

\* The operations of a group, with what the codec admits of each.
GroupOK(ops) == Len(ops) \in {1, 2, 3} /\ \A i \in 1 .. Len(ops) : OpOK(ops[i])

\* ensureGalleryRoot binds nothing.
LEMMA GalleryBinds ==
  ASSUME NEW ix, NEW e
  PROVE  BoundUploads(WithGallery(ix, e)) = BoundUploads(ix)
BY DEF WithGallery, BoundUploads

\* An index, with what an entry has left of it, or all it may still change.
Taking(ix, e, i) ==
  /\ IndexOK(ix, e.seq)
  /\ Unmade(ix.nodes, [e EXCEPT !.sub = i])

\* The start of an entry, and each member of its group.
LEMMA StartTakes ==
  ASSUME NEW ix, NEW h, IndexAt(ix, h), NEW e, EntryOK(e), e.seq = h + 1, e.sub = 0
  PROVE  Taking(WithGallery(ix, e), e, 0)
<1>1. IndexOK(ix, e.seq) /\ Unmade(ix.nodes, e)
  BY IndexGrows, MadeIsUnmade DEF IndexAt
<1>2. [e EXCEPT !.sub = 0] = e
  BY DEF EntryOK
<1> QED  BY <1>1, <1>2, WithGalleryKeeps DEF Taking

\* A member leaves the index to the next.
LEMMA MemberTakes ==
  ASSUME NEW ix, NEW e, EntryOK(e), NEW ops, NEW i \in Nat \ {0}, OpOK(ops[i]),
         Taking(ix, e, i - 1)
  PROVE  LET f == [e EXCEPT !.sub = i - 1]
             r == Member(ix, e, ops, i)
         IN  /\ Taking(r.ix, e, i)
             /\ Made(r.ix.nodes, e.seq)
             /\ EntryOK(f) /\ f.seq = e.seq
             /\ Unmade(ix.nodes, f)
             /\ r = ApplyOp(ix, f, ops[i])
<1>1. EntryOK([e EXCEPT !.sub = i - 1]) /\ [e EXCEPT !.sub = i - 1].seq = e.seq
  BY DEF EntryOK
<1>2. /\ IndexOK(Member(ix, e, ops, i).ix, e.seq)
      /\ Made(Member(ix, e, ops, i).ix.nodes, e.seq)
      /\ Unmade(Member(ix, e, ops, i).ix.nodes, [e EXCEPT !.sub = i])
  BY MemberKeeps DEF Taking
<1>3. Member(ix, e, ops, i) = ApplyOp(ix, [e EXCEPT !.sub = i - 1], ops[i])
  BY DEF Member
<1> QED  BY <1>1, <1>2, <1>3 DEF Taking

\* What an entry comes to is its last member's index, or the one before it.
LEMMA WholeTakes ==
  ASSUME NEW ix, NEW h, IndexAt(ix, h), NEW e, e.seq = h + 1, NEW i, NEW x,
         Taking(x.ix, e, i), Made(x.ix.nodes, e.seq)
  PROVE  LET r == Whole(ix, Outcome(x.outs), x)
         IN  /\ IndexAt(r.ix, h + 1)
             /\ r.out = Outcome(x.outs)
             /\ r.ix = x.ix \/ r.ix = ix
             /\ r.out = "applied" => r.ix = x.ix /\ "rejected" \notin x.outs
             /\ r.out # "applied" => r.ix = ix
<1> DEFINE r == Whole(ix, Outcome(x.outs), x)
<1>1. IndexAt(ix, h + 1)
  <2>1. IndexOK(ix, h + 1) /\ h + 1 \in Nat
    BY IndexGrows DEF IndexAt
  <2>2. Made(ix.nodes, h + 1)
    BY DEF Made, IndexAt, DerivedId
  <2> QED  BY <2>1, <2>2 DEF IndexAt
<1>2. IndexAt(x.ix, h + 1)
  BY <1>1 DEF IndexAt, Taking
<1>3. r.out = Outcome(x.outs) /\ r.ix = IF r.out = "applied" THEN x.ix ELSE ix
  BY DEF Whole
<1>4. Outcome(x.outs) = "applied" => "rejected" \notin x.outs
  BY DEF Outcome
<1> QED  BY <1>1, <1>2, <1>3, <1>4

\* A member's outcome and index join those before it.
LEMMA TookFacts ==
  ASSUME NEW x, NEW m
  PROVE  Took(x, m).outs = x.outs \cup {m.out} /\ Took(x, m).ix = m.ix
BY DEF Took

\* A group that uses a stored upload: the file that does is bound to it.
LEMMA StoredEntry ==
  ASSUME NEW ix, NEW h, IndexAt(ix, h), NEW e, EntryOK(e), e.seq = h + 1, e.sub = 0,
         NEW ops, NEW up \in Upload, UsesStored(ops, up), OpOK(ops[3]),
         ops[3].type \in {"create", "new_content_version"},
         ops[3].type = "create" => ops[3].kind = "file"
  PROVE  LET r == Apply(ix, e, ops)
         IN  /\ IndexAt(r.ix, h + 1)
             /\ BoundRefs(r.ix) \subseteq BoundRefs(ix) \cup {up}
             /\ r.out = "applied" => up \in BoundRefs(r.ix)
             /\ ops[3].type = "create" => BoundRefs(ix) \subseteq BoundRefs(r.ix)
             /\ r.out # "applied" => r.ix = ix
<1> DEFINE start == WithGallery(ix, e)
           r0 == [outs |-> {}, ix |-> start]
           m1 == Member(start, e, ops, 1)
           r1 == Took(r0, m1)
           m2 == Member(m1.ix, e, ops, 2)
           r2 == Took(r1, m2)
           m3 == Member(m2.ix, e, ops, 3)
           r3 == Took(r2, m3)
           r  == Apply(ix, e, ops)
<1>1. r1.ix = m1.ix /\ r2.ix = m2.ix /\ r3.ix = m3.ix
      /\ r3.outs = {m1.out, m2.out, m3.out}
  <2>1. r1.outs = {} \cup {m1.out} /\ r1.ix = m1.ix
    BY TookFacts
  <2>2. r2.outs = r1.outs \cup {m2.out} /\ r2.ix = m2.ix
    BY TookFacts
  <2>3. r3.outs = r2.outs \cup {m3.out} /\ r3.ix = m3.ix
    BY TookFacts
  <2> HIDE DEF r1, r2, r3, m1, m2, m3
  <2> QED  BY <2>1, <2>2, <2>3
<1>2. r = Whole(ix, Outcome(r3.outs), r3)
  <2>1. Len(ops) = 3 /\ Len(ops) \in {1, 2, 3}
    BY DEF UsesStored
  <2>2. r0.ix = start
    OBVIOUS
  <2> QED  BY <1>1, <2>1, <2>2, ApplyIs
<1> HIDE DEF r, r3, r2, r1
<1>3. /\ OpOK(ops[1]) /\ ops[1].type = "upload_begin"
      /\ OpOK(ops[2]) /\ ops[2].type = "upload_commit"
      /\ ops[3].up = up
  BY DEF UsesStored, OpOK
<1>4. Taking(start, e, 0) /\ BoundUploads(start) = BoundUploads(ix)
  BY StartTakes, GalleryBinds
<1> HIDE DEF start
<1>5. Taking(m1.ix, e, 1) /\ BoundUploads(m1.ix) = BoundUploads(ix)
  <2>1. 1 \in Nat \ {0} /\ Taking(start, e, 1 - 1)
    BY <1>4
  <2>2. Taking(m1.ix, e, 1) /\ m1 = ApplyOp(start, [e EXCEPT !.sub = 1 - 1], ops[1])
    BY <1>3, <2>1, MemberTakes
  <2> QED  BY <1>3, <1>4, <2>2, UploadBinds
<1> HIDE DEF m1
<1>6. Taking(m2.ix, e, 2) /\ BoundUploads(m2.ix) = BoundUploads(ix)
  <2>1. 2 \in Nat \ {0} /\ Taking(m1.ix, e, 2 - 1)
    BY <1>5
  <2>2. Taking(m2.ix, e, 2) /\ m2 = ApplyOp(m1.ix, [e EXCEPT !.sub = 2 - 1], ops[2])
    BY <1>3, <2>1, MemberTakes
  <2> QED  BY <1>3, <1>5, <2>2, UploadBinds
<1> HIDE DEF m2
<1>7. /\ Taking(m3.ix, e, 3) /\ Made(m3.ix.nodes, e.seq)
      /\ m3.out \in {"rejected", "applied"}
      /\ m3.out = "applied" =>
           /\ up \in BoundUploads(m3.ix)
           /\ BoundUploads(m3.ix) \subseteq BoundUploads(ix) \cup {up}
           /\ ops[3].type = "create" => BoundUploads(ix) \subseteq BoundUploads(m3.ix)
  <2> DEFINE f == [e EXCEPT !.sub = 3 - 1]
  <2>1. 3 \in Nat \ {0} /\ Taking(m2.ix, e, 3 - 1)
    BY <1>6
  <2>2. /\ Taking(m3.ix, e, 3) /\ Made(m3.ix.nodes, e.seq)
        /\ EntryOK(f) /\ f.seq = e.seq /\ Unmade(m2.ix.nodes, f)
        /\ m3 = ApplyOp(m2.ix, f, ops[3])
    BY <1>3, <2>1, MemberTakes
  <2> HIDE DEF f, m3
  <2>3. IndexOK(m2.ix, f.seq)
    BY <1>6, <2>2 DEF Taking
  <2>4. CASE ops[3].type = "create"
    BY <1>3, <1>6, <2>2, <2>3, <2>4, CreateBinds
  <2>5. CASE ops[3].type = "new_content_version"
    <3>1. ops[3].type # "create"
      BY <2>5
    <3> QED  BY <1>3, <1>6, <2>2, <2>3, <2>5, <3>1, NewContentBinds
  <2> QED  BY <2>4, <2>5
<1> HIDE DEF m3
<1>8. /\ IndexAt(r.ix, h + 1)
      /\ r.out = "applied" => r.ix = m3.ix /\ "rejected" \notin r3.outs
      /\ r.out # "applied" => r.ix = ix
  <2>1. Taking(r3.ix, e, 3) /\ Made(r3.ix.nodes, e.seq)
    BY <1>1, <1>7
  <2>2. /\ IndexAt(r.ix, h + 1)
        /\ r.out = "applied" => r.ix = r3.ix /\ "rejected" \notin r3.outs
        /\ r.out # "applied" => r.ix = ix
    BY <1>2, <2>1, WholeTakes
  <2> QED  BY <1>1, <2>2
<1>9. BoundRefs(ix) = BoundUploads(ix) /\ BoundRefs(r.ix) = BoundUploads(r.ix)
  BY <1>8, RefsAreBound DEF IndexAt, IndexOK
<1> QED  BY <1>1, <1>7, <1>8, <1>9 DEF r

\* A new folder: no file changes.
LEMMA FolderEntry ==
  ASSUME NEW ix, NEW h, IndexAt(ix, h), NEW e, EntryOK(e), e.seq = h + 1, e.sub = 0,
         NEW ops, AddsFolder(ops)
  PROVE  LET r == Apply(ix, e, ops)
         IN  IndexAt(r.ix, h + 1) /\ BoundRefs(r.ix) = BoundRefs(ix)
<1> DEFINE start == WithGallery(ix, e)
           r0 == [outs |-> {}, ix |-> start]
           m1 == Member(start, e, ops, 1)
           r1 == Took(r0, m1)
           r  == Apply(ix, e, ops)
<1>1. r1.ix = m1.ix
  BY TookFacts
<1>2. r = Whole(ix, Outcome(r1.outs), r1)
  <2>1. Len(ops) = 1 /\ Len(ops) \in {1, 2, 3}
    BY DEF AddsFolder
  <2>2. r0.ix = start
    OBVIOUS
  <2> QED  BY <2>1, <2>2, ApplyIs
<1> HIDE DEF r, r1
<1>3. OpOK(ops[1]) /\ ops[1].type = "create" /\ ops[1].kind = "folder"
  BY DEF AddsFolder
<1>4. Taking(start, e, 0) /\ BoundUploads(start) = BoundUploads(ix)
  BY StartTakes, GalleryBinds
<1> HIDE DEF start
<1>5. /\ Taking(m1.ix, e, 1) /\ Made(m1.ix.nodes, e.seq)
      /\ BoundUploads(m1.ix) = BoundUploads(ix)
  <2> DEFINE f == [e EXCEPT !.sub = 0]
             k == 1
             mk == Member(start, e, ops, k)
  <2>1. m1 = mk
    OBVIOUS
  <2>2. k \in Nat \ {0} /\ Taking(start, e, k - 1) /\ OpOK(ops[k])
    BY <1>3, <1>4
  <2> HIDE DEF f, k
  <2>3. /\ Taking(mk.ix, e, k) /\ Made(mk.ix.nodes, e.seq)
         /\ mk = ApplyOp(start, [e EXCEPT !.sub = k - 1], ops[k])
    BY <2>2, MemberTakes
  <2> HIDE DEF m1, mk
  <2>4. Taking(m1.ix, e, 1) /\ m1 = ApplyOp(start, [e EXCEPT !.sub = 1 - 1], ops[1])
    BY <2>1, <2>3 DEF k
  <2>5. Made(m1.ix.nodes, e.seq)
    BY <2>1, <2>3
  <2> HIDE DEF m1
  <2>6. EntryOK(f) /\ f.seq = e.seq /\ m1 = ApplyOp(start, f, ops[1])
    BY <2>4 DEF EntryOK, f
  <2>7. IndexOK(start, e.seq)
    BY <1>4 DEF Taking
  <2>8. IndexOK(start, f.seq)
    BY <2>6, <2>7
  <2>9. BoundUploads(m1.ix) = BoundUploads(start)
    BY <1>3, <2>6, <2>8, CreateBinds
  <2> QED  BY <1>4, <2>4, <2>5, <2>9
<1> HIDE DEF m1
<1>6. IndexAt(r.ix, h + 1) /\ (r.ix = m1.ix \/ r.ix = ix)
  BY <1>1, <1>2, <1>5, WholeTakes
<1>7. BoundRefs(ix) = BoundUploads(ix) /\ BoundRefs(r.ix) = BoundUploads(r.ix)
  BY <1>6, RefsAreBound DEF IndexAt, IndexOK
<1> QED  BY <1>5, <1>6, <1>7 DEF r

\* A deletion: no file gains an upload.
LEMMA DeletesEntry ==
  ASSUME NEW ix, NEW h, IndexAt(ix, h), NEW e, EntryOK(e), e.seq = h + 1, e.sub = 0,
         NEW ops, Deletes(ops)
  PROVE  LET r == Apply(ix, e, ops)
         IN  IndexAt(r.ix, h + 1) /\ BoundRefs(r.ix) \subseteq BoundRefs(ix)
<1> DEFINE start == WithGallery(ix, e)
           r0 == [outs |-> {}, ix |-> start]
           m1 == Member(start, e, ops, 1)
           r1 == Took(r0, m1)
           m2 == Member(m1.ix, e, ops, 2)
           r2 == Took(r1, m2)
           r  == Apply(ix, e, ops)
<1>1. r1.ix = m1.ix /\ r2.ix = m2.ix
  BY TookFacts
<1>2. r = Whole(ix, Outcome(r2.outs), r2)
  <2>1. Len(ops) = 2 /\ Len(ops) \in {1, 2, 3}
    BY DEF Deletes
  <2>2. r0.ix = start
    OBVIOUS
  <2> QED  BY <1>1, <2>1, <2>2, ApplyIs
<1> HIDE DEF r, r2, r1
<1>3. /\ OpOK(ops[1]) /\ ops[1].type = "trash"
      /\ OpOK(ops[2]) /\ ops[2].type = "purge"
  BY DEF Deletes, OpOK
<1>4. Taking(start, e, 0) /\ BoundUploads(start) = BoundUploads(ix)
  BY StartTakes, GalleryBinds
<1> HIDE DEF start
<1>5. Taking(m1.ix, e, 1) /\ BoundUploads(m1.ix) = BoundUploads(ix)
  <2>1. 1 \in Nat \ {0} /\ Taking(start, e, 1 - 1)
    BY <1>4
  <2>2. Taking(m1.ix, e, 1) /\ m1 = ApplyOp(start, [e EXCEPT !.sub = 1 - 1], ops[1])
    BY <1>3, <2>1, MemberTakes
  <2> HIDE DEF m1
  <2> QED  BY <1>3, <1>4, <2>2, TrashBinds DEF BoundUploads
<1> HIDE DEF m1
<1>6. /\ Taking(m2.ix, e, 2) /\ Made(m2.ix.nodes, e.seq)
      /\ BoundUploads(m2.ix) \subseteq BoundUploads(ix)
  <2> DEFINE f == [e EXCEPT !.sub = 2 - 1]
  <2>1. 2 \in Nat \ {0} /\ Taking(m1.ix, e, 2 - 1)
    BY <1>5
  <2>2. /\ Taking(m2.ix, e, 2) /\ Made(m2.ix.nodes, e.seq)
        /\ EntryOK(f) /\ f.seq = e.seq
        /\ m2 = ApplyOp(m1.ix, f, ops[2])
    BY <1>3, <2>1, MemberTakes
  <2> HIDE DEF f, m2
  <2>3. IndexOK(m1.ix, f.seq)
    BY <1>5, <2>2 DEF Taking
  <2> QED  BY <1>3, <1>5, <2>2, <2>3, PurgeBinds
<1> HIDE DEF m2
<1>7. IndexAt(r.ix, h + 1) /\ (r.ix = m2.ix \/ r.ix = ix)
  BY <1>1, <1>2, <1>6, WholeTakes
<1>8. BoundRefs(ix) = BoundUploads(ix) /\ BoundRefs(r.ix) = BoundUploads(r.ix)
  BY <1>7, RefsAreBound DEF IndexAt, IndexOK
<1> QED  BY <1>6, <1>7, <1>8 DEF r

-----------------------------------------------------------------------------
(* What a write makes of a state of the Safe                               *)

\* The state c after a change of s: well formed; its files have no uploads but
\* those of s and `adds'; it notes nothing but what s names and `notes'; of its
\* notes only `drops' are gone.
Changed(s, c, adds, notes, drops) ==
  /\ StateOK(c)
  /\ BoundRefs(c.ix) \subseteq BoundRefs(s.ix) \cup adds
  /\ c.gone \subseteq Names(s) \cup notes
  /\ s.gone \ c.gone \subseteq drops

\* The state after an entry (commit of safe-tree.ts): what it released, no file
\* has.
LEMMA AfterFacts ==
  ASSUME NEW s, StateOK(s), NEW r, IndexAt(r.ix, s.head + 1), NEW up,
         BoundRefs(r.ix) \subseteq BoundRefs(s.ix) \cup {up}, up \notin s.gone
  PROVE  LET c == After(s, s.head + 1, r, ReleasedBy(s, r.ix))
         IN  /\ c.out = r.out /\ c.state.ix = r.ix
             /\ Changed(s, c.state, {up}, {}, {})
<1> DEFINE gone == ReleasedBy(s, r.ix)
           c == After(s, s.head + 1, r, gone)
<1>1. /\ c.out = r.out
      /\ c.state = [ix |-> r.ix, head |-> s.head + 1, gone |-> s.gone \cup gone]
  BY DEF After
<1>2. gone \subseteq BoundRefs(s.ix) /\ gone \cap BoundRefs(r.ix) = {}
  <2>1. BoundRefs(r.ix) = BoundUploads(r.ix)
    BY RefsAreBound DEF IndexAt, IndexOK
  <2> QED  BY <2>1 DEF ReleasedBy, BoundUploads
<1>3. BoundRefs(s.ix) \subseteq Upload
  <2>1. BoundRefs(s.ix) = BoundUploads(s.ix)
    BY RefsAreBound DEF StateOK, IndexAt, IndexOK
  <2> QED  BY <2>1 DEF BoundUploads, StateOK, IndexAt, IndexOK, UploadsOK
<1> HIDE DEF gone, c
<1>4. StateOK(c.state)
  <2>1. c.state.gone \in SUBSET Upload /\ s.head + 1 \in Nat
    BY <1>1, <1>2, <1>3 DEF StateOK
  <2>2. c.state \in [ix : {c.state.ix}, head : Nat, gone : SUBSET Upload]
    BY <1>1, <2>1
  <2>3. c.state.gone \cap BoundRefs(c.state.ix) = {}
    BY <1>1, <1>2 DEF StateOK
  <2> QED  BY <1>1, <2>2, <2>3 DEF StateOK
<1>5. Changed(s, c.state, {up}, {}, {})
  BY <1>1, <1>2, <1>4 DEF Changed, Names
<1> QED  BY <1>1, <1>5 DEF c, gone

\* The entry of a change of the Safe is one its rules admit.
LEMMA SafeEntry ==
  ASSUME NEW s, StateOK(s), NEW d \in Device, NEW w, w.base \in Nat
  PROVE  \E e : /\ EntryOK(e) /\ e.seq = s.head + 1 /\ e.sub = 0
                /\ Enter(s, d, w) =
                     After(s, e.seq, Apply(s.ix, e, w.ops),
                           ReleasedBy(s, Apply(s.ix, e, w.ops).ix))
<1> DEFINE e == [seq |-> s.head + 1, dev |-> d, sub |-> 0, rules |-> 4,
                 base |-> IF w.base < s.head THEN w.base ELSE s.head]
<1>1. s.head \in Nat
  BY DEF StateOK, IndexAt
<1>2. EntryOK(e) /\ e.seq = s.head + 1 /\ e.sub = 0
  BY <1>1 DEF EntryOK
<1> DEFINE a == After(s, e.seq, Apply(s.ix, e, w.ops), ReleasedBy(s, Apply(s.ix, e, w.ops).ix))
<1>3. Enter(s, d, w) =
        CHOOSE c \in {After(s, e.seq, r, ReleasedBy(s, r.ix)) : r \in {Apply(s.ix, e, w.ops)}} :
          TRUE
  BY DEF Enter
<1> HIDE DEF e
<1>4. {After(s, e.seq, r, ReleasedBy(s, r.ix)) : r \in {Apply(s.ix, e, w.ops)}} = {a}
  OBVIOUS
<1> HIDE DEF a
<1>5. (CHOOSE c \in {a} : TRUE) = a
  OBVIOUS
<1>6. Enter(s, d, w) = a
  BY <1>3, <1>4, <1>5
<1> QED  BY <1>2, <1>6 DEF a

\* A file comes.
LEMMA FileComes ==
  ASSUME NEW s, StateOK(s), NEW d \in Device, NEW w, NEW up \in Upload, BringsFile(w, up),
         up \notin Names(s)
  PROVE  LET c == Change(s, d, w)
         IN  /\ Changed(s, c.state, {up}, {}, {})
             /\ BoundRefs(s.ix) \subseteq BoundRefs(c.state.ix)
             /\ c.out = "applied" => up \in BoundRefs(c.state.ix)
<1> DEFINE c == Change(s, d, w)
<1>1. w.type = "entry" /\ w.base \in Nat /\ UsesStored(w.ops, up) /\ OpOK(w.ops[3])
      /\ w.ops[3].type = "create" /\ w.ops[3].kind = "file"
  BY DEF BringsFile, StoresFile
<1>2. c = Enter(s, d, w)
  BY <1>1 DEF Change
<1>3. PICK e : /\ EntryOK(e) /\ e.seq = s.head + 1 /\ e.sub = 0
               /\ Enter(s, d, w) = After(s, e.seq, Apply(s.ix, e, w.ops),
                                         ReleasedBy(s, Apply(s.ix, e, w.ops).ix))
  BY <1>1, SafeEntry
<1> DEFINE r == Apply(s.ix, e, w.ops)
<1>4. /\ IndexAt(r.ix, s.head + 1)
      /\ BoundRefs(r.ix) \subseteq BoundRefs(s.ix) \cup {up}
      /\ r.out = "applied" => up \in BoundRefs(r.ix)
      /\ BoundRefs(s.ix) \subseteq BoundRefs(r.ix)
  BY <1>1, <1>3, StoredEntry DEF StateOK
<1>5. c = After(s, s.head + 1, r, ReleasedBy(s, r.ix))
  BY <1>2, <1>3
<1> HIDE DEF r, c
<1>6. c.out = r.out /\ c.state.ix = r.ix /\ Changed(s, c.state, {up}, {}, {})
  <2>1. up \notin s.gone
    BY DEF Names
  <2> QED  BY <1>4, <1>5, <2>1, AfterFacts
<1> QED  BY <1>4, <1>6 DEF c

\* None comes: a folder is made, or nodes go.
LEMMA NoFileComes ==
  ASSUME NEW s, StateOK(s), NEW d \in Device, NEW w, BringsNone(w)
  PROVE  Changed(s, Change(s, d, w).state, {}, {}, {})
<1> DEFINE c == Change(s, d, w)
<1>1. w.type = "entry" /\ w.base \in Nat /\ (Deletes(w.ops) \/ AddsFolder(w.ops))
  BY DEF BringsNone
<1>2. c = Enter(s, d, w)
  BY <1>1 DEF Change
<1>3. PICK e : /\ EntryOK(e) /\ e.seq = s.head + 1 /\ e.sub = 0
               /\ Enter(s, d, w) = After(s, e.seq, Apply(s.ix, e, w.ops),
                                         ReleasedBy(s, Apply(s.ix, e, w.ops).ix))
  BY <1>1, SafeEntry
<1> DEFINE r == Apply(s.ix, e, w.ops)
<1>4. IndexAt(r.ix, s.head + 1) /\ BoundRefs(r.ix) \subseteq BoundRefs(s.ix)
  <2>1. IndexAt(s.ix, s.head)
    BY DEF StateOK
  <2>2. CASE Deletes(w.ops)
    BY <1>3, <2>1, <2>2, DeletesEntry
  <2>3. CASE AddsFolder(w.ops)
    BY <1>3, <2>1, <2>3, FolderEntry
  <2> QED  BY <1>1, <2>2, <2>3
<1>5. c = After(s, s.head + 1, r, ReleasedBy(s, r.ix))
  BY <1>2, <1>3
<1> HIDE DEF r, c
<1>6. PICK none : none \notin s.gone \cup BoundRefs(r.ix)
  <2>1. \E x : x \notin s.gone \cup BoundRefs(r.ix)
    <3> DEFINE S == s.gone \cup BoundRefs(r.ix)
    <3>1. {x \in S : x \notin x} \notin S
      OBVIOUS
    <3> QED  BY <3>1
  <2> QED  BY <2>1
<1>7. c.state.ix = r.ix /\ Changed(s, c.state, {none}, {}, {})
  BY <1>4, <1>5, <1>6, AfterFacts
<1>8. Changed(s, c.state, {}, {}, {})
  BY <1>4, <1>7 DEF Changed
<1> QED  BY <1>8 DEF c

\* A note is added (noteGone), unless a file has the upload.
LEMMA NoteIsAdded ==
  ASSUME NEW s, StateOK(s), NEW d \in Device, NEW w, w.type = "note", w.up \in Upload
  PROVE  LET c == Change(s, d, w).state
         IN  Changed(s, c, {}, {w.up}, {}) /\ BoundRefs(c.ix) = BoundRefs(s.ix)
<1> DEFINE c == Change(s, d, w).state
<1>1. c = Note(s, w.up)
  BY DEF Change, Quiet
<1>2. c.ix = s.ix /\ c.head = s.head /\ c \in [ix : {c.ix}, head : Nat, gone : SUBSET Upload]
  BY <1>1 DEF Note, StateOK
<1>3. c.gone = s.gone \/ (c.gone = s.gone \cup {w.up} /\ w.up \notin BoundRefs(s.ix))
  BY <1>1 DEF Note
<1> HIDE DEF c
<1> QED  BY <1>2, <1>3 DEF StateOK, Changed, Names, c

\* The records of the uploads a cleanup let go leave the Safe.
LEMMA NotesLeave ==
  ASSUME NEW s, StateOK(s), NEW d \in Device, NEW w, w.type = "drop"
  PROVE  LET c == Change(s, d, w).state
         IN  Changed(s, c, {}, {}, w.ups) /\ BoundRefs(c.ix) = BoundRefs(s.ix)
<1> DEFINE c   == Change(s, d, w).state
           us  == s.ix.uploads
           out == {u \in w.ups \cap DOMAIN us : /\ u \notin BoundRefs(s.ix)
                                                /\ us[u].status \notin {"open", "committed"}}
<1>1. c = DropLetGo(s, w.ups)
  BY DEF Change, Quiet
<1>2. /\ c \in [ix : {c.ix}, head : Nat, gone : SUBSET Upload]
      /\ c.head = s.head /\ c.gone = s.gone \ w.ups
      /\ c.ix.nodes = s.ix.nodes /\ c.ix.uploads = Drop(us, out)
  <2> HIDE DEF c, out
  <2>1. c = [s EXCEPT !.gone = @ \ w.ups,
                      !.ix = [nodes |-> @.nodes, uploads |-> Drop(@.uploads, out)]]
    BY <1>1 DEF DropLetGo, out
  <2>2. s \in [ix : {s.ix}, head : Nat, gone : SUBSET Upload]
    BY DEF StateOK
  <2>3. /\ c.ix = [nodes |-> s.ix.nodes, uploads |-> Drop(s.ix.uploads, out)]
        /\ c.gone = s.gone \ w.ups /\ c.head = s.head
        /\ c \in [ix : {c.ix}, head : Nat, gone : SUBSET Upload]
    BY <2>1, <2>2
  <2> QED  BY <2>3
<1> HIDE DEF c
<1>3. BoundRefs(c.ix) = BoundRefs(s.ix)
  BY <1>2 DEF BoundRefs
<1>4. /\ DOMAIN c.ix.uploads = DOMAIN us \ out
      /\ \A u \in DOMAIN us \ out : c.ix.uploads[u] = us[u]
  BY <1>2 DEF Drop
<1>5. \A u \in BoundRefs(s.ix) : u \notin out
  OBVIOUS
<1> HIDE DEF out
<1>6. Bound(c.ix)
  <2>1. Bound(s.ix)
    BY DEF StateOK, IndexAt, IndexOK
  <2>2. \A n \in DOMAIN s.ix.nodes : s.ix.nodes[n].content # None =>
          s.ix.nodes[n].content.up \in BoundRefs(s.ix)
    BY DEF BoundRefs, Contents
  <2>3. \A u \in DOMAIN c.ix.uploads : u \in DOMAIN us /\ c.ix.uploads[u] = us[u]
    BY <1>4
  <2> DEFINE ns == s.ix.nodes
             vs == c.ix.uploads
  <2>4. \A n \in DOMAIN ns : ns[n].content # None =>
          /\ ns[n].content.up \in DOMAIN us
          /\ us[ns[n].content.up].status = "bound" /\ us[ns[n].content.up].node = n
    BY <2>1 DEF Bound
  <2>5. /\ \A n \in DOMAIN ns : (ns[n].kind = "file") = (ns[n].content # None)
        /\ \A u \in DOMAIN us : us[u].status = "bound" =>
             /\ us[u].node \in DOMAIN ns
             /\ ns[us[u].node].content # None /\ ns[us[u].node].content.up = u
    BY <2>1 DEF Bound
  <2> HIDE DEF us, ns, vs
  <2>6. \A n \in DOMAIN ns : ns[n].content # None => ns[n].content.up \notin out
    BY <1>5, <2>2 DEF ns
  <2>7. \A n \in DOMAIN ns : ns[n].content # None =>
          /\ ns[n].content.up \in DOMAIN vs
          /\ vs[ns[n].content.up].status = "bound" /\ vs[ns[n].content.up].node = n
    BY <1>4, <2>4, <2>6 DEF vs
  <2>8. \A u \in DOMAIN vs : vs[u].status = "bound" =>
          /\ vs[u].node \in DOMAIN ns
          /\ ns[vs[u].node].content # None /\ ns[vs[u].node].content.up = u
    BY <2>3, <2>5 DEF vs
  <2>9. c.ix.nodes = ns
    BY <1>2 DEF ns
  <2> QED  BY <2>5, <2>7, <2>8, <2>9 DEF Bound, vs
<1>7. IndexAt(c.ix, c.head)
  BY <1>2, <1>4, <1>6 DEF StateOK, IndexAt, IndexOK, UploadsOK
<1> QED  BY <1>2, <1>3, <1>7 DEF StateOK, Changed, Names, c

-----------------------------------------------------------------------------
(* The initial states                                                      *)

\* The Safe of a new account, and what a job begins with.
LEMMA EmptyIsOK ==
  /\ IndexAt(EmptyIndex, 0)
  /\ BoundRefs(EmptyIndex) = {}
  /\ StateOK([ix |-> EmptyIndex, head |-> 0, gone |-> {}])
<1> DEFINE ns == EmptyIndex.nodes
<1>1. /\ DOMAIN ns = {ROOT, RECOVERED}
      /\ \A n \in DOMAIN ns : ns[n] = SystemFolder
      /\ DOMAIN EmptyIndex.uploads = {}
  BY DEF EmptyIndex
<1>2. TreeOK(ns, 0)
  <2>1. IsFiniteSet(DOMAIN ns)
    <3>1. IsFiniteSet({ROOT})
      BY FS_Singleton
    <3>2. IsFiniteSet({ROOT} \cup {RECOVERED})
      BY <3>1, FS_AddElement
    <3>3. {ROOT} \cup {RECOVERED} = DOMAIN ns
      BY <1>1
    <3> QED  BY <3>2, <3>3
  <2>2. DOMAIN ns \subseteq NodeId /\ DOMAIN ns \ Roots = {}
    BY <1>1 DEF NodeId, Roots
  <2>3. SystemFolder \in NodeSet(0)
    BY SystemFolderIsNode
  <2>4. Rooted(ns)
    BY <1>1, <2>2 DEF Rooted, SystemFolder
  <2>5. Acyclic(ns) /\ Unambiguous(ns)
    BY <2>2 DEF Acyclic, Unambiguous
  <2> QED  BY <1>1, <2>1, <2>2, <2>3, <2>4, <2>5 DEF TreeOK
<1>3. Bound(EmptyIndex) /\ UploadsOK(EmptyIndex.uploads, 0)
  BY <1>1 DEF Bound, UploadsOK, SystemFolder
<1>4. Made(ns, 0)
  BY <1>1, IdsAreDistinct DEF Made, Roots
<1>5. IndexAt(EmptyIndex, 0)
  BY <1>2, <1>3, <1>4 DEF IndexAt, IndexOK
<1>6. BoundRefs(EmptyIndex) = {}
  BY <1>1 DEF BoundRefs, Contents, SystemFolder
<1> QED  BY <1>5, <1>6 DEF StateOK

\* The folder with its file.
LEMMA HeldIsOK ==
  ASSUME NEW author \in Device
  PROVE  /\ IndexAt(Held(author), 0)
         /\ BoundRefs(Held(author)) = {Holds}
         /\ StateOK([ix |-> Held(author), head |-> 0, gone |-> {}])
<1> DEFINE ix == Held(author)
           ns == ix.nodes
           us == ix.uploads
           name == CHOOSE x \in UserName : TRUE
           old == [seq |-> 0, dev |-> System]
           folder == [kind |-> "folder", name |-> name, parent |-> ROOT, trashed |-> 0,
                      placed |-> old, content |-> None]
           version == [up |-> Holds, seq |-> 0, dev |-> author, loc |-> CHOOSE l \in Loc : TRUE]
           file == [kind |-> "file", name |-> name, parent |-> Top, trashed |-> 0,
                    placed |-> old, content |-> version]
           rec == [status |-> "bound", node |-> Inside, bound |-> 0, moved |-> 0, ended |-> 0]
<1>1. /\ Top \in UserNode /\ Inside \in UserNode /\ Top # Inside
      /\ Holds \in Upload
  BY TopAndInside, HoldsAnUpload
<1>2. /\ Top \notin Roots /\ Inside \notin Roots /\ Top \in NodeId /\ Inside \in NodeId
      /\ Top \notin DerivedId /\ Inside \notin DerivedId /\ ROOT # RECOVERED
      /\ ROOT \notin DerivedId /\ RECOVERED \notin DerivedId
  BY <1>1, IdsAreDistinct DEF NodeId, Roots
<1>3. name \in NameSet
  BY SomeNameAndPlace, NamesAreTyped DEF NameSet
<1>4. version \in ContentSet(0) /\ version # None /\ version.up = Holds
  <2>1. (CHOOSE l \in Loc : TRUE) \in Loc
    BY SomeNameAndPlace
  <2>2. version \in ContentSet(0) /\ version.up = Holds
    BY <1>1, <2>1 DEF ContentSet
  <2> HIDE DEF version
  <2> QED  BY <2>2, VersionIsSome
<1>5. ix = [nodes |-> Put(Put(EmptyIndex.nodes, Top, folder), Inside, file),
            uploads |-> [u \in {Holds} |-> rec]]
  <2> DEFINE new == [NewUpload EXCEPT !.status = "bound", !.node = Inside]
  <2>1. ix = [nodes |-> Put(Put(EmptyIndex.nodes, Top, folder), Inside, file),
              uploads |-> [u \in {Holds} |-> new]]
    BY Zenon DEF Held
  <2>2. new = rec
    <3> DEFINE T(st, n) == [status : {st}, node : {n}, bound : {0}, moved : {0}, ended : {0}]
    <3>1. NewUpload \in T("open", None)
      BY DEF NewUpload
    <3>2. new \in T("bound", Inside)
      BY <3>1
    <3>3. rec \in T("bound", Inside)
      OBVIOUS
    <3> HIDE DEF new, rec
    <3> QED  BY <3>2, <3>3
  <2> HIDE DEF new
  <2> QED  BY <2>1, <2>2
<1> HIDE DEF name, version, ix
<1>6. /\ DOMAIN ns = {ROOT, RECOVERED, Top, Inside}
      /\ ns[ROOT] = SystemFolder /\ ns[RECOVERED] = SystemFolder
      /\ ns[Top] = folder /\ ns[Inside] = file
  BY <1>1, <1>2, <1>5 DEF EmptyIndex, Put, Roots
<1>7. us = [u \in {Holds} |-> rec]
  BY <1>5
<1>8. folder \in NodeSet(0) /\ file \in NodeSet(0) /\ SystemFolder \in NodeSet(0)
  <2>1. old \in MarkSet(0) /\ 0 \in 0 .. 0
    BY DEF MarkSet
  <2>2. ROOT \in NodeId
    BY DEF NodeId, Roots
  <2> QED  BY <1>2, <1>3, <1>4, <2>1, <2>2, SystemFolderIsNode DEF NodeSet
<1>9. TreeOK(ns, 0)
  <2>1. IsFiniteSet(DOMAIN ns)
    <3>1. IsFiniteSet({ROOT} \cup {RECOVERED})
      BY FS_Singleton, FS_AddElement
    <3>2. IsFiniteSet(({ROOT} \cup {RECOVERED}) \cup {Top})
      BY <3>1, FS_AddElement
    <3>3. IsFiniteSet((({ROOT} \cup {RECOVERED}) \cup {Top}) \cup {Inside})
      BY <3>2, FS_AddElement
    <3>4. (({ROOT} \cup {RECOVERED}) \cup {Top}) \cup {Inside} = DOMAIN ns
      BY <1>6
    <3> QED  BY <3>3, <3>4
  <2>2. DOMAIN ns \subseteq NodeId /\ \A n \in DOMAIN ns : ns[n] \in NodeSet(0)
    BY <1>2, <1>6, <1>8 DEF NodeId, Roots
  <2>3. DOMAIN ns \ Roots = {Top, Inside}
    BY <1>2, <1>6 DEF Roots
  <2>4. Rooted(ns)
    BY <1>6, <2>3 DEF Rooted, SystemFolder, Roots
  <2>5. Acyclic(ns)
    <3>1. ASSUME NEW S \in SUBSET {Top, Inside}, S # {}
          PROVE  \E n \in S : ns[n].parent \notin S
      <4>1. CASE Top \in S
        <5>1. ns[Top].parent = ROOT /\ ROOT \notin {Top, Inside}
          BY <1>2, <1>6 DEF Roots
        <5> QED  BY <4>1, <5>1
      <4>2. CASE Top \notin S
        <5>1. Inside \in S /\ ns[Inside].parent = Top
          BY <1>6, <3>1, <4>2
        <5> QED  BY <4>2, <5>1
      <4> QED  BY <4>1, <4>2
    <3> QED  BY <2>3, <3>1 DEF Acyclic
  <2>6. Unambiguous(ns)
    <3>1. ns[Top].parent # ns[Inside].parent
      BY <1>2, <1>6 DEF Roots
    <3> QED  BY <2>3, <3>1 DEF Unambiguous
  <2> QED  BY <2>1, <2>2, <2>4, <2>5, <2>6 DEF TreeOK
<1>10. UploadsOK(us, 0)
  BY <1>1, <1>2, <1>7 DEF UploadsOK, UploadSet
<1>11. Bound(ix)
  BY <1>1, <1>2, <1>4, <1>6, <1>7 DEF Bound, SystemFolder, Roots
<1>12. Made(ns, 0)
  BY <1>2, <1>6 DEF Made
<1>13. IndexAt(ix, 0)
  BY <1>9, <1>10, <1>11, <1>12 DEF IndexAt, IndexOK
<1>14. BoundRefs(ix) = {Holds}
  <2>1. BoundUploads(ix) = {Holds}
    BY <1>7 DEF BoundUploads
  <2> QED  BY <1>11, <2>1, RefsAreBound
<1> QED  BY <1>13, <1>14 DEF StateOK, ix

\* The Safe a job begins with, before it has one.
Blank == [rev |-> 0, state |-> [ix |-> EmptyIndex, head |-> 0, gone |-> {}]]

\* A job that has not begun.
LEMMA IdleIs ==
  /\ Idle.kind = "none" /\ Idle.phase = "idle"
  /\ Idle.safe = Blank /\ Idle.cur = Blank
  /\ Idle.items = {} /\ Idle.item = None /\ Idle.up = None
  /\ DOMAIN Idle = {"kind", "phase", "safe", "cur", "write", "items", "tops", "item", "where",
                    "up", "release", "keep"}
<1> DEFINE w == Entered(0, <<>>)
           f == [g \in {} |-> ROOT]
<1>1. Idle = [kind |-> "none", phase |-> "idle", safe |-> Blank, cur |-> Blank, write |-> w,
              items |-> {}, tops |-> {}, item |-> None, where |-> f,
              up |-> None, release |-> {}, keep |-> {}]
  BY Zenon DEF Idle, Blank
<1> HIDE DEF w, f
<1> QED  BY <1>1

\* It shows an empty Safe.
LEMMA BlankIs ==
  /\ Blank.rev = 0 /\ StateOK(Blank.state) /\ Names(Blank.state) = {}
  /\ Blank.state.gone = {}
<1>1. /\ Blank.rev = 0 /\ Blank.state.ix = EmptyIndex /\ Blank.state.gone = {}
      /\ Blank.state = [ix |-> EmptyIndex, head |-> 0, gone |-> {}]
  BY DEF Blank
<1> QED  BY <1>1, EmptyIsOK DEF Names

\* An idle job is in order.
LEMMA IdleIsOK ==
  ASSUME NEW d \in Device
  PROVE  JobOK(Idle, d)
BY IdleIs DEF JobOK, ItemsOK, PhaseOK, Phases, MovedIsThere

\* The invariant holds at first.
LEMMA InitHolds ==
  Init => IInv
<1> SUFFICES ASSUME Init  PROVE IInv
  OBVIOUS
<1>1. PICK author \in Device :
        /\ account = [ix |-> IF left.inSafe THEN EmptyIndex ELSE Held(author), head |-> 0]
        /\ slot = [rev |-> 1, state |-> [ix |-> IF left.inSafe THEN Held(author) ELSE EmptyIndex,
                                         head |-> 0, gone |-> {}]]
  BY DEF Init
<1>2. left.inSafe \in BOOLEAN
  BY ScenesAreBounded DEF Init
<1>3. /\ seen = [d \in Device |-> account] /\ open = [d \in Device |-> slot]
      /\ job = [d \in Device |-> Idle] /\ delayed = {} /\ aged = {}
      /\ stored = [u \in Upload |-> IF left.inSafe /\ u = Holds THEN "committed" ELSE "none"]
      /\ minted = [d \in Device |-> 0]
      /\ carries = [u \in Upload |-> IF u = Holds THEN u ELSE None]
      /\ fate = [acked |-> {Holds}, given |-> {}, taken |-> {}, told |-> {}]
  BY DEF Init
<1>4. /\ account.head = 0 /\ slot.rev = 1 /\ slot.state.gone = {} /\ StateOK(slot.state)
      /\ account.ix = (IF left.inSafe THEN EmptyIndex ELSE Held(author))
      /\ slot.state.ix = (IF left.inSafe THEN Held(author) ELSE EmptyIndex)
  <2>1. CASE left.inSafe
    BY <1>1, <2>1, HeldIsOK
  <2>2. CASE ~left.inSafe
    BY <1>1, <2>2, EmptyIsOK
  <2> QED  BY <2>1, <2>2
<1>5. /\ IndexAt(account.ix, 0)
      /\ BoundRefs(account.ix) = (IF left.inSafe THEN {} ELSE {Holds})
      /\ BoundRefs(slot.state.ix) = (IF left.inSafe THEN {Holds} ELSE {})
  BY <1>4, HeldIsOK, EmptyIsOK
<1>6. Holds \in Upload /\ Known(Holds)
  BY HoldsAnUpload, DevicesMint DEF Known, Minted
<1>7. \A d \in Device : seen[d] = account /\ open[d] = slot /\ job[d] = Idle
  BY <1>3
<1>8. Shown \subseteq {slot, Blank}
  BY <1>7, IdleIs DEF Shown
<1>9. MayBeBound = BoundRefs(slot.state.ix)
  BY <1>3, <1>7, IdleIs DEF MayBeBound, Putting
<1>10. FieldsOK
  BY <1>3, <1>7 DEF FieldsOK
<1>11. SlotOK
  <2>1. VersionOK(slot)
    BY <1>3, <1>4, <1>5, <1>6 DEF VersionOK, NamesStored, Names, IsStored
  <2>2. VersionOK(Blank)
    BY <1>4, BlankIs DEF VersionOK, NamesStored
  <2> QED  BY <1>3, <1>4, <1>7, <1>8, <2>1, <2>2 DEF SlotOK
<1>12. AccountOK
  BY <1>4, <1>5, <1>6, <1>7 DEF AccountOK
<1>13. UploadsKept
  BY <1>3, <1>6 DEF UploadsKept, MaxIds, IsStored
<1>14. JobsOK
  BY <1>7, IdleIsOK DEF JobsOK
<1>15. BoundKept
  BY <1>3, <1>5, <1>6, <1>9 DEF BoundKept
<1>16. EditsStay
  BY <1>3, <1>4, <1>5, <1>6 DEF EditsStay, Present, SafeState
<1> QED  BY <1>10, <1>11, <1>12, <1>13, <1>14, <1>15, <1>16 DEF IInv

-----------------------------------------------------------------------------
(* What a step leaves as it was                                            *)

\* A step never takes back what is stored, told, old or accounted for; the
\* uploads that exist keep what they carry, and none that is stored comes to
\* a file that had no claim to it.
Frame ==
  /\ \A u : IsStored(u) => IsStored(u)'
  /\ \A u : Known(u) => Known(u)' /\ carries'[u] = carries[u]
  /\ fate.told \subseteq fate'.told /\ aged \subseteq aged'
  /\ AccountHas \subseteq AccountHas' /\ SafeHas \subseteq SafeHas'
  /\ \A u \in MayBeBound' : u \in MayBeBound \/ ~IsStored(u)

\* The job of d is k now, and the Safe it shows may be v.
Turns(d, k, v) ==
  /\ DOMAIN job' = Device /\ DOMAIN open' = Device
  /\ \A x \in Device \ {d} : job'[x] = job[x] /\ open'[x] = open[x]
  /\ job'[d] = k /\ DOMAIN k = DOMAIN Idle
  /\ open'[d] \in {open[d], v}

\* The items of a move go on being what they were.
LEMMA ItemsStay ==
  ASSUME Frame, NEW k, ItemsOK(k)
  PROVE  ItemsOK(k)'
<1>1. \A it : ItemOK(it) => ItemOK(it)'
  BY DEF ItemOK, Frame
<1> QED  BY <1>1 DEF ItemsOK

\* What a move has put in its place is there.
LEMMA MovedStays ==
  ASSUME Frame, NEW k, MovedIsThere(k)
  PROVE  MovedIsThere(k)'
<1>1. k.item # None => k.item.up = None \/ Known(k.item.up)'
  BY DEF MovedIsThere, Frame
<1>2. k.item # None /\ k.item.up # None /\ PutThere(k) =>
        carries'[k.item.up] \in IF k.kind = "out" THEN AccountHas' ELSE SafeHas'
  BY DEF MovedIsThere, Frame
<1> QED  BY <1>1, <1>2 DEF MovedIsThere, PutThere

\* What a job has to do stays in order.
LEMMA PhaseStays ==
  ASSUME Frame, UploadsKept, NEW d \in Device, NEW k, PhaseOK(k, d),
         Putting(k) => AllNames' \cap Minted(d) \subseteq AllNames
  PROVE  PhaseOK(k, d)'
<1>1. ItemOK(k.item) => ItemOK(k.item)'
  BY DEF ItemOK, Frame
<1>2. k.phase = "put" /\ WriteOK(k, d) => WriteOK(k, d)'
  <2>1. Putting(k) /\ FilesEntry(k, d) => FilesEntry(k, d)'
    <3> SUFFICES ASSUME Putting(k), FilesEntry(k, d)  PROVE FilesEntry(k, d)'
      OBVIOUS
    <3>1. k.up \in Minted(d) /\ IsStored(k.up) /\ k.up \notin AllNames
      BY DEF FilesEntry
    <3>2. IsStored(k.up)' /\ k.up \notin AllNames' /\ Known(k.up)
      BY <3>1 DEF Frame, UploadsKept, IsStored
    <3>3. Known(k.item.up) => Known(k.item.up)' /\ carries'[k.item.up] = carries[k.item.up]
      BY DEF Frame
    <3>4. carries'[k.up] = carries[k.up]
      BY <3>2 DEF Frame
    <3> QED  BY <3>1, <3>2, <3>3, <3>4 DEF FilesEntry
  <2>2. IsStored(k.write.up) => IsStored(k.write.up)'
    BY DEF Frame
  <2>3. fate.told \subseteq fate'.told
    BY DEF Frame
  <2> QED  BY <2>1, <2>2, <2>3 DEF WriteOK, FoldersEntry, Putting
<1>3. IsStored(k.up) => IsStored(k.up)'
  BY DEF Frame
<1>4. k.phase = "release" =>
        /\ k.cur.state.gone \subseteq fate'.told \cup k.release
        /\ k.release \cap MayBeBound' \subseteq aged'
        /\ \A u \in k.release : IsStored(u)'
  BY DEF PhaseOK, Frame
<1>5. k.phase = "keep" => k.cur.state.gone \subseteq fate'.told
  BY DEF PhaseOK, Frame
<1> HIDE DEF Phases
<1> QED  BY <1>1, <1>2, <1>3, <1>4, <1>5 DEF PhaseOK

\* A job that does not turn stays in order.
LEMMA JobStays ==
  ASSUME Frame, UploadsKept, NEW d \in Device, NEW k, JobOK(k, d),
         Putting(k) => AllNames' \cap Minted(d) \subseteq AllNames
  PROVE  JobOK(k, d)'
BY ItemsStay, PhaseStays, MovedStays DEF JobOK

\* The step of one job leaves all jobs in order when it does its own.
LEMMA JobsStay ==
  ASSUME Frame, UploadsKept, JobsOK, NEW d \in Device, NEW k, NEW v, Turns(d, k, v),
         JobOK(k, d)',
         \A x \in Device \ {d} : AllNames' \cap Minted(x) \subseteq AllNames
  PROVE  JobsOK'
<1>1. ASSUME NEW x \in Device  PROVE JobOK(job[x], x)'
  <2>1. CASE x = d
    BY <2>1 DEF Turns
  <2>2. CASE x # d
    <3>1. PICK j : j = job[x]
      OBVIOUS
    <3>2. job'[x] = j
      BY <2>2, <3>1 DEF Turns
    <3>3. JobOK(j, x)
      BY <3>1 DEF JobsOK
    <3>4. JobOK(j, x)'
      BY <2>2, <3>3, JobStays
    <3> QED  BY <3>2, <3>4
  <2> QED  BY <2>1, <2>2
<1> QED  BY <1>1 DEF JobsOK

\* A version that a device has stays in order, whether the slot stays or goes
\* on to its next revision.
LEMMA VersionStays ==
  ASSUME Frame, slot.rev \in Nat, NEW v, VersionOK(v),
         slot' = slot \/ slot'.rev = slot.rev + 1
  PROVE  VersionOK(v)'
<1>1. v.rev \in 0 .. slot'.rev /\ (v.rev = slot'.rev => v = slot')
  BY DEF VersionOK
<1>2. NamesStored(v.state)' /\ v.state.gone \cap MayBeBound' = {}
  <2>1. \A u \in v.state.gone : IsStored(u)
    BY DEF VersionOK, NamesStored, Names
  <2>2. \A u \in Names(v.state) : IsStored(u)'
    BY DEF VersionOK, NamesStored, Frame
  <2>3. v.state.gone \cap MayBeBound' = {}
    BY <2>1 DEF VersionOK, Frame
  <2> QED  BY <2>2, <2>3 DEF NamesStored
<1>3. StateOK(v.state)'
  BY DEF VersionOK
<1> QED  BY <1>1, <1>2, <1>3 DEF VersionOK

\* So does a write that may still arrive.
LEMMA DelayedStays ==
  ASSUME Frame, SlotOK, UploadsKept, NEW p, DelayedOK(p),
         slot' = slot \/ slot'.rev = slot.rev + 1
  PROVE  DelayedOK(p)'
<1>1. slot.rev \in Nat /\ p.rev \in 0 .. slot.rev /\ VersionOK(slot)
  BY DEF SlotOK, DelayedOK, Shown
<1>2. p.rev \in 0 .. slot'.rev
  BY <1>1
<1>3. StateOK(p.state)' /\ NamesStored(p.state)'
  BY DEF DelayedOK, NamesStored, Frame
<1>4. ASSUME p.rev = slot'.rev
      PROVE  /\ slot'.state.gone \ p.state.gone \subseteq fate'.told
             /\ Lost(slot.state.ix, p.state.ix)' \subseteq p.lost
  <2>1. slot' = slot
    BY <1>1, <1>4
  <2>2. slot.state.gone \ p.state.gone \subseteq fate.told
        /\ Lost(slot.state.ix, p.state.ix) \subseteq p.lost
    BY <1>4, <2>1 DEF DelayedOK
  <2>3. \A u \in BoundRefs(slot.state.ix) : carries'[u] = carries[u]
    BY <1>1 DEF VersionOK, NamesStored, Names, UploadsKept, IsStored, Frame
  <2>4. slot'.state = slot.state
    BY <2>1
  <2>5. Lost(slot.state.ix, p.state.ix)' = Lost(slot.state.ix, p.state.ix)
    BY <2>3, <2>4 DEF Lost
  <2> QED  BY <2>2, <2>4, <2>5 DEF Frame
<1> QED  BY <1>2, <1>3, <1>4 DEF DelayedOK

\* The slot stays in order when what wins it is, and what devices show comes
\* from there.
LEMMA SlotStays ==
  ASSUME Frame, SlotOK, UploadsKept,
         slot' = slot \/ (slot'.rev = slot.rev + 1 /\ VersionOK(slot)'),
         Shown' \subseteq Shown \cup {slot', Blank},
         \A x \in Device : open'[x].rev # 0,
         \A p \in delayed' : p \in delayed \/ DelayedOK(p)'
  PROVE  SlotOK'
<1>1. slot.rev \in Nat \ {0} /\ slot'.rev \in Nat \ {0}
  BY DEF SlotOK
<1>2. VersionOK(slot)'
  <2>1. CASE slot' = slot
    <3>1. PICK v : v = slot
      OBVIOUS
    <3>2. VersionOK(v)
      BY <3>1 DEF SlotOK, Shown
    <3>3. VersionOK(v)'
      BY <1>1, <2>1, <3>2, VersionStays
    <3>4. v = slot'
      BY <2>1, <3>1
    <3> QED  BY <3>3, <3>4
  <2> QED  BY <2>1
<1>3. VersionOK(Blank)'
  <2>1. Blank.rev \in 0 .. slot'.rev /\ Blank.rev # slot'.rev
    BY <1>1, BlankIs
  <2>2. StateOK(Blank.state)' /\ Names(Blank.state)' = {} /\ Blank.state.gone = {}
    BY BlankIs
  <2> QED  BY <2>1, <2>2 DEF VersionOK, NamesStored
<1>4. ASSUME NEW v \in Shown'  PROVE VersionOK(v)'
  <2>1. CASE v \in Shown
    <3>1. VersionOK(v)
      BY <2>1 DEF SlotOK
    <3> QED  BY <1>1, <3>1, VersionStays
  <2>2. CASE v \in {slot', Blank}
    BY <1>2, <1>3, <2>2
  <2> QED  BY <1>4, <2>1, <2>2
<1>5. ASSUME NEW p \in delayed'  PROVE DelayedOK(p)'
  <2>1. CASE p \in delayed
    <3>1. DelayedOK(p)
      BY <2>1 DEF SlotOK
    <3> QED  BY <3>1, DelayedStays
  <2> QED  BY <1>5, <2>1
<1> QED  BY <1>1, <1>4, <1>5 DEF SlotOK

\* The account and what devices have pulled of it.
LEMMA AccountStays ==
  ASSUME Frame, AccountOK, account' = account,
         \A x \in Device : seen'[x] \in {seen[x], account}
  PROVE  AccountOK'
<1>1. /\ IndexAt(account.ix, account.head)
      /\ \A u \in BoundRefs(account.ix) : Known(u)'
  BY DEF AccountOK, Frame
<1>2. account.head \in Nat /\ account.head <= account.head
  BY <1>1 DEF IndexAt
<1>3. ASSUME NEW x \in Device
      PROVE  /\ IndexAt(seen'[x].ix, seen'[x].head)
             /\ seen'[x].head <= account.head
             /\ \A u \in BoundRefs(seen'[x].ix) : Known(u)'
  <2>1. CASE seen'[x] = account
    BY <1>1, <1>2, <2>1
  <2>2. CASE seen'[x] = seen[x]
    BY <2>2 DEF AccountOK, Frame
  <2> QED  BY <2>1, <2>2
<1> QED  BY <1>1, <1>3 DEF AccountOK

\* The versions and the names that the step of one job leaves.
LEMMA ShownStays ==
  ASSUME NEW d \in Device, NEW k, NEW v, Turns(d, k, v), NEW new,
         slot' \in {slot, new}, v \in Shown \cup {new},
         {k.safe, k.cur} \subseteq Shown \cup {Blank, new}
  PROVE  Shown' \subseteq Shown \cup {Blank, new}
<1>1. ASSUME NEW x \in Device
      PROVE  {open'[x], job'[x].safe, job'[x].cur} \subseteq Shown \cup {Blank, new}
  <2>1. CASE x = d
    BY <2>1 DEF Turns, Shown
  <2>2. CASE x # d
    BY <2>2 DEF Turns, Shown
  <2> QED  BY <2>1, <2>2
<1>2. slot' \in Shown \cup {Blank, new}
  BY DEF Shown
<1> QED  BY <1>1, <1>2 DEF Shown

\* The claims of the jobs.
LEMMA ClaimsStay ==
  ASSUME NEW d \in Device, NEW k, NEW v, Turns(d, k, v), slot' = slot, delayed' = delayed,
         Putting(k) => Putting(job[d]) /\ k.up = job[d].up
  PROVE  MayBeBound' \subseteq MayBeBound
<1>1. ASSUME NEW x \in Device, Putting(job'[x])
      PROVE  Putting(job[x]) /\ job'[x].up = job[x].up
  BY <1>1 DEF Turns
<1>2. {job'[x].up : x \in {y \in Device : Putting(job'[y])}}
        \subseteq {job[x].up : x \in {y \in Device : Putting(job[y])}}
  BY <1>1
<1>3. \A j : Putting(j)' <=> Putting(j)
  BY DEF Putting
<1> QED  BY <1>2 DEF MayBeBound, Putting

\* More IDs are minted, no fewer.
MintsMore ==
  /\ minted' \in [Device -> 0 .. MaxIds]
  /\ \A x \in Device : minted[x] <= minted'[x]

\* What exists goes on existing.
LEMMA KnownStays ==
  ASSUME UploadsKept, MintsMore, NEW u, Known(u)
  PROVE  Known(u)'
<1>1. \A x \in Device : minted[x] \in Nat /\ minted'[x] \in Nat /\ minted[x] <= minted'[x]
  BY DEF UploadsKept, MintsMore
<1> QED  BY <1>1 DEF Known

\* A step of one job that only reads: it takes up a version that is there,
\* and neither the slot nor what is stored changes.
Reads(d, k, v) ==
  /\ Turns(d, k, v)
  /\ UNCHANGED <<account, slot, delayed, stored, aged, carries, fate>>
  /\ MintsMore
  /\ DOMAIN seen' = Device
  /\ \A x \in Device : seen'[x] \in {seen[x], account}
  /\ v \in Shown /\ v.rev # 0
  /\ {k.safe, k.cur} \subseteq Shown \cup {Blank}
  /\ Putting(k) => Putting(job[d]) /\ k.up = job[d].up
  /\ JobOK(k, d)

\* Such a step keeps the invariant.
LEMMA ReadsKeep ==
  ASSUME IInv, NEW d \in Device, NEW k, NEW v, Reads(d, k, v)
  PROVE  IInv'
<1>1. /\ FieldsOK /\ SlotOK /\ AccountOK /\ UploadsKept /\ JobsOK /\ BoundKept /\ EditsStay
      /\ Turns(d, k, v) /\ MintsMore
  BY DEF IInv, Reads
<1>2. /\ account' = account /\ slot' = slot /\ delayed' = delayed /\ stored' = stored
      /\ aged' = aged /\ carries' = carries /\ fate' = fate
  BY DEF Reads
<1>3. MayBeBound' \subseteq MayBeBound
  BY <1>1, <1>2, ClaimsStay DEF Reads
<1>4. \A u : IsStored(u)' <=> IsStored(u)
  BY <1>2 DEF IsStored
<1>5. AccountHas' = AccountHas /\ SafeHas' = SafeHas
  BY <1>2 DEF AccountHas, SafeHas
<1>6. Frame
  <2>1. \A u : Known(u) => Known(u)'
    BY <1>1, KnownStays
  <2> QED  BY <1>2, <1>3, <1>4, <1>5, <2>1 DEF Frame
<1>7. Shown' \subseteq Shown \cup {Blank}
  <2>1. slot \in Shown
    BY DEF Shown
  <2>2. Shown' \subseteq Shown \cup {Blank, slot}
    BY <1>1, <1>2, ShownStays DEF Reads
  <2> QED  BY <2>1, <2>2
<1>8. AllNames' \subseteq AllNames
  <2>1. ASSUME NEW w \in Shown' \cup delayed'  PROVE Names(w.state) \subseteq AllNames
    <3>1. CASE w \in Shown \cup delayed
      BY <3>1 DEF AllNames
    <3>2. CASE w = Blank
      BY <3>2, BlankIs
    <3> QED  BY <1>2, <1>7, <2>1, <3>1, <3>2
  <2> QED  BY <2>1 DEF AllNames
<1>9. SlotOK'
  <2>1. \A x \in Device : open'[x].rev # 0
    BY <1>1 DEF Turns, Reads, SlotOK
  <2> QED  BY <1>1, <1>2, <1>6, <1>7, <2>1, SlotStays
<1>10. AccountOK'
  BY <1>1, <1>2, <1>6, AccountStays DEF Reads
<1>11. UploadsKept'
  BY <1>1, <1>2, <1>4, <1>6 DEF UploadsKept, MintsMore, Frame
<1>12. JobsOK'
  <2>1. JobOK(k, d)'
    BY <1>1, <1>6, <1>8, JobStays DEF Reads
  <2> QED  BY <1>1, <1>6, <1>8, <2>1, JobsStay
<1>13. BoundKept'
  BY <1>1, <1>2, <1>3 DEF BoundKept
<1>14. EditsStay'
  BY <1>1, <1>2 DEF EditsStay, Present, SafeState
<1>15. FieldsOK'
  <2>1. \A x \in Device : DOMAIN job'[x] = DOMAIN Idle
    BY <1>1 DEF FieldsOK, Turns
  <2> QED  BY <1>1, <1>2, <2>1 DEF FieldsOK, Turns, Reads
<1> QED  BY <1>9, <1>10, <1>11, <1>12, <1>13, <1>14, <1>15 DEF IInv

-----------------------------------------------------------------------------
(* What a device has                                                       *)

\* A version a device has, and what its state names.
LEMMA HasVersion ==
  ASSUME IInv, NEW v \in Shown
  PROVE  /\ VersionOK(v) /\ StateOK(v.state)
         /\ v.state.head \in Nat /\ IndexAt(v.state.ix, v.state.head)
         /\ v.state.gone \subseteq Upload
         /\ \A u \in Names(v.state) : IsStored(u) /\ Known(u)
<1>1. VersionOK(v) /\ StateOK(v.state) /\ NamesStored(v.state)
  BY DEF IInv, SlotOK, VersionOK
<1>2. /\ v.state.head \in Nat /\ IndexAt(v.state.ix, v.state.head)
      /\ v.state.gone \subseteq Upload
  BY <1>1 DEF StateOK
<1>3. \A u : IsStored(u) => Known(u)
  BY DEF IInv, UploadsKept, IsStored
<1> QED  BY <1>1, <1>2, <1>3 DEF NamesStored

\* A device, its job and the versions it has.
LEMMA HasJob ==
  ASSUME IInv, NEW d \in Device
  PROVE  /\ DOMAIN job = Device /\ DOMAIN open = Device /\ DOMAIN seen = Device
         /\ DOMAIN job[d] = DOMAIN Idle
         /\ slot \in Shown /\ open[d] \in Shown
         /\ job[d].safe \in Shown /\ job[d].cur \in Shown
         /\ slot.rev # 0 /\ open[d].rev # 0
         /\ JobOK(job[d], d)
         /\ ItemsOK(job[d]) /\ PhaseOK(job[d], d) /\ MovedIsThere(job[d])
<1>1. /\ DOMAIN job = Device /\ DOMAIN open = Device /\ DOMAIN seen = Device
      /\ DOMAIN job[d] = DOMAIN Idle
  BY DEF IInv, FieldsOK
<1>2. slot \in Shown /\ open[d] \in Shown /\ job[d].safe \in Shown /\ job[d].cur \in Shown
  BY DEF Shown
<1>3. slot.rev # 0 /\ open[d].rev # 0
  BY DEF IInv, SlotOK
<1>4. JobOK(job[d], d)
  BY DEF IInv, JobsOK
<1> QED  BY <1>1, <1>2, <1>3, <1>4 DEF JobOK

\* The ID a device mints.
LEMMA MintFacts ==
  ASSUME IInv, NEW d \in Device, UNCHANGED minted \/ Mints(d), NEW id, id = Fresh(d)
  PROVE  /\ MintsMore
         /\ Mints(d) => /\ id \in Minted(d) /\ id \in UserNode /\ id \in Upload
                        /\ ~Known(id) /\ Known(id)'
<1>1. minted \in [Device -> 0 .. MaxIds] /\ MaxIds \in Nat
  BY DEF IInv, UploadsKept, MaxIds
<1>2. CASE UNCHANGED minted
  <2>1. MintsMore
    BY <1>1, <1>2 DEF MintsMore
  <2>2. ~Mints(d)
    BY <1>1, <1>2 DEF Mints
  <2> QED  BY <2>1, <2>2
<1>3. CASE Mints(d)
  <2>1. minted[d] < MaxIds /\ minted' = [minted EXCEPT ![d] = @ + 1]
    BY <1>3 DEF Mints
  <2>2. MintsMore
    BY <1>1, <2>1 DEF MintsMore
  <2>3. minted[d] + 1 \in 1 .. MaxIds /\ id = <<d, minted[d] + 1>>
    BY <1>1, <2>1 DEF Fresh
  <2>4. id \in Minted(d) /\ id \in UserNode /\ id \in Upload
    BY <2>3, DevicesMint DEF Minted
  <2>5. ~Known(id)
    BY <1>1, <2>3 DEF Known
  <2>6. Known(id)'
    <3>1. minted'[d] = minted[d] + 1
      BY <1>1, <2>1
    <3> QED  BY <1>1, <2>3, <2>4, <3>1 DEF Known
  <2> QED  BY <2>2, <2>4, <2>5, <2>6
<1> QED  BY <1>2, <1>3

\* A job that goes on with the same work.
LEMMA SameWork ==
  ASSUME NEW d \in Device, NEW j, JobOK(j, d), NEW k, k.items = j.items, k.item = j.item,
         k.kind = j.kind, PutThere(k) => PutThere(j)
  PROVE  ItemsOK(k) /\ MovedIsThere(k)
BY DEF JobOK, ItemsOK, MovedIsThere

\* A job that ends.
LEMMA EndsTurns ==
  ASSUME IInv, NEW d \in Device, NEW v, Ends(d), UNCHANGED open \/ EndsWith(d, v)
  PROVE  Turns(d, Idle, v) /\ JobOK(Idle, d) /\ ~Putting(Idle)
<1>1. job' = [job EXCEPT ![d] = Idle] /\ (open' = open \/ open' = [open EXCEPT ![d] = v])
  BY DEF Ends, EndsWith
<1>2. Turns(d, Idle, v)
  BY <1>1, HasJob DEF Turns
<1> QED  BY <1>2, IdleIsOK, IdleIs DEF Putting

\* A cleanup that ends, or gives its job the Safe it left.
LEMMA SweepTurns ==
  ASSUME IInv, NEW d \in Device, NEW v, v.rev # 0, SweepDone(d, v), job[d].phase # "idle"
  PROVE  \E k : /\ Turns(d, k, v) /\ JobOK(k, d) /\ ~Putting(k)
                /\ k.safe \in {v, Blank} /\ k.cur \in Shown \cup {Blank}
<1>1. CASE job[d].kind = "out"
  <2>1. job' = [job EXCEPT ![d].phase = "next", ![d].safe = v] /\ open' = open
    BY <1>1 DEF SweepDone
  <2>2. PICK k : k = job'[d]
    OBVIOUS
  <2>3. /\ DOMAIN k = DOMAIN Idle /\ k.phase = "next" /\ k.safe = v /\ k.cur = job[d].cur
        /\ k.kind = job[d].kind /\ k.items = job[d].items /\ k.item = job[d].item
    BY <2>1, <2>2, HasJob, IdleIs
  <2>4. Turns(d, k, v)
    BY <2>1, <2>2, <2>3, HasJob DEF Turns
  <2>5. ItemsOK(k) /\ MovedIsThere(k)
    BY <1>1, <2>3, HasJob, SameWork DEF PutThere
  <2>6. PhaseOK(k, d)
    BY <1>1, <2>3 DEF PhaseOK, Phases
  <2> QED  BY <2>3, <2>4, <2>5, <2>6, HasJob DEF JobOK, Putting
<1>2. CASE job[d].kind # "out"
  <2>1. EndsWith(d, v) /\ Ends(d)
    BY <1>2 DEF SweepDone, EndsWith
  <2>2. Turns(d, Idle, v) /\ JobOK(Idle, d) /\ ~Putting(Idle)
    BY <2>1, EndsTurns
  <2> QED  BY <2>2, IdleIs
<1> QED  BY <1>1, <1>2

\* The items of a move, from a tree whose uploads exist.
LEMMA WalkIsOK ==
  ASSUME NEW ix, NEW h, IndexAt(ix, h), \A u \in BoundRefs(ix) : Known(u), NEW top,
         NEW it \in Walk(ix.nodes, top)
  PROVE  ItemOK(it) /\ (it.up = None => it.kind = "folder")
<1> DEFINE ns == ix.nodes
<1>1. PICK n \in DOMAIN ns :
        it = File(n, ns[n].kind, ns[n].name, IF n = top THEN None ELSE ns[n].parent, UpOf(ns, n))
  BY DEF Walk, Subtree
<1>2. /\ it.id = n /\ it.kind = ns[n].kind /\ it.name = ns[n].name /\ it.up = UpOf(ns, n)
      /\ it = File(it.id, it.kind, it.name, it.parent, it.up)
  BY <1>1 DEF File
<1>3. /\ ns[n].kind \in {"file", "folder"} /\ ns[n].name \in NameSet
      /\ ns[n].content = None <=> ns[n].kind = "folder"
  BY DEF IndexAt, IndexOK, TreeOK, NodeSet, Bound
<1>4. ns[n].content # None => ns[n].content.up \in BoundRefs(ix)
  BY DEF BoundRefs, Contents
<1>5. None \notin Upload
  BY HoldsAnUpload
<1>6. UpOf(ns, n) = None \/ Known(UpOf(ns, n))
  BY <1>4 DEF UpOf
<1>7. UpOf(ns, n) = None => ns[n].content = None
  BY <1>4, <1>5 DEF UpOf, Known
<1>8. ns[n].kind = "folder" => UpOf(ns, n) = None
  BY <1>3 DEF UpOf
<1> HIDE DEF ns
<1> QED  BY <1>2, <1>3, <1>6, <1>7, <1>8 DEF ItemOK

-----------------------------------------------------------------------------
(* The steps that only read                                                *)

\* A move takes up what it walks.
LEMMA MovingIsOK ==
  ASSUME IInv, NEW d \in Device, NEW kind \in {"in", "out"}, NEW ix, NEW h, IndexAt(ix, h),
         \A u \in BoundRefs(ix) : Known(u), NEW top
  PROVE  LET k == Moving(d, kind, ix.nodes, top)
         IN  /\ JobOK(k, d) /\ ~Putting(k) /\ DOMAIN k = DOMAIN Idle
             /\ {k.safe, k.cur} \subseteq Shown \cup {Blank}
<1> DEFINE k == Moving(d, kind, ix.nodes, top)
<1>1. /\ DOMAIN k = DOMAIN Idle /\ k.kind = kind /\ k.phase = "next" /\ k.safe = open[d]
      /\ k.items = Walk(ix.nodes, top) /\ k.cur = Blank /\ k.item = None
  BY IdleIs DEF Moving
<1> HIDE DEF k
<1>2. ItemsOK(k)
  BY <1>1, WalkIsOK DEF ItemsOK
<1>3. PhaseOK(k, d)
  BY <1>1, HasJob DEF PhaseOK, Phases
<1>4. MovedIsThere(k)
  BY <1>1 DEF MovedIsThere
<1> QED  BY <1>1, <1>2, <1>3, <1>4, HasJob DEF JobOK, Putting, k

\* A move into the Safe begins (moveIn).
LEMMA MoveInReads ==
  ASSUME IInv, NEW d \in Device, MoveIn(d)
  PROVE  \E k, v : Reads(d, k, v)
<1>1. PICK top : job' = [job EXCEPT ![d] = Moving(d, "in", account.ix.nodes, top)]
  BY DEF MoveIn
<1>2. /\ seen' = [seen EXCEPT ![d] = account]
      /\ UNCHANGED <<account, slot, open, delayed, stored, aged, minted, carries, fate>>
  BY DEF MoveIn
<1>3. PICK k : k = Moving(d, "in", account.ix.nodes, top)
  OBVIOUS
<1>4. IndexAt(account.ix, account.head) /\ \A u \in BoundRefs(account.ix) : Known(u)
  BY DEF IInv, AccountOK
<1>5. /\ JobOK(k, d) /\ ~Putting(k) /\ DOMAIN k = DOMAIN Idle
      /\ {k.safe, k.cur} \subseteq Shown \cup {Blank}
  BY <1>3, <1>4, MovingIsOK
<1>6. Turns(d, k, slot)
  BY <1>1, <1>2, <1>3, <1>5, HasJob DEF Turns
<1>7. MintsMore
  BY <1>2, MintFacts
<1>8. Reads(d, k, slot)
  BY <1>2, <1>5, <1>6, <1>7, HasJob DEF Reads
<1> QED  BY <1>8

\* A move out of it begins (moveOut).
LEMMA MoveOutReads ==
  ASSUME IInv, NEW d \in Device, MoveOut(d)
  PROVE  \E k, v : Reads(d, k, v)
<1>1. PICK top : job' = [job EXCEPT ![d] = Moving(d, "out", open[d].state.ix.nodes, top)]
  BY DEF MoveOut
<1>2. UNCHANGED <<account, seen, slot, open, delayed, stored, aged, minted, carries, fate>>
  BY DEF MoveOut
<1>3. PICK k : k = Moving(d, "out", open[d].state.ix.nodes, top)
  OBVIOUS
<1>4. PICK s : s = open[d].state
  OBVIOUS
<1>5. IndexAt(s.ix, s.head) /\ \A u \in BoundRefs(s.ix) : Known(u)
  BY <1>4, HasJob, HasVersion DEF Names
<1>6. /\ JobOK(k, d) /\ ~Putting(k) /\ DOMAIN k = DOMAIN Idle
      /\ {k.safe, k.cur} \subseteq Shown \cup {Blank}
  BY <1>3, <1>4, <1>5, MovingIsOK
<1>7. Turns(d, k, slot)
  BY <1>1, <1>2, <1>3, <1>6, HasJob DEF Turns
<1>8. MintsMore
  BY <1>2, MintFacts
<1>9. Reads(d, k, slot)
  BY <1>2, <1>6, <1>7, <1>8, HasJob DEF Reads
<1> QED  BY <1>9

\* A new file is added (addToSafe).
LEMMA AddToSafeReads ==
  ASSUME IInv, NEW d \in Device, AddToSafe(d)
  PROVE  \E k, v : Reads(d, k, v)
<1>1. PICK name \in UserName : \E n :
        job' = [job EXCEPT ![d] = [Idle EXCEPT !.kind = "add", !.phase = "send", !.safe = open[d],
                                               !.item = File(n, "file", name, n, None)]]
  BY DEF AddToSafe
<1>2. PICK n :
        job' = [job EXCEPT ![d] = [Idle EXCEPT !.kind = "add", !.phase = "send", !.safe = open[d],
                                               !.item = File(n, "file", name, n, None)]]
  BY <1>1
<1>3. UNCHANGED <<account, seen, slot, open, delayed, stored, aged, minted, carries, fate>>
  BY DEF AddToSafe
<1>4. PICK it : it = File(n, "file", name, n, None)
  OBVIOUS
<1>5. ItemOK(it) /\ it.up = None
  <2>1. name \in NameSet
    BY NamesAreTyped DEF NameSet
  <2>2. /\ it.id = n /\ it.kind = "file" /\ it.name = name /\ it.parent = n /\ it.up = None
        /\ it = File(it.id, it.kind, it.name, it.parent, it.up)
    BY <1>4 DEF File
  <2> QED  BY <2>1, <2>2 DEF ItemOK
<1>6. PICK k : k = [Idle EXCEPT !.kind = "add", !.phase = "send", !.safe = open[d], !.item = it]
  OBVIOUS
<1>7. /\ DOMAIN k = DOMAIN Idle /\ k.kind = "add" /\ k.phase = "send" /\ k.safe = open[d]
      /\ k.item = it /\ k.items = {} /\ k.cur = Blank
  BY <1>6, IdleIs
<1>8. JobOK(k, d)
  BY <1>5, <1>7, HasJob DEF JobOK, ItemsOK, PhaseOK, Phases, MovedIsThere, PutThere
<1>9. Turns(d, k, slot)
  BY <1>2, <1>3, <1>4, <1>6, <1>7, HasJob DEF Turns
<1>10. MintsMore
  BY <1>3, MintFacts
<1>11. Reads(d, k, slot)
  BY <1>3, <1>7, <1>8, <1>9, <1>10, HasJob DEF Reads, Putting
<1> QED  BY <1>11

\* The entry of a deletion, and of a new folder.
LEMMA EntriesAreOK ==
  ASSUME NEW base \in Nat, NEW n, NEW id \in UserNode, NEW name \in NameSet, NEW parent
  PROVE  /\ BringsNone(Entered(base, Delete(n)))
         /\ BringsNone(Entered(base, <<CreateFolder(id, name, parent)>>))
         /\ Deletes(Delete(n)) /\ AddsFolder(<<CreateFolder(id, name, parent)>>)
<1>1. /\ Entered(base, Delete(n)).type = "entry" /\ Entered(base, Delete(n)).base = base
      /\ Entered(base, Delete(n)).ops = Delete(n)
  BY DEF Entered
<1>2. Deletes(Delete(n))
  BY DEF Deletes, Delete
<1> DEFINE op  == CreateFolder(id, name, parent)
           ops == <<op>>
<1>3. op.type = "create" /\ op.kind = "folder" /\ op.node = id /\ op.name = name
  BY DEF CreateFolder
<1> HIDE DEF op
<1>4. OpOK(op)
  BY <1>3 DEF OpOK
<1>5. AddsFolder(ops)
  BY <1>3, <1>4 DEF AddsFolder
<1>6. Entered(base, ops).type = "entry" /\ Entered(base, ops).base = base
      /\ Entered(base, ops).ops = ops
  BY DEF Entered
<1> QED  BY <1>1, <1>2, <1>5, <1>6 DEF BringsNone, op

\* A job that writes an entry without a file.
LEMMA WritingIsOK ==
  ASSUME NEW d \in Device, NEW j, DOMAIN j = DOMAIN Idle, NEW w, BringsNone(w),
         NEW k, k = Writing(j, w),
         j.kind \in {"in", "out", "delete"}, j.safe.rev # 0,
         j.kind = "in" => j.item.kind = "folder" /\ j.item.up = None
  PROVE  /\ PhaseOK(k, d) /\ ~Putting(k) /\ DOMAIN k = DOMAIN Idle
         /\ k.safe = j.safe /\ k.cur = j.safe
         /\ k.kind = j.kind /\ k.items = j.items /\ k.item = j.item
         /\ k.phase = "put"
<1>1. /\ DOMAIN k = DOMAIN Idle /\ k.safe = j.safe /\ k.cur = j.safe
      /\ k.kind = j.kind /\ k.items = j.items /\ k.item = j.item
      /\ k.phase = "put" /\ k.write = w /\ k.up = None
  BY IdleIs DEF Writing
<1>2. FoldersEntry(k) /\ k.write.type = "entry"
  BY <1>1 DEF FoldersEntry, BringsNone
<1>3. WriteOK(k, d)
  BY <1>1, <1>2 DEF WriteOK
<1> QED  BY <1>1, <1>3 DEF PhaseOK, Phases, Putting

\* A node is deleted (deleteFromSafe).
LEMMA DeleteFromSafeReads ==
  ASSUME IInv, NEW d \in Device, DeleteFromSafe(d)
  PROVE  \E k, v : Reads(d, k, v)
<1>1. PICK n : job' = [job EXCEPT ![d] = Writing([Idle EXCEPT !.kind = "delete", !.safe = open[d]],
                                                 Entered(open[d].state.head, Delete(n)))]
  BY DEF DeleteFromSafe
<1>2. UNCHANGED <<account, seen, slot, open, delayed, stored, aged, minted, carries, fate>>
  BY DEF DeleteFromSafe
<1>3. PICK j : j = [Idle EXCEPT !.kind = "delete", !.safe = open[d]]
  OBVIOUS
<1>4. /\ DOMAIN j = DOMAIN Idle /\ j.kind = "delete" /\ j.safe = open[d]
      /\ j.items = {} /\ j.item = None
  BY <1>3, IdleIs
<1>5. PICK w : w = Entered(open[d].state.head, Delete(n))
  OBVIOUS
<1>6. BringsNone(w)
  <2>1. open[d].state.head \in Nat
    BY HasJob, HasVersion
  <2>2. Deletes(Delete(n))
    BY DEF Deletes, Delete
  <2> QED  BY <1>5, <2>1, <2>2 DEF BringsNone, Entered
<1>7. PICK k : k = Writing(j, w)
  OBVIOUS
<1>8. /\ PhaseOK(k, d) /\ ~Putting(k) /\ DOMAIN k = DOMAIN Idle
      /\ k.safe = open[d] /\ k.cur = open[d] /\ k.items = {} /\ k.item = None
  <2>1. j.safe.rev # 0
    BY <1>4, HasJob
  <2> QED  BY <1>4, <1>6, <1>7, <2>1, WritingIsOK
<1>9. JobOK(k, d)
  BY <1>8 DEF JobOK, ItemsOK, MovedIsThere
<1>10. Turns(d, k, slot)
  BY <1>1, <1>2, <1>3, <1>5, <1>7, <1>8, HasJob DEF Turns
<1>11. MintsMore
  BY <1>2, MintFacts
<1>12. Reads(d, k, slot)
  BY <1>2, <1>8, <1>9, <1>10, <1>11, HasJob DEF Reads
<1> QED  BY <1>12

\* The Safe is opened (unlock).
LEMMA UnlockReads ==
  ASSUME IInv, NEW d \in Device, Unlock(d)
  PROVE  \E k, v : Reads(d, k, v)
<1>1. /\ job' = [job EXCEPT ![d] = [Idle EXCEPT !.kind = "sweep", !.phase = "read", !.safe = slot]]
      /\ open' = [open EXCEPT ![d] = slot]
      /\ UNCHANGED <<account, seen, slot, delayed, stored, aged, minted, carries, fate>>
  BY DEF Unlock
<1>2. PICK k : k = [Idle EXCEPT !.kind = "sweep", !.phase = "read", !.safe = slot]
  OBVIOUS
<1>3. /\ DOMAIN k = DOMAIN Idle /\ k.kind = "sweep" /\ k.phase = "read" /\ k.safe = slot
      /\ k.item = None /\ k.items = {} /\ k.cur = Blank
  BY <1>2, IdleIs
<1>4. JobOK(k, d)
  BY <1>3, HasJob DEF JobOK, ItemsOK, PhaseOK, Phases, MovedIsThere
<1>5. Turns(d, k, slot)
  BY <1>1, <1>2, <1>3, HasJob DEF Turns
<1>6. MintsMore
  BY <1>1, MintFacts
<1>7. Reads(d, k, slot)
  BY <1>1, <1>3, <1>4, <1>5, <1>6, HasJob DEF Reads, Putting
<1> QED  BY <1>7

\* A folder of a move is placed.
LEMMA PlacedIs ==
  ASSUME IInv, NEW d \in Device, NEW it \in Ready(d), NEW id, NEW k,
         k = Placed(Without(job[d], it), it, id)
  PROVE  /\ DOMAIN k = DOMAIN Idle /\ k.phase = "next" /\ k.kind = job[d].kind /\ k.item = it
         /\ k.safe = job[d].safe /\ k.cur = job[d].cur
         /\ ItemsOK(k) /\ ItemOK(it) /\ (it.up = None => it.kind = "folder")
<1>1. PICK j : j = Without(job[d], it)
  OBVIOUS
<1>2. /\ DOMAIN j = DOMAIN Idle /\ j.kind = job[d].kind /\ j.item = it
      /\ j.safe = job[d].safe /\ j.cur = job[d].cur /\ j.items = job[d].items \ {it}
  BY <1>1, HasJob, IdleIs DEF Without
<1>3. k = [j EXCEPT !.where = Put(@, it.id, id), !.phase = "next"]
  BY <1>1 DEF Placed
<1>4. /\ DOMAIN k = DOMAIN Idle /\ k.phase = "next" /\ k.kind = job[d].kind /\ k.item = it
      /\ k.safe = job[d].safe /\ k.cur = job[d].cur /\ k.items = job[d].items \ {it}
  BY <1>2, <1>3, IdleIs
<1>5. it \in job[d].items
  BY DEF Ready
<1> QED  BY <1>4, <1>5, HasJob DEF ItemsOK

\* A folder's turn, into the Safe.
LEMMA FolderInReads ==
  ASSUME IInv, NEW d \in Device, FolderIn(d)
  PROVE  \E k, v : Reads(d, k, v)
<1>1. /\ job[d].phase = "next" /\ job[d].kind = "in"
      /\ UNCHANGED <<account, seen, slot, open, delayed, stored, aged, carries, fate>>
  BY DEF FolderIn
<1>2. PICK it \in Ready(d) :
        /\ it.kind = "folder"
        /\ \/ /\ \E n : job' = [job EXCEPT ![d] = Placed(Without(@, it), it, n)]
              /\ UNCHANGED minted
           \/ /\ job' = [job EXCEPT ![d] = Writing(Placed(Without(@, it), it, Fresh(d)),
                           Entered(job[d].safe.state.head,
                                   <<CreateFolder(Fresh(d), it.name, Into(d, it))>>))]
              /\ Mints(d)
  BY DEF FolderIn
<1>3. PICK id : id = Fresh(d)
  OBVIOUS
<1>4. MintsMore /\ (Mints(d) => id \in UserNode)
  BY <1>2, <1>3, MintFacts
<1>5. job[d].safe.rev # 0
  BY <1>1, HasJob DEF PhaseOK
<1>6. CASE /\ \E n : job' = [job EXCEPT ![d] = Placed(Without(@, it), it, n)]
           /\ UNCHANGED minted
  <2>1. PICK n : job' = [job EXCEPT ![d] = Placed(Without(@, it), it, n)]
    BY <1>6
  <2>2. PICK k : k = Placed(Without(job[d], it), it, n)
    OBVIOUS
  <2>3. /\ DOMAIN k = DOMAIN Idle /\ k.phase = "next" /\ k.kind = "in" /\ k.item = it
        /\ k.safe = job[d].safe /\ k.cur = job[d].cur
        /\ ItemsOK(k) /\ ItemOK(it)
    BY <1>1, <2>2, PlacedIs
  <2>4. JobOK(k, d)
    BY <1>2, <1>5, <2>3 DEF JobOK, PhaseOK, Phases, MovedIsThere, ItemOK
  <2>5. Turns(d, k, slot)
    BY <1>1, <2>1, <2>2, <2>3, HasJob DEF Turns
  <2>6. Reads(d, k, slot)
    BY <1>1, <1>4, <2>3, <2>4, <2>5, HasJob DEF Reads, Putting
  <2> QED  BY <2>6
<1>7. CASE /\ job' = [job EXCEPT ![d] = Writing(Placed(Without(@, it), it, Fresh(d)),
                        Entered(job[d].safe.state.head,
                                <<CreateFolder(Fresh(d), it.name, Into(d, it))>>))]
           /\ Mints(d)
  <2>1. PICK j : j = Placed(Without(job[d], it), it, id)
    OBVIOUS
  <2>2. /\ DOMAIN j = DOMAIN Idle /\ j.phase = "next" /\ j.kind = "in" /\ j.item = it
        /\ j.safe = job[d].safe /\ ItemsOK(j) /\ ItemOK(it)
    BY <1>1, <2>1, PlacedIs
  <2>3. PICK w : w = Entered(job[d].safe.state.head, <<CreateFolder(id, it.name, Into(d, it))>>)
    OBVIOUS
  <2>4. BringsNone(w)
    <3>1. job[d].safe.state.head \in Nat
      BY HasJob, HasVersion
    <3>2. it.name \in NameSet
      BY <2>2 DEF ItemOK
    <3> QED  BY <1>4, <1>7, <2>3, <3>1, <3>2, EntriesAreOK
  <2>5. PICK k : k = Writing(j, w)
    OBVIOUS
  <2>6. /\ PhaseOK(k, d) /\ ~Putting(k) /\ DOMAIN k = DOMAIN Idle
        /\ k.safe = job[d].safe /\ k.cur = job[d].safe
        /\ k.kind = "in" /\ k.items = j.items /\ k.item = it /\ k.phase = "put"
    <3>1. j.safe.rev # 0 /\ j.item.kind = "folder" /\ j.item.up = None
      BY <1>2, <1>5, <2>2 DEF ItemOK
    <3> QED  BY <2>2, <2>4, <2>5, <3>1, WritingIsOK
  <2>7. JobOK(k, d)
    BY <1>2, <2>2, <2>6 DEF JobOK, ItemsOK, MovedIsThere, PutThere, ItemOK
  <2>8. Turns(d, k, slot)
    BY <1>1, <1>3, <1>7, <2>1, <2>3, <2>5, <2>6, HasJob DEF Turns
  <2>9. Reads(d, k, slot)
    BY <1>1, <1>4, <2>6, <2>7, <2>8, HasJob DEF Reads
  <2> QED  BY <2>9
<1> QED  BY <1>2, <1>6, <1>7

WithUp(it, up) == [it EXCEPT !.up = up]

\* An item with another upload.
LEMMA ItemWith ==
  ASSUME NEW it, ItemOK(it), NEW up, NEW new, new = WithUp(it, up)
  PROVE  /\ new = File(new.id, new.kind, new.name, new.parent, new.up)
         /\ new.up = up /\ new.kind = it.kind /\ new.name = it.name
<1> DEFINE T(u) == [id : {it.id}, kind : {it.kind}, name : {it.name}, parent : {it.parent},
                    up : {u}]
<1>1. it \in T(it.up)
  <2>1. it = File(it.id, it.kind, it.name, it.parent, it.up)
    BY DEF ItemOK
  <2>2. File(it.id, it.kind, it.name, it.parent, it.up) \in T(it.up)
    BY DEF File
  <2> QED  BY <2>1, <2>2
<1>2. new \in T(up)
  BY <1>1 DEF WithUp
<1>3. /\ new.id = it.id /\ new.kind = it.kind /\ new.name = it.name
      /\ new.parent = it.parent /\ new.up = up
  BY <1>2
<1>4. File(it.id, it.kind, it.name, it.parent, up) \in T(up)
  BY DEF File
<1>5. new = File(it.id, it.kind, it.name, it.parent, up)
  <2>1. PICK f : f = File(it.id, it.kind, it.name, it.parent, up)
    OBVIOUS
  <2>2. f \in T(up)
    BY <1>4, <2>1
  <2>3. f = new
    BY <1>2, <2>2
  <2> QED  BY <2>1, <2>3
<1> QED  BY <1>3, <1>5

\* A file's turn, into the Safe: the version the device knows is read.
LEMMA FileInReads ==
  ASSUME IInv, NEW d \in Device, FileIn(d)
  PROVE  \E k, v : Reads(d, k, v)
<1>1. /\ job[d].phase = "next" /\ job[d].kind = "in"
      /\ UNCHANGED <<account, seen, slot, open, delayed, stored, aged, minted, carries, fate>>
  BY DEF FileIn
<1>2. PICK it \in Ready(d) :
        /\ it.kind = "file"
        /\ \/ /\ it.id \in DOMAIN seen[d].ix.nodes
              /\ job' = [job EXCEPT ![d] = [Without(@, it) EXCEPT !.phase = "send",
                                              !.item.up = UpOf(seen[d].ix.nodes, it.id)]]
           \/ Ends(d)
  BY DEF FileIn
<1>3. MintsMore
  BY <1>1, MintFacts
<1>4. CASE /\ it.id \in DOMAIN seen[d].ix.nodes
           /\ job' = [job EXCEPT ![d] = [Without(@, it) EXCEPT !.phase = "send",
                                           !.item.up = UpOf(seen[d].ix.nodes, it.id)]]
  <2>1. PICK ix : ix = seen[d].ix
    OBVIOUS
  <2>2. PICK up : up = UpOf(ix.nodes, it.id)
    OBVIOUS
  <2>3. up = None \/ Known(up)
    <3>1. \A u \in BoundRefs(ix) : Known(u)
      BY <2>1 DEF IInv, AccountOK
    <3> QED  BY <1>4, <2>1, <2>2, <3>1 DEF UpOf, BoundRefs, Contents
  <2>4. PICK j : j = Without(job[d], it)
    OBVIOUS
  <2>5. /\ DOMAIN j = DOMAIN Idle /\ j.kind = "in" /\ j.item = it
        /\ j.safe = job[d].safe /\ j.cur = job[d].cur /\ j.items = job[d].items \ {it}
    BY <1>1, <2>4, HasJob, IdleIs DEF Without
  <2>6. PICK k : k = [j EXCEPT !.phase = "send", !.item.up = up]
    OBVIOUS
  <2>7. PICK new : new = WithUp(it, up)
    OBVIOUS
  <2>8. /\ DOMAIN k = DOMAIN Idle /\ k.kind = "in" /\ k.phase = "send" /\ k.item = new
        /\ k.safe = job[d].safe /\ k.cur = job[d].cur /\ k.items = job[d].items \ {it}
    BY <2>5, <2>6, <2>7, IdleIs DEF WithUp
  <2>9. it \in job[d].items /\ ItemOK(it)
    BY HasJob DEF Ready, ItemsOK
  <2>10. ItemOK(new) /\ new.kind = "file" /\ new.up = up
    <3>1. /\ new = File(new.id, new.kind, new.name, new.parent, new.up)
          /\ new.up = up /\ new.kind = it.kind /\ new.name = it.name
      BY <2>7, <2>9, ItemWith
    <3> QED  BY <1>2, <2>3, <2>9, <3>1 DEF ItemOK
  <2>11. ItemsOK(k)
    BY <2>8, HasJob DEF ItemsOK
  <2>12. PhaseOK(k, d)
    BY <1>1, <2>8, <2>10, HasJob DEF PhaseOK, Phases
  <2>13. MovedIsThere(k)
    BY <2>3, <2>8, <2>10 DEF MovedIsThere, PutThere
  <2>14. job' = [job EXCEPT ![d] = k]
    BY <1>4, <2>1, <2>2, <2>4, <2>6
  <2>15. Turns(d, k, slot)
    BY <1>1, <2>8, <2>14, HasJob DEF Turns
  <2>16. Reads(d, k, slot)
    BY <1>1, <1>3, <2>8, <2>11, <2>12, <2>13, <2>15, HasJob DEF Reads, JobOK, Putting
  <2> QED  BY <2>16
<1>5. CASE Ends(d)
  <2>1. Turns(d, Idle, slot) /\ JobOK(Idle, d) /\ ~Putting(Idle)
    BY <1>1, <1>5, EndsTurns
  <2>2. Reads(d, Idle, slot)
    BY <1>1, <1>3, <2>1, HasJob, IdleIs DEF Reads
  <2> QED  BY <2>2
<1> QED  BY <1>2, <1>4, <1>5

GoesOn(d, phase) == job' = [job EXCEPT ![d].phase = phase] /\ UNCHANGED open

\* A job that goes on in another phase.
LEMMA PhaseTurns ==
  ASSUME IInv, NEW d \in Device, NEW phase, NEW k, k = job'[d], GoesOn(d, phase), NEW v,
         phase \in {"next", "purge", "tops"} => PutThere(job[d])
  PROVE  /\ Turns(d, k, v) /\ ItemsOK(k) /\ MovedIsThere(k)
         /\ k.phase = phase /\ k.kind = job[d].kind /\ k.item = job[d].item /\ k.up = job[d].up
         /\ k.safe = job[d].safe /\ k.cur = job[d].cur /\ k.release = job[d].release
<1>1. /\ DOMAIN k = DOMAIN Idle /\ k.kind = job[d].kind
      /\ k.phase = phase /\ k.item = job[d].item /\ k.up = job[d].up
      /\ k.safe = job[d].safe /\ k.cur = job[d].cur /\ k.items = job[d].items
      /\ k.release = job[d].release
  BY HasJob, IdleIs DEF GoesOn
<1>2. ItemsOK(k) /\ MovedIsThere(k)
  <2>1. PutThere(k) => PutThere(job[d])
    BY <1>1 DEF PutThere
  <2> QED  BY <1>1, <2>1, HasJob, SameWork
<1>3. Turns(d, k, v)
  BY <1>1, HasJob DEF Turns, GoesOn
<1> QED  BY <1>1, <1>2, <1>3

\* All files of a move into the Safe are there.
LEMMA FoldersLeftReads ==
  ASSUME IInv, NEW d \in Device, FoldersLeft(d)
  PROVE  \E k, v : Reads(d, k, v)
<1>1. /\ job[d].phase = "next" /\ job[d].kind = "in"
      /\ UNCHANGED <<account, seen, slot, delayed, stored, aged, minted, carries, fate>>
      /\ \/ job' = [job EXCEPT ![d].phase = "tops"] /\ UNCHANGED open
         \/ EndsWith(d, job[d].safe)
  BY DEF FoldersLeft
<1>2. MintsMore
  BY <1>1, MintFacts
<1>3. job[d].safe.rev # 0
  BY <1>1, HasJob DEF PhaseOK
<1>4. CASE job' = [job EXCEPT ![d].phase = "tops"] /\ UNCHANGED open
  <2>1. PICK k : k = job'[d]
    OBVIOUS
  <2>2. PutThere(job[d])
    BY <1>1 DEF PutThere
  <2>3. /\ Turns(d, k, slot) /\ ItemsOK(k) /\ MovedIsThere(k)
        /\ k.phase = "tops" /\ k.kind = job[d].kind
        /\ k.safe = job[d].safe /\ k.cur = job[d].cur
    <3>1. GoesOn(d, "tops")
      BY <1>4 DEF GoesOn
    <3> QED  BY <2>1, <2>2, <3>1, PhaseTurns
  <2>4. PhaseOK(k, d)
    BY <1>1, <1>3, <2>3 DEF PhaseOK, Phases
  <2>5. Reads(d, k, slot)
    BY <1>1, <1>2, <2>3, <2>4, HasJob DEF Reads, JobOK, Putting
  <2> QED  BY <2>5
<1>5. CASE EndsWith(d, job[d].safe)
  <2>1. PICK v : v = job[d].safe
    OBVIOUS
  <2>2. Turns(d, Idle, v) /\ JobOK(Idle, d) /\ ~Putting(Idle)
    BY <1>5, <2>1, EndsTurns DEF EndsWith
  <2>3. Reads(d, Idle, v)
    BY <1>1, <1>2, <1>3, <2>1, <2>2, HasJob, IdleIs DEF Reads
  <2> QED  BY <2>3
<1> QED  BY <1>1, <1>4, <1>5

\* All files of a move out of it are in the account.
LEMMA FoldersOutReads ==
  ASSUME IInv, NEW d \in Device, FoldersOut(d)
  PROVE  \E k, v : Reads(d, k, v)
<1> DEFINE n == CHOOSE x \in job[d].tops : TRUE
<1>1. /\ job[d].phase = "next" /\ job[d].kind = "out"
      /\ UNCHANGED <<account, seen, slot, delayed, stored, aged, minted, carries, fate>>
      /\ \/ /\ job' = [job EXCEPT ![d] = Writing([@ EXCEPT !.tops = {}],
                         Entered(job[d].safe.state.head, Delete(n)))]
            /\ UNCHANGED open
         \/ EndsWith(d, job[d].safe)
  BY DEF FoldersOut
<1> HIDE DEF n
<1>2. MintsMore
  BY <1>1, MintFacts
<1>3. job[d].safe.rev # 0
  BY <1>1, HasJob DEF PhaseOK
<1>4. CASE /\ job' = [job EXCEPT ![d] = Writing([@ EXCEPT !.tops = {}],
                        Entered(job[d].safe.state.head, Delete(n)))]
           /\ UNCHANGED open
  <2>1. PICK j : j = [job[d] EXCEPT !.tops = {}]
    OBVIOUS
  <2>2. /\ DOMAIN j = DOMAIN Idle /\ j.kind = "out" /\ j.safe = job[d].safe
        /\ j.items = job[d].items /\ j.item = job[d].item
    BY <1>1, <2>1, HasJob, IdleIs
  <2>3. PICK w : w = Entered(job[d].safe.state.head, Delete(n))
    OBVIOUS
  <2>4. BringsNone(w)
    <3>1. job[d].safe.state.head \in Nat
      BY HasJob, HasVersion
    <3>2. Deletes(Delete(n))
      BY DEF Deletes, Delete
    <3> QED  BY <2>3, <3>1, <3>2 DEF BringsNone, Entered
  <2>5. PICK k : k = Writing(j, w)
    OBVIOUS
  <2>6. /\ PhaseOK(k, d) /\ ~Putting(k) /\ DOMAIN k = DOMAIN Idle
        /\ k.safe = job[d].safe /\ k.cur = job[d].safe
        /\ k.kind = "out" /\ k.items = job[d].items /\ k.item = job[d].item
    BY <1>3, <2>2, <2>4, <2>5, WritingIsOK
  <2>7. ItemsOK(k) /\ MovedIsThere(k)
    BY <1>1, <2>6, HasJob, SameWork DEF PutThere
  <2>8. Turns(d, k, slot)
    BY <1>4, <2>1, <2>3, <2>5, <2>6, HasJob DEF Turns
  <2>9. Reads(d, k, slot)
    BY <1>1, <1>2, <2>6, <2>7, <2>8, HasJob DEF Reads, JobOK
  <2> QED  BY <2>9
<1>5. CASE EndsWith(d, job[d].safe)
  <2>1. PICK v : v = job[d].safe
    OBVIOUS
  <2>2. Turns(d, Idle, v) /\ JobOK(Idle, d) /\ ~Putting(Idle)
    BY <1>5, <2>1, EndsTurns DEF EndsWith
  <2>3. Reads(d, Idle, v)
    BY <1>1, <1>2, <1>3, <2>1, <2>2, HasJob, IdleIs DEF Reads
  <2> QED  BY <2>3
<1> QED  BY <1>1, <1>4, <1>5

\* What a failed call leaves of a job.
LEMMA FailsTurns ==
  ASSUME IInv, NEW d \in Device, FailsTo(d), job[d].phase # "idle"
  PROVE  \E k : /\ Turns(d, k, job[d].safe) /\ JobOK(k, d) /\ ~Putting(k)
                /\ {k.safe, k.cur} \subseteq Shown \cup {Blank}
<1>1. \/ /\ Putting(job[d])
         /\ GoesOn(d, "note")
      \/ SweepDone(d, job[d].safe)
      \/ Ends(d) /\ UNCHANGED open
  BY DEF FailsTo, GoesOn, Putting
<1>2. CASE Putting(job[d]) /\ GoesOn(d, "note")
  <2>1. PICK k : k = job'[d]
    OBVIOUS
  <2>2. /\ Turns(d, k, job[d].safe) /\ ItemsOK(k) /\ MovedIsThere(k)
        /\ k.phase = "note" /\ k.kind = job[d].kind /\ k.up = job[d].up
        /\ k.safe = job[d].safe /\ k.cur = job[d].cur
    BY <1>2, <2>1, PhaseTurns
  <2>3. WriteOK(job[d], d)
    BY <1>2, HasJob DEF PhaseOK, Putting
  <2>4. FilesEntry(job[d], d)
    BY <1>2, <2>3 DEF WriteOK, Putting
  <2>5. PhaseOK(k, d)
    BY <1>2, <2>2, <2>4, HasJob DEF PhaseOK, Phases, FilesEntry, Putting
  <2> QED  BY <2>2, <2>5, HasJob DEF JobOK, Putting
<1>3. CASE SweepDone(d, job[d].safe)
  <2>1. job[d].safe.rev # 0
    BY HasJob DEF PhaseOK
  <2>2. PICK v : v = job[d].safe
    OBVIOUS
  <2> QED  BY <1>3, <2>1, <2>2, SweepTurns, HasJob
<1>4. CASE Ends(d) /\ UNCHANGED open
  <2>1. PICK v : v = job[d].safe
    OBVIOUS
  <2> QED  BY <1>4, <2>1, EndsTurns, IdleIs
<1> QED  BY <1>1, <1>2, <1>3, <1>4

\* A call that fails.
LEMMA FailsReads ==
  ASSUME IInv, NEW d \in Device, Fails(d)
  PROVE  \E k, v : Reads(d, k, v)
<1>1. /\ job[d].phase # "idle" /\ FailsTo(d)
      /\ UNCHANGED <<account, seen, slot, delayed, stored, aged, minted, carries, fate>>
  BY DEF Fails
<1>2. PICK k : /\ Turns(d, k, job[d].safe) /\ JobOK(k, d) /\ ~Putting(k)
               /\ {k.safe, k.cur} \subseteq Shown \cup {Blank}
  BY <1>1, FailsTurns
<1>3. PICK v : v = job[d].safe
  OBVIOUS
<1>4. v \in Shown /\ v.rev # 0
  BY <1>1, <1>3, HasJob DEF PhaseOK
<1>5. MintsMore
  BY <1>1, MintFacts
<1>6. Reads(d, k, v)
  BY <1>1, <1>2, <1>3, <1>4, <1>5, HasJob DEF Reads
<1> QED  BY <1>6

\* A version that no file of the Safe has is to be noted (noteGone).
LEMMA NoteGoneReads ==
  ASSUME IInv, NEW d \in Device, NoteGone(d)
  PROVE  \E k, v : Reads(d, k, v)
<1>1. /\ job[d].phase = "note"
      /\ UNCHANGED <<account, seen, slot, open, delayed, stored, aged, minted, carries, fate>>
      /\ \/ Ends(d)
         \/ job' = [job EXCEPT ![d] = [Writing(@, Noted(job[d].up)) EXCEPT !.cur = slot]]
  BY DEF NoteGone
<1>2. MintsMore
  BY <1>1, MintFacts
<1>3. CASE Ends(d)
  <2>1. Turns(d, Idle, slot) /\ JobOK(Idle, d) /\ ~Putting(Idle)
    BY <1>1, <1>3, EndsTurns
  <2>2. Reads(d, Idle, slot)
    BY <1>1, <1>2, <2>1, HasJob, IdleIs DEF Reads
  <2> QED  BY <2>2
<1>4. CASE job' = [job EXCEPT ![d] = [Writing(@, Noted(job[d].up)) EXCEPT !.cur = slot]]
  <2>1. PICK w : w = Noted(job[d].up)
    OBVIOUS
  <2>2. PICK j : j = Writing(job[d], w)
    OBVIOUS
  <2>3. /\ DOMAIN j = DOMAIN Idle /\ j.phase = "put" /\ j.safe = job[d].safe /\ j.write = w
        /\ j.kind = job[d].kind /\ j.items = job[d].items /\ j.item = job[d].item
        /\ j.up = None
    BY <2>2, HasJob, IdleIs DEF Writing
  <2>4. PICK k : k = [j EXCEPT !.cur = slot]
    OBVIOUS
  <2>5. /\ DOMAIN k = DOMAIN Idle /\ k.phase = "put" /\ k.safe = job[d].safe /\ k.write = w
        /\ k.kind = job[d].kind /\ k.items = job[d].items /\ k.item = job[d].item
        /\ k.up = None /\ k.cur = slot
    BY <2>3, <2>4, IdleIs
  <2>6. w.type = "note" /\ w.up = job[d].up
    BY <2>1 DEF Noted
  <2>7. job[d].up \in Minted(d) /\ IsStored(job[d].up) /\ job[d].kind \in {"in", "add"}
        /\ job[d].safe.rev # 0
    BY <1>1, HasJob DEF PhaseOK
  <2>8. WriteOK(k, d)
    BY <2>5, <2>6, <2>7 DEF WriteOK
  <2>9. PhaseOK(k, d)
    BY <2>5, <2>7, <2>8, HasJob DEF PhaseOK, Phases
  <2>10. ItemsOK(k) /\ MovedIsThere(k)
    BY <2>5, <2>7, HasJob, SameWork DEF PutThere
  <2>11. job' = [job EXCEPT ![d] = k]
    BY <1>4, <2>1, <2>2, <2>4
  <2>12. Turns(d, k, slot)
    BY <1>1, <2>5, <2>11, HasJob DEF Turns
  <2>13. Reads(d, k, slot)
    BY <1>1, <1>2, <2>5, <2>9, <2>10, <2>12, HasJob DEF Reads, JobOK, Putting
  <2> QED  BY <2>13
<1> QED  BY <1>1, <1>3, <1>4

\* A cleanup reads the slot (cleanupInstance).
LEMMA SweepReadReads ==
  ASSUME IInv, NEW d \in Device, SweepRead(d)
  PROVE  \E k, v : Reads(d, k, v)
<1>1. /\ job[d].phase = "read"
      /\ job' = [job EXCEPT ![d].phase = "list", ![d].cur = slot]
      /\ UNCHANGED <<account, seen, slot, open, delayed, stored, aged, minted, carries, fate>>
  BY DEF SweepRead
<1>2. PICK k : k = job'[d]
  OBVIOUS
<1>3. /\ DOMAIN k = DOMAIN Idle /\ k.phase = "list" /\ k.cur = slot /\ k.safe = job[d].safe
      /\ k.kind = job[d].kind /\ k.items = job[d].items /\ k.item = job[d].item
  BY <1>1, <1>2, HasJob, IdleIs
<1>4. ItemsOK(k) /\ MovedIsThere(k)
  BY <1>3, HasJob, SameWork DEF PutThere
<1>5. PhaseOK(k, d)
  BY <1>1, <1>3, HasJob DEF PhaseOK, Phases
<1>6. Turns(d, k, slot)
  BY <1>1, <1>2, <1>3, HasJob DEF Turns
<1>7. MintsMore
  BY <1>1, MintFacts
<1>8. Reads(d, k, slot)
  BY <1>1, <1>3, <1>4, <1>5, <1>6, <1>7, HasJob DEF Reads, JobOK, Putting
<1> QED  BY <1>8

\* It lists what is stored; every noted upload is among what it lets go, or has
\* been let go.
LEMMA SweepListReads ==
  ASSUME IInv, NEW d \in Device, SweepList(d)
  PROVE  \E k, v : Reads(d, k, v)
<1>1. /\ job[d].phase = "list"
      /\ UNCHANGED <<account, seen, slot, open, delayed, stored, aged, minted, carries, fate>>
  BY DEF SweepList
<1>2. PICK s \in {job[d].cur.state} :
         \E release \in {{u \in Upload : MayLetGo(s, u)}} :
           job' = [job EXCEPT ![d].phase = IF release = {} THEN "keep" ELSE "release",
                     ![d].release = release,
                     ![d].keep = {u \in Upload : stored[u] = "released" /\ u \in BoundRefs(s.ix)}]
  BY Zenon DEF SweepList
<1>3. s = job[d].cur.state
  OBVIOUS
<1>4. PICK release \in {{u \in Upload : MayLetGo(s, u)}} :
        job' = [job EXCEPT ![d].phase = IF release = {} THEN "keep" ELSE "release",
                  ![d].release = release,
                  ![d].keep = {u \in Upload : stored[u] = "released" /\ u \in BoundRefs(s.ix)}]
  BY <1>2, Zenon
<1>5. \A u : u \in release <=> u \in Upload /\ MayLetGo(s, u)
  BY <1>4
<1>6. PICK keep :
        job' = [job EXCEPT ![d].phase = IF release = {} THEN "keep" ELSE "release",
                  ![d].release = release, ![d].keep = keep]
  BY <1>4, Zenon
<1>7. PICK k : k = job'[d]
  OBVIOUS
<1>8. /\ DOMAIN k = DOMAIN Idle /\ k.cur = job[d].cur
      /\ k.phase = (IF release = {} THEN "keep" ELSE "release") /\ k.safe = job[d].safe
      /\ k.kind = job[d].kind /\ k.items = job[d].items /\ k.item = job[d].item
      /\ k.release = release
  BY <1>6, <1>7, HasJob, IdleIs
<1>9. VersionOK(job[d].cur) /\ job[d].cur.rev # 0 /\ job[d].safe.rev # 0
  BY <1>1, HasJob, HasVersion DEF PhaseOK
<1>10. s.gone \subseteq fate.told \cup release
  <2>1. ASSUME NEW u \in s.gone, u \notin fate.told  PROVE u \in release
    <3>1. IsStored(u) /\ u \notin BoundRefs(s.ix)
      BY <1>9, <1>3 DEF VersionOK, NamesStored, Names, StateOK
    <3>2. u \in Upload /\ stored[u] = "committed"
      BY <2>1, <3>1 DEF IInv, UploadsKept, IsStored
    <3> QED  BY <1>5, <2>1, <3>1, <3>2 DEF MayLetGo
  <2> QED  BY <2>1
<1>11. release \cap MayBeBound \subseteq aged
  BY <1>5, <1>9, <1>3 DEF MayLetGo, VersionOK
<1>12. \A u \in release : IsStored(u)
  BY <1>5 DEF MayLetGo, IsStored
<1>13. ItemsOK(k) /\ MovedIsThere(k)
  BY <1>8, HasJob, SameWork DEF PutThere
<1>14. PhaseOK(k, d)
  BY <1>6, <1>8, <1>9, <1>10, <1>11, <1>12, <1>3 DEF PhaseOK, Phases
<1>15. Turns(d, k, slot)
  BY <1>1, <1>6, <1>7, <1>8, HasJob DEF Turns
<1>16. MintsMore
  BY <1>1, MintFacts
<1>17. Reads(d, k, slot)
  BY <1>1, <1>8, <1>13, <1>14, <1>15, <1>16, HasJob DEF Reads, JobOK, Putting
<1> QED  BY <1>17

\* The account's log is pulled.
LEMMA PullReads ==
  ASSUME IInv, NEW d \in Device, Pull(d)
  PROVE  \E k, v : Reads(d, k, v)
<1>1. /\ seen' = [seen EXCEPT ![d] = account]
      /\ UNCHANGED <<account, slot, open, job, delayed, stored, aged, minted, carries, fate>>
  BY DEF Pull
<1>2. PICK k : k = job[d]
  OBVIOUS
<1>3. Turns(d, k, slot)
  BY <1>1, <1>2, HasJob DEF Turns
<1>4. MintsMore
  BY <1>1, MintFacts
<1>5. Reads(d, k, slot)
  BY <1>1, <1>2, <1>3, <1>4, HasJob DEF Reads
<1> QED  BY <1>5

\* The Safe is refreshed (safeRefresh).
LEMMA RefreshReads ==
  ASSUME IInv, NEW d \in Device, Refresh(d)
  PROVE  \E k, v : Reads(d, k, v)
<1>1. /\ open' = [open EXCEPT ![d] = slot]
      /\ UNCHANGED <<account, seen, slot, job, delayed, stored, aged, minted, carries, fate>>
  BY DEF Refresh
<1>2. PICK k : k = job[d]
  OBVIOUS
<1>3. Turns(d, k, slot)
  BY <1>1, <1>2, HasJob DEF Turns
<1>4. MintsMore
  BY <1>1, MintFacts
<1>5. Reads(d, k, slot)
  BY <1>1, <1>2, <1>3, <1>4, HasJob DEF Reads
<1> QED  BY <1>5

\* A write that lost opens the state that won (update).
LEMMA LosesReads ==
  ASSUME IInv, NEW d \in Device, PutSlot(d), ~Wins(job[d].cur.rev)
  PROVE  \E k, v : Reads(d, k, v)
<1>1. /\ job[d].phase = "put"
      /\ job' = [job EXCEPT ![d].cur = slot]
      /\ UNCHANGED <<account, seen, slot, open, delayed, stored, aged, minted, carries, fate>>
  BY DEF PutSlot, Reopen
<1>2. PICK k : k = job'[d]
  OBVIOUS
<1>3. /\ DOMAIN k = DOMAIN Idle /\ k.phase = "put" /\ k.cur = slot /\ k.safe = job[d].safe
      /\ k.kind = job[d].kind /\ k.items = job[d].items /\ k.item = job[d].item
      /\ k.write = job[d].write /\ k.up = job[d].up
  BY <1>1, <1>2, HasJob, IdleIs
<1>4. ItemsOK(k) /\ MovedIsThere(k)
  BY <1>1, <1>3, HasJob, SameWork DEF PutThere
<1>5. PhaseOK(k, d)
  <2>1. WriteOK(job[d], d) /\ job[d].safe.rev # 0
    BY <1>1, HasJob DEF PhaseOK
  <2>2. WriteOK(k, d)
    BY <1>3, <2>1 DEF WriteOK, FoldersEntry, FilesEntry
  <2> QED  BY <1>3, <2>1, <2>2, HasJob DEF PhaseOK, Phases
<1>6. Turns(d, k, slot)
  BY <1>1, <1>2, <1>3, HasJob DEF Turns
<1>7. MintsMore
  BY <1>1, MintFacts
<1>8. Putting(k) => Putting(job[d]) /\ k.up = job[d].up
  BY <1>1, <1>3 DEF Putting
<1>9. Reads(d, k, slot)
  BY <1>1, <1>3, <1>4, <1>5, <1>6, <1>7, <1>8, HasJob DEF Reads, JobOK
<1> QED  BY <1>9

-----------------------------------------------------------------------------
(* The steps that write                                                    *)

\* What the write of d makes of the state s.
Makes(d, s, c) ==
  /\ StateOK(c.state)
  /\ \A u \in Names(c.state) : IsStored(u)
  /\ Names(c.state) \subseteq Names(s) \cup Minted(d)
  /\ \A u \in c.state.gone : u \in Names(s) \/ (u \in Minted(d) /\ ~Putting(job[d]))
  /\ s.gone \ c.state.gone \subseteq fate.told
  /\ \A u \in BoundRefs(c.state.ix) : u \in BoundRefs(s.ix) \/ (Putting(job[d]) /\ u = job[d].up)
  /\ Putting(job[d]) => /\ BoundRefs(s.ix) \subseteq BoundRefs(c.state.ix)
                        /\ c.out = "applied" => job[d].up \in BoundRefs(c.state.ix)

\* A write makes that of every version that a device has.
LEMMA WriteMakes ==
  ASSUME IInv, NEW d \in Device, job[d].phase = "put", NEW v \in Shown,
         NEW c, c = Change(v.state, d, job[d].write)
  PROVE  Makes(d, v.state, c)
<1>1. WriteOK(job[d], d)
  BY HasJob DEF PhaseOK
<1>2. PICK s : s = v.state
  OBVIOUS
<1>3. StateOK(s) /\ \A u \in Names(s) : IsStored(u)
  BY <1>2, HasVersion
<1>4. PICK w : w = job[d].write
  OBVIOUS
<1>5. c = Change(s, d, w)
  BY <1>2, <1>4
<1>6. CASE Putting(job[d])
  <2>1. FilesEntry(job[d], d)
    BY <1>1, <1>6 DEF WriteOK, Putting
  <2>2. PICK up : up = job[d].up
    OBVIOUS
  <2>3. up \in Minted(d) /\ IsStored(up) /\ up \in Upload /\ BringsFile(w, up)
    BY <1>4, <2>1, <2>2 DEF FilesEntry, IsStored
  <2>4. up \notin Names(s)
    BY <1>2, <2>1, <2>2 DEF FilesEntry, AllNames
  <2>5. /\ Changed(s, c.state, {up}, {}, {})
        /\ BoundRefs(s.ix) \subseteq BoundRefs(c.state.ix)
        /\ c.out = "applied" => up \in BoundRefs(c.state.ix)
    BY <1>3, <1>5, <2>3, <2>4, FileComes
  <2>6. Names(c.state) \subseteq Names(s) \cup {up}
    BY <2>5 DEF Changed, Names
  <2>7. /\ StateOK(c.state) /\ c.state.gone \subseteq Names(s) /\ s.gone \ c.state.gone = {}
        /\ \A u \in BoundRefs(c.state.ix) : u \in BoundRefs(s.ix) \/ u = up
    BY <2>5 DEF Changed
  <2> QED  BY <1>2, <1>3, <1>6, <2>2, <2>3, <2>5, <2>6, <2>7 DEF Makes
<1>7. CASE ~Putting(job[d])
  <2>1. \E notes, drops : /\ Changed(s, c.state, {}, notes, drops)
                          /\ notes \subseteq Minted(d) /\ (\A u \in notes : IsStored(u))
                          /\ drops \subseteq fate.told
    <3>1. CASE w.type = "entry"
      <4>1. BringsNone(w)
        BY <1>1, <1>4, <1>7, <3>1, HasJob DEF WriteOK, Putting, FoldersEntry
      <4>2. Changed(s, c.state, {}, {}, {})
        BY <1>3, <1>5, <4>1, NoFileComes
      <4> QED  BY <4>2
    <3>2. CASE w.type = "note"
      <4>1. w.up \in Minted(d) /\ IsStored(w.up) /\ w.up \in Upload
        BY <1>1, <1>4, <3>2 DEF WriteOK, IsStored
      <4>2. Changed(s, c.state, {}, {w.up}, {})
        BY <1>3, <1>5, <3>2, <4>1, NoteIsAdded
      <4> QED  BY <4>1, <4>2
    <3>3. CASE w.type = "drop"
      <4>1. w.ups \subseteq fate.told
        BY <1>1, <1>4, <3>3 DEF WriteOK
      <4>2. Changed(s, c.state, {}, {}, w.ups)
        BY <1>3, <1>5, <3>3, NotesLeave
      <4> QED  BY <4>1, <4>2
    <3> QED  BY <1>1, <1>4, <3>1, <3>2, <3>3 DEF WriteOK
  <2>2. PICK notes : \E drops : /\ Changed(s, c.state, {}, notes, drops)
                                /\ notes \subseteq Minted(d) /\ (\A u \in notes : IsStored(u))
                                /\ drops \subseteq fate.told
    BY <2>1
  <2>3. PICK drops : /\ Changed(s, c.state, {}, notes, drops)
                     /\ notes \subseteq Minted(d) /\ (\A u \in notes : IsStored(u))
                     /\ drops \subseteq fate.told
    BY <2>2
  <2>4. Names(c.state) \subseteq Names(s) \cup notes
    BY <2>3 DEF Changed, Names
  <2>5. /\ StateOK(c.state) /\ c.state.gone \subseteq Names(s) \cup notes
        /\ s.gone \ c.state.gone \subseteq drops
        /\ BoundRefs(c.state.ix) \subseteq BoundRefs(s.ix)
    BY <2>3 DEF Changed
  <2> QED  BY <1>2, <1>3, <1>7, <2>3, <2>4, <2>5 DEF Makes
<1> QED  BY <1>6, <1>7

\* Contents that are in the account or the Safe stay there, or are given up or
\* taken.
LEMMA HadStays ==
  ASSUME IInv, \A u : Known(u) => carries'[u] = carries[u],
         fate.given \subseteq fate'.given, fate.taken \subseteq fate'.taken,
         Lost(account.ix, account'.ix) \subseteq fate'.given \cup fate'.taken,
         Lost(slot.state.ix, slot'.state.ix) \subseteq fate'.given \cup fate'.taken
  PROVE  AccountHas \subseteq AccountHas' /\ SafeHas \subseteq SafeHas'
<1>1. AccountHas \subseteq AccountHas'
  <2>1. ASSUME NEW u \in BoundRefs(account.ix)  PROVE carries[u] \in AccountHas'
    <3>1. carries'[u] = carries[u]
      BY DEF IInv, AccountOK
    <3>2. CASE u \in BoundRefs(account'.ix)
      BY <3>1, <3>2 DEF AccountHas
    <3>3. CASE u \notin BoundRefs(account'.ix)
      BY <3>3 DEF AccountHas, Lost
    <3> QED  BY <3>2, <3>3
  <2> QED  BY <2>1 DEF AccountHas
<1>2. SafeHas \subseteq SafeHas'
  <2>1. ASSUME NEW u \in BoundRefs(slot.state.ix)  PROVE carries[u] \in SafeHas'
    <3>1. carries'[u] = carries[u]
      <4>1. slot \in Shown /\ u \in Names(slot.state)
        BY DEF Shown, Names
      <4> QED  BY <4>1, HasVersion
    <3>2. CASE u \in BoundRefs(slot'.state.ix)
      BY <3>1, <3>2 DEF SafeHas
    <3>3. CASE u \notin BoundRefs(slot'.state.ix)
      BY <3>3 DEF SafeHas, Lost
    <3> QED  BY <3>2, <3>3
  <2> QED  BY <2>1 DEF SafeHas
<1> QED  BY <1>1, <1>2

\* What was acked stays acked and had.
LEMMA AckedStays ==
  ASSUME IInv, Frame, fate'.acked \subseteq fate.acked \cup AccountHas' \cup SafeHas'
  PROVE  EditsStay'
<1>1. fate.acked \subseteq AccountHas \cup SafeHas
  BY DEF IInv, EditsStay, Present, SafeState, AccountHas, SafeHas
<1>2. fate'.acked \subseteq AccountHas' \cup SafeHas'
  BY <1>1 DEF Frame
<1> QED  BY <1>2 DEF EditsStay, Present, SafeState, AccountHas, SafeHas

\* A step of one job that leaves the slot as it is.
OffSlot(d, k, v) ==
  /\ Turns(d, k, v)
  /\ UNCHANGED <<slot, delayed, aged>>
  /\ DOMAIN seen' = Device /\ DOMAIN fate' = DOMAIN fate
  /\ v \in Shown /\ v.rev # 0
  /\ {k.safe, k.cur} \subseteq Shown \cup {Blank}

\* It brings up no state of the Safe.
LEMMA OffSlotNames ==
  ASSUME IInv, NEW d \in Device, NEW k, NEW v, OffSlot(d, k, v)
  PROVE  AllNames' \subseteq AllNames /\ Shown' \subseteq Shown \cup {Blank}
<1>1. Shown' \subseteq Shown \cup {Blank}
  <2>1. slot \in Shown /\ slot' = slot
    BY DEF Shown, OffSlot
  <2>2. Shown' \subseteq Shown \cup {Blank, slot}
    BY <2>1, ShownStays DEF OffSlot
  <2> QED  BY <2>1, <2>2
<1>2. ASSUME NEW w \in Shown' \cup delayed'  PROVE Names(w.state) \subseteq AllNames
  <2>1. CASE w \in Shown \cup delayed
    BY <2>1 DEF AllNames
  <2>2. CASE w = Blank
    BY <2>2, BlankIs
  <2> QED  BY <1>1, <1>2, <2>1, <2>2 DEF OffSlot
<1> QED  BY <1>1, <1>2 DEF AllNames

\* It keeps the invariant when it keeps its parts.
LEMMA OffSlotKeeps ==
  ASSUME IInv, NEW d \in Device, NEW k, NEW v, OffSlot(d, k, v), Frame,
         AccountOK', UploadsKept', JobOK(k, d)', BoundKept',
         fate'.acked \subseteq fate.acked \cup AccountHas' \cup SafeHas'
  PROVE  IInv'
<1>1. /\ FieldsOK /\ SlotOK /\ UploadsKept /\ JobsOK /\ Turns(d, k, v)
      /\ slot' = slot /\ delayed' = delayed
  BY DEF IInv, OffSlot
<1>2. AllNames' \subseteq AllNames /\ Shown' \subseteq Shown \cup {Blank}
  BY OffSlotNames
<1>3. SlotOK'
  <2>1. \A x \in Device : open'[x].rev # 0
    BY <1>1 DEF Turns, OffSlot, SlotOK
  <2> QED  BY <1>1, <1>2, <2>1, SlotStays
<1>4. JobsOK'
  BY <1>1, <1>2, JobsStay
<1>5. EditsStay'
  BY AckedStays
<1>6. FieldsOK'
  <2>1. \A x \in Device : DOMAIN job'[x] = DOMAIN Idle
    BY <1>1 DEF FieldsOK, Turns
  <2> QED  BY <1>1, <2>1 DEF FieldsOK, Turns, OffSlot
<1> QED  BY <1>3, <1>4, <1>5, <1>6 DEF IInv

\* What a file of the Safe may come to have is stored.
LEMMA ClaimsAreStored ==
  ASSUME IInv, NEW u \in MayBeBound
  PROVE  IsStored(u)
<1> DEFINE Had   == BoundRefs(slot.state.ix)
           Late  == UNION {BoundRefs(p.state.ix) : p \in {q \in delayed : q.rev = slot.rev}}
           Asked == {job[d].up : d \in {x \in Device : Putting(job[x])}}
<1>1. CASE u \in Had
  <2>1. slot \in Shown /\ u \in Names(slot.state)
    BY <1>1 DEF Shown, Names
  <2> QED  BY <2>1, HasVersion
<1>2. CASE u \in Late
  BY <1>2 DEF IInv, SlotOK, DelayedOK, NamesStored, Names
<1>3. CASE u \in Asked
  <2>1. PICK d \in Device : Putting(job[d]) /\ u = job[d].up
    BY <1>3
  <2>2. WriteOK(job[d], d)
    BY <2>1, HasJob DEF PhaseOK, Putting
  <2> QED  BY <2>1, <2>2 DEF WriteOK, Putting, FilesEntry
<1>4. MayBeBound = Had \cup Late \cup Asked
  BY DEF MayBeBound
<1> HIDE DEF Had, Late, Asked
<1> QED  BY <1>1, <1>2, <1>3, <1>4

\* Nothing that the uploads carry changes, nor the account or the Safe.
LEMMA HasTheSame ==
  ASSUME UNCHANGED <<account, slot, carries>>,
         fate'.given = fate.given, fate'.taken = fate.taken
  PROVE  AccountHas' = AccountHas /\ SafeHas' = SafeHas
BY DEF AccountHas, SafeHas

\* The cleanup lets uploads go: none that may be bound and is not old.
LEMMA SweepReleaseKeeps ==
  ASSUME IInv, NEW d \in Device, SweepRelease(d)
  PROVE  IInv'
<1>1. /\ job[d].phase = "release"
      /\ \A u \in Upload : stored'[u] = IF u \in job[d].release /\ stored[u] = "committed"
                                        THEN "released" ELSE stored[u]
      /\ stored' = [u \in Upload |-> stored'[u]]
      /\ fate' = [fate EXCEPT !.told = @ \cup job[d].release]
      /\ GoesOn(d, "keep")
      /\ UNCHANGED <<account, seen, slot, open, delayed, aged, minted, carries>>
  BY DEF SweepRelease, GoesOn
<1>2. /\ fate'.told = fate.told \cup job[d].release /\ DOMAIN fate' = DOMAIN fate
      /\ fate'.acked = fate.acked /\ fate'.given = fate.given /\ fate'.taken = fate.taken
  BY <1>1 DEF IInv, FieldsOK
<1>3. PICK k : k = job'[d]
  OBVIOUS
<1>4. /\ Turns(d, k, slot) /\ ItemsOK(k) /\ MovedIsThere(k)
      /\ k.phase = "keep" /\ k.kind = job[d].kind
      /\ k.safe = job[d].safe /\ k.cur = job[d].cur
  BY <1>1, <1>3, PhaseTurns
<1>5. /\ job[d].cur.state.gone \subseteq fate.told \cup job[d].release
      /\ job[d].release \cap MayBeBound \subseteq aged
      /\ job[d].safe.rev # 0 /\ job[d].cur.rev # 0
  BY <1>1, HasJob DEF PhaseOK
<1>6. MayBeBound' \subseteq MayBeBound
  BY <1>1, <1>4, ClaimsStay DEF Putting
<1>7. \A u : IsStored(u)' <=> IsStored(u)
  BY <1>1 DEF IsStored
<1>8. MintsMore /\ \A u : Known(u) => Known(u)'
  BY <1>1, MintFacts, KnownStays DEF IInv
<1>9. AccountHas' = AccountHas /\ SafeHas' = SafeHas
  BY <1>1, <1>2, HasTheSame
<1>10. Frame
  BY <1>1, <1>2, <1>6, <1>7, <1>8, <1>9 DEF Frame
<1>11. AccountOK'
  BY <1>1, <1>10, AccountStays DEF IInv
<1>12. UploadsKept'
  <2>1. stored' \in [Upload -> {"none", "committed", "released"}]
    BY <1>1 DEF IInv, UploadsKept
  <2>2. \A u \in Upload : stored'[u] # "none" => Known(u)'
    BY <1>1, <1>8 DEF IInv, UploadsKept
  <2>3. \A u \in Upload : stored'[u] = "released" => u \in fate'.told
    BY <1>1, <1>2 DEF IInv, UploadsKept
  <2> QED  BY <1>1, <1>7, <2>1, <2>2, <2>3 DEF IInv, UploadsKept
<1>13. JobOK(k, d)'
  <2>1. ItemsOK(k)' /\ MovedIsThere(k)'
    BY <1>4, <1>10, ItemsStay, MovedStays
  <2>2. PhaseOK(k, d)'
    BY <1>2, <1>4, <1>5 DEF PhaseOK, Phases
  <2> QED  BY <2>1, <2>2 DEF JobOK
<1>14. BoundKept'
  <2>1. \A u \in MayBeBound : u \in Upload
    BY ClaimsAreStored DEF IsStored
  <2> QED  BY <1>1, <1>5, <1>6, <2>1 DEF IInv, BoundKept
<1>15. OffSlot(d, k, slot)
  BY <1>1, <1>2, <1>4, HasJob DEF OffSlot
<1> QED  BY <1>2, <1>10, <1>11, <1>12, <1>13, <1>14, <1>15, OffSlotKeeps

\* It takes back what the Safe has.
LEMMA SweepKeepKeeps ==
  ASSUME IInv, NEW d \in Device, SweepKeep(d)
  PROVE  IInv'
<1>1. /\ job[d].phase = "keep"
      /\ \A u \in Upload : stored'[u] = IF u \in job[d].keep /\ stored[u] = "released"
                                        THEN "committed" ELSE stored[u]
      /\ stored' = [u \in Upload |-> stored'[u]]
      /\ UNCHANGED <<account, seen, slot, delayed, aged, minted, carries, fate>>
      /\ \/ /\ job' = [job EXCEPT ![d] = [@ EXCEPT !.phase = "put",
                                            !.write = Dropped(job[d].cur.state.gone)]]
            /\ UNCHANGED open
         \/ SweepDone(d, job[d].cur)
  BY DEF SweepKeep
<1>2. /\ job[d].cur.state.gone \subseteq fate.told
      /\ job[d].safe.rev # 0 /\ job[d].cur.rev # 0
  BY <1>1, HasJob DEF PhaseOK
<1>3. PICK v : v = job[d].cur
  OBVIOUS
<1>4. PICK k : /\ Turns(d, k, v) /\ JobOK(k, d) /\ ~Putting(k)
               /\ {k.safe, k.cur} \subseteq Shown \cup {Blank}
  <2>1. CASE /\ job' = [job EXCEPT ![d] = [@ EXCEPT !.phase = "put",
                                             !.write = Dropped(job[d].cur.state.gone)]]
             /\ UNCHANGED open
    <3>1. PICK w : w = Dropped(job[d].cur.state.gone)
      OBVIOUS
    <3>2. w.type = "drop" /\ w.ups = job[d].cur.state.gone
      BY <3>1 DEF Dropped
    <3>3. PICK k : k = job'[d]
      OBVIOUS
    <3>4. /\ DOMAIN k = DOMAIN Idle /\ k.phase = "put" /\ k.write = w /\ k.kind = job[d].kind
          /\ k.items = job[d].items /\ k.item = job[d].item
          /\ k.safe = job[d].safe /\ k.cur = job[d].cur
      BY <2>1, <3>1, <3>3, HasJob, IdleIs
    <3>5. ItemsOK(k) /\ MovedIsThere(k)
      BY <3>4, HasJob, SameWork DEF PutThere
    <3>6. WriteOK(k, d)
      BY <1>2, <3>2, <3>4 DEF WriteOK
    <3>7. PhaseOK(k, d)
      BY <1>2, <3>4, <3>6 DEF PhaseOK, Phases
    <3>8. Turns(d, k, v)
      BY <2>1, <3>3, <3>4, HasJob DEF Turns
    <3> QED  BY <3>2, <3>4, <3>5, <3>7, <3>8, HasJob DEF JobOK, Putting
  <2>2. CASE SweepDone(d, job[d].cur)
    <3>1. PICK k : /\ Turns(d, k, v) /\ JobOK(k, d) /\ ~Putting(k)
                   /\ k.safe \in {v, Blank} /\ k.cur \in Shown \cup {Blank}
      BY <1>1, <1>2, <1>3, <2>2, SweepTurns
    <3> QED  BY <1>3, <3>1, HasJob
  <2> QED  BY <1>1, <2>1, <2>2
<1>5. MayBeBound' \subseteq MayBeBound
  BY <1>1, <1>4, ClaimsStay
<1>6. \A u : IsStored(u)' <=> IsStored(u)
  BY <1>1 DEF IsStored
<1>7. MintsMore /\ \A u : Known(u) => Known(u)'
  BY <1>1, MintFacts, KnownStays DEF IInv
<1>8. AccountHas' = AccountHas /\ SafeHas' = SafeHas
  BY <1>1, HasTheSame
<1>9. Frame
  BY <1>1, <1>5, <1>6, <1>7, <1>8 DEF Frame
<1>10. AccountOK'
  BY <1>1, <1>9, AccountStays DEF IInv
<1>11. UploadsKept'
  <2>1. stored' \in [Upload -> {"none", "committed", "released"}]
    BY <1>1 DEF IInv, UploadsKept
  <2>2. \A u \in Upload : stored'[u] # "none" => Known(u)'
    BY <1>1, <1>7 DEF IInv, UploadsKept
  <2>3. \A u \in Upload : stored'[u] = "released" => u \in fate'.told
    BY <1>1 DEF IInv, UploadsKept
  <2> QED  BY <1>1, <1>6, <2>1, <2>2, <2>3 DEF IInv, UploadsKept
<1>12. OffSlot(d, k, v)
  BY <1>1, <1>2, <1>3, <1>4, HasJob DEF OffSlot
<1>13. JobOK(k, d)'
  BY <1>4, <1>9, JobStays DEF IInv
<1>14. BoundKept'
  <2>1. \A u \in MayBeBound : u \in Upload
    BY ClaimsAreStored DEF IsStored
  <2> QED  BY <1>1, <1>5, <2>1 DEF IInv, BoundKept
<1> QED  BY <1>1, <1>9, <1>10, <1>11, <1>12, <1>13, <1>14, OffSlotKeeps

\* An entry of the account is one its rules admit.
LEMMA InAccountIs ==
  ASSUME IInv, NEW d \in Device, NEW ops
  PROVE  /\ IndexAt(account.ix, account.head)
         /\ \E e : /\ EntryOK(e) /\ e.seq = account.head + 1 /\ e.sub = 0
                   /\ InAccount(d, ops) = Apply(account.ix, e, ops)
<1>1. IndexAt(account.ix, account.head) /\ account.head \in Nat /\ seen[d].head \in Nat
  BY DEF IInv, AccountOK, IndexAt
<1> DEFINE e == [seq |-> account.head + 1, dev |-> d, sub |-> 0, rules |-> 3,
                 base |-> seen[d].head]
<1>2. EntryOK(e) /\ e.seq = account.head + 1 /\ e.sub = 0
  BY <1>1 DEF EntryOK
<1>3. InAccount(d, ops) = Apply(account.ix, e, ops)
  BY DEF InAccount
<1> HIDE DEF e
<1> QED  BY <1>1, <1>2, <1>3

\* A group of a stored upload and the operation that uses it.
Storing(up, op) == Stores(up) \o <<op>>

\* What it consists of.
LEMMA StoresIs ==
  ASSUME NEW up, NEW op, op.up = up, NEW ops, ops = Storing(up, op)
  PROVE  UsesStored(ops, up) /\ ops[3] = op
<1> DEFINE a == [type |-> "upload_begin", up |-> up]
           b == [type |-> "upload_commit", up |-> up]
<1>1. Stores(up) = <<a, b>>
  BY DEF Stores
<1> HIDE DEF a, b
<1>2. ops = <<a, b>> \o <<op>>
  BY <1>1 DEF Storing
<1>3. <<a, b>> \in Seq({a, b, op}) /\ <<op>> \in Seq({a, b, op})
  OBVIOUS
<1>4. /\ Len(<<a, b>>) = 2 /\ <<a, b>>[1] = a /\ <<a, b>>[2] = b
      /\ Len(<<op>>) = 1 /\ <<op>>[1] = op
  OBVIOUS
<1> DEFINE s == <<a, b>>
           t == <<op>>
<1>5. /\ s \in Seq({a, b, op}) /\ t \in Seq({a, b, op}) /\ ops = s \o t
      /\ Len(s) = 2 /\ s[1] = a /\ s[2] = b /\ Len(t) = 1 /\ t[1] = op
  BY <1>2, <1>3, <1>4
<1> HIDE DEF s, t
<1>6. Len(ops) = 3 /\ ops[1] = a /\ ops[2] = b /\ ops[3] = op
  <2> DEFINE S == {a, b, op}
             both == s \o t
  <2>1. s \in Seq(S) /\ t \in Seq(S)
    BY <1>5
  <2> HIDE DEF S
  <2>2. /\ Len(both) = Len(s) + Len(t)
        /\ \A i \in 1 .. Len(s) + Len(t) : both[i] = IF i <= Len(s) THEN s[i] ELSE t[i - Len(s)]
    BY <2>1, ConcatProperties
  <2>3. ops = both
    BY <1>5
  <2> HIDE DEF both
  <2>4. Len(ops) = Len(s) + Len(t)
    BY <2>2, <2>3
  <2>5. \A i \in 1 .. Len(s) + Len(t) : ops[i] = IF i <= Len(s) THEN s[i] ELSE t[i - Len(s)]
    BY <2>2, <2>3
  <2>6. 1 \in 1 .. 3 /\ 2 \in 1 .. 3 /\ 3 \in 1 .. 3 /\ 3 - 2 = 1
    OBVIOUS
  <2>7. ops[1] = a
    <3>1. ops[1] = IF 1 <= Len(s) THEN s[1] ELSE t[1 - Len(s)]
      BY <1>5, <2>5, <2>6
    <3> QED  BY <1>5, <3>1
  <2>8. ops[2] = b
    <3>1. ops[2] = IF 2 <= Len(s) THEN s[2] ELSE t[2 - Len(s)]
      BY <1>5, <2>5, <2>6
    <3> QED  BY <1>5, <3>1
  <2>9. ops[3] = op
    <3>1. ops[3] = IF 3 <= Len(s) THEN s[3] ELSE t[3 - Len(s)]
      BY <1>5, <2>5, <2>6
    <3> QED  BY <1>5, <2>6, <3>1
  <2> QED  BY <1>5, <2>4, <2>7, <2>8, <2>9
<1> QED  BY <1>6 DEF UsesStored, a, b

\* The operation of a new file.
LEMMA CreateFileIs ==
  ASSUME NEW id \in UserNode, NEW name \in NameSet, NEW parent, NEW up \in Upload,
         NEW op, op = CreateFile(id, name, parent, up)
  PROVE  OpOK(op) /\ op.type = "create" /\ op.kind = "file" /\ op.up = up
<1>1. (CHOOSE l \in Loc : TRUE) \in Loc
  BY SomeNameAndPlace
<1>2. /\ op.type = "create" /\ op.kind = "file" /\ op.node = id /\ op.name = name
      /\ op.up = up /\ op.loc \in Loc
  BY <1>1 DEF CreateFile
<1> QED  BY <1>2 DEF OpOK

\* An entry of the account that leaves the Safe alone, with what it takes of
\* the account accounted for.
Appends(d, r) ==
  /\ Submit(d, r)
  /\ UNCHANGED <<slot, delayed, stored, aged>>
  /\ MintsMore
  /\ carries' \in [Upload -> Upload \cup {None}]
  /\ \A u : Known(u) => carries'[u] = carries[u]
  /\ fate'.told = fate.told /\ DOMAIN fate' = DOMAIN fate
  /\ fate.given \subseteq fate'.given /\ fate.taken \subseteq fate'.taken
  /\ Lost(account.ix, r.ix) \subseteq fate'.given \cup fate'.taken
  /\ IndexAt(r.ix, account.head + 1)
  /\ \A u \in BoundRefs(r.ix) : Known(u)'

\* The other jobs may go on after it.
LEMMA AppendsFrame ==
  ASSUME IInv, NEW d \in Device, NEW r, Appends(d, r), MayBeBound' \subseteq MayBeBound
  PROVE  Frame
<1>1. account'.ix = r.ix /\ slot'.state.ix = slot.state.ix
  BY DEF Appends, Submit
<1>2. AccountHas \subseteq AccountHas' /\ SafeHas \subseteq SafeHas'
  <2>1. Lost(slot.state.ix, slot'.state.ix) = {}
    BY <1>1 DEF Lost
  <2> QED  BY <1>1, <2>1, HadStays DEF Appends
<1>3. \A u : IsStored(u)' <=> IsStored(u)
  BY DEF Appends, IsStored
<1>4. \A u : Known(u) => Known(u)'
  BY KnownStays DEF Appends, IInv
<1> QED  BY <1>2, <1>3, <1>4 DEF Frame, Appends

\* It keeps the invariant, when its author's job is in order.
LEMMA AppendsKeep ==
  ASSUME IInv, NEW d \in Device, NEW r, Appends(d, r), NEW k, NEW v, Turns(d, k, v),
         v \in Shown, v.rev # 0, {k.safe, k.cur} \subseteq Shown \cup {Blank},
         Putting(k) => Putting(job[d]) /\ k.up = job[d].up,
         ItemsOK(k), PhaseOK(k, d), MovedIsThere(k)',
         fate'.acked \subseteq fate.acked \cup AccountHas' \cup SafeHas'
  PROVE  IInv'
<1>1. MayBeBound' \subseteq MayBeBound
  BY ClaimsStay DEF Appends
<1>2. Frame
  BY <1>1, AppendsFrame
<1>3. /\ account'.ix = r.ix /\ account'.head = account.head + 1
      /\ seen' = [seen EXCEPT ![d] = account']
  BY DEF Appends, Submit
<1>4. DOMAIN seen' = Device /\ \A x \in Device : seen'[x] \in {seen[x], account'}
  BY <1>3 DEF IInv, FieldsOK
<1>5. AccountOK'
  <2>1. account.head \in Nat
    BY DEF IInv, AccountOK, IndexAt
  <2>2. IndexAt(account'.ix, account'.head) /\ \A u \in BoundRefs(account'.ix) : Known(u)'
    BY <1>3 DEF Appends
  <2>3. ASSUME NEW x \in Device
        PROVE  /\ IndexAt(seen'[x].ix, seen'[x].head)
               /\ seen'[x].head <= account'.head
               /\ \A u \in BoundRefs(seen'[x].ix) : Known(u)'
    <3>1. CASE seen'[x] = account'
      BY <1>3, <2>1, <2>2, <3>1
    <3>2. CASE seen'[x] = seen[x]
      <4>1. /\ IndexAt(seen[x].ix, seen[x].head) /\ seen[x].head \in Nat
            /\ seen[x].head <= account.head
            /\ \A u \in BoundRefs(seen[x].ix) : Known(u)'
        BY <1>2 DEF IInv, AccountOK, IndexAt, Frame
      <4> QED  BY <1>3, <2>1, <3>2, <4>1
    <3> QED  BY <1>4, <3>1, <3>2
  <2> QED  BY <2>2, <2>3 DEF AccountOK
<1>6. UploadsKept'
  <2>1. \A u : Known(u) => Known(u)'
    BY <1>2 DEF Frame
  <2>2. \A u : IsStored(u)' <=> IsStored(u)
    BY DEF Appends, IsStored
  <2> QED  BY <2>1, <2>2 DEF IInv, UploadsKept, Appends, MintsMore
<1>7. BoundKept'
  BY <1>1 DEF IInv, BoundKept, Appends
<1>8. OffSlot(d, k, v)
  BY <1>4 DEF OffSlot, Appends
<1>9. JobOK(k, d)'
  <2>1. AllNames' \subseteq AllNames
    BY <1>8, OffSlotNames
  <2> QED  BY <1>2, <2>1, ItemsStay, PhaseStays DEF JobOK, IInv
<1> QED  BY <1>2, <1>5, <1>6, <1>7, <1>8, <1>9, OffSlotKeeps

\* The purge of a move.
Purges(d, ops, r) ==
  /\ r = InAccount(d, ops)
  /\ Submit(d, r)
  /\ fate' = [fate EXCEPT !.taken = @ \cup Lost(account.ix, r.ix)]
  /\ UNCHANGED <<slot, delayed, stored, aged, minted, carries>>

\* What it removes of the account is accounted for.
LEMMA PurgesAppend ==
  ASSUME IInv, NEW d \in Device, NEW ops, Deletes(ops), NEW r, Purges(d, ops, r)
  PROVE  Appends(d, r) /\ fate'.acked = fate.acked
<1>1. /\ fate'.told = fate.told /\ fate'.given = fate.given /\ fate'.acked = fate.acked
      /\ DOMAIN fate' = DOMAIN fate
      /\ fate'.taken = fate.taken \cup Lost(account.ix, r.ix)
  <2>1. DOMAIN fate = {"acked", "given", "taken", "told"}
    BY DEF IInv, FieldsOK
  <2> QED  BY <2>1 DEF Purges
<1>2. IndexAt(r.ix, account.head + 1) /\ BoundRefs(r.ix) \subseteq BoundRefs(account.ix)
  <2>1. PICK e : /\ EntryOK(e) /\ e.seq = account.head + 1 /\ e.sub = 0
                 /\ InAccount(d, ops) = Apply(account.ix, e, ops)
    BY InAccountIs
  <2>2. IndexAt(account.ix, account.head)
    BY InAccountIs
  <2> QED  BY <2>1, <2>2, DeletesEntry DEF Purges
<1>3. MintsMore
  BY DEF Purges, MintsMore, IInv, UploadsKept
<1>4. \A u \in BoundRefs(r.ix) : Known(u)'
  BY <1>2, <1>3, KnownStays DEF IInv, AccountOK
<1>5. Submit(d, r) /\ UNCHANGED <<slot, delayed, stored, aged, carries>>
  BY DEF Purges
<1>6. carries' \in [Upload -> Upload \cup {None}]
  BY <1>5 DEF IInv, UploadsKept
<1> QED  BY <1>1, <1>2, <1>3, <1>4, <1>5, <1>6 DEF Appends

\* A file that was moved in is purged.
LEMMA MovePurgeKeeps ==
  ASSUME IInv, NEW d \in Device, Purge(d)
  PROVE  IInv'
<1> DEFINE ops == Delete(job[d].item.id)
<1>1. PICK r : Purges(d, ops, r) /\ UNCHANGED open
  BY DEF Purge, Purges
<1>2. Deletes(ops)
  BY DEF Deletes, Delete
<1> HIDE DEF ops
<1>3. Appends(d, r) /\ fate'.acked = fate.acked
  BY <1>1, <1>2, PurgesAppend
<1>4. job[d].phase = "purge" /\ (GoesOn(d, "next") \/ Ends(d))
  BY <1>1 DEF Purge, GoesOn
<1>5. PutThere(job[d]) /\ job[d].kind = "in" /\ job[d].safe.rev # 0
  BY <1>4, HasJob DEF PhaseOK, PutThere
<1>6. \E k : /\ Turns(d, k, slot) /\ ItemsOK(k) /\ MovedIsThere(k) /\ PhaseOK(k, d) /\ ~Putting(k)
             /\ {k.safe, k.cur} \subseteq Shown \cup {Blank}
  <2>1. CASE GoesOn(d, "next")
    <3>1. PICK k : k = job'[d]
      OBVIOUS
    <3>2. /\ Turns(d, k, slot) /\ ItemsOK(k) /\ MovedIsThere(k)
          /\ k.phase = "next" /\ k.kind = job[d].kind
          /\ k.safe = job[d].safe /\ k.cur = job[d].cur
      BY <1>5, <2>1, <3>1, PhaseTurns
    <3>3. PhaseOK(k, d) /\ ~Putting(k)
      BY <1>5, <3>2 DEF PhaseOK, Phases, Putting
    <3> QED  BY <3>2, <3>3, HasJob
  <2>2. CASE Ends(d)
    <3>1. Turns(d, Idle, slot) /\ JobOK(Idle, d) /\ ~Putting(Idle)
      BY <1>1, <2>2, EndsTurns
    <3> QED  BY <3>1, IdleIs DEF JobOK
  <2> QED  BY <1>4, <2>1, <2>2
<1>7. PICK k : /\ Turns(d, k, slot) /\ ItemsOK(k) /\ MovedIsThere(k) /\ PhaseOK(k, d) /\ ~Putting(k)
               /\ {k.safe, k.cur} \subseteq Shown \cup {Blank}
  BY <1>6
<1>8. MayBeBound' \subseteq MayBeBound
  BY <1>3, <1>7, ClaimsStay DEF Appends
<1>9. MovedIsThere(k)'
  BY <1>3, <1>7, <1>8, AppendsFrame, MovedStays
<1> QED  BY <1>3, <1>7, <1>9, HasJob, AppendsKeep

\* A moved folder is purged.
LEMMA PurgeFoldersKeeps ==
  ASSUME IInv, NEW d \in Device, PurgeFolders(d)
  PROVE  IInv'
<1> DEFINE ops == Delete(CHOOSE n \in job[d].tops : TRUE)
<1>1. PICK r : /\ Purges(d, ops, r)
               /\ EndsWith(d, job[d].safe) \/ (Ends(d) /\ UNCHANGED open)
  BY DEF PurgeFolders, Purges
<1>2. Deletes(ops)
  BY DEF Deletes, Delete
<1> HIDE DEF ops
<1>3. Appends(d, r) /\ fate'.acked = fate.acked
  BY <1>1, <1>2, PurgesAppend
<1>4. job[d].safe.rev # 0
  BY HasJob DEF PurgeFolders, PhaseOK
<1>5. Turns(d, Idle, job[d].safe) /\ JobOK(Idle, d) /\ ~Putting(Idle)
  BY <1>1, EndsTurns DEF EndsWith
<1>6. MayBeBound' \subseteq MayBeBound
  BY <1>3, <1>5, ClaimsStay DEF Appends
<1>7. MovedIsThere(Idle)'
  BY <1>3, <1>5, <1>6, AppendsFrame, MovedStays DEF JobOK
<1> QED  BY <1>3, <1>4, <1>5, <1>7, HasJob, IdleIs, AppendsKeep DEF JobOK

\* A folder of the Safe comes to the account.
LEMMA FolderOutKeeps ==
  ASSUME IInv, NEW d \in Device, FolderOut(d)
  PROVE  IInv'
<1>1. PICK it \in {i \in Ready(d) : i.kind = "folder"} :
        \E r \in {InAccount(d, <<CreateFolder(Fresh(d), it.name, Into(d, it))>>)} :
          /\ Submit(d, r)
          /\ \/ job' = [job EXCEPT ![d] = Placed(Without(@, it), it, Fresh(d))]
             \/ Ends(d)
  BY DEF FolderOut
<1>2. PICK r \in {InAccount(d, <<CreateFolder(Fresh(d), it.name, Into(d, it))>>)} :
          /\ Submit(d, r)
          /\ \/ job' = [job EXCEPT ![d] = Placed(Without(@, it), it, Fresh(d))]
             \/ Ends(d)
  BY <1>1
<1>3. /\ job[d].phase = "next" /\ job[d].kind = "out" /\ Mints(d)
      /\ UNCHANGED <<slot, open, delayed, stored, aged, carries, fate>>
  BY DEF FolderOut
<1>4. PICK id : id = Fresh(d)
  OBVIOUS
<1>5. MintsMore /\ id \in UserNode
  BY <1>3, <1>4, MintFacts
<1>6. it \in Ready(d) /\ it.kind = "folder" /\ it \in job[d].items
  BY <1>1 DEF Ready
<1>7. it.name \in NameSet /\ it.up = None
  BY <1>6, HasJob DEF ItemsOK, ItemOK
<1>8. job[d].safe.rev # 0
  BY <1>3, HasJob DEF PhaseOK
<1>9. IndexAt(r.ix, account.head + 1) /\ BoundRefs(r.ix) = BoundRefs(account.ix)
  <2> DEFINE ops == <<CreateFolder(id, it.name, Into(d, it))>>
  <2>1. AddsFolder(ops)
    BY <1>5, <1>7, EntriesAreOK
  <2>2. r = InAccount(d, ops)
    BY <1>2, <1>4
  <2> HIDE DEF ops
  <2>3. PICK e : /\ EntryOK(e) /\ e.seq = account.head + 1 /\ e.sub = 0
                 /\ InAccount(d, ops) = Apply(account.ix, e, ops)
    BY InAccountIs
  <2>4. IndexAt(account.ix, account.head)
    BY InAccountIs
  <2> QED  BY <2>1, <2>2, <2>3, <2>4, FolderEntry
<1>10. Appends(d, r)
  <2>1. Lost(account.ix, r.ix) = {}
    BY <1>9 DEF Lost
  <2>2. \A u \in BoundRefs(r.ix) : Known(u)'
    BY <1>5, <1>9, KnownStays DEF IInv, AccountOK
  <2>3. carries' \in [Upload -> Upload \cup {None}]
    BY <1>3 DEF IInv, UploadsKept
  <2> QED  BY <1>2, <1>3, <1>5, <1>9, <2>1, <2>2, <2>3 DEF Appends
<1>11. \E k : /\ Turns(d, k, slot) /\ ItemsOK(k) /\ MovedIsThere(k) /\ PhaseOK(k, d) /\ ~Putting(k)
              /\ {k.safe, k.cur} \subseteq Shown \cup {Blank}
  <2>1. CASE job' = [job EXCEPT ![d] = Placed(Without(@, it), it, Fresh(d))]
    <3>1. PICK k : k = Placed(Without(job[d], it), it, id)
      OBVIOUS
    <3>2. /\ DOMAIN k = DOMAIN Idle /\ k.phase = "next" /\ k.kind = "out" /\ k.item = it
          /\ k.safe = job[d].safe /\ k.cur = job[d].cur /\ ItemsOK(k)
      BY <1>3, <1>6, <3>1, PlacedIs
    <3>3. PhaseOK(k, d) /\ MovedIsThere(k) /\ ~Putting(k)
      BY <1>7, <1>8, <3>2 DEF PhaseOK, Phases, MovedIsThere, Putting
    <3>4. Turns(d, k, slot)
      BY <1>3, <1>4, <2>1, <3>1, <3>2, HasJob DEF Turns
    <3> QED  BY <3>2, <3>3, <3>4, HasJob
  <2>2. CASE Ends(d)
    <3>1. Turns(d, Idle, slot) /\ JobOK(Idle, d) /\ ~Putting(Idle)
      BY <1>3, <2>2, EndsTurns
    <3> QED  BY <3>1, IdleIs DEF JobOK
  <2> QED  BY <1>2, <2>1, <2>2
<1>12. PICK k : /\ Turns(d, k, slot) /\ ItemsOK(k) /\ MovedIsThere(k) /\ PhaseOK(k, d) /\ ~Putting(k)
                /\ {k.safe, k.cur} \subseteq Shown \cup {Blank}
  BY <1>11
<1>13. MayBeBound' \subseteq MayBeBound
  BY <1>10, <1>12, ClaimsStay DEF Appends
<1>14. MovedIsThere(k)'
  BY <1>10, <1>12, <1>13, AppendsFrame, MovedStays
<1> QED  BY <1>3, <1>10, <1>12, <1>14, HasJob, AppendsKeep

\* An entry of the account with a stored upload that was not known.
LEMMA StoredAppends ==
  ASSUME IInv, NEW d \in Device, NEW up, up \in Upload, ~Known(up), Known(up)', NEW op, op.up = up,
         OpOK(op), op.type \in {"create", "new_content_version"},
         op.type = "create" => op.kind = "file",
         NEW r, r = InAccount(d, Storing(up, op)), Submit(d, r), MintsMore,
         UNCHANGED <<slot, delayed, stored, aged>>,
         carries' \in [Upload -> Upload \cup {None}],
         \A u \in Upload \ {up} : carries'[u] = carries[u],
         fate'.told = fate.told, DOMAIN fate' = DOMAIN fate, fate'.taken = fate.taken,
         fate.given \subseteq fate'.given,
         \/ fate'.given = fate.given \cup Lost(account.ix, r.ix)
         \/ op.type = "create"
  PROVE  Appends(d, r) /\ (r.out = "applied" => up \in BoundRefs(r.ix))
<1>1. PICK ops : ops = Storing(up, op)
  OBVIOUS
<1>2. UsesStored(ops, up) /\ ops[3] = op
  BY <1>1, StoresIs
<1>3. /\ IndexAt(r.ix, account.head + 1) /\ BoundRefs(r.ix) \subseteq BoundRefs(account.ix) \cup {up}
      /\ r.out = "applied" => up \in BoundRefs(r.ix)
      /\ op.type = "create" => BoundRefs(account.ix) \subseteq BoundRefs(r.ix)
  <2>1. PICK e : /\ EntryOK(e) /\ e.seq = account.head + 1 /\ e.sub = 0
                 /\ InAccount(d, ops) = Apply(account.ix, e, ops)
    BY InAccountIs
  <2>2. IndexAt(account.ix, account.head)
    BY InAccountIs
  <2>3. r = Apply(account.ix, e, ops)
    BY <1>1, <2>1
  <2>4. /\ OpOK(ops[3]) /\ ops[3].type \in {"create", "new_content_version"}
        /\ ops[3].type = "create" => ops[3].kind = "file"
    BY <1>2
  <2>5. /\ IndexAt(r.ix, account.head + 1)
        /\ BoundRefs(r.ix) \subseteq BoundRefs(account.ix) \cup {up}
        /\ r.out = "applied" => up \in BoundRefs(r.ix)
        /\ ops[3].type = "create" => BoundRefs(account.ix) \subseteq BoundRefs(r.ix)
    BY <1>2, <2>1, <2>2, <2>3, <2>4, StoredEntry
  <2> QED  BY <1>2, <2>5
<1>4. \A u \in BoundRefs(r.ix) : Known(u)'
  BY <1>3, KnownStays DEF IInv, AccountOK
<1>5. Lost(account.ix, r.ix) \subseteq fate'.given \cup fate'.taken
  BY <1>3 DEF Lost
<1>6. \A u : Known(u) => carries'[u] = carries[u]
  BY DEF Known
<1> QED  BY <1>3, <1>4, <1>5, <1>6 DEF Appends

\* A file of the Safe comes to the account.
LEMMA FileOutKeeps ==
  ASSUME IInv, NEW d \in Device, FileOut(d)
  PROVE  IInv'
<1>1. PICK it \in {i \in Ready(d) : i.kind = "file"} : \E up \in {Fresh(d)} :
        \E r \in {InAccount(d, Stores(up) \o <<CreateFile(Fresh(d), it.name, Into(d, it), up)>>)} :
          /\ Submit(d, r)
          /\ carries' = [carries EXCEPT ![up] = carries[it.up]]
          /\ \/ /\ r.out = "applied"
                /\ job' = [job EXCEPT ![d] = Writing(Without(@, it),
                             Entered(job[d].safe.state.head, Delete(it.id)))]
             \/ Ends(d)
  BY DEF FileOut
<1>2. PICK up \in {Fresh(d)} :
        \E r \in {InAccount(d, Stores(up) \o <<CreateFile(Fresh(d), it.name, Into(d, it), up)>>)} :
          /\ Submit(d, r)
          /\ carries' = [carries EXCEPT ![up] = carries[it.up]]
          /\ \/ /\ r.out = "applied"
                /\ job' = [job EXCEPT ![d] = Writing(Without(@, it),
                             Entered(job[d].safe.state.head, Delete(it.id)))]
             \/ Ends(d)
  BY <1>1
<1>3. PICK r \in {InAccount(d, Stores(up) \o <<CreateFile(Fresh(d), it.name, Into(d, it), up)>>)} :
          /\ Submit(d, r)
          /\ carries' = [carries EXCEPT ![up] = carries[it.up]]
          /\ \/ /\ r.out = "applied"
                /\ job' = [job EXCEPT ![d] = Writing(Without(@, it),
                             Entered(job[d].safe.state.head, Delete(it.id)))]
             \/ Ends(d)
  BY <1>2
<1>4. /\ job[d].phase = "next" /\ job[d].kind = "out" /\ Mints(d) /\ up = Fresh(d)
      /\ UNCHANGED <<slot, open, delayed, stored, aged, fate>>
  BY <1>2 DEF FileOut
<1>5. MintsMore /\ up \in UserNode /\ up \in Upload /\ ~Known(up) /\ Known(up)'
  BY <1>4, MintFacts
<1>6. it \in Ready(d) /\ it.kind = "file" /\ it \in job[d].items
  BY <1>1 DEF Ready
<1>7. it.name \in NameSet /\ it.up # None /\ Known(it.up)
  BY <1>6, HasJob DEF ItemsOK, ItemOK
<1>8. job[d].safe.rev # 0
  BY <1>4, HasJob DEF PhaseOK
<1>9. it.up \in Upload /\ it.up # up
  BY <1>5, <1>7 DEF Known
<1>10. /\ carries' \in [Upload -> Upload \cup {None}]
       /\ carries'[up] = carries[it.up]
       /\ \A u \in Upload \ {up} : carries'[u] = carries[u]
  <2>1. carries \in [Upload -> Upload \cup {None}] /\ carries[it.up] \in Upload \cup {None}
    BY <1>9 DEF IInv, UploadsKept
  <2> QED  BY <1>3, <1>5, <2>1
<1>11. Appends(d, r) /\ (r.out = "applied" => up \in BoundRefs(r.ix))
  <2>1. PICK op : op = CreateFile(up, it.name, Into(d, it), up)
    OBVIOUS
  <2>2. OpOK(op) /\ op.type = "create" /\ op.kind = "file" /\ op.up = up
    BY <1>5, <1>7, <2>1, CreateFileIs
  <2>3. r = InAccount(d, Storing(up, op))
    BY <1>3, <1>4, <2>1 DEF Storing
  <2>4. op.type \in {"create", "new_content_version"}
    BY <2>2
  <2> QED  BY <1>3, <1>4, <1>5, <1>10, <2>2, <2>3, <2>4, StoredAppends
<1>12. CASE Ends(d)
  <2>1. Turns(d, Idle, slot) /\ JobOK(Idle, d) /\ ~Putting(Idle)
    BY <1>4, <1>12, EndsTurns
  <2>2. MayBeBound' \subseteq MayBeBound
    BY <1>11, <2>1, ClaimsStay DEF Appends
  <2>3. MovedIsThere(Idle)'
    BY <1>11, <2>1, <2>2, AppendsFrame, MovedStays DEF JobOK
  <2> QED  BY <1>4, <1>11, <2>1, <2>3, HasJob, IdleIs, AppendsKeep DEF JobOK
<1>13. CASE /\ r.out = "applied"
            /\ job' = [job EXCEPT ![d] = Writing(Without(@, it),
                         Entered(job[d].safe.state.head, Delete(it.id)))]
  <2>1. PICK j : j = Without(job[d], it)
    OBVIOUS
  <2>2. /\ DOMAIN j = DOMAIN Idle /\ j.kind = "out" /\ j.item = it
        /\ j.safe = job[d].safe /\ j.items = job[d].items \ {it}
    BY <1>4, <2>1, HasJob, IdleIs DEF Without
  <2>3. PICK w : w = Entered(job[d].safe.state.head, Delete(it.id))
    OBVIOUS
  <2>4. BringsNone(w)
    <3>1. job[d].safe.state.head \in Nat
      BY HasJob, HasVersion
    <3> QED  BY <1>5, <1>7, <2>3, <3>1, EntriesAreOK
  <2>5. PICK k : k = Writing(j, w)
    OBVIOUS
  <2>6. /\ PhaseOK(k, d) /\ ~Putting(k) /\ DOMAIN k = DOMAIN Idle
        /\ k.safe = job[d].safe /\ k.cur = job[d].safe
        /\ k.kind = "out" /\ k.items = j.items /\ k.item = it /\ k.phase = "put"
    BY <1>8, <2>2, <2>4, <2>5, WritingIsOK
  <2>7. ItemsOK(k)
    BY <2>2, <2>6, HasJob DEF ItemsOK
  <2>8. Turns(d, k, slot)
    BY <1>4, <1>13, <2>1, <2>3, <2>5, <2>6, HasJob DEF Turns
  <2>9. MovedIsThere(k)'
    <3>1. account'.ix = r.ix
      BY <1>3 DEF Submit
    <3>2. carries'[it.up] = carries'[up]
      BY <1>9, <1>10
    <3>3. carries'[it.up] \in AccountHas'
      BY <1>11, <1>13, <3>1, <3>2 DEF AccountHas
    <3>4. Known(it.up)'
      BY <1>5, <1>7, KnownStays DEF IInv
    <3> QED  BY <2>6, <3>3, <3>4 DEF MovedIsThere
  <2> QED  BY <1>4, <1>11, <2>6, <2>7, <2>8, <2>9, HasJob, AppendsKeep
<1> QED  BY <1>3, <1>12, <1>13

\* An edit of the account.
LEMMA EditKeeps ==
  ASSUME IInv, NEW d \in Device, NEW up, up = Fresh(d), NEW op, op.up = up, OpOK(op),
         op.type \in {"create", "new_content_version"},
         op.type = "create" => op.kind = "file",
         Edit(d, <<op>>, up), Mints(d)
  PROVE  IInv'
<1>1. PICK r \in {InAccount(d, Stores(up) \o <<op>>)} :
        /\ r.out = "applied"
        /\ Submit(d, r)
        /\ carries' = [carries EXCEPT ![up] = up]
        /\ fate' = [fate EXCEPT !.acked = @ \cup {up},
                                !.given = @ \cup Lost(account.ix, r.ix)]
  BY DEF Edit
<1>2. /\ job[d].phase = "idle"
      /\ UNCHANGED <<slot, open, job, delayed, stored, aged>>
  BY DEF Edit
<1>3. MintsMore /\ up \in UserNode /\ up \in Upload /\ ~Known(up) /\ Known(up)'
  BY MintFacts
<1>4. /\ carries' \in [Upload -> Upload \cup {None}]
      /\ carries'[up] = up
      /\ \A u \in Upload \ {up} : carries'[u] = carries[u]
  <2>1. carries \in [Upload -> Upload \cup {None}]
    BY DEF IInv, UploadsKept
  <2> QED  BY <1>1, <1>3, <2>1
<1>5. /\ fate'.told = fate.told /\ fate'.taken = fate.taken
      /\ fate'.given = fate.given \cup Lost(account.ix, r.ix)
      /\ fate'.acked = fate.acked \cup {up}
      /\ DOMAIN fate' = DOMAIN fate
  <2>1. DOMAIN fate = {"acked", "given", "taken", "told"}
    BY DEF IInv, FieldsOK
  <2> QED  BY <1>1, <2>1
<1>6. Appends(d, r) /\ up \in BoundRefs(r.ix)
  <2>1. r = InAccount(d, Storing(up, op))
    BY <1>1 DEF Storing
  <2>2. fate.given \subseteq fate'.given
    BY <1>5
  <2> QED  BY <1>1, <1>2, <1>3, <1>4, <1>5, <2>1, <2>2, StoredAppends
<1>7. Turns(d, job[d], slot)
  BY <1>2, HasJob DEF Turns
<1>8. ~Putting(job[d])
  BY <1>2 DEF Putting
<1>9. MovedIsThere(job[d])'
  <2>1. MayBeBound' \subseteq MayBeBound
    BY <1>6, <1>7, ClaimsStay DEF Appends
  <2>2. PICK k : k = job[d]
    OBVIOUS
  <2>3. MovedIsThere(k)'
    BY <1>6, <2>1, <2>2, HasJob, AppendsFrame, MovedStays
  <2> QED  BY <1>2, <2>2, <2>3
<1>10. fate'.acked \subseteq fate.acked \cup AccountHas' \cup SafeHas'
  <2>1. account'.ix = r.ix
    BY <1>1 DEF Submit
  <2>2. carries'[up] \in AccountHas'
    BY <1>6, <2>1 DEF AccountHas
  <2> QED  BY <1>4, <1>5, <2>2
<1>11. PICK k : k = job[d]
  OBVIOUS
<1>12. /\ ItemsOK(k) /\ PhaseOK(k, d) /\ MovedIsThere(k)' /\ Turns(d, k, slot) /\ ~Putting(k)
       /\ {k.safe, k.cur} \subseteq Shown \cup {Blank}
  <2>1. MovedIsThere(k)'
    <3>1. k = job'[d]
      BY <1>2, <1>11
    <3> QED  BY <1>2, <1>9, <1>11, <3>1
  <2> QED  BY <1>7, <1>8, <1>11, <2>1, HasJob
<1> QED  BY <1>6, <1>10, <1>12, HasJob, AppendsKeep

\* A new version of a file.
LEMMA RewriteKeeps ==
  ASSUME IInv, NEW d \in Device, Rewrite(d)
  PROVE  IInv'
<1> DEFINE ns == seen[d].ix.nodes
<1>1. PICK n \in DOMAIN ns :
        Edit(d, <<NewVersion(n, ns[n].name, Fresh(d), UpOf(ns, n))>>, Fresh(d))
  BY DEF Rewrite
<1>2. Mints(d)
  BY DEF Rewrite
<1>3. PICK up : up = Fresh(d)
  OBVIOUS
<1>4. PICK op : op = NewVersion(n, ns[n].name, up, UpOf(ns, n))
  OBVIOUS
<1>5. ns[n].name \in NameSet
  <2>1. TreeOK(ns, seen[d].head)
    BY DEF IInv, AccountOK, IndexAt, IndexOK
  <2> HIDE DEF ns
  <2>2. ns[n] \in NodeSet(seen[d].head)
    BY <1>1, <2>1 DEF TreeOK
  <2> QED  BY <2>2 DEF NodeSet
<1>6. op.type = "new_content_version" /\ op.up = up /\ OpOK(op)
  <2>1. (CHOOSE l \in Loc : TRUE) \in Loc
    BY SomeNameAndPlace
  <2>2. up \in Upload
    BY <1>2, <1>3, MintFacts
  <2> HIDE DEF ns
  <2>3. op.type = "new_content_version" /\ op.up = up /\ op.name = ns[n].name /\ op.loc \in Loc
    BY <1>4, <2>1 DEF NewVersion
  <2> QED  BY <1>5, <2>2, <2>3 DEF OpOK
<1>7. Edit(d, <<op>>, up)
  BY <1>1, <1>3, <1>4
<1> HIDE DEF ns
<1> QED  BY <1>2, <1>3, <1>6, <1>7, EditKeeps

\* A new file next to the one that was there.
LEMMA AddFileKeeps ==
  ASSUME IInv, NEW d \in Device, AddFile(d)
  PROVE  IInv'
<1>1. PICK name \in UserName : \E x : Edit(d, <<CreateFile(Fresh(d), name, x, Fresh(d))>>, Fresh(d))
  BY DEF AddFile
<1>2. Mints(d)
  BY DEF AddFile
<1>3. PICK up : up = Fresh(d)
  OBVIOUS
<1>4. PICK n : Edit(d, <<CreateFile(Fresh(d), name, n, Fresh(d))>>, Fresh(d))
  BY <1>1
<1>5. PICK op : op = CreateFile(up, name, n, up)
  OBVIOUS
<1>6. op.type = "create" /\ op.kind = "file" /\ op.up = up /\ OpOK(op)
  <2>1. name \in NameSet
    BY NamesAreTyped DEF NameSet
  <2>2. up \in Upload /\ up \in UserNode
    BY <1>2, <1>3, MintFacts
  <2> QED  BY <1>5, <2>1, <2>2, CreateFileIs
<1>7. Edit(d, <<op>>, up)
  BY <1>3, <1>4, <1>5
<1> QED  BY <1>2, <1>3, <1>6, <1>7, EditKeeps

\* A job claims a new upload.
LEMMA ClaimsGrow ==
  ASSUME NEW d \in Device, NEW k, NEW v, Turns(d, k, v), slot' = slot, delayed' = delayed
  PROVE  MayBeBound' \subseteq MayBeBound \cup {k.up}
<1>1. {job'[x].up : x \in {y \in Device : Putting(job'[y])}}
        \subseteq {job[x].up : x \in {y \in Device : Putting(job[y])}} \cup {k.up}
  <2>1. ASSUME NEW x \in Device, Putting(job'[x]), x # d
        PROVE  Putting(job[x]) /\ job'[x].up = job[x].up
    BY <2>1 DEF Turns
  <2>2. job'[d].up = k.up
    BY DEF Turns
  <2> QED  BY <2>1, <2>2
<1>2. \A j : Putting(j)' <=> Putting(j)
  BY DEF Putting
<1> QED  BY <1>1, <1>2 DEF MayBeBound, Putting

\* What the states of the Safe name is stored.
LEMMA NamesAreStored ==
  ASSUME IInv, NEW u \in AllNames
  PROVE  IsStored(u)
<1>1. PICK v \in Shown \cup delayed : u \in Names(v.state)
  BY DEF AllNames
<1>2. CASE v \in Shown
  BY <1>1, <1>2, HasVersion
<1>3. CASE v \in delayed
  BY <1>1, <1>3 DEF IInv, SlotOK, DelayedOK, NamesStored
<1> QED  BY <1>1, <1>2, <1>3

\* The entry of a file that was sent.
LEMMA SentEntry ==
  ASSUME NEW base \in Nat, NEW up, up \in UserNode, up \in Upload, NEW name \in NameSet, NEW parent,
         NEW w, w = Entered(base, Stores(up) \o <<CreateFile(up, name, parent, up)>>)
  PROVE  BringsFile(w, up)
<1>1. PICK op : op = CreateFile(up, name, parent, up)
  OBVIOUS
<1>2. PICK ops : ops = Storing(up, op)
  OBVIOUS
<1>3. OpOK(op) /\ op.type = "create" /\ op.kind = "file" /\ op.up = up
  BY <1>1, CreateFileIs
<1>4. UsesStored(ops, up) /\ ops[3] = op
  BY <1>2, <1>3, StoresIs
<1>5. w = Entered(base, ops)
  BY <1>1, <1>2 DEF Storing
<1>6. w.type = "entry" /\ w.base = base /\ w.ops = ops
  BY <1>5 DEF Entered
<1>7. StoresFile(ops, up)
  BY <1>3, <1>4 DEF StoresFile
<1> QED  BY <1>6, <1>7 DEF BringsFile

\* The file of a job is sent.
LEMMA SentKeeps ==
  ASSUME IInv, NEW d \in Device, Sent(d)
  PROVE  IInv'
<1> DEFINE j == job[d]
<1>1. PICK up \in {Fresh(d)} : \E it \in {j.item} :
        \E parent \in {IF j.kind = "add" THEN it.id ELSE Into(d, it)} :
          /\ stored' = [stored EXCEPT ![up] = "committed"]
          /\ carries' = [carries EXCEPT ![up] = IF it.up = None THEN up ELSE carries[it.up]]
          /\ job' = [job EXCEPT ![d] = [Writing(@, Entered(j.safe.state.head,
               Stores(up) \o <<CreateFile(Fresh(d), it.name, parent, up)>>)) EXCEPT !.up = up]]
  BY DEF Sent
<1>2. PICK it \in {j.item} :
        \E parent \in {IF j.kind = "add" THEN it.id ELSE Into(d, it)} :
          /\ stored' = [stored EXCEPT ![up] = "committed"]
          /\ carries' = [carries EXCEPT ![up] = IF it.up = None THEN up ELSE carries[it.up]]
          /\ job' = [job EXCEPT ![d] = [Writing(@, Entered(j.safe.state.head,
               Stores(up) \o <<CreateFile(Fresh(d), it.name, parent, up)>>)) EXCEPT !.up = up]]
  BY <1>1
<1>3. PICK parent :
          /\ stored' = [stored EXCEPT ![up] = "committed"]
          /\ carries' = [carries EXCEPT ![up] = IF it.up = None THEN up ELSE carries[it.up]]
          /\ job' = [job EXCEPT ![d] = [Writing(@, Entered(j.safe.state.head,
               Stores(up) \o <<CreateFile(Fresh(d), it.name, parent, up)>>)) EXCEPT !.up = up]]
  BY <1>2
<1>4. /\ j.phase = "send" /\ j.kind \in {"in", "add"} /\ Mints(d) /\ up = Fresh(d) /\ it = j.item
      /\ UNCHANGED <<account, seen, slot, open, delayed, aged, fate>>
  BY <1>1, <1>2 DEF Sent
<1> HIDE DEF j
<1>5. /\ MintsMore /\ up \in UserNode /\ up \in Upload /\ up \in Minted(d)
      /\ ~Known(up) /\ Known(up)'
  BY <1>4, MintFacts
<1>6. /\ ItemOK(it) /\ (j.kind = "in" => it.kind = "file") /\ j.safe.rev # 0
      /\ it # None => (it.up = None \/ Known(it.up))
  BY <1>4, HasJob DEF PhaseOK, MovedIsThere, j
<1>7. it.name \in NameSet /\ (it.up = None \/ (Known(it.up) /\ it.up \in Upload /\ it.up # up))
  BY <1>5, <1>6 DEF ItemOK, Known
<1>8. /\ stored' \in [Upload -> {"none", "committed", "released"}]
      /\ stored'[up] = "committed"
      /\ \A u \in Upload \ {up} : stored'[u] = stored[u]
  <2>1. stored \in [Upload -> {"none", "committed", "released"}]
    BY DEF IInv, UploadsKept
  <2> QED  BY <1>3, <1>5, <2>1
<1>9. /\ carries' \in [Upload -> Upload \cup {None}]
      /\ it.up # None => carries'[up] = carries'[it.up]
      /\ \A u \in Upload \ {up} : carries'[u] = carries[u]
  <2>1. /\ carries \in [Upload -> Upload \cup {None}]
        /\ it.up # None => carries[it.up] \in Upload \cup {None}
    BY <1>7 DEF IInv, UploadsKept
  <2> QED  BY <1>3, <1>5, <1>7, <2>1
<1>10. ~IsStored(up) /\ \A u : IsStored(u) => IsStored(u)' /\ Known(u)
  BY <1>5, <1>8 DEF IInv, UploadsKept, IsStored
<1>11. PICK w : w = Entered(j.safe.state.head, Stores(up) \o <<CreateFile(up, it.name, parent, up)>>)
  OBVIOUS
<1>12. BringsFile(w, up) /\ w.type = "entry"
  <2>1. j.safe.state.head \in Nat
    BY HasJob, HasVersion DEF j
  <2> QED  BY <1>5, <1>7, <1>11, <2>1, SentEntry DEF BringsFile
<1>13. PICK k : k = job'[d]
  OBVIOUS
<1>14. /\ DOMAIN k = DOMAIN Idle /\ k.phase = "put" /\ k.up = up /\ k.write = w
       /\ k.safe = j.safe /\ k.cur = j.safe /\ k.kind = j.kind /\ k.items = j.items /\ k.item = it
  <2>1. job' = [job EXCEPT ![d] = [Writing(@, w) EXCEPT !.up = up]]
    BY <1>3, <1>4, <1>11
  <2> QED  BY <1>4, <1>13, <2>1, HasJob, IdleIs DEF Writing, j
<1>15. Turns(d, k, slot)
  BY <1>3, <1>4, <1>13, <1>14, HasJob DEF Turns
<1>16. OffSlot(d, k, slot)
  BY <1>4, <1>14, <1>15, HasJob DEF OffSlot, j
<1>17. MayBeBound' \subseteq MayBeBound \cup {up}
  BY <1>4, <1>14, <1>15, ClaimsGrow
<1>18. Frame
  <2>1. \A u : Known(u) => carries'[u] = carries[u]
    BY <1>5, <1>9 DEF Known
  <2>2. AccountHas \subseteq AccountHas' /\ SafeHas \subseteq SafeHas'
    <3>1. Lost(account.ix, account'.ix) = {} /\ Lost(slot.state.ix, slot'.state.ix) = {}
      BY <1>4 DEF Lost
    <3> QED  BY <1>4, <2>1, <3>1, HadStays
  <2>3. \A u : Known(u) => Known(u)'
    BY <1>5, KnownStays DEF IInv
  <2> QED  BY <1>4, <1>10, <1>17, <2>1, <2>2, <2>3 DEF Frame
<1>19. AccountOK'
  BY <1>4, <1>18, AccountStays DEF IInv
<1>20. UploadsKept'
  <2>1. \A u \in Upload : stored'[u] # "none" => Known(u)'
    BY <1>5, <1>8, <1>18 DEF IInv, UploadsKept, Frame
  <2>2. \A u \in Upload : stored'[u] = "released" => u \in fate'.told
    BY <1>4, <1>8 DEF IInv, UploadsKept
  <2>3. \A u \in aged' : IsStored(u)'
    BY <1>4, <1>10 DEF IInv, UploadsKept
  <2> QED  BY <1>5, <1>8, <1>9, <2>1, <2>2, <2>3 DEF UploadsKept, MintsMore
<1>21. FilesEntry(k, d)'
  <2>1. up \notin AllNames'
    BY <1>10, <1>16, NamesAreStored, OffSlotNames
  <2>2. IsStored(up)'
    BY <1>5, <1>8 DEF IsStored
  <2>3. k.kind = "in" /\ it.up # None => Known(it.up)' /\ carries'[up] = carries'[it.up]
    BY <1>7, <1>9, <1>18 DEF Frame
  <2> QED  BY <1>4, <1>5, <1>6, <1>12, <1>14, <2>1, <2>2, <2>3 DEF FilesEntry
<1>22. JobOK(k, d)'
  <2>1. ItemsOK(k)'
    BY <1>14, <1>18, HasJob, ItemsStay DEF ItemsOK, j
  <2>2. WriteOK(k, d)'
    BY <1>4, <1>5, <1>12, <1>14, <1>21, HoldsAnUpload DEF WriteOK
  <2>3. PhaseOK(k, d)'
    BY <1>4, <1>6, <1>14, <2>2 DEF PhaseOK, Phases
  <2>4. MovedIsThere(k)'
    <3>1. it.up # None => Known(it.up)'
      BY <1>7, <1>18 DEF Frame
    <3> QED  BY <1>4, <1>14, <3>1 DEF MovedIsThere, PutThere
  <2> QED  BY <2>1, <2>3, <2>4 DEF JobOK
<1>23. BoundKept'
  BY <1>4, <1>8, <1>10, <1>17, ClaimsAreStored DEF IInv, BoundKept, IsStored
<1> QED  BY <1>4, <1>16, <1>18, <1>19, <1>20, <1>22, <1>23, OffSlotKeeps

\* Nothing changes but what is left to do, and that more of the uploads are old.
LEMMA AgesKeep ==
  ASSUME IInv,
         UNCHANGED <<account, seen, slot, open, job, delayed, stored, minted, carries, fate>>,
         aged \subseteq aged', \A u \in aged' : IsStored(u)
  PROVE  IInv'
<1>1. UNCHANGED <<account, seen, slot, open, job, delayed, stored, minted, carries, fate>>
  OBVIOUS
<1>2. aged \subseteq aged' /\ \A u \in aged' : IsStored(u)
  OBVIOUS
<1>3. /\ \A u : IsStored(u)' <=> IsStored(u)
      /\ \A u : Known(u)' <=> Known(u)
      /\ \A j : Putting(j)' <=> Putting(j)
  BY <1>1 DEF IsStored, Known, Putting
<1>4. MayBeBound' = MayBeBound
  BY <1>1, <1>3 DEF MayBeBound, Putting
<1>5. AccountHas' = AccountHas /\ SafeHas' = SafeHas
  BY <1>1, HasTheSame
<1>6. Frame
  BY <1>1, <1>2, <1>3, <1>4, <1>5 DEF Frame
<1>7. Shown' = Shown /\ AllNames' = AllNames
  BY <1>1 DEF Shown, AllNames
<1>8. SlotOK'
  <2>1. Shown' \subseteq Shown \cup {slot', Blank}
    BY <1>7
  <2>2. \A x \in Device : open'[x].rev # 0
    BY <1>1 DEF IInv, SlotOK
  <2> QED  BY <1>1, <1>6, <2>1, <2>2, SlotStays DEF IInv
<1>9. AccountOK'
  BY <1>1, <1>6, AccountStays DEF IInv
<1>10. UploadsKept'
  BY <1>1, <1>2, <1>3 DEF IInv, UploadsKept
<1>11. JobsOK'
  <2>1. ASSUME NEW d \in Device  PROVE JobOK(job[d], d)'
    <3>1. PICK k : k = job[d]
      OBVIOUS
    <3>2. JobOK(k, d)'
      BY <1>6, <1>7, <3>1, HasJob, JobStays DEF IInv
    <3> QED  BY <1>1, <3>1, <3>2
  <2> QED  BY <2>1 DEF JobsOK
<1>12. BoundKept'
  BY <1>1, <1>2, <1>4 DEF IInv, BoundKept
<1>13. EditsStay'
  BY <1>1, <1>6, AckedStays
<1>14. FieldsOK'
  BY <1>1 DEF IInv, FieldsOK
<1> QED  BY <1>8, <1>9, <1>10, <1>11, <1>12, <1>13, <1>14 DEF IInv

\* A write that its device gives up may still arrive.
LEMMA GiveUpKeeps ==
  ASSUME IInv, NEW d \in Device, GiveUp(d)
  PROVE  IInv'
<1> DEFINE cur == job[d].cur
<1>1. PICK r \in {Change(cur.state, d, job[d].write)} :
        delayed' = delayed \cup {[rev |-> cur.rev, state |-> r.state, kind |-> job[d].kind,
                                  lost |-> Lost(cur.state.ix, r.state.ix)]}
  BY DEF GiveUp
<1>2. /\ job[d].phase = "put" /\ FailsTo(d)
      /\ UNCHANGED <<account, seen, slot, stored, aged, minted, carries, fate>>
  BY DEF GiveUp
<1>3. PICK p : p = [rev |-> cur.rev, state |-> r.state, kind |-> job[d].kind,
                    lost |-> Lost(cur.state.ix, r.state.ix)]
  OBVIOUS
<1>4. /\ p.rev = cur.rev /\ p.state = r.state /\ p.lost = Lost(cur.state.ix, r.state.ix)
      /\ delayed' = delayed \cup {p}
  BY <1>1, <1>3
<1>5. cur \in Shown /\ VersionOK(cur)
  BY HasJob, HasVersion
<1>6. Makes(d, cur.state, r)
  BY <1>1, <1>2, <1>5, WriteMakes
<1>7. PICK k : /\ Turns(d, k, job[d].safe) /\ JobOK(k, d) /\ ~Putting(k)
               /\ {k.safe, k.cur} \subseteq Shown \cup {Blank}
  BY <1>2, FailsTurns
<1> HIDE DEF cur
<1>8. p.rev = slot.rev => cur = slot
  BY <1>4, <1>5 DEF VersionOK
<1>9. DelayedOK(p)
  <2>1. p.rev \in 0 .. slot.rev
    BY <1>4, <1>5 DEF VersionOK
  <2>2. StateOK(p.state) /\ NamesStored(p.state)
    BY <1>4, <1>6 DEF Makes, NamesStored
  <2>3. p.rev = slot.rev => /\ slot.state.gone \ p.state.gone \subseteq fate.told
                            /\ Lost(slot.state.ix, p.state.ix) \subseteq p.lost
    BY <1>4, <1>6, <1>8 DEF Makes
  <2> QED  BY <2>1, <2>2, <2>3 DEF DelayedOK
<1>10. MayBeBound' \subseteq MayBeBound
  <2> DEFINE Late == UNION {BoundRefs(q.state.ix) : q \in {x \in delayed : x.rev = slot.rev}}
             New  == UNION {BoundRefs(q.state.ix) : q \in {x \in delayed' : x.rev = slot.rev}}
             Asked == {job[x].up : x \in {y \in Device : Putting(job[y])}}
             Asks  == {job'[x].up : x \in {y \in Device : Putting(job'[y])}}
  <2>1. MayBeBound = BoundRefs(slot.state.ix) \cup Late \cup Asked
    BY DEF MayBeBound
  <2>2. MayBeBound' = BoundRefs(slot.state.ix) \cup New \cup Asks
    BY <1>2 DEF MayBeBound, Putting
  <2>3. Asks \subseteq Asked
    BY <1>7 DEF Turns
  <2>4. New \subseteq Late \cup {u \in BoundRefs(p.state.ix) : p.rev = slot.rev}
    BY <1>4
  <2>5. ASSUME NEW u \in BoundRefs(p.state.ix), p.rev = slot.rev
        PROVE  u \in BoundRefs(slot.state.ix) \cup Asked
    <3>1. u \in BoundRefs(slot.state.ix) \/ (Putting(job[d]) /\ u = job[d].up)
      BY <1>4, <1>6, <1>8, <2>5 DEF Makes
    <3> QED  BY <3>1
  <2> HIDE DEF Late, New, Asked, Asks
  <2> QED  BY <2>1, <2>2, <2>3, <2>4, <2>5
<1>11. /\ \A u : IsStored(u)' <=> IsStored(u)
       /\ \A u : Known(u)' <=> Known(u)
  BY <1>2 DEF IsStored, Known
<1>12. AccountHas' = AccountHas /\ SafeHas' = SafeHas
  BY <1>2, HasTheSame
<1>13. Frame
  BY <1>2, <1>10, <1>11, <1>12 DEF Frame
<1>14. SlotOK'
  <2>1. Shown' \subseteq Shown \cup {slot', Blank}
    BY <1>2, <1>7, HasJob, ShownStays
  <2>2. DelayedOK(p)'
    BY <1>2, <1>9, <1>13, DelayedStays DEF IInv
  <2>3. \A x \in Device : open'[x].rev # 0
    <3>1. job[d].safe.rev # 0
      BY <1>2, HasJob DEF PhaseOK
    <3> QED  BY <1>7, <3>1 DEF Turns, IInv, SlotOK
  <2>4. \A q \in delayed' : q \in delayed \/ DelayedOK(q)'
    BY <1>4, <2>2
  <2> QED  BY <1>2, <1>13, <2>1, <2>3, <2>4, SlotStays DEF IInv
<1>15. AccountOK'
  BY <1>2, <1>13, AccountStays DEF IInv
<1>16. UploadsKept'
  BY <1>2, <1>11 DEF IInv, UploadsKept
<1>17. JobsOK'
  <2>1. JobOK(k, d)'
    BY <1>7, <1>13, JobStays DEF IInv
  <2>2. ASSUME NEW x \in Device \ {d}, NEW u \in AllNames' \cap Minted(x)  PROVE u \in AllNames
    <3>1. PICK q \in (Shown \cup delayed)' : u \in Names(q.state)
      BY <2>2 DEF AllNames, Names
    <3>2. CASE q \in Shown \cup delayed
      BY <3>1, <3>2 DEF AllNames
    <3>3. CASE q = p
      <4>1. u \notin Minted(d)
        BY <2>2 DEF Minted
      <4>2. u \in Names(cur.state)
        BY <1>4, <1>6, <3>1, <3>3, <4>1 DEF Makes
      <4> QED  BY <1>5, <4>2 DEF AllNames
    <3>4. CASE q = Blank
      BY <3>1, <3>4, BlankIs
    <3>5. Shown' \subseteq Shown \cup {slot, Blank}
      BY <1>2, <1>7, HasJob, ShownStays
    <3> QED  BY <1>4, <3>1, <3>2, <3>3, <3>4, <3>5, HasJob
  <2> QED  BY <1>7, <1>13, <2>1, <2>2, JobsStay DEF IInv
<1>18. BoundKept'
  BY <1>2, <1>10 DEF IInv, BoundKept
<1>19. EditsStay'
  BY <1>2, <1>13, AckedStays
<1>20. FieldsOK'
  <2>1. \A x \in Device : DOMAIN job'[x] = DOMAIN Idle
    BY <1>7 DEF IInv, FieldsOK, Turns
  <2> QED  BY <1>2, <1>7, <2>1 DEF IInv, FieldsOK, Turns
<1> QED  BY <1>14, <1>15, <1>16, <1>17, <1>18, <1>19, <1>20 DEF IInv

\* A new state of the slot, with what it loses of the Safe accounted for.
Advances ==
  /\ slot'.rev = slot.rev + 1
  /\ StateOK(slot'.state) /\ NamesStored(slot'.state)
  /\ BoundRefs(slot'.state.ix) \subseteq MayBeBound
  /\ delayed' \subseteq delayed
  /\ UNCHANGED <<account, seen, stored, aged, minted, carries>>
  /\ fate'.told = fate.told /\ DOMAIN fate' = DOMAIN fate
  /\ fate.given \subseteq fate'.given /\ fate.taken \subseteq fate'.taken
  /\ Lost(slot.state.ix, slot'.state.ix) \subseteq fate'.given \cup fate'.taken
  /\ \A x \in Device :
       Putting(job'[x]) => /\ Putting(job[x]) /\ job'[x].up = job[x].up
                           /\ job[x].up \notin slot'.state.gone

\* The jobs may go on after it, and its state is one a device may work on.
LEMMA AdvancesFrame ==
  ASSUME IInv, Advances
  PROVE  Frame /\ MayBeBound' \subseteq MayBeBound /\ VersionOK(slot)'
<1>1. \A u : IsStored(u)' <=> IsStored(u)
  BY DEF Advances, IsStored
<1>2. \A u : Known(u)' <=> Known(u)
  BY DEF Advances, Known
<1> DEFINE Asked == {job'[x].up : x \in {y \in Device : Putting(job'[y])}}
<1>3. MayBeBound' = BoundRefs(slot'.state.ix) \cup Asked
  <2> DEFINE Late == {q \in delayed' : q.rev = slot'.rev}
  <2>1. Late = {}
    BY DEF Advances, IInv, SlotOK, DelayedOK
  <2>2. MayBeBound' = BoundRefs(slot'.state.ix) \cup (UNION {BoundRefs(q.state.ix) : q \in Late})
                        \cup Asked
    BY DEF MayBeBound, Putting
  <2> HIDE DEF Late, Asked
  <2> QED  BY <2>1, <2>2
<1>4. Asked \subseteq MayBeBound
  BY DEF Advances, MayBeBound
<1>5. MayBeBound' \subseteq MayBeBound
  BY <1>3, <1>4 DEF Advances
<1>6. AccountHas \subseteq AccountHas' /\ SafeHas \subseteq SafeHas'
  <2>1. Lost(account.ix, account'.ix) = {}
    BY DEF Advances, Lost
  <2> QED  BY <2>1, HadStays DEF Advances
<1>7. Frame
  BY <1>1, <1>2, <1>5, <1>6 DEF Frame, Advances
<1>8. VersionOK(slot)'
  <2>1. slot'.rev \in 0 .. slot'.rev
    BY DEF Advances, IInv, SlotOK
  <2>2. NamesStored(slot.state)'
    BY <1>1 DEF Advances, NamesStored
  <2>3. slot'.state.gone \cap Asked = {}
    BY DEF Advances
  <2>4. slot'.state.gone \cap BoundRefs(slot'.state.ix) = {}
    BY DEF Advances, StateOK
  <2>5. slot'.state.gone \cap MayBeBound' = {}
    BY <1>3, <2>3, <2>4
  <2> QED  BY <2>1, <2>2, <2>5 DEF VersionOK, Advances, StateOK, IndexAt
<1> QED  BY <1>5, <1>7, <1>8

\* It keeps the invariant when the jobs are in order.
LEMMA AdvancesKeep ==
  ASSUME IInv, Advances, Shown' \subseteq Shown \cup {slot', Blank},
         \A x \in Device : open'[x].rev # 0, JobsOK', FieldsOK',
         fate'.acked \subseteq fate.acked \cup AccountHas' \cup SafeHas'
  PROVE  IInv'
<1>1. Frame /\ MayBeBound' \subseteq MayBeBound /\ VersionOK(slot)'
  BY AdvancesFrame
<1>2. SlotOK'
  <2>1. \A p \in delayed' : p \in delayed
    BY DEF Advances
  <2> QED  BY <1>1, <2>1, SlotStays DEF Advances, IInv
<1>3. AccountOK'
  BY <1>1, AccountStays DEF Advances, IInv
<1>4. UploadsKept'
  BY DEF Advances, IInv, UploadsKept, IsStored, Known
<1>5. BoundKept'
  BY <1>1 DEF Advances, IInv, BoundKept
<1>6. EditsStay'
  BY <1>1, AckedStays
<1> QED  BY <1>2, <1>3, <1>4, <1>5, <1>6 DEF IInv

\* A write that was given up arrives.
LEMMA ArrivesKeeps ==
  ASSUME IInv, Arrives
  PROVE  IInv'
<1>1. PICK p \in delayed :
        /\ delayed' = delayed \ {p}
        /\ Wins(p.rev)
        /\ slot' = [rev |-> p.rev + 1, state |-> p.state]
        /\ fate' = Accounted(fate, p.kind, p.lost)
  BY DEF Arrives
<1>2. UNCHANGED <<account, seen, open, job, stored, aged, minted, carries>>
  BY DEF Arrives
<1>3. DelayedOK(p) /\ p.rev = slot.rev
  BY <1>1 DEF IInv, SlotOK, Wins
<1>4. slot'.rev = slot.rev + 1 /\ slot'.state = p.state
  BY <1>1, <1>3
<1>5. /\ fate'.told = fate.told /\ fate'.acked = fate.acked /\ DOMAIN fate' = DOMAIN fate
      /\ fate.given \subseteq fate'.given /\ fate.taken \subseteq fate'.taken
      /\ p.lost \subseteq fate'.given \cup fate'.taken
  <2>1. DOMAIN fate = {"acked", "given", "taken", "told"}
    BY DEF IInv, FieldsOK
  <2> QED  BY <1>1, <2>1 DEF Accounted
<1>6. Lost(slot.state.ix, slot'.state.ix) \subseteq fate'.given \cup fate'.taken
  <2>1. Lost(slot.state.ix, p.state.ix) \subseteq p.lost
    BY <1>3 DEF DelayedOK
  <2>2. Lost(slot.state.ix, slot'.state.ix) = Lost(slot.state.ix, p.state.ix)
    BY <1>4
  <2> QED  BY <1>5, <2>1, <2>2
<1>7. BoundRefs(slot'.state.ix) \subseteq MayBeBound
  BY <1>1, <1>3, <1>4 DEF MayBeBound
<1>8. Names(p.state) \subseteq AllNames
  BY <1>1 DEF AllNames
<1>9. ASSUME NEW x \in Device, Putting(job[x])
      PROVE  job[x].up \notin slot'.state.gone
  <2>1. job[x].up \notin AllNames
    BY <1>9, HasJob DEF PhaseOK, WriteOK, FilesEntry, Putting
  <2> QED  BY <1>4, <1>8, <2>1 DEF Names
<1>10. Advances
  <2>1. StateOK(slot'.state) /\ NamesStored(slot'.state)
    BY <1>3, <1>4 DEF DelayedOK
  <2>2. \A x \in Device :
          Putting(job'[x]) => /\ Putting(job[x]) /\ job'[x].up = job[x].up
                              /\ job[x].up \notin slot'.state.gone
    BY <1>2, <1>9
  <2>3. delayed' \subseteq delayed
    BY <1>1
  <2> QED  BY <1>2, <1>4, <1>5, <1>6, <1>7, <2>1, <2>2, <2>3 DEF Advances
<1>11. Frame
  BY <1>10, AdvancesFrame
<1>12. Shown' \subseteq Shown \cup {slot', Blank}
  BY <1>2 DEF Shown
<1>13. AllNames' \subseteq AllNames
  <2>1. \A v \in Shown' \cup delayed' : v \in Shown \cup delayed \/ v = slot' \/ v = Blank
    BY <1>1, <1>12
  <2>2. \A v \in Shown \cup delayed : Names(v.state) \subseteq AllNames
    BY DEF AllNames
  <2>3. Names(slot'.state) \subseteq AllNames /\ Names(Blank.state) = {}
    BY <1>4, <1>8, BlankIs
  <2>4. AllNames' = UNION {Names(v.state) : v \in Shown' \cup delayed'}
    BY DEF AllNames
  <2>5. \A v \in Shown' \cup delayed' : Names(v.state) \subseteq AllNames
    BY <2>1, <2>2, <2>3
  <2> QED  BY <2>4, <2>5
<1>14. JobsOK'
  <2>1. ASSUME NEW d \in Device  PROVE JobOK(job[d], d)'
    <3>1. PICK k : k = job[d]
      OBVIOUS
    <3>2. JobOK(k, d)'
      BY <1>11, <1>13, <3>1, HasJob, JobStays DEF IInv
    <3> QED  BY <1>2, <3>1, <3>2
  <2> QED  BY <2>1 DEF JobsOK
<1>15. FieldsOK'
  BY <1>2, <1>5 DEF IInv, FieldsOK
<1>16. \A x \in Device : open'[x].rev # 0
  BY <1>2 DEF IInv, SlotOK
<1> QED  BY <1>5, <1>10, <1>12, <1>14, <1>15, <1>16, AdvancesKeep

\* The file a move has read is what its write brought into the Safe.
FileCame(d, k, r) ==
  /\ r.out = "applied" /\ Putting(job[d]) /\ k.kind = "in"
  /\ k.item.up # None => Known(k.item.up) /\ carries[job[d].up] = carries[k.item.up]

\* A job after the answer to its write, which left the Safe as v.
Answers(d, k, v, r) ==
  /\ Turns(d, k, v) /\ ~Putting(k)
  /\ {k.safe, k.cur} \subseteq Shown \cup {Blank, v}
  /\ ItemsOK(k) /\ PhaseOK(k, d)
  /\ MovedIsThere(k) \/ FileCame(d, k, r)

\* What the answers have in common.
LEMMA EndsAnswers ==
  ASSUME IInv, NEW d \in Device, NEW v, NEW r, Ends(d), UNCHANGED open \/ EndsWith(d, v)
  PROVE  \E k : Answers(d, k, v, r)
<1>1. Turns(d, Idle, v) /\ JobOK(Idle, d) /\ ~Putting(Idle)
  BY EndsTurns
<1> QED  BY <1>1, IdleIs DEF Answers, JobOK

\* A cleanup that is done.
LEMMA SweepAnswers ==
  ASSUME IInv, NEW d \in Device, NEW v, v.rev # 0, NEW r, SweepDone(d, v), job[d].phase = "put"
  PROVE  \E k : Answers(d, k, v, r)
<1>1. PICK k : /\ Turns(d, k, v) /\ JobOK(k, d) /\ ~Putting(k)
               /\ k.safe \in {v, Blank} /\ k.cur \in Shown \cup {Blank}
  BY SweepTurns
<1> QED  BY <1>1 DEF Answers, JobOK

\* The job goes on, with the Safe as it is now.
Goes(d, phase, v) ==
  /\ job' = [job EXCEPT ![d].phase = phase, ![d].safe = v]
  /\ UNCHANGED open

\* A job that goes on so.
LEMMA GoesIs ==
  ASSUME IInv, NEW d \in Device, NEW phase, NEW v, Goes(d, phase, v), NEW k, k = job'[d]
  PROVE  /\ Turns(d, k, v) /\ ItemsOK(k)
         /\ k.phase = phase /\ k.kind = job[d].kind /\ k.item = job[d].item /\ k.up = job[d].up
         /\ k.safe = v /\ k.cur = job[d].cur
<1>1. /\ DOMAIN k = DOMAIN Idle /\ k.items = job[d].items
      /\ k.phase = phase /\ k.kind = job[d].kind /\ k.item = job[d].item /\ k.up = job[d].up
      /\ k.safe = v /\ k.cur = job[d].cur
  BY HasJob, IdleIs DEF Goes
<1>2. ItemsOK(k)
  BY <1>1, HasJob DEF ItemsOK
<1>3. Turns(d, k, v)
  BY <1>1, HasJob DEF Goes, Turns
<1> QED  BY <1>1, <1>2, <1>3

\* The folder of a move is in the Safe.
LEMMA FolderAnswers ==
  ASSUME IInv, NEW d \in Device, NEW v, v.rev # 0, NEW r, job[d].phase = "put",
         job[d].write.type = "entry", job[d].kind = "in", job[d].item.kind = "folder",
         Goes(d, "next", v)
  PROVE  \E k : Answers(d, k, v, r)
<1>1. PICK k : k = job'[d]
  OBVIOUS
<1>2. /\ Turns(d, k, v) /\ ItemsOK(k)
      /\ k.phase = "next" /\ k.kind = "in" /\ k.item = job[d].item
      /\ k.safe = v /\ k.cur = job[d].cur
  BY <1>1, GoesIs
<1>3. job[d].item.up = None
  BY HasJob DEF PhaseOK, WriteOK, FilesEntry, FoldersEntry
<1>4. PhaseOK(k, d) /\ MovedIsThere(k) /\ ~Putting(k)
  BY <1>2, <1>3 DEF PhaseOK, Phases, MovedIsThere, Putting
<1> QED  BY <1>2, <1>4, HasJob DEF Answers

\* The file of a move is in the Safe.
LEMMA FileAnswers ==
  ASSUME IInv, NEW d \in Device, NEW v, v.rev # 0, NEW r, job[d].phase = "put",
         job[d].write.type = "entry", job[d].kind = "in", job[d].item.kind = "file",
         r.out = "applied", Goes(d, "purge", v)
  PROVE  \E k : Answers(d, k, v, r)
<1>1. PICK k : k = job'[d]
  OBVIOUS
<1>2. /\ Turns(d, k, v) /\ ItemsOK(k)
      /\ k.phase = "purge" /\ k.kind = "in" /\ k.item = job[d].item
      /\ k.safe = v /\ k.cur = job[d].cur
  BY <1>1, GoesIs
<1>3. job[d].up # None /\ FilesEntry(job[d], d)
  BY HasJob DEF PhaseOK, WriteOK, FoldersEntry
<1>4. FileCame(d, k, r)
  BY <1>2, <1>3 DEF FileCame, FilesEntry, Putting
<1>5. PhaseOK(k, d) /\ ~Putting(k)
  BY <1>2 DEF PhaseOK, Phases, Putting
<1> QED  BY <1>2, <1>4, <1>5, HasJob DEF Answers

\* The file of a write is not in the Safe: it is noted.
LEMMA NoteAnswers ==
  ASSUME IInv, NEW d \in Device, NEW v, NEW r, job[d].phase = "put",
         job[d].write.type = "entry", job[d].kind \in {"in", "add"},
         job[d].kind = "in" => job[d].item.kind = "file",
         GoesOn(d, "note")
  PROVE  \E k : Answers(d, k, v, r)
<1>1. PICK k : k = job'[d]
  OBVIOUS
<1>2. /\ Turns(d, k, v) /\ ItemsOK(k) /\ MovedIsThere(k)
      /\ k.phase = "note" /\ k.kind = job[d].kind /\ k.up = job[d].up
      /\ k.safe = job[d].safe /\ k.cur = job[d].cur
  BY <1>1, PhaseTurns
<1>3. FilesEntry(job[d], d)
  BY HasJob DEF PhaseOK, WriteOK, FoldersEntry
<1>4. PhaseOK(k, d) /\ ~Putting(k)
  BY <1>2, <1>3, HasJob DEF PhaseOK, Phases, Putting, FilesEntry
<1> QED  BY <1>2, <1>4, HasJob DEF Answers

\* A cleanup follows.
LEMMA ReadAnswers ==
  ASSUME IInv, NEW d \in Device, NEW v, v.rev # 0, NEW r, job[d].phase = "put",
         job[d].kind \in {"out", "delete"}, Goes(d, "read", v)
  PROVE  \E k : Answers(d, k, v, r)
<1>1. PICK k : k = job'[d]
  OBVIOUS
<1>2. /\ Turns(d, k, v) /\ ItemsOK(k)
      /\ k.phase = "read" /\ k.kind = job[d].kind /\ k.item = job[d].item
      /\ k.safe = v /\ k.cur = job[d].cur
  BY <1>1, GoesIs
<1>3. MovedIsThere(k)
  BY <1>2, HasJob DEF MovedIsThere, PutThere
<1>4. PhaseOK(k, d) /\ ~Putting(k)
  BY <1>2 DEF PhaseOK, Phases, Putting
<1> QED  BY <1>2, <1>3, <1>4, HasJob DEF Answers

\* The job after the answer, in every case.
LEMMA AnsweredTurns ==
  ASSUME IInv, NEW d \in Device, NEW v, v.rev # 0, NEW r, job[d].phase = "put", Answered(d, v, r)
  PROVE  \E k : Answers(d, k, v, r)
<1> DEFINE j == job[d]
<1>1. \/ j.write.type \in {"note", "drop"}
      \/ /\ j.write.type = "entry"
         /\ \/ j.kind = "in" /\ j.item.kind \in {"file", "folder"}
            \/ j.kind \in {"add", "out", "delete"}
  BY HasJob DEF PhaseOK, WriteOK, FilesEntry, FoldersEntry
<1>2. CASE j.write.type = "note"
  <2>1. Ends(d) /\ UNCHANGED open
    BY <1>2 DEF Answered
  <2> QED  BY <2>1, EndsAnswers
<1>3. CASE j.write.type = "drop"
  <2>1. SweepDone(d, v)
    BY <1>3 DEF Answered
  <2> QED  BY <2>1, SweepAnswers
<1>4. CASE j.write.type = "entry" /\ j.kind = "in" /\ j.item.kind = "folder"
  <2>1. Goes(d, "next", v) \/ (Ends(d) /\ UNCHANGED open)
    BY <1>4 DEF Answered, Goes
  <2> QED  BY <1>4, <2>1, FolderAnswers, EndsAnswers
<1>5. CASE j.write.type = "entry" /\ j.kind = "in" /\ j.item.kind = "file"
  <2>1. /\ UNCHANGED open
        /\ job' = [job EXCEPT ![d] = IF r.out = "applied"
                                     THEN [j EXCEPT !.phase = "purge", !.safe = v]
                                     ELSE [j EXCEPT !.phase = "note"]]
    BY <1>5 DEF Answered
  <2>2. (r.out = "applied" /\ Goes(d, "purge", v)) \/ GoesOn(d, "note")
    BY <2>1, HasJob DEF Goes, GoesOn
  <2> QED  BY <1>5, <2>2, FileAnswers, NoteAnswers
<1>6. CASE j.write.type = "entry" /\ j.kind = "add"
  <2>1. EndsWith(d, v) \/ GoesOn(d, "note")
    BY <1>6 DEF Answered, GoesOn
  <2> QED  BY <1>6, <2>1, EndsAnswers, NoteAnswers DEF EndsWith
<1>7. CASE j.write.type = "entry" /\ j.kind \in {"out", "delete"}
  <2>1. Goes(d, "read", v) \/ SweepDone(d, v)
    BY <1>7 DEF Answered, Goes
  <2> QED  BY <1>7, <2>1, ReadAnswers, SweepAnswers
<1> QED  BY <1>1, <1>2, <1>3, <1>4, <1>5, <1>6, <1>7

\* A write that wins.
LEMMA WinsKeeps ==
  ASSUME IInv, NEW d \in Device, PutSlot(d), Wins(job[d].cur.rev)
  PROVE  /\ IInv'
         /\ \E c : Makes(d, slot.state, c) /\ slot'.state = c.state
         /\ \A x \in Device \ {d} : job'[x] = job[x]
<1> DEFINE j == job[d]
<1>1. PICK r \in {Change(j.cur.state, d, j.write)} :
        \E safe \in {[rev |-> j.cur.rev + 1, state |-> r.state]} :
          /\ slot' = safe
          /\ \E lost \in {Lost(j.cur.state.ix, r.state.ix)} :
               fate' = Confirmed(Accounted(fate, j.kind, lost), j, r)
          /\ Answered(d, safe, r)
  BY DEF PutSlot
<1>2. PICK safe \in {[rev |-> j.cur.rev + 1, state |-> r.state]} :
          /\ slot' = safe
          /\ \E lost \in {Lost(j.cur.state.ix, r.state.ix)} :
               fate' = Confirmed(Accounted(fate, j.kind, lost), j, r)
          /\ Answered(d, safe, r)
  BY <1>1
<1>3. PICK lost \in {Lost(j.cur.state.ix, r.state.ix)} :
        fate' = Confirmed(Accounted(fate, j.kind, lost), j, r)
  BY <1>2
<1>4. j.phase = "put" /\ UNCHANGED <<account, seen, delayed, stored, aged, minted, carries>>
  BY DEF PutSlot
<1>5. j.cur = slot
  <2>1. VersionOK(j.cur) /\ j.cur.rev = slot.rev
    BY HasJob, HasVersion DEF Wins
  <2> QED  BY <2>1 DEF VersionOK
<1>6. /\ slot' = safe /\ safe.rev = slot.rev + 1 /\ safe.state = r.state /\ safe.rev # 0
      /\ lost = Lost(slot.state.ix, slot'.state.ix)
  <2>1. slot.rev \in Nat
    BY DEF IInv, SlotOK
  <2> QED  BY <1>2, <1>3, <1>5, <2>1
<1>7. Makes(d, slot.state, r)
  BY <1>1, <1>4, <1>5, HasJob, WriteMakes
<1>8. /\ fate'.told = fate.told /\ DOMAIN fate' = DOMAIN fate
      /\ fate.given \subseteq fate'.given /\ fate.taken \subseteq fate'.taken
      /\ lost \subseteq fate'.given \cup fate'.taken
      /\ \/ fate'.acked = fate.acked
         \/ /\ j.kind = "add" /\ j.write.type = "entry" /\ r.out = "applied"
            /\ fate'.acked = fate.acked \cup {carries[j.up]}
  <2>1. DOMAIN fate = {"acked", "given", "taken", "told"}
    BY DEF IInv, FieldsOK
  <2>2. PICK f : f = Accounted(fate, j.kind, lost)
    OBVIOUS
  <2>3. /\ DOMAIN f = DOMAIN fate /\ f.told = fate.told /\ f.acked = fate.acked
        /\ fate.given \subseteq f.given /\ fate.taken \subseteq f.taken
        /\ lost \subseteq f.given \cup f.taken
    BY <2>1, <2>2 DEF Accounted
  <2>4. fate' = Confirmed(f, j, r)
    BY <1>3, <2>2
  <2> HIDE DEF j
  <2> QED  BY <2>1, <2>3, <2>4 DEF Confirmed
<1>9. PICK k : Answers(d, k, safe, r)
  BY <1>2, <1>4, <1>6, AnsweredTurns
<1> HIDE DEF j
<1>10. ASSUME NEW x \in Device, Putting(job'[x])
       PROVE  /\ Putting(job[x]) /\ job'[x].up = job[x].up
              /\ job[x].up \notin slot'.state.gone
  <2>1. x # d /\ job'[x] = job[x]
    BY <1>9, <1>10 DEF Answers, Turns
  <2>2. Putting(job[x])
    BY <1>10, <2>1
  <2>3. FilesEntry(job[x], x)
    BY <2>2, HasJob DEF PhaseOK, WriteOK, Putting
  <2>4. job[x].up \notin AllNames /\ job[x].up \in Minted(x)
    BY <2>3 DEF FilesEntry
  <2>5. Names(slot.state) \subseteq AllNames
    BY HasJob DEF AllNames
  <2>6. job[x].up \notin Minted(d)
    BY <2>1, <2>4 DEF Minted
  <2>7. job[x].up \notin r.state.gone
    BY <1>7, <2>4, <2>5, <2>6 DEF Makes
  <2> QED  BY <1>6, <2>1, <2>2, <2>7
<1>11. BoundRefs(slot'.state.ix) \subseteq MayBeBound
  <2>1. ASSUME NEW u \in BoundRefs(slot'.state.ix)
        PROVE  u \in BoundRefs(slot.state.ix) \/ (Putting(job[d]) /\ u = job[d].up)
    BY <1>6, <1>7, <2>1 DEF Makes
  <2> QED  BY <2>1 DEF MayBeBound
<1>12. Advances
  <2>1. StateOK(slot'.state) /\ NamesStored(slot'.state)
    BY <1>6, <1>7 DEF Makes, NamesStored
  <2>2. Lost(slot.state.ix, slot'.state.ix) \subseteq fate'.given \cup fate'.taken
    BY <1>6, <1>8
  <2>3. \A x \in Device :
          Putting(job'[x]) => /\ Putting(job[x]) /\ job'[x].up = job[x].up
                              /\ job[x].up \notin slot'.state.gone
    BY <1>10
  <2> QED  BY <1>4, <1>6, <1>8, <1>11, <2>1, <2>2, <2>3 DEF Advances
<1>13. Frame
  BY <1>12, AdvancesFrame
<1>14. Putting(j) /\ r.out = "applied" => carries[j.up] \in SafeHas' /\ carries'[j.up] = carries[j.up]
  BY <1>4, <1>6, <1>7 DEF Makes, SafeHas, j
<1>15. JobOK(k, d)'
  <2>1. MovedIsThere(k)'
    <3>1. CASE MovedIsThere(k)
      BY <1>13, <3>1, MovedStays
    <3>2. CASE FileCame(d, k, r)
      <4>1. k.item.up # None => Known(k.item.up)' /\ carries'[k.item.up] = carries[k.item.up]
        BY <1>13, <3>2 DEF FileCame, Frame
      <4>2. k.item.up # None => carries'[k.item.up] \in SafeHas'
        BY <1>14, <3>2, <4>1 DEF FileCame, j
      <4> QED  BY <3>2, <4>1, <4>2 DEF FileCame, MovedIsThere
    <3> QED  BY <1>9, <3>1, <3>2 DEF Answers
  <2>2. ItemsOK(k)'
    BY <1>9, <1>13, ItemsStay DEF Answers
  <2>3. PhaseOK(k, d)'
    BY <1>9, <1>13, PhaseStays DEF Answers, IInv
  <2> QED  BY <2>1, <2>2, <2>3 DEF JobOK
<1>16. Shown' \subseteq Shown \cup {slot', Blank}
  BY <1>6, <1>9, ShownStays DEF Answers
<1>17. JobsOK'
  <2>1. ASSUME NEW x \in Device \ {d}, NEW u \in AllNames' \cap Minted(x)  PROVE u \in AllNames
    <3>1. PICK q \in (Shown \cup delayed)' : u \in Names(q.state)
      BY <2>1 DEF AllNames, Names
    <3>2. CASE q \in Shown \cup delayed
      BY <3>1, <3>2 DEF AllNames
    <3>3. CASE q = slot'
      <4>1. u \notin Minted(d)
        BY <2>1 DEF Minted
      <4>2. u \in Names(slot.state)
        BY <1>6, <1>7, <3>1, <3>3, <4>1 DEF Makes
      <4> QED  BY <4>2, HasJob DEF AllNames
    <3>4. CASE q = Blank
      BY <3>1, <3>4, BlankIs
    <3> QED  BY <1>4, <1>16, <3>1, <3>2, <3>3, <3>4
  <2>2. Turns(d, k, safe)
    BY <1>9 DEF Answers
  <2> QED  BY <1>13, <1>15, <2>1, <2>2, JobsStay DEF IInv
<1>18. \A x \in Device : open'[x].rev # 0
  BY <1>6, <1>9 DEF Answers, Turns, IInv, SlotOK
<1>19. FieldsOK'
  <2>1. \A x \in Device : DOMAIN job'[x] = DOMAIN Idle
    BY <1>9 DEF IInv, FieldsOK, Turns, Answers
  <2> QED  BY <1>4, <1>8, <1>9, <2>1 DEF IInv, FieldsOK, Turns, Answers
<1>20. fate'.acked \subseteq fate.acked \cup AccountHas' \cup SafeHas'
  <2>1. j.kind = "add" /\ j.write.type = "entry" => Putting(j)
    BY <1>4, HasJob DEF PhaseOK, WriteOK, FoldersEntry, Putting, j
  <2> QED  BY <1>8, <1>14, <2>1
<1>21. IInv'
  BY <1>12, <1>16, <1>17, <1>18, <1>19, <1>20, AdvancesKeep
<1>22. \A x \in Device \ {d} : job'[x] = job[x]
  BY <1>9 DEF Answers, Turns
<1> QED  BY <1>6, <1>7, <1>21, <1>22

-----------------------------------------------------------------------------
(* Every step                                                              *)

\* The steps that two of the properties are about.
NotesStep ==
  \A u \in SafeState.gone \ SafeState'.gone : u \in fate.told \/ u \in BoundRefs(SafeState'.ix)

MovedStep ==
  \A d \in Device :
    /\ job'[d] # job[d]
    /\ job[d].item # None
    /\ job[d].item.up # None
    /\ carries[job[d].item.up] \in fate'.taken \ fate.taken
    => carries[job[d].item.up] \in Present' \cup fate'.given

Keeps == IInv' /\ NotesStep /\ MovedStep

\* Steps that write no slot and take nothing.
LEMMA QuietKeeps ==
  ASSUME IInv', slot' = slot, fate'.taken = fate.taken
  PROVE  Keeps
BY DEF Keeps, NotesStep, MovedStep, SafeState

\* The jobs that leave the account, the Safe and the uploads alone.
LEMMA ReadsQuiet ==
  ASSUME IInv, NEW d \in Device, \E k, v : Reads(d, k, v)
  PROVE  Keeps
<1>1. PICK k, v : Reads(d, k, v)
  OBVIOUS
<1>2. IInv'
  BY <1>1, ReadsKeep
<1>3. slot' = slot /\ fate' = fate
  BY <1>1 DEF Reads
<1> QED  BY <1>2, <1>3, QuietKeeps

\* The purge of a move: what it moved is in the Safe.
LEMMA PurgesMoved ==
  ASSUME IInv, NEW d \in Device, PutThere(job[d]), job[d].kind = "in",
         \A x \in Device \ {d} : job'[x] = job[x],
         UNCHANGED <<slot, carries>>, fate'.given = fate.given
  PROVE  MovedStep /\ NotesStep
<1>1. ASSUME job[d].item # None, job[d].item.up # None, carries[job[d].item.up] \notin fate.taken
      PROVE  carries[job[d].item.up] \in Present' \cup fate'.given
  <2>1. carries[job[d].item.up] \in SafeHas
    BY <1>1, HasJob DEF MovedIsThere
  <2> QED  BY <1>1, <2>1 DEF SafeHas, Present, SafeState
<1>2. MovedStep
  BY <1>1 DEF MovedStep
<1>3. NotesStep
  BY DEF NotesStep, SafeState
<1> QED  BY <1>2, <1>3

\* What PurgeKeeps has, and the move.
LEMMA PurgeMoved ==
  ASSUME IInv, NEW d \in Device, Purge(d) \/ PurgeFolders(d)
  PROVE  Keeps
<1>1. IInv'
  BY MovePurgeKeeps, PurgeFoldersKeeps
<1>2. job[d].phase \in {"purge", "tops"} /\ UNCHANGED <<slot, carries>>
  BY DEF Purge, PurgeFolders
<1>3. PutThere(job[d]) /\ job[d].kind = "in"
  BY <1>2, HasJob DEF PhaseOK, PutThere
<1>4. \A x \in Device \ {d} : job'[x] = job[x]
  BY HasJob DEF Purge, PurgeFolders, Ends, EndsWith
<1>5. fate'.given = fate.given
  <2>1. DOMAIN fate = {"acked", "given", "taken", "told"}
    BY DEF IInv, FieldsOK
  <2> QED  BY <2>1 DEF Purge, PurgeFolders
<1> QED  BY <1>1, <1>2, <1>3, <1>4, <1>5, PurgesMoved DEF Keeps

\* The write of the slot: what a move takes out of the Safe is in the account.
LEMMA PutSlotMoved ==
  ASSUME IInv, NEW d \in Device, PutSlot(d)
  PROVE  Keeps
<1>1. CASE ~Wins(job[d].cur.rev)
  BY <1>1, LosesReads, ReadsQuiet
<1>2. CASE Wins(job[d].cur.rev)
  <2>1. PICK c : Makes(d, slot.state, c) /\ slot'.state = c.state
    BY <1>2, WinsKeeps
  <2>2. NotesStep
    BY <2>1 DEF NotesStep, SafeState, Makes
  <2>3. UNCHANGED <<account, carries>>
    BY DEF PutSlot
  <2>4. PICK r, lost : fate' = Confirmed(Accounted(fate, job[d].kind, lost), job[d], r)
    BY <1>2 DEF PutSlot
  <2>5. /\ fate.given \subseteq fate'.given
        /\ job[d].kind # "out" => fate'.taken = fate.taken
    <3>1. DOMAIN fate = {"acked", "given", "taken", "told"}
      BY DEF IInv, FieldsOK
    <3>2. PICK f : f = Accounted(fate, job[d].kind, lost)
      OBVIOUS
    <3>3. /\ DOMAIN f = DOMAIN fate /\ fate.given \subseteq f.given
          /\ job[d].kind # "out" => f.taken = fate.taken
      BY <3>1, <3>2 DEF Accounted
    <3>4. fate' = Confirmed(f, job[d], r)
      BY <2>4, <3>2
    <3> QED  BY <3>1, <3>3, <3>4 DEF Confirmed
  <2>6. \A x \in Device \ {d} : job'[x] = job[x]
    BY <1>2, WinsKeeps
  <2>7. ASSUME job[d].kind = "out", job[d].item # None, job[d].item.up # None,
               carries[job[d].item.up] \notin fate.taken
        PROVE  carries[job[d].item.up] \in Present' \cup fate'.given
    <3>1. carries[job[d].item.up] \in AccountHas
      BY <2>7, HasJob DEF MovedIsThere, PutThere
    <3> QED  BY <2>3, <2>5, <2>7, <3>1 DEF AccountHas, Present, SafeState
  <2>8. MovedStep
    BY <2>5, <2>6, <2>7 DEF MovedStep
  <2> QED  BY <1>2, <2>2, <2>8, WinsKeeps DEF Keeps
<1> QED  BY <1>1, <1>2

\* What arrives late removes the notes it may.
LEMMA ArrivesMoved ==
  ASSUME IInv, Arrives
  PROVE  Keeps
<1>1. PICK p \in delayed : Wins(p.rev) /\ slot' = [rev |-> p.rev + 1, state |-> p.state]
  BY DEF Arrives
<1>2. slot.state.gone \ p.state.gone \subseteq fate.told
  BY <1>1 DEF IInv, SlotOK, DelayedOK, Wins
<1>3. NotesStep
  BY <1>1, <1>2 DEF NotesStep, SafeState
<1>4. MovedStep
  BY DEF Arrives, MovedStep
<1> QED  BY <1>3, <1>4, ArrivesKeeps DEF Keeps

\* The steps of a move.
LEMMA MovesKeep ==
  ASSUME IInv, NEW d \in Device, Moves(d)
  PROVE  Keeps
<1>1. CASE MoveIn(d)
  BY <1>1, MoveInReads, ReadsQuiet
<1>2. CASE FolderIn(d)
  BY <1>2, FolderInReads, ReadsQuiet
<1>3. CASE FileIn(d)
  BY <1>3, FileInReads, ReadsQuiet
<1>4. CASE Purge(d)
  BY <1>4, PurgeMoved
<1>5. CASE FoldersLeft(d)
  BY <1>5, FoldersLeftReads, ReadsQuiet
<1>6. CASE PurgeFolders(d)
  BY <1>6, PurgeMoved
<1>7. CASE MoveOut(d)
  BY <1>7, MoveOutReads, ReadsQuiet
<1>8. CASE FolderOut(d)
  <2>1. slot' = slot /\ fate' = fate
    BY <1>8 DEF FolderOut
  <2> QED  BY <1>8, <2>1, FolderOutKeeps, QuietKeeps
<1>9. CASE FileOut(d)
  <2>1. slot' = slot /\ fate' = fate
    BY <1>9 DEF FileOut
  <2> QED  BY <1>9, <2>1, FileOutKeeps, QuietKeeps
<1>10. CASE FoldersOut(d)
  BY <1>10, FoldersOutReads, ReadsQuiet
<1> QED  BY <1>1, <1>2, <1>3, <1>4, <1>5, <1>6, <1>7, <1>8, <1>9, <1>10 DEF Moves

\* The steps that write to the Safe.
LEMMA WritesKeep ==
  ASSUME IInv, NEW d \in Device, Writes(d)
  PROVE  Keeps
<1>1. CASE AddToSafe(d)
  BY <1>1, AddToSafeReads, ReadsQuiet
<1>2. CASE DeleteFromSafe(d)
  BY <1>2, DeleteFromSafeReads, ReadsQuiet
<1>3. CASE Sent(d)
  <2>1. slot' = slot /\ fate' = fate
    BY <1>3 DEF Sent
  <2> QED  BY <1>3, <2>1, SentKeeps, QuietKeeps
<1>4. CASE PutSlot(d)
  BY <1>4, PutSlotMoved
<1>5. CASE NoteGone(d)
  BY <1>5, NoteGoneReads, ReadsQuiet
<1>6. CASE Refresh(d)
  BY <1>6, RefreshReads, ReadsQuiet
<1> QED  BY <1>1, <1>2, <1>3, <1>4, <1>5, <1>6 DEF Writes

\* The steps of a cleanup.
LEMMA SweepsKeep ==
  ASSUME IInv, NEW d \in Device, Sweeps(d)
  PROVE  Keeps
<1>1. CASE Unlock(d)
  BY <1>1, UnlockReads, ReadsQuiet
<1>2. CASE SweepRead(d)
  BY <1>2, SweepReadReads, ReadsQuiet
<1>3. CASE SweepList(d)
  BY <1>3, SweepListReads, ReadsQuiet
<1>4. CASE SweepRelease(d)
  <2>1. slot' = slot /\ fate'.taken = fate.taken
    BY <1>4 DEF SweepRelease, IInv, FieldsOK
  <2> QED  BY <1>4, <2>1, SweepReleaseKeeps, QuietKeeps
<1>5. CASE SweepKeep(d)
  <2>1. slot' = slot /\ fate' = fate
    BY <1>5 DEF SweepKeep
  <2> QED  BY <1>5, <2>1, SweepKeepKeeps, QuietKeeps
<1> QED  BY <1>1, <1>2, <1>3, <1>4, <1>5 DEF Sweeps

\* An edit of the account writes no slot and takes nothing.
LEMMA EditsKeep ==
  ASSUME IInv, NEW d \in Device, Rewrite(d) \/ AddFile(d)
  PROVE  Keeps
<1>1. PICK ops, up : Edit(d, ops, up)
  BY DEF Rewrite, AddFile
<1>2. slot' = slot
  BY <1>1 DEF Edit
<1>3. fate'.taken = fate.taken
  <2>1. DOMAIN fate = {"acked", "given", "taken", "told"}
    BY DEF IInv, FieldsOK
  <2> QED  BY <1>1, <2>1 DEF Edit
<1> QED  BY <1>2, <1>3, RewriteKeeps, AddFileKeeps, QuietKeeps

\* Any step keeps the invariant, handles the notes it removes, and takes a
\* file away only when it is in its new place.
LEMMA NextKeeps ==
  ASSUME IInv, [Next]_vars
  PROVE  Keeps
<1>1. CASE \E d \in Device : Moves(d) \/ Writes(d) \/ Sweeps(d)
  BY <1>1, MovesKeep, WritesKeep, SweepsKeep
<1>2. CASE \E d \in Device : Pull(d)
  BY <1>2, PullReads, ReadsQuiet
<1>3. CASE \E d \in Device : Rewrite(d) \/ AddFile(d)
  BY <1>3, EditsKeep
<1>4. CASE \E d \in Device : GiveUp(d)
  <2>1. slot' = slot /\ fate' = fate
    BY <1>4 DEF GiveUp
  <2> QED  BY <1>4, <2>1, GiveUpKeeps, QuietKeeps
<1>5. CASE \E d \in Device : Fails(d)
  BY <1>5, FailsReads, ReadsQuiet
<1>6. CASE Arrives
  BY <1>6, ArrivesMoved
<1>7. CASE HourPasses
  <2>1. /\ UNCHANGED <<account, seen, slot, open, job, delayed, stored, minted, carries, fate>>
        /\ aged' = {u \in Upload : stored[u] # "none"}
    BY <1>7 DEF HourPasses
  <2>2. aged \subseteq aged' /\ \A u \in aged' : IsStored(u)
    BY <2>1 DEF IInv, UploadsKept, IsStored
  <2> QED  BY <2>1, <2>2, AgesKeep, QuietKeeps
<1>8. CASE UNCHANGED vars
  <2>1. /\ UNCHANGED <<account, seen, slot, open, job, delayed, stored, minted, carries, fate>>
        /\ aged' = aged
    BY <1>8 DEF vars
  <2>2. \A u \in aged' : IsStored(u)
    BY <2>1 DEF IInv, UploadsKept
  <2> QED  BY <2>1, <2>2, AgesKeep, QuietKeeps
<1> QED  BY <1>1, <1>2, <1>3, <1>4, <1>5, <1>6, <1>7, <1>8 DEF Next

-----------------------------------------------------------------------------
(* The properties                                                          *)

\* The invariant holds in every behaviour.
LEMMA Invariance == Spec => []IInv
<1>1. IInv /\ [Next]_vars => IInv'
  BY NextKeeps DEF Keeps
<1> QED  BY <1>1, InitHolds, PTL DEF Spec

\* The slot, the jobs and the uploads are of their kinds, and the Safe's tree
\* is well formed, whatever devices write and whichever writes arrive late.
THEOREM TypesHold == Spec => []TypeOK
<1>1. IInv => TypeOK
  <2> SUFFICES ASSUME IInv  PROVE TypeOK
    OBVIOUS
  <2>1. /\ slot.rev \in Nat /\ SafeState.head \in Nat /\ SafeState.gone \subseteq Upload
        /\ IndexAt(SafeState.ix, SafeState.head)
    <3>1. slot \in Shown
      BY DEF Shown
    <3> QED  BY <3>1, HasVersion DEF SafeState, IInv, SlotOK
  <2>2. /\ Rooted(SafeState.ix.nodes) /\ Acyclic(SafeState.ix.nodes)
        /\ Unambiguous(SafeState.ix.nodes) /\ Bound(SafeState.ix)
    BY <2>1 DEF IndexAt, IndexOK, TreeOK
  <2>3. ASSUME NEW d \in Device
        PROVE  seen[d].head \in 0 .. account.head
    BY DEF IInv, AccountOK, IndexAt
  <2>4. ASSUME NEW d \in Device
        PROVE  open[d].rev \in 1 .. slot.rev
    <3>1. open[d].rev \in 0 .. slot.rev /\ open[d].rev # 0
      BY HasJob, HasVersion DEF VersionOK
    <3> QED  BY <2>1, <3>1
  <2>5. ASSUME NEW d \in Device
        PROVE  job[d].phase \in {"idle", "next", "send", "put", "purge", "tops", "note",
                                 "read", "list", "release", "keep"}
    BY HasJob DEF PhaseOK, Phases
  <2>6. /\ stored \in [Upload -> {"none", "committed", "released"}]
        /\ aged \subseteq Upload /\ minted \in [Device -> 0 .. MaxIds]
        /\ carries \in [Upload -> Upload \cup {None}]
    BY DEF IInv, UploadsKept, IsStored
  <2> QED  BY <2>1, <2>2, <2>3, <2>4, <2>5, <2>6 DEF TypeOK
<1> QED  BY <1>1, Invariance, PTL

\* No write of the slot undoes another: what its author was told is stored
\* stays until its owner gives it up or the purge of a move takes it.
THEOREM EditsHold == Spec => []EditsStay
<1>1. IInv => EditsStay
  BY DEF IInv
<1> QED  BY <1>1, Invariance, PTL

\* The instance lets no upload go that a file of the Safe has, unless the write
\* that added it took more than an hour.
THEOREM BoundHold == Spec => []BoundStays
<1>1. IInv => BoundStays
  BY DEF IInv, BoundKept, MayBeBound, BoundStays, SafeState
<1> QED  BY <1>1, Invariance, PTL

\* A move takes a file away only when the version it had read is in its new
\* place, or was given up there.
THEOREM MovedHolds == Spec => MovedIsInOne
<1>1. IInv /\ [Next]_vars => MovedStep
  BY NextKeeps DEF Keeps
<1> QED  BY <1>1, Invariance, PTL DEF Spec, MovedIsInOne, MovedStep

\* A note leaves the Safe only when the instance was told to let the upload go,
\* or a file uses it.
THEOREM NotesHold == Spec => NotesAreHandled
<1>1. IInv /\ [Next]_vars => NotesStep
  BY NextKeeps DEF Keeps
<1> QED  BY <1>1, Invariance, PTL DEF Spec, NotesAreHandled, NotesStep
=============================================================================
