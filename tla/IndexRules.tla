----------------------------- MODULE IndexRules -----------------------------
(***************************************************************************)
(* The rules of the drive index (packages/sync-core/src/apply.ts): what    *)
(* one log entry does to the tree of nodes and to the table of uploads.    *)
(* Every replica applies the same entries in the same order, so the index  *)
(* is a function of the log; this module is that function, one operator    *)
(* per kind of operation. DriveIndex.tla is the state machine around it.   *)
(*                                                                         *)
(* An index `ix' is [nodes, uploads]: two functions whose domains are the  *)
(* nodes and the uploads that exist. An entry `e' carries its position     *)
(* `seq', its author `dev', the position `base' up to which the author had *)
(* seen the log, its rules version `rules', and `sub', the place in a      *)
(* group of the operation being applied.                                   *)
(*                                                                         *)
(* Abstractions. Names are <<word, suffixes>>: suffixedName appends its    *)
(* number, conflictName appends ConflictMark (all conflicts of one file    *)
(* collide, as two of one device in one minute do); Fold is the case       *)
(* folding of words. The version of a file is identified with the upload that carries *)
(* it (a client mints one version per upload), its plaintext hash is       *)
(* Plain[upload]. The server time of an entry is its position. Well-formed *)
(* payloads only: the format checks of IDs, names and refs are left out.   *)
(***************************************************************************)
EXTENDS Integers, Sequences, FiniteSets

CONSTANTS
  ROOT, RECOVERED, GALLERY,  \* the system folders
  None,                      \* no parent, no content, no base version
  System,                    \* the author of the system folders
  Device,                    \* the devices of the account
  UserNode,                  \* the node IDs clients mint
  Upload,                    \* the upload IDs clients mint
  UserName,                  \* the names users type, <<word, suffixes>>
  Fold,                      \* the case folding of a word
  Plain,                     \* the plaintext hash of an upload, None if it has none
  Loc                        \* where a version's manifest may be

Roots == {ROOT, RECOVERED, GALLERY}
ConflictMark == 1

\* Nodes the rules make themselves: <<tag, position of the entry, sub>>.
DerivedId == {"recovered", "conflict"} \X Nat \X Nat
NodeId == Roots \cup UserNode \cup DerivedId

ASSUME IdsAreDistinct ==
  /\ ROOT # RECOVERED /\ ROOT # GALLERY /\ RECOVERED # GALLERY
  /\ \A x \in Roots \cup {None} : x \notin UserNode /\ x \notin DerivedId
  /\ \A x \in UserNode : x \notin DerivedId
  /\ None \notin Roots
  /\ None \notin [up : Upload, seq : Nat, dev : Device, loc : Loc]

ASSUME NamesAreTyped == UserName \subseteq (DOMAIN Fold) \X Seq(Nat)

-----------------------------------------------------------------------------
(* The tree                                                                *)

\* Walking up from a member of S never leaves S.
UpClosed(ns, S) == \A x \in S : ns[x].parent # None => ns[x].parent \in S

\* The node and its ancestors: the least set that holds it and is closed
\* upwards.
Chain(ns, id) ==
  {a \in DOMAIN ns : \A S \in SUBSET DOMAIN ns :
                       id \in S /\ UpClosed(ns, S) => a \in S}

Subtree(ns, id) == {x \in DOMAIN ns : id \in Chain(ns, x)}

\* From `top' down to `id', both included.
Path(ns, top, id) == Chain(ns, id) \cap Subtree(ns, top)

InTrash(ns, id) == \E a \in Chain(ns, id) : ns[a].trashed # 0

Space(ns, id) == IF GALLERY \in Chain(ns, id) THEN "gallery" ELSE "drive"

IsSystem(ns, id) == id \in {ROOT, RECOVERED} \/ (id = GALLERY /\ id \in DOMAIN ns)

Put(ns, id, rec) == [x \in DOMAIN ns \cup {id} |-> IF x = id THEN rec ELSE ns[x]]

Drop(ns, ids) == [x \in DOMAIN ns \ ids |-> ns[x]]

SystemFolder ==
  [kind |-> "folder", name |-> <<None, <<>>>>, parent |-> None, trashed |-> 0,
   placed |-> [seq |-> 0, dev |-> System], content |-> None]

-----------------------------------------------------------------------------
(* Names                                                                   *)

Key(name) == <<Fold[name[1]], name[2]>>

\* (mutant) Names are compared without the folding.
TakenUnfolded(ns, parent, name, self) ==
  \E x \in DOMAIN ns \ {self} :
    ns[x].parent = parent /\ ns[x].trashed = 0 /\ ns[x].name = name

\* A live sibling other than `self' answers to this name. A child of a
\* trashed folder is live here as long as it is not trashed itself.
Taken(ns, parent, name, self) ==
  \E x \in DOMAIN ns \ {self} : /\ ns[x].parent = parent
                                /\ ns[x].trashed = 0
                                /\ Key(ns[x].name) = Key(name)

Suffixed(name, i) == <<name[1], Append(name[2], i)>>

FreeSuffixes(ns, parent, name, self) ==
  {i \in 2 .. (Cardinality(DOMAIN ns) + 2) : ~Taken(ns, parent, Suffixed(name, i), self)}

\* Rule 2: the name, or the first free of name (2), name (3), ...
FreeName(ns, parent, name, self) ==
  LET free == FreeSuffixes(ns, parent, name, self)
  IN  IF ~Taken(ns, parent, name, self) THEN name
      ELSE Suffixed(name, CHOOSE i \in free : \A j \in free : i <= j)

-----------------------------------------------------------------------------
(* Placing a node                                                          *)

\* (mutant) The position after the entry's.
MarkNext(e) == [seq |-> e.seq + 1, dev |-> e.dev]

Mark(e) == [seq |-> e.seq, dev |-> e.dev]

\* The author of the entry did not know of a change marked m.
Unseen(e, m) == m.seq > e.base /\ m.dev # e.dev

UnseenContent(e, rec) == rec.content # None /\ Unseen(e, rec.content)

PlaceLive(ns, id, rec, parent) ==
  Put(ns, id, [rec EXCEPT !.parent = parent, !.trashed = 0,
                          !.name = FreeName(ns, parent, rec.name, id)])

\* (mutant) The Gallery's nodes go to the Recovered folder of the Drive.
PlaceInRecovered(ns, e, id, rec, intended, hint) ==
  PlaceLive(ns, id, [rec EXCEPT !.placed = Mark(e)], RECOVERED)

\* Rules 3, 3b and 4: into the Recovered folder, or into the Gallery when the
\* intended parent (if it still exists, else the operation's hint) is there.
PlaceRecovered(ns, e, id, rec, intended, hint) ==
  LET space == IF intended \in DOMAIN ns THEN Space(ns, intended) ELSE hint
      place == IF GALLERY \in DOMAIN ns /\ space = "gallery" THEN GALLERY ELSE RECOVERED
  IN  PlaceLive(ns, id, [rec EXCEPT !.placed = Mark(e)], place)

-----------------------------------------------------------------------------
(* Uploads                                                                 *)

\* node, bound: the file that uses the upload and the entry that bound it;
\* moved: the last entry that relocated it; ended: the entry that ended it.
NewUpload == [status |-> "open", node |-> None, bound |-> 0, moved |-> 0, ended |-> 0]

Bind(us, e, up, id) ==
  [us EXCEPT ![up].status = "bound", ![up].node = id, ![up].bound = e.seq]

Release(us, e, ups) ==
  [u \in DOMAIN us |->
     IF u \in ups THEN [us[u] EXCEPT !.status = "released", !.ended = e.seq] ELSE us[u]]

\* (mutant) An upload is used twice.
UsableTwice(us, up) == up \in DOMAIN us /\ us[up].status \in {"committed", "bound"}

Usable(us, up) == up \in DOMAIN us /\ us[up].status = "committed"

-----------------------------------------------------------------------------
(* The operations. Each gives [out, ix]: the outcome and the index after   *)
(* it; only an applied operation changes the index.                        *)

Applied(ns, us)  == [out |-> "applied", ix |-> [nodes |-> ns, uploads |-> us]]
Unchanged(ix, o) == [out |-> o, ix |-> ix]

Version(e, op) == [up |-> op.up, seq |-> e.seq, dev |-> e.dev, loc |-> op.loc]

NewNode(e, kind, name, content) ==
  [kind |-> kind, name |-> name, parent |-> None, trashed |-> 0,
   placed |-> Mark(e), content |-> content]

\* A folder, or a file whose upload is committed and not used yet. With its
\* parent purged or in the trash the node goes to the Recovered folder.
OpCreate(ix, e, op) ==
  LET ns  == ix.nodes
      us  == ix.uploads
      rec == NewNode(e, op.kind, op.name, IF op.kind = "file" THEN Version(e, op) ELSE None)
      lost == op.parent \notin DOMAIN ns \/ InTrash(ns, op.parent)
  IN  IF \/ op.node \in DOMAIN ns
         \/ op.kind = "file" /\ ~Usable(us, op.up)
         \/ op.parent \in DOMAIN ns /\ ns[op.parent].kind # "folder"
      THEN Unchanged(ix, "rejected")
      ELSE Applied(IF lost THEN PlaceRecovered(ns, e, op.node, rec, op.parent, op.space)
                           ELSE PlaceLive(ns, op.node, rec, op.parent),
                   IF op.kind = "file" THEN Bind(us, e, op.up, op.node) ELSE us)

OpRename(ix, e, op) ==
  LET ns    == ix.nodes
      named == [ns[op.node] EXCEPT !.name = op.name]
  IN  IF IsSystem(ns, op.node) THEN Unchanged(ix, "rejected")
      ELSE IF op.node \notin DOMAIN ns THEN Unchanged(ix, "skipped")
      ELSE IF ns[op.node].name = op.name THEN Unchanged(ix, "noop")
      ELSE Applied(IF ns[op.node].trashed # 0 THEN Put(ns, op.node, named)
                   ELSE PlaceLive(ns, op.node, named, ns[op.node].parent),
                   ix.uploads)

\* (mutant) Only the trash is refused.
MisplacedInTrash(ns, id, parent) == InTrash(ns, parent)

\* Rules 5 and 6: never into the trash, never below itself.
Misplaced(ns, id, parent) == InTrash(ns, parent) \/ id \in Chain(ns, parent)

\* A move out of a trashed folder brings the node back; a trashed node stays
\* trashed.
OpMove(ix, e, op) ==
  LET ns    == ix.nodes
      moved == [ns[op.node] EXCEPT !.placed = Mark(e)]
  IN  IF IsSystem(ns, op.node) THEN Unchanged(ix, "rejected")
      ELSE IF ~{op.node, op.parent} \subseteq DOMAIN ns THEN Unchanged(ix, "skipped")
      ELSE IF ns[op.parent].kind # "folder" THEN Unchanged(ix, "rejected")
      ELSE IF ns[op.node].parent = op.parent THEN Unchanged(ix, "noop")
      ELSE IF Misplaced(ns, op.node, op.parent) THEN Unchanged(ix, "skipped")
      ELSE Applied(IF ns[op.node].trashed # 0
                   THEN Put(ns, op.node, [moved EXCEPT !.parent = op.parent])
                   ELSE PlaceLive(ns, op.node, moved, op.parent),
                   ix.uploads)

\* A file with content the author has not seen is not trashed (Q2); a folder
\* is, with everything in it (Q1, see Told).
OpTrash(ix, e, op) ==
  LET ns == ix.nodes
  IN  IF IsSystem(ns, op.node) THEN Unchanged(ix, "rejected")
      ELSE IF op.node \notin DOMAIN ns THEN Unchanged(ix, "skipped")
      ELSE IF ns[op.node].trashed # 0 THEN Unchanged(ix, "noop")
      ELSE IF UnseenContent(e, ns[op.node]) THEN Unchanged(ix, "skipped")
      ELSE Applied([ns EXCEPT ![op.node].trashed = e.seq], ix.uploads)

\* (mutant) New content in the folder is forgotten.
UnseenByPlace(e, rec) == {d \in Device : Unseen(e, rec.placed) /\ rec.placed.dev = d}

\* The devices whose change to a node the author had not seen.
UnseenBy(e, rec) ==
  {d \in Device : \/ Unseen(e, rec.placed) /\ rec.placed.dev = d
                  \/ UnseenContent(e, rec) /\ rec.content.dev = d}

\* The notices of a folder's trashing for device d: the topmost nodes below
\* the folder it changed unseen, not counting what was trashed before.
Told(ns, e, folder, d) ==
  {x \in Subtree(ns, folder) \ {folder} :
     LET way == Path(ns, folder, x) \ {folder}
     IN  /\ \A a \in way : ns[a].trashed = 0
         /\ d \in UnseenBy(e, ns[x])
         /\ \A a \in way \ {x} : d \notin UnseenBy(e, ns[a])}

\* (mutant) The node goes back to where it was, though that is in the trash.
ReviveInPlace(ns, e, id) ==
  PlaceLive(ns, id, [ns[id] EXCEPT !.trashed = 0, !.placed = Mark(e)], ns[id].parent)

\* Back to where the node was, or to the Recovered folder when that is still
\* in the trash.
Revive(ns, e, id) ==
  LET back == [ns[id] EXCEPT !.trashed = 0, !.placed = Mark(e)]
  IN  IF ns[id].trashed # 0 /\ ~InTrash(ns, ns[id].parent)
      THEN PlaceLive(ns, id, back, ns[id].parent)
      ELSE PlaceRecovered(ns, e, id, back, ns[id].parent, "drive")

OpRestore(ix, e, op) ==
  IF IsSystem(ix.nodes, op.node) THEN Unchanged(ix, "rejected")
  ELSE IF op.node \notin DOMAIN ix.nodes THEN Unchanged(ix, "skipped")
  ELSE IF ~InTrash(ix.nodes, op.node) THEN Unchanged(ix, "noop")
  ELSE Applied(Revive(ix.nodes, e, op.node), ix.uploads)

-----------------------------------------------------------------------------
(* Purge (Q3): delete what the author had seen. A node whose place or      *)
(* content is unseen stays with its whole subtree, and so do the folders   *)
(* on the way to it.                                                       *)

\* (mutant) Content is not looked at.
UnseenPlace(e, rec) == Unseen(e, rec.placed)

UnseenNode(e, rec) == Unseen(e, rec.placed) \/ UnseenContent(e, rec)

\* The nodes the walk from `top' reaches: nothing above them is unseen.
Reached(ns, e, top) ==
  {x \in Subtree(ns, top) : \A a \in Path(ns, top, x) \ {x} : ~UnseenNode(e, ns[a])}

Kept(ns, e, top) == {x \in Reached(ns, e, top) : UnseenNode(e, ns[x])}

\* (mutant) The folders above what is kept go too.
DoomedContainers(ns, e, top) == Reached(ns, e, top) \ Kept(ns, e, top)

Doomed(ns, e, top) ==
  (Reached(ns, e, top) \ Kept(ns, e, top))
    \ UNION {Path(ns, top, k) : k \in Kept(ns, e, top)}

\* (mutant) The purged node's own clock.
OwnTrashed(ns, id) == {id}

\* The topmost trashed node on the chain: the one whose clock counts.
TopTrashed(ns, id) ==
  {x \in Chain(ns, id) : /\ ns[x].trashed # 0
                         /\ \A a \in Chain(ns, x) \ {x} : ns[a].trashed = 0}

Contents(ns, ids) == {ns[x].content.up : x \in {y \in ids : ns[y].content # None}}

OpPurge(ix, e, op) ==
  LET ns   == ix.nodes
      kept == Kept(ns, e, op.node)
      gone == Doomed(ns, e, op.node)
      left == Drop(ns, gone)
  IN  IF IsSystem(ns, op.node) THEN Unchanged(ix, "rejected")
      ELSE IF op.node \notin DOMAIN ns THEN Unchanged(ix, "noop")
      ELSE IF ~InTrash(ns, op.node) THEN Unchanged(ix, "skipped")
      ELSE Applied(IF kept = {} THEN left
                   ELSE [x \in DOMAIN left |->
                           IF x \in TopTrashed(ns, op.node)
                           THEN [left[x] EXCEPT !.trashed = e.seq] ELSE left[x]],
                   Release(ix.uploads, e, Contents(ns, gone)))

-----------------------------------------------------------------------------
(* New content (rules 3, 3b and 7). For a purged file it becomes a new     *)
(* node in the Recovered folder. It brings a file back from the trash. If  *)
(* the author's base version is not the current one and the plaintexts     *)
(* differ, the current version moves to a conflict copy next to the file.  *)

Awake(ns, e, id) == IF InTrash(ns, id) THEN Revive(ns, e, id) ELSE ns

Updated(ns, id, version) == Put(ns, id, [ns[id] EXCEPT !.content = version])

OpNewContent(ix, e, op) ==
  LET ns == ix.nodes
      us == ix.uploads
      version == Version(e, op)
      newId == <<"recovered", e.seq, e.sub>>
      newRec == NewNode(e, "file", op.name, version)
      back == Awake(ns, e, op.node)
      rec  == back[op.node]
      cur  == rec.content
      same == Plain[cur.up] # None /\ Plain[cur.up] = Plain[op.up]
      updated == Updated(back, op.node, version)
      copyId  == <<"conflict", e.seq, e.sub>>
      copyRec == NewNode(e, "file", Suffixed(rec.name, ConflictMark), cur)
  IN  IF IsSystem(ns, op.node) \/ ~Usable(us, op.up) THEN Unchanged(ix, "rejected")
      ELSE IF op.node \notin DOMAIN ns
           THEN Applied(PlaceRecovered(ns, e, newId, newRec, None, op.space),
                        Bind(us, e, op.up, newId))
      ELSE IF ns[op.node].kind # "file" THEN Unchanged(ix, "rejected")
      ELSE IF cur.up # op.baseVersion /\ ~same
           THEN Applied(PlaceLive(updated, copyId, copyRec, rec.parent),
                        Bind(Bind(us, e, cur.up, copyId), e, op.up, op.node))
      ELSE Applied(updated, Bind(Release(us, e, {cur.up}), e, op.up, op.node))

-----------------------------------------------------------------------------
(* Uploads (rule 8) and relocation (rules 3 of the log format)             *)

OpUploadBegin(ix, e, op) ==
  LET us == ix.uploads
  IN  IF op.up \in DOMAIN us THEN Unchanged(ix, "rejected")
      ELSE Applied(ix.nodes, Put(us, op.up, NewUpload))

OpUploadCommit(ix, e, op) ==
  LET us == ix.uploads
  IN  IF op.up \notin DOMAIN us THEN Unchanged(ix, "rejected")
      ELSE IF us[op.up].status = "aborted" THEN Unchanged(ix, "rejected")
      ELSE IF us[op.up].status # "open" THEN Unchanged(ix, "noop")
      ELSE Applied(ix.nodes, [us EXCEPT ![op.up].status = "committed"])

OpUploadAbort(ix, e, op) ==
  LET us == ix.uploads
  IN  IF op.up \notin DOMAIN us THEN Unchanged(ix, "rejected")
      ELSE IF us[op.up].status = "aborted" THEN Unchanged(ix, "noop")
      ELSE IF us[op.up].status \in {"bound", "released"} THEN Unchanged(ix, "rejected")
      ELSE Applied(ix.nodes, [us EXCEPT ![op.up].status = "aborted", ![op.up].ended = e.seq])

\* (mutant) The relocated version counts as new content of the mover.
OpRelocateAnew(ix, e, op) ==
  LET ns == ix.nodes
      us == ix.uploads
      id == us[op.up].node
  IN  IF \/ op.up \notin DOMAIN us
         \/ us[op.up].status # "bound"
         \/ ns[id].content.loc # op.from
      THEN Unchanged(ix, "skipped")
      ELSE Applied([ns EXCEPT ![id].content = Version(e, op)], [us EXCEPT ![op.up].moved = e.seq])

\* The bound version's bytes now live at op.loc: a compare and swap on the
\* locator that leaves the version's author and position alone.
OpRelocate(ix, e, op) ==
  LET ns == ix.nodes
      us == ix.uploads
      id == us[op.up].node
  IN  IF e.rules < 3 THEN Unchanged(ix, "rejected")
      ELSE IF \/ op.up \notin DOMAIN us
              \/ us[op.up].status # "bound"
              \/ id \notin DOMAIN ns
              \/ ns[id].content = None
              \/ ns[id].content.up # op.up
              \/ ns[id].content.loc # op.from
           THEN Unchanged(ix, "skipped")
      ELSE IF op.from = op.loc THEN Unchanged(ix, "noop")
      ELSE Applied([ns EXCEPT ![id].content.loc = op.loc], [us EXCEPT ![op.up].moved = e.seq])

-----------------------------------------------------------------------------
(* Entries                                                                 *)

ApplyOp(ix, e, op) ==
  CASE op.type = "create" -> OpCreate(ix, e, op)
    [] op.type = "rename" -> OpRename(ix, e, op)
    [] op.type = "move" -> OpMove(ix, e, op)
    [] op.type = "trash" -> OpTrash(ix, e, op)
    [] op.type = "restore" -> OpRestore(ix, e, op)
    [] op.type = "purge" -> OpPurge(ix, e, op)
    [] op.type = "new_content_version" -> OpNewContent(ix, e, op)
    [] op.type = "upload_begin" -> OpUploadBegin(ix, e, op)
    [] op.type = "upload_commit" -> OpUploadCommit(ix, e, op)
    [] op.type = "upload_abort" -> OpUploadAbort(ix, e, op)
    [] op.type = "relocate" -> OpRelocate(ix, e, op)

\* The member i of the group ops, applied to what the ones before it left.
Member(ix, e, ops, i) == ApplyOp(ix, [e EXCEPT !.sub = i - 1], ops[i])

\* A group (Q9): a rejected member undoes it, a skipped one is left out, a
\* no-op changes nothing.
Outcome(outs) ==
  IF "rejected" \in outs THEN "rejected"
  ELSE IF "applied" \in outs THEN "applied"
  ELSE IF "skipped" \in outs THEN "skipped" ELSE "noop"

\* Rules 4 make the Gallery's root for the entry that needs it; it stays only
\* if the entry is applied.
WithGallery(ix, e) ==
  IF e.rules >= 4 /\ GALLERY \notin DOMAIN ix.nodes
  THEN [ix EXCEPT !.nodes = Put(ix.nodes, GALLERY, SystemFolder)] ELSE ix

-----------------------------------------------------------------------------
(* Well-formed indexes: what checkInvariants of                            *)
(* packages/sync-core/src/invariants.ts looks for                          *)

NameSet == (DOMAIN Fold \cup {None}) \X Seq(Nat)

\* The records of an index that has taken the log up to position h.
MarkSet(h) == [seq : 0 .. h, dev : Device \cup {System}]
ContentSet(h) == [up : Upload, seq : 0 .. h, dev : Device, loc : Loc]
NodeSet(h) ==
  [kind : {"folder", "file"}, name : NameSet, parent : NodeId \cup {None},
   trashed : 0 .. h, placed : MarkSet(h), content : ContentSet(h) \cup {None}]
UploadSet(h) ==
  [status : {"open", "committed", "bound", "released", "aborted"},
   node : NodeId \cup {None}, bound : 0 .. h, moved : 0 .. h, ended : 0 .. h]

Typed(ix, h) ==
  /\ DOMAIN ix.nodes \subseteq NodeId
  /\ \A n \in DOMAIN ix.nodes : ix.nodes[n] \in NodeSet(h)
  /\ DOMAIN ix.uploads \subseteq Upload
  /\ \A u \in DOMAIN ix.uploads : ix.uploads[u] \in UploadSet(h)

\* The roots are live folders; every other node hangs below a folder.
Rooted(ns) ==
  /\ {ROOT, RECOVERED} \subseteq DOMAIN ns
  /\ \A n \in DOMAIN ns \cap Roots :
       ns[n].kind = "folder" /\ ns[n].parent = None /\ ns[n].trashed = 0
  /\ \A n \in DOMAIN ns \ Roots :
       ns[n].parent \in DOMAIN ns /\ ns[ns[n].parent].kind = "folder"

\* Every set of nodes other than the roots has a way out.
Acyclic(ns) ==
  \A S \in SUBSET (DOMAIN ns \ Roots) : S # {} => \E n \in S : ns[n].parent \notin S

\* No two live children of a folder answer to the same name.
Unambiguous(ns) ==
  \A m, n \in DOMAIN ns \ Roots :
    /\ m # n /\ ns[m].parent = ns[n].parent
    /\ ns[m].trashed = 0 /\ ns[n].trashed = 0
    => Key(ns[m].name) # Key(ns[n].name)

\* Files and bound uploads name each other.
Bound(ix) ==
  /\ \A n \in DOMAIN ix.nodes : (ix.nodes[n].kind = "file") = (ix.nodes[n].content # None)
  /\ \A n \in DOMAIN ix.nodes : ix.nodes[n].content # None =>
       LET u == ix.nodes[n].content.up
       IN  u \in DOMAIN ix.uploads /\ ix.uploads[u].status = "bound" /\ ix.uploads[u].node = n
  /\ \A u \in DOMAIN ix.uploads : ix.uploads[u].status = "bound" =>
       /\ ix.uploads[u].node \in DOMAIN ix.nodes
       /\ ix.nodes[ix.uploads[u].node].content # None
       /\ ix.nodes[ix.uploads[u].node].content.up = u
=============================================================================
