----------------------------- MODULE DriveIndex -----------------------------
(***************************************************************************)
(* The drive as its log grows: devices append entries, each built on the   *)
(* part of the log its author had pulled, and the index (IndexRules.tla)   *)
(* takes them in log order. There is one index: every replica computes the *)
(* same one (SyncLog.tla), so the concurrency that matters here is between *)
(* what an author had seen (the base of its entry, any position the        *)
(* envelope check of applyEntry admits) and what is in the log by the time *)
(* its operation arrives (`head').                                         *)
(***************************************************************************)
EXTENDS IndexRules

CONSTANTS
  Purged,        \* a node purged before the modelled part of the log
  Started,       \* uploads begun before it
  RulesVersion,  \* the rules versions the clients write
  Selections,    \* whether clients send groups of two tree operations
  MaxSeq         \* the longest log

ASSUME StartedIsTyped == Started \subseteq Upload
ASSUME SomeLocation == Loc # {}
ASSUME RulesAreNumbers == RulesVersion \subseteq Nat
ASSUME NoneIsNoUpload == None \notin Upload

VARIABLES
  index,  \* the nodes and uploads
  head,   \* the length of the log (of its modelled part)
  last    \* the last entry: author, base, operations, outcome

vars == <<index, head, last>>

nodes == index.nodes
uploads == index.uploads

NoEntry == [dev |-> System, base |-> 0, ops |-> <<>>, out |-> "noop"]

Init ==
  /\ index = [nodes |-> [r \in {ROOT, RECOVERED} |-> SystemFolder],
              uploads |-> [u \in Started |-> NewUpload]]
  /\ head = 0
  /\ last = NoEntry

-----------------------------------------------------------------------------
(* Appending an entry of device d, built when d had seen the log up to b   *)

Entry(d, b, v) ==
  [seq |-> head + 1, dev |-> d, base |-> b, rules |-> v, sub |-> 0]

\* An operation that names the Gallery is written with rules 4.
NamesGallery(op) ==
  \/ "space" \in DOMAIN op /\ op.space = "gallery"
  \/ "node" \in DOMAIN op /\ op.node = GALLERY
  \/ "parent" \in DOMAIN op /\ op.parent = GALLERY

\* r1 and r2 are the results of the first and of the last operation. Only an
\* applied entry changes the index.
Enter(d, b, ops) ==
  /\ head < MaxSeq
  /\ head' = head + 1
  /\ \E v \in RulesVersion :
     /\ (\E i \in DOMAIN ops : NamesGallery(ops[i])) => v >= 4
     /\ \E e \in {Entry(d, b, v)} :
        \E r1 \in {Member(WithGallery(index, e), e, ops, 1)} :
        \E r2 \in {IF Len(ops) = 1 THEN r1 ELSE Member(r1.ix, e, ops, 2)} :
        \E out \in {Outcome({r1.out, r2.out})} :
          /\ index' = IF out = "applied" THEN r2.ix ELSE index
          /\ last' = [dev |-> d, base |-> b, ops |-> ops, out |-> out]

-----------------------------------------------------------------------------
(* The operations clients send. They name nodes their author has seen: such*)
(* a node is in the index or was purged since (or it is the Gallery, which *)
(* its first use creates). The upload of a file is     *)
(* committed and used in one group (DriveClient.upload).                   *)

Known ==
  DOMAIN nodes \cup {Purged} \cup (IF 4 \in RulesVersion THEN {GALLERY} ELSE {})
Space0 == IF 4 \in RulesVersion THEN {"drive", "gallery"} ELSE {"drive"}
Loc0 == CHOOSE l \in Loc : TRUE

CreateFolder(d, b) ==
  \E id \in UserNode, name \in UserName, p \in Known, s \in Space0 :
    Enter(d, b, <<[type |-> "create", kind |-> "folder", node |-> id, name |-> name,
                   parent |-> p, space |-> s]>>)

CreateFile(d, b) ==
  \E u \in Upload, id \in UserNode, name \in UserName, p \in Known, s \in Space0 :
    Enter(d, b, <<[type |-> "upload_commit", up |-> u],
                  [type |-> "create", kind |-> "file", node |-> id, name |-> name,
                   parent |-> p, space |-> s, up |-> u, loc |-> Loc0]>>)

\* The base version is the current one only if the author had seen it; None
\* stands for any other.
MayBase(d, b, id, v) ==
  \/ v = None
  \/ /\ id \in DOMAIN nodes
     /\ nodes[id].content # None
     /\ nodes[id].content.up = v
     /\ nodes[id].content.seq <= b \/ nodes[id].content.dev = d

NewContent(d, b) ==
  \E u \in Upload, id \in Known, name \in UserName, s \in Space0, v \in Upload \cup {None} :
    /\ MayBase(d, b, id, v)
    /\ Enter(d, b, <<[type |-> "upload_commit", up |-> u],
                     [type |-> "new_content_version", node |-> id, baseVersion |-> v,
                      name |-> name, space |-> s, up |-> u, loc |-> Loc0]>>)

Rename(d, b) ==
  \E id \in Known, name \in UserName :
    Enter(d, b, <<[type |-> "rename", node |-> id, name |-> name]>>)

Move(d, b) ==
  \E id, p \in Known : Enter(d, b, <<[type |-> "move", node |-> id, parent |-> p]>>)

Trash(d, b) == \E id \in Known : Enter(d, b, <<[type |-> "trash", node |-> id]>>)

Restore(d, b) == \E id \in Known : Enter(d, b, <<[type |-> "restore", node |-> id]>>)

Purge(d, b) == \E id \in Known : Enter(d, b, <<[type |-> "purge", node |-> id]>>)

\* A move into the Safe: trash and purge in one group (SafeTree).
TrashAndPurge(d, b) ==
  \E id \in Known : Enter(d, b, <<[type |-> "trash", node |-> id],
                                  [type |-> "purge", node |-> id]>>)

\* A selection moved in one group.
MoveTwo(d, b) ==
  /\ Selections
  /\ \E id1, id2, p \in Known :
       /\ id1 # id2
       /\ Enter(d, b, <<[type |-> "move", node |-> id1, parent |-> p],
                        [type |-> "move", node |-> id2, parent |-> p]>>)

\* A selection trashed, restored or purged in one group; the cleaner of the
\* trash purges what has expired the same way.
SelectTwo(d, b) ==
  /\ Selections
  /\ \E t \in {"trash", "restore", "purge"}, id1, id2 \in Known :
       /\ id1 # id2
       /\ Enter(d, b, <<[type |-> t, node |-> id1], [type |-> t, node |-> id2]>>)

UploadBegin(d, b) ==
  \E u \in Upload : Enter(d, b, <<[type |-> "upload_begin", up |-> u]>>)

UploadAbort(d, b) ==
  \E u \in Upload : Enter(d, b, <<[type |-> "upload_abort", up |-> u]>>)

Relocate(d, b) ==
  \E u \in Upload, from, to \in Loc :
    Enter(d, b, <<[type |-> "relocate", up |-> u, from |-> from, loc |-> to]>>)

Next ==
  \E d \in Device, b \in 0 .. head :
    \/ CreateFolder(d, b) \/ CreateFile(d, b) \/ NewContent(d, b)
    \/ Rename(d, b) \/ Move(d, b) \/ MoveTwo(d, b)
    \/ Trash(d, b) \/ Restore(d, b)
    \/ Purge(d, b) \/ SelectTwo(d, b) \/ TrashAndPurge(d, b)
    \/ UploadBegin(d, b) \/ UploadAbort(d, b) \/ Relocate(d, b)

Spec == Init /\ [][Next]_vars

-----------------------------------------------------------------------------
(* The index is well formed after every entry                              *)

\* The index holds the records the code builds, and no mark, binding or end
\* of an upload lies ahead of the log.
TypeOK == head \in Nat /\ Typed(index, head)

\* The roots stay live roots; every other node hangs below an existing
\* folder, whatever was purged in the meantime (no orphans).
NoOrphans == Rooted(nodes)

\* No cycles, however moves built on different views of the tree cross.
NoCycles == Acyclic(nodes)

\* The tree stays one tree, whatever moves, purges and restores meet.
IsTree == NoOrphans /\ NoCycles

\* No two live children of a folder have the same folded name, however many
\* creates, renames, moves and restores meet there.
UniqueNames == Unambiguous(nodes)

\* No file points at fragments that may be deleted, no two files share an
\* upload, and no bound upload (whose fragments are kept for ever) is out of
\* the reach of the tree.
Bindings == Bound(index)

-----------------------------------------------------------------------------
(* What an entry may never do                                              *)

\* The last operation of the new entry, if it is the entry's own purpose: a
\* single operation, or the one a commit of its upload precedes.
Purpose(ops, op) ==
  op = ops[Len(ops)] /\ (Len(ops) = 1 \/ ops[1].type = "upload_commit")

SparesUnseen ==
  /\ \A n \in DOMAIN nodes \ DOMAIN nodes' : ~Unseen(last', nodes[n].placed)
  /\ \A n \in DOMAIN nodes : LET c == nodes[n].content IN
       c # None /\ Unseen(last', c) =>
         \/ uploads'[c.up].status = "bound"
         \/ /\ n \in DOMAIN nodes' /\ Plain[c.up] # None
            /\ Plain[nodes'[n].content.up] = Plain[c.up]

\* Nobody destroys what he had not seen (Q2, Q3, Q7): an entry deletes no
\* node whose place its author did not know, and ends no version its author
\* did not know, unless the file's new version has the same plaintext.
NoUnseenLoss == [][SparesUnseen]_vars

PutsPurposeLive ==
  last'.out = "applied" =>
    \A op \in {o \in {last'.ops[i] : i \in DOMAIN last'.ops} : Purpose(last'.ops, o)} :
      /\ op.type \in {"create", "restore", "new_content_version"}
            /\ op.node \in DOMAIN nodes' => ~InTrash(nodes', op.node)
      /\ op.type = "move" /\ nodes[op.node].trashed = 0 => ~InTrash(nodes', op.node)
      /\ op.type = "new_content_version" =>
           \A n \in DOMAIN nodes' :
             nodes'[n].content # None /\ nodes'[n].placed.seq = head' => ~InTrash(nodes', n)

\* What an applied create, restore, move or new version puts in place is not
\* in the trash, whatever others trashed meanwhile; and a version that new
\* content displaced in a conflict is in a live file too.
AppliedIsLive == [][PutsPurposeLive]_vars

KeepsSpaces ==
  (\A i \in DOMAIN last'.ops : last'.ops[i].type # "move") =>
    \A n \in {k \in DOMAIN nodes \cap DOMAIN nodes' : nodes'[k].parent # nodes[k].parent} :
      Space(nodes', n) = Space(nodes, n)

\* Only a move takes a node from the Drive to the Gallery or back: whatever a
\* restore, a recovery or a purge puts elsewhere (and all below it with it)
\* stays in its space.
SpaceKept == [][KeepsSpaces]_vars

TellsOfTrash ==
  LET op == last'.ops[1] IN
  Len(last'.ops) = 1 /\ op.type = "trash" /\ last'.out = "applied" =>
    \A x \in Subtree(nodes, op.node) \ {op.node}, d \in Device :
      /\ ~InTrash(nodes, x)
      /\ \/ nodes[x].placed.dev = d /\ Unseen(last', nodes[x].placed)
         \/ nodes[x].content # None /\ nodes[x].content.dev = d
            /\ Unseen(last', nodes[x].content)
      =>
        \E a \in Path(nodes, op.node, x) : a \in Told(nodes, last', op.node, d)

\* Trashing a folder tells every device whose unseen change went to the trash
\* with it, at that node or at one above it (Q1).
UnseenTrashIsTold == [][TellsOfTrash]_vars

RestartsKept ==
  LET op == last'.ops[1] IN
  Len(last'.ops) = 1 /\ op.type = "purge" /\ last'.out = "applied" =>
    \A x \in Subtree(nodes, op.node) \cap DOMAIN nodes' :
      /\ InTrash(nodes', x)
      /\ \A t \in TopTrashed(nodes', x) : nodes'[t].trashed = head'

\* Whatever a purge leaves below the node it was for stays in the trash, and
\* the clock that expiredTrash reads for it starts again.
KeptStartsAgain == [][RestartsKept]_vars

KeepsVersions ==
  \A m \in DOMAIN nodes, n \in DOMAIN nodes' :
    LET c == nodes[m].content
        k == nodes'[n].content
    IN  c # None /\ k # None /\ c.up = k.up =>
          /\ k.seq = c.seq /\ k.dev = c.dev
          /\ k.loc # c.loc => last'.ops[1].type = "relocate" /\ last'.ops[1].from = c.loc

\* A version keeps its author and its place in the log for as long as a file
\* has it, so no relocation or conflict makes it unseen to those who had seen
\* it; its bytes move only from where the mover thought they were.
VersionsKeep == [][KeepsVersions]_vars
=============================================================================
