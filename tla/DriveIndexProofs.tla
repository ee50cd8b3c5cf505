-------------------------- MODULE DriveIndexProofs --------------------------
(***************************************************************************)
(* The index is well formed in every state of the drive, and what an entry *)
(* may never do, whatever its author had not seen: the invariants and the  *)
(* action properties of DriveIndex, for any devices, nodes, uploads, names *)
(* and lengths of the log.                                                 *)
(***************************************************************************)
EXTENDS DriveIndex, IndexProofs

\* The inductive invariant: a well-formed index, and no node derived from an
\* entry that is not in the log yet (so a derived node is always new).
Inv ==
  /\ head \in Nat
  /\ IndexOK(index, head)
  /\ Made(nodes, head)

\* initIndex builds a well-formed index: the two system roots, no marks ahead
\* of the empty log.
LEMMA InitInv == Init => Inv
<1> SUFFICES ASSUME Init  PROVE Inv
  OBVIOUS
<1> DEFINE ns == [r \in {ROOT, RECOVERED} |-> SystemFolder]
           us == [u \in Started |-> NewUpload]
<1>1. index = [nodes |-> ns, uploads |-> us] /\ head = 0
  BY DEF Init
<1>2. DOMAIN ns = {ROOT, RECOVERED} /\ {ROOT, RECOVERED} \subseteq Roots
      /\ \A n \in DOMAIN ns : ns[n] = SystemFolder
  BY DEF Roots
<1>3. DOMAIN us \subseteq Upload /\ \A u \in DOMAIN us : us[u] = NewUpload
  BY StartedIsTyped
<1> HIDE DEF ns, us
<1>4. TreeOK(ns, 0)
  <2>1. IsFiniteSet({ROOT, RECOVERED})
    <3>1. {ROOT, RECOVERED} = {ROOT} \cup {RECOVERED}
      OBVIOUS
    <3>2. IsFiniteSet({ROOT})
      BY FS_Singleton
    <3> QED  BY <3>1, <3>2, FS_AddElement
  <2>2. SystemFolder \in NodeSet(0)
    BY SystemFolderIsNode
  <2>3. Rooted(ns)
    BY <1>2 DEF Rooted, SystemFolder
  <2>4. Acyclic(ns) /\ Unambiguous(ns)
    BY <1>2 DEF Acyclic, Unambiguous
  <2> QED  BY <1>2, <2>1, <2>2, <2>3, <2>4 DEF TreeOK, NodeId
<1>5. UploadsOK(us, 0)
  <2>1. NewUpload \in UploadSet(0)
    BY DEF NewUpload, UploadSet
  <2> QED  BY <1>3, <2>1 DEF UploadsOK
<1>6. Bound([nodes |-> ns, uploads |-> us])
  BY <1>2, <1>3 DEF Bound, SystemFolder, NewUpload
<1>7. Made(ns, 0)
  BY <1>2, IdsAreDistinct DEF Made
<1> QED  BY <1>1, <1>4, <1>5, <1>6, <1>7, IndexIsOK DEF Inv, nodes

\* Appending an entry of one or two well-formed operations keeps the
\* invariant (applyEntry as a whole).
LEMMA EnterKeeps ==
  ASSUME Inv, NEW d \in Device, NEW b \in 0 .. head,
         NEW ops, Len(ops) = 1 \/ Len(ops) = 2,
         OpOK(ops[1]), Len(ops) = 2 => OpOK(ops[2]), Enter(d, b, ops)
  PROVE  Inv'
<1>1. PICK v \in RulesVersion :
        \E e \in {Entry(d, b, v)} :
        \E r1 \in {Member(WithGallery(index, e), e, ops, 1)} :
        \E r2 \in {IF Len(ops) = 1 THEN r1 ELSE Member(r1.ix, e, ops, 2)} :
          index' = r2.ix \/ index' = index
  BY DEF Enter
<1> DEFINE e == Entry(d, b, v)
<1>2. head \in Nat /\ head' = head + 1 /\ b \in Nat /\ v \in Nat
  BY RulesAreNumbers DEF Inv, Enter
<1>3. EntryOK(e) /\ e.seq = head + 1 /\ e.sub = 0
  BY <1>2 DEF Entry, EntryOK
<1> HIDE DEF e
<1>4. CASE index' = index
  <2>1. Made(nodes, head + 1)
    BY <1>2 DEF Inv, Made, DerivedId
  <2> QED  BY <1>2, <1>4, <2>1, IndexGrows DEF Inv, nodes
<1>5. CASE index' # index
  <2>1. PICK r1 \in {Member(WithGallery(index, e), e, ops, 1)} :
             \E r2 \in {IF Len(ops) = 1 THEN r1 ELSE Member(r1.ix, e, ops, 2)} : index' = r2.ix
    BY <1>1, <1>5 DEF e
  <2> DEFINE r2 == IF Len(ops) = 1 THEN r1 ELSE Member(r1.ix, e, ops, 2)
  <2>2. IndexOK(r2.ix, e.seq) /\ Made(r2.ix.nodes, e.seq)
    BY <1>3, MembersKeep DEF Inv, nodes
  <2> QED  BY <1>2, <1>3, <2>1, <2>2 DEF Inv, nodes
<1> QED  BY <1>4, <1>5

\* Every step of every device keeps the invariant.
LEMMA NextInv == Inv /\ [Next]_vars => Inv'
<1> SUFFICES ASSUME Inv, [Next]_vars  PROVE Inv'
  OBVIOUS
<1>1. CASE UNCHANGED vars
  BY <1>1 DEF Inv, vars, nodes
<1>2. ASSUME NEW d \in Device, NEW b \in 0 .. head,
             \/ CreateFolder(d, b) \/ CreateFile(d, b) \/ NewContent(d, b)
             \/ Rename(d, b) \/ Move(d, b) \/ MoveTwo(d, b)
             \/ Trash(d, b) \/ Restore(d, b)
             \/ Purge(d, b) \/ SelectTwo(d, b) \/ TrashAndPurge(d, b)
             \/ UploadBegin(d, b) \/ UploadAbort(d, b) \/ Relocate(d, b)
      PROVE  Inv'
  <2> DEFINE One(op) == Enter(d, b, <<op>>)
             Two(op1, op2) == Enter(d, b, <<op1, op2>>)
  <2>1. ASSUME NEW op, OpOK(op), One(op)  PROVE Inv'
    BY <2>1, EnterKeeps
  <2>2. ASSUME NEW op1, NEW op2, OpOK(op1), OpOK(op2), Two(op1, op2)  PROVE Inv'
    <3>1. Len(<<op1, op2>>) = 2
      OBVIOUS
    <3> QED  BY <2>2, <3>1, EnterKeeps
  <2>3. UserName \subseteq NameSet /\ Loc0 \in Loc
    BY NamesAreTyped, SomeLocation DEF NameSet, Loc0
  <2>4. CASE CreateFolder(d, b)
    BY <2>1, <2>3, <2>4 DEF CreateFolder, OpOK
  <2>5. CASE CreateFile(d, b)
    BY <2>2, <2>3, <2>5 DEF CreateFile, OpOK
  <2>6. CASE NewContent(d, b)
    BY <2>2, <2>3, <2>6 DEF NewContent, OpOK
  <2>7. CASE Rename(d, b)
    BY <2>1, <2>3, <2>7 DEF Rename, OpOK
  <2>8. CASE Move(d, b)
    BY <2>1, <2>8 DEF Move, OpOK
  <2>9. CASE MoveTwo(d, b)
    BY <2>2, <2>9 DEF MoveTwo, OpOK
  <2>10. CASE Trash(d, b)
    BY <2>1, <2>10 DEF Trash, OpOK
  <2>11. CASE Restore(d, b)
    BY <2>1, <2>11 DEF Restore, OpOK
  <2>12. CASE Purge(d, b)
    BY <2>1, <2>12 DEF Purge, OpOK
  <2>13. CASE SelectTwo(d, b)
    BY <2>2, <2>13 DEF SelectTwo, OpOK
  <2>14. CASE TrashAndPurge(d, b)
    BY <2>2, <2>14 DEF TrashAndPurge, OpOK
  <2>15. CASE UploadBegin(d, b)
    BY <2>1, <2>15 DEF UploadBegin, OpOK
  <2>16. CASE UploadAbort(d, b)
    BY <2>1, <2>16 DEF UploadAbort, OpOK
  <2>17. CASE Relocate(d, b)
    BY <2>1, <2>17 DEF Relocate, OpOK
  <2> QED  BY <1>2, <2>4, <2>5, <2>6, <2>7, <2>8, <2>9, <2>10, <2>11, <2>12, <2>13,
              <2>14, <2>15, <2>16, <2>17
<1> QED  BY <1>1, <1>2 DEF Next

\* The invariant holds in every reachable state.
THEOREM Invariance == Spec => []Inv
BY InitInv, NextInv, PTL DEF Spec

\* Type correctness: every replica's index holds only the records apply.ts
\* builds, and no mark, binding or end of an upload lies ahead of the log.
THEOREM TypeCorrect == Spec => []TypeOK
<1>1. Inv => TypeOK
  BY DEF Inv, IndexOK, TreeOK, UploadsOK, TypeOK, Typed
<1> QED  BY <1>1, Invariance, PTL

\* The tree stays one tree: no operation leaves an orphan (purges included), and
\* no interleaving of moves, restores and recoveries makes a cycle.
THEOREM TreeStaysATree == Spec => []IsTree
<1>1. Inv => IsTree
  BY DEF Inv, IndexOK, TreeOK, IsTree, NoOrphans, NoCycles, nodes
<1> QED  BY <1>1, Invariance, PTL

\* Rule 2 is always able to find a free name, and the result is unambiguous:
\* no two live children of a folder answer to the same name.
THEOREM NamesStayUnique == Spec => []UniqueNames
<1>1. Inv => UniqueNames
  BY DEF Inv, IndexOK, TreeOK, UniqueNames, nodes
<1> QED  BY <1>1, Invariance, PTL

\* Files and bound uploads name each other in every state: no file points at
\* fragments that may be deleted, and no two files share an upload.
THEOREM FilesKeepTheirUploads == Spec => []Bindings
<1>1. Inv => Bindings
  BY DEF Inv, IndexOK, Bindings
<1> QED  BY <1>1, Invariance, PTL

-----------------------------------------------------------------------------
(* More about chains                                                       *)

\* A node's chain is linear: of two nodes on it, one is above the other.
LEMMA ChainIsLinear ==
  ASSUME NEW ns, Closed(ns), NEW x \in DOMAIN ns, NEW a \in Chain(ns, x), NEW b \in Chain(ns, x)
  PROVE  a \in Chain(ns, b) \/ b \in Chain(ns, a)
<1> DEFINE S == {y \in DOMAIN ns : a \in Chain(ns, y) \/ y \in Chain(ns, a)}
<1>1. a \in DOMAIN ns /\ b \in DOMAIN ns /\ x \in S
  BY ChainClosed
<1>2. ASSUME NEW y \in S, ns[y].parent # None
      PROVE  ns[y].parent \in S
  <2>1. ns[y].parent \in DOMAIN ns
    BY <1>2 DEF Closed
  <2>2. CASE y \in Chain(ns, a)
    BY <1>1, <1>2, <2>1, <2>2, ChainClosed DEF UpClosed
  <2>3. CASE a \in Chain(ns, y)
    <3>1. CASE a = y
      BY <1>1, <1>2, <2>1, <3>1, ChainClosed DEF UpClosed
    <3>2. CASE a # y
      BY <1>2, <2>1, <2>3, <3>2, ChainStep
    <3> QED  BY <3>1, <3>2
  <2> QED  BY <2>2, <2>3
<1>3. S \in SUBSET DOMAIN ns /\ UpClosed(ns, S)
  BY <1>2 DEF UpClosed
<1>4. b \in S
  BY <1>1, <1>3, ChainLeast
<1> QED  BY <1>4

\* No two nodes are above each other.
LEMMA ChainIsOneWay ==
  ASSUME NEW ns, NEW h, TreeOK(ns, h), NEW a \in DOMAIN ns, NEW b \in DOMAIN ns,
         a \in Chain(ns, b), b \in Chain(ns, a)
  PROVE  a = b
<1> SUFFICES ASSUME a # b  PROVE FALSE
  OBVIOUS
<1>1. Closed(ns) /\ Acyclic(ns) /\ \A r \in DOMAIN ns \cap Roots : ns[r].parent = None
  BY TreeFacts DEF TreeOK
<1>2. ns[b].parent # None /\ a \in Chain(ns, ns[b].parent)
  BY <1>1, ChainStep
<1>3. b \in DOMAIN ns \ Roots /\ ns[b].parent \in DOMAIN ns
  BY <1>1, <1>2 DEF Closed
<1>4. Chain(ns, a) \subseteq Chain(ns, ns[b].parent)
  BY <1>1, <1>2, <1>3, ChainTransitive
<1>5. b \notin Chain(ns, ns[b].parent)
  BY <1>1, <1>2, <1>3, NotAboveItself
<1> QED  BY <1>4, <1>5

\* Of the marked nodes on a chain one is the topmost.
LEMMA TopmostOnChain ==
  ASSUME NEW ns, NEW h, TreeOK(ns, h), NEW x \in DOMAIN ns, NEW S \in SUBSET Chain(ns, x), S # {}
  PROVE  \E t \in S : \A a \in Chain(ns, t) \ {t} : a \notin S
<1>1. Closed(ns) /\ Acyclic(ns) /\ \A r \in DOMAIN ns \cap Roots : ns[r].parent = None
  BY TreeFacts DEF TreeOK
<1>2. S \subseteq DOMAIN ns
  BY <1>1, ChainClosed
<1> DEFINE U == {y \in DOMAIN ns : Chain(ns, y) \cap S # {}}
<1>3. S \subseteq U
  BY <1>1, <1>2, ChainClosed
<1>4. CASE \E r \in U : r \in Roots
  <2>1. PICK r \in U : r \in Roots
    BY <1>4
  <2>2. Chain(ns, r) = {r}
    BY <2>1, RootChain
  <2> QED  BY <2>1, <2>2
<1>5. CASE \A r \in U : r \notin Roots
  <2>1. U \in SUBSET (DOMAIN ns \ Roots) /\ U # {}
    BY <1>3, <1>5
  <2>2. PICK y \in U : ns[y].parent \notin U
    BY <1>1, <2>1 DEF Acyclic
  <2>3. ns[y].parent # None /\ ns[y].parent \in DOMAIN ns
    BY <2>1, TreeFacts DEF Closed
  <2>4. Chain(ns, y) = {y} \cup Chain(ns, ns[y].parent)
    BY <1>1, <2>3, ChainStep
  <2>5. Chain(ns, ns[y].parent) \cap S = {}
    BY <2>2, <2>3
  <2>6. y \in S
    BY <2>4, <2>5
  <2> QED  BY <2>4, <2>5, <2>6
<1> QED  BY <1>4, <1>5

\* A chain on which every node keeps its place is the same chain.
LEMMA ChainStays ==
  ASSUME NEW ns, Closed(ns), NEW new, Closed(new), NEW x \in DOMAIN ns,
         \A a \in Chain(ns, x) : a \in DOMAIN new /\ new[a].parent = ns[a].parent
  PROVE  Chain(new, x) = Chain(ns, x)
<1>1. x \in Chain(ns, x) /\ Chain(ns, x) \subseteq DOMAIN ns /\ UpClosed(ns, Chain(ns, x))
  BY ChainClosed
<1>2. x \in Chain(new, x) /\ UpClosed(new, Chain(new, x))
  BY <1>1, ChainClosed
<1>3. Chain(ns, x) \in SUBSET DOMAIN new /\ UpClosed(new, Chain(ns, x))
  BY <1>1 DEF UpClosed
<1>4. Chain(new, x) \subseteq Chain(ns, x)
  BY <1>1, <1>3, ChainLeast
<1>5. Chain(new, x) \in SUBSET DOMAIN ns /\ UpClosed(ns, Chain(new, x))
  BY <1>1, <1>2, <1>4 DEF UpClosed
<1>6. Chain(ns, x) \subseteq Chain(new, x)
  BY <1>2, <1>5, ChainLeast
<1> QED  BY <1>4, <1>6

\* A chain ends at a root.
LEMMA ChainHasRoot ==
  ASSUME NEW ns, NEW h, TreeOK(ns, h), NEW x \in DOMAIN ns
  PROVE  Chain(ns, x) \cap Roots # {}
<1> SUFFICES ASSUME Chain(ns, x) \cap Roots = {}  PROVE FALSE
  OBVIOUS
<1>1. Closed(ns) /\ Acyclic(ns)
  BY TreeFacts DEF TreeOK
<1>2. x \in Chain(ns, x) /\ Chain(ns, x) \subseteq DOMAIN ns /\ UpClosed(ns, Chain(ns, x))
  BY <1>1, ChainClosed
<1>3. PICK y \in Chain(ns, x) : ns[y].parent \notin Chain(ns, x)
  BY <1>1, <1>2 DEF Acyclic
<1>4. ns[y].parent # None
  BY <1>2, <1>3, TreeFacts
<1> QED  BY <1>2, <1>3, <1>4 DEF UpClosed

\* Every node stays in its space when each either keeps its parent or gets one
\* in the space it was in.
LEMMA SpacesStay ==
  ASSUME NEW ns, NEW h, TreeOK(ns, h), NEW new, NEW k, TreeOK(new, k),
         \A x \in DOMAIN ns \cap DOMAIN new :
           \/ new[x].parent = ns[x].parent
           \/ new[x].parent \in DOMAIN ns /\ Space(ns, new[x].parent) = Space(ns, x),
         NEW x \in DOMAIN ns \cap DOMAIN new
  PROVE  Space(new, x) = Space(ns, x)
<1>1. /\ Closed(ns) /\ Closed(new)
      /\ \A n \in DOMAIN ns : ns[n].parent = None <=> n \in Roots
      /\ \A n \in DOMAIN new : new[n].parent = None <=> n \in Roots
  BY TreeFacts
<1> DEFINE In == {y \in DOMAIN ns : GALLERY \in Chain(ns, y)}
<1>2. GALLERY \in Roots
  BY DEF Roots
<1>3. ASSUME NEW y \in DOMAIN ns, ns[y].parent # None
      PROVE  ns[y].parent \in DOMAIN ns /\ (ns[y].parent \in In <=> y \in In)
  <2>1. ns[y].parent \in DOMAIN ns
    BY <1>1, <1>3 DEF Closed
  <2>2. Chain(ns, y) = {y} \cup Chain(ns, ns[y].parent)
    BY <1>1, <1>3, ChainStep
  <2>3. y # GALLERY
    BY <1>1, <1>2, <1>3
  <2> QED  BY <2>1, <2>2, <2>3
<1>4. \A p \in DOMAIN ns, y \in DOMAIN ns : Space(ns, p) = Space(ns, y) <=> (p \in In <=> y \in In)
  BY DEF Space
<1> HIDE DEF In
<1>5. ASSUME NEW y \in DOMAIN ns \cap DOMAIN new, new[y].parent # None
      PROVE  new[y].parent \in DOMAIN ns \cap DOMAIN new /\ (new[y].parent \in In <=> y \in In)
  <2>1. new[y].parent \in DOMAIN new
    BY <1>1, <1>5 DEF Closed
  <2> QED  BY <1>3, <1>4, <1>5, <2>1
<1>6. CASE x \in In
  <2> DEFINE S == {y \in DOMAIN ns \cap DOMAIN new : y \in In}
  <2>1. S \in SUBSET DOMAIN new /\ UpClosed(new, S) /\ x \in S
    BY <1>5, <1>6 DEF UpClosed
  <2>2. Chain(new, x) \subseteq S
    BY <2>1, ChainLeast
  <2>3. PICK r \in Chain(new, x) : r \in Roots
    BY ChainHasRoot
  <2>4. r \in DOMAIN ns \cap Roots /\ r \in In
    BY <2>2, <2>3
  <2>5. GALLERY \in Chain(ns, r) /\ Chain(ns, r) = {r}
    BY <2>4, RootChain DEF In
  <2>6. GALLERY \in Chain(new, x)
    BY <2>3, <2>5
  <2> QED  BY <1>6, <2>6 DEF Space, In
<1>7. CASE x \notin In
  <2> DEFINE S == {y \in DOMAIN ns \cap DOMAIN new : y \notin In}
  <2>1. S \in SUBSET DOMAIN new /\ UpClosed(new, S) /\ x \in S
    BY <1>5, <1>7 DEF UpClosed
  <2>2. Chain(new, x) \subseteq S
    BY <2>1, ChainLeast
  <2>3. ASSUME GALLERY \in Chain(new, x)  PROVE FALSE
    <3>1. GALLERY \in DOMAIN ns /\ GALLERY \notin In
      BY <2>2, <2>3
    <3> QED  BY <1>1, <3>1, ChainClosed DEF In
  <2> QED  BY <1>7, <2>3 DEF Space, In
<1> QED  BY <1>6, <1>7
-----------------------------------------------------------------------------
(* What an operation does, in more detail                                  *)

\* Only the node id was put somewhere, live in the folder p: its mark, content
\* and kind are those of rec.
PutsLive(ns, new, id, rec, p) ==
  /\ DOMAIN new = DOMAIN ns \cup {id}
  /\ \A n \in DOMAIN ns \ {id} : new[n] = ns[n]
  /\ new[id].parent = p /\ new[id].trashed = 0
  /\ new[id].placed = rec.placed /\ new[id].content = rec.content
  /\ new[id].kind = rec.kind

\* placeLive puts a node in a folder, live.
LEMMA PlaceLiveDoes ==
  ASSUME NEW ns, NEW h, NEW id, NEW rec, rec \in NodeSet(h), NEW parent
  PROVE  PutsLive(ns, PlaceLive(ns, id, rec, parent), id, rec, parent)
<1> DEFINE name == FreeName(ns, parent, rec.name, id)
           put  == [rec EXCEPT !.parent = parent, !.trashed = 0, !.name = name]
<1>1. PlaceLive(ns, id, rec, parent) = Put(ns, id, put)
  BY DEF PlaceLive
<1> HIDE DEF name
<1>2. /\ put.parent = parent /\ put.trashed = 0
      /\ put.placed = rec.placed /\ put.content = rec.content /\ put.kind = rec.kind
  BY DEF NodeSet
<1> HIDE DEF put
<1> QED  BY <1>1, <1>2 DEF Put, PutsLive

\* The same below a root, marked with the entry: the Gallery's if the node was
\* meant to be there.
PutsRecovered(ns, new, e, id, rec, intended) ==
  \E p \in DOMAIN ns \cap {RECOVERED, GALLERY} :
    /\ PutsLive(ns, new, id, [rec EXCEPT !.placed = Mark(e)], p)
    /\ intended \in DOMAIN ns /\ GALLERY \in DOMAIN ns =>
         (p = GALLERY <=> Space(ns, intended) = "gallery")

\* placeRecovered puts a node below the root of the space it belongs to.
LEMMA PlaceRecoveredDoes ==
  ASSUME NEW ns, NEW e, EntryOK(e), {ROOT, RECOVERED} \subseteq DOMAIN ns,
         NEW id, NEW rec, rec \in NodeSet(e.seq), NEW intended, NEW hint
  PROVE  PutsRecovered(ns, PlaceRecovered(ns, e, id, rec, intended, hint), e, id, rec, intended)
<1> DEFINE put == [rec EXCEPT !.placed = Mark(e)]
           space == IF intended \in DOMAIN ns THEN Space(ns, intended) ELSE hint
           place == IF GALLERY \in DOMAIN ns /\ space = "gallery" THEN GALLERY ELSE RECOVERED
<1>1. PlaceRecovered(ns, e, id, rec, intended, hint) = PlaceLive(ns, id, put, place)
  BY DEF PlaceRecovered
<1>2. Mark(e) \in MarkSet(e.seq)
  BY DEF Mark, MarkSet, EntryOK
<1>3. put \in NodeSet(e.seq)
  BY <1>2 DEF NodeSet
<1>4. /\ place \in DOMAIN ns \cap {RECOVERED, GALLERY}
      /\ intended \in DOMAIN ns /\ GALLERY \in DOMAIN ns =>
           (place = GALLERY <=> Space(ns, intended) = "gallery")
  BY IdsAreDistinct
<1>5. PutsLive(ns, PlaceLive(ns, id, put, place), id, put, place)
  <2> HIDE DEF put, place
  <2> QED  BY <1>3, PlaceLiveDoes
<1> HIDE DEF place
<1> QED  BY <1>1, <1>4, <1>5 DEF PutsRecovered

\* Below which node a node may be found that was put somewhere by an entry: a
\* root, or a folder that is not in the trash.
LivePlace(ns, p) == p \in DOMAIN ns /\ (p \in Roots \/ ~InTrash(ns, p))

\* Nothing of the tree is in the trash below a root.
LEMMA RootsAreLive ==
  ASSUME NEW ns, NEW h, TreeOK(ns, h), NEW p, LivePlace(ns, p)
  PROVE  ~InTrash(ns, p)
<1>1. CASE p \in Roots
  <2>1. Chain(ns, p) = {p} /\ ns[p].trashed = 0
    BY <1>1, RootChain DEF LivePlace, TreeOK, Rooted
  <2> QED  BY <2>1 DEF InTrash
<1> QED  BY <1>1 DEF LivePlace

\* A node put live below one that is not in the trash is not in the trash,
\* whatever else was put elsewhere, or purged, off that chain.
LEMMA PutLive ==
  ASSUME NEW ns, NEW h, TreeOK(ns, h), NEW new, NEW k, TreeOK(new, k),
         NEW id \in DOMAIN new, new[id].trashed = 0,
         LivePlace(ns, new[id].parent),
         \A a \in Chain(ns, new[id].parent) :
           a \in DOMAIN new /\ new[a].parent = ns[a].parent /\ new[a].trashed = ns[a].trashed
  PROVE  ~InTrash(new, id)
<1> DEFINE p == new[id].parent
<1>1. Closed(ns) /\ Closed(new) /\ p \in DOMAIN ns /\ p # None
  BY TreeFacts DEF LivePlace, Closed
<1>2. Chain(new, p) = Chain(ns, p)
  BY <1>1, ChainStays
<1>3. Chain(new, id) = {id} \cup Chain(ns, p)
  BY <1>1, <1>2, ChainStep
<1>4. ~InTrash(ns, p)
  BY RootsAreLive
<1> QED  BY <1>3, <1>4 DEF InTrash

\* Only the place of the node id changed, within its space, and it is not in
\* the trash.
Revives(ns, new, e, id) ==
  /\ DOMAIN new = DOMAIN ns
  /\ \A n \in DOMAIN ns \ {id} : new[n] = ns[n]
  /\ new[id].content = ns[id].content /\ new[id].kind = ns[id].kind
  /\ new[id].placed = Mark(e) /\ new[id].trashed = 0
  /\ LivePlace(ns, new[id].parent)
  /\ Space(ns, new[id].parent) = Space(ns, id)
  /\ TreeOK(new, e.seq)
  /\ ~InTrash(new, id)
  /\ id \notin Chain(ns, new[id].parent)

\* revive takes a node out of the trash, whatever is trashed above it.
LEMMA ReviveDoes ==
  ASSUME NEW ns, NEW e, EntryOK(e), TreeOK(ns, e.seq), NEW id \in DOMAIN ns \ Roots
  PROVE  Revives(ns, Revive(ns, e, id), e, id)
<1> DEFINE back == [ns[id] EXCEPT !.trashed = 0, !.placed = Mark(e)]
           p == ns[id].parent
           new == Revive(ns, e, id)
<1>1. Closed(ns) /\ {ROOT, RECOVERED} \subseteq DOMAIN ns /\ \A r \in DOMAIN ns \cap Roots : ns[r].parent = None
  BY TreeFacts DEF TreeOK, Rooted
<1>2. p \in DOMAIN ns /\ p # None /\ id \notin Chain(ns, p)
  BY ParentFacts, <1>1 DEF Closed
<1>3. back \in NodeSet(e.seq) /\ back.content = ns[id].content /\ back.kind = ns[id].kind
      /\ back.placed = Mark(e)
  <2>1. ns[id] \in NodeSet(e.seq) /\ 0 \in 0 .. e.seq
    BY DEF TreeOK, EntryOK
  <2>2. Mark(e) \in MarkSet(e.seq)
    BY DEF Mark, MarkSet, EntryOK
  <2> QED  BY <2>1, <2>2 DEF NodeSet
<1> HIDE DEF back
<1>4. Chain(ns, id) = {id} \cup Chain(ns, p)
  BY <1>1, <1>2, ChainStep
<1>5. Space(ns, p) = Space(ns, id)
  <2>1. id # GALLERY
    BY DEF Roots
  <2> QED  BY <1>4, <2>1 DEF Space
<1>6. TreeOK(new, e.seq)
  BY ReviveKeepsTree
<1>7. /\ DOMAIN new = DOMAIN ns
      /\ \A n \in DOMAIN ns \ {id} : new[n] = ns[n]
      /\ new[id].content = ns[id].content /\ new[id].kind = ns[id].kind
      /\ new[id].placed = Mark(e) /\ new[id].trashed = 0
      /\ LivePlace(ns, new[id].parent)
      /\ Space(ns, new[id].parent) = Space(ns, id)
      /\ id \notin Chain(ns, new[id].parent)
  <2>1. CASE ns[id].trashed # 0 /\ ~InTrash(ns, p)
    <3>1. new = PlaceLive(ns, id, back, p)
      BY <2>1 DEF Revive, back
    <3> HIDE DEF new
    <3>2. /\ DOMAIN new = DOMAIN ns \cup {id}
          /\ \A n \in DOMAIN ns \ {id} : new[n] = ns[n]
          /\ new[id].parent = p /\ new[id].trashed = 0
          /\ new[id].placed = back.placed /\ new[id].content = back.content
          /\ new[id].kind = back.kind
      <4> HIDE DEF p
      <4>1. PutsLive(ns, new, id, back, p)
        BY <1>3, <3>1, PlaceLiveDoes
      <4> QED  BY <1>2, <4>1 DEF PutsLive
    <3> QED  BY <1>2, <1>3, <1>5, <2>1, <3>2 DEF LivePlace
  <2>2. CASE ~(ns[id].trashed # 0 /\ ~InTrash(ns, p))
    <3>1. new = PlaceRecovered(ns, e, id, back, p, "drive")
      BY <2>2 DEF Revive, back
    <3> HIDE DEF new
    <3>2. /\ DOMAIN new = DOMAIN ns \cup {id}
          /\ \A n \in DOMAIN ns \ {id} : new[n] = ns[n]
          /\ new[id].parent \in DOMAIN ns \cap {RECOVERED, GALLERY} /\ new[id].trashed = 0
          /\ new[id].placed = Mark(e) /\ new[id].content = ns[id].content
          /\ new[id].kind = ns[id].kind
          /\ GALLERY \in DOMAIN ns => (new[id].parent = GALLERY <=> Space(ns, p) = "gallery")
      <4> HIDE DEF p
      <4>1. PutsRecovered(ns, new, e, id, back, p)
        BY <1>1, <1>3, <3>1, PlaceRecoveredDoes
      <4>2. PICK place \in DOMAIN ns \cap {RECOVERED, GALLERY} :
              /\ PutsLive(ns, new, id, [back EXCEPT !.placed = Mark(e)], place)
              /\ GALLERY \in DOMAIN ns => (place = GALLERY <=> Space(ns, p) = "gallery")
        BY <1>2, <4>1 DEF PutsRecovered
      <4>3. [back EXCEPT !.placed = Mark(e)] = back
        BY <1>3 DEF NodeSet
      <4> QED  BY <1>3, <4>2, <4>3 DEF PutsLive
    <3>3. new[id].parent \in DOMAIN ns \cap Roots /\ Chain(ns, new[id].parent) = {new[id].parent}
      BY <3>2, RootChain DEF Roots
    <3>4. Space(ns, p) = "gallery" => GALLERY \in DOMAIN ns
      BY <1>1, <1>2, ChainClosed DEF Space
    <3>5. Space(ns, new[id].parent) = Space(ns, p)
      BY <3>2, <3>3, <3>4, IdsAreDistinct DEF Space
    <3> QED  BY <1>5, <3>2, <3>3, <3>5 DEF LivePlace
  <2> QED  BY <2>1, <2>2
<1> HIDE DEF new
<1>8. ~InTrash(new, id)
  <2>1. \A a \in Chain(ns, new[id].parent) : a \in DOMAIN ns \ {id}
    BY <1>1, <1>7, ChainClosed DEF LivePlace
  <2> QED  BY <1>6, <1>7, <2>1, PutLive
<1> QED  BY <1>6, <1>7, <1>8 DEF new, Revives

-----------------------------------------------------------------------------
(* Entries                                                                 *)

\* The index an entry starts from holds all that was there, and possibly the
\* Gallery's root besides.
Widens(ns, start) ==
  /\ DOMAIN ns \subseteq DOMAIN start
  /\ DOMAIN start \subseteq DOMAIN ns \cup {GALLERY}
  /\ \A n \in DOMAIN ns : start[n] = ns[n]
  /\ \A n \in DOMAIN start \ DOMAIN ns : start[n] = SystemFolder

\* ensureGalleryRoot adds one root and touches nothing else.
LEMMA WithGalleryWidens ==
  ASSUME NEW ix, NEW e
  PROVE  /\ Widens(ix.nodes, WithGallery(ix, e).nodes)
         /\ WithGallery(ix, e).uploads = ix.uploads
<1> DEFINE start == WithGallery(ix, e)
           new   == Put(ix.nodes, GALLERY, SystemFolder)
<1>1. CASE start = ix
  BY <1>1 DEF Widens
<1>2. CASE start # ix
  <2>1. GALLERY \notin DOMAIN ix.nodes /\ start = [ix EXCEPT !.nodes = new]
    BY <1>2 DEF WithGallery
  <2>2. Widens(ix.nodes, new)
    BY <2>1 DEF Widens, Put
  <2> QED  BY <2>1, <2>2
<1> QED  BY <1>1, <1>2

\* What is known of an entry e of operations ops that was appended.
Takes(e, ops) ==
  /\ EntryOK(e) /\ e.sub = 0
  /\ head \in Nat /\ e.seq = head + 1 /\ head' = head + 1
  /\ last'.dev = e.dev /\ last'.base = e.base /\ last'.ops = ops
  /\ IndexOK(index, e.seq) /\ Unmade(nodes, e)
  /\ IndexOK(WithGallery(index, e), e.seq) /\ Unmade(WithGallery(index, e).nodes, e)
  /\ last'.out # "applied" => index' = index

\* The entry did what its members do, one after the other.
Does(e, ops) ==
  LET r1 == Member(WithGallery(index, e), e, ops, 1)
      r2 == IF Len(ops) = 1 THEN r1 ELSE Member(r1.ix, e, ops, 2)
  IN  last'.out = "applied" => Outcome({r1.out, r2.out}) = "applied" /\ index' = r2.ix

\* What appending an entry does, whatever its operations.
LEMMA EnterTakes ==
  ASSUME Inv, NEW d \in Device, NEW b \in 0 .. head, NEW ops, Enter(d, b, ops)
  PROVE  \E e : Takes(e, ops) /\ e.dev = d /\ e.base = b /\ Does(e, ops)
<1>1. PICK v \in RulesVersion :
        LET e == Entry(d, b, v)
            r1 == Member(WithGallery(index, e), e, ops, 1)
            r2 == IF Len(ops) = 1 THEN r1 ELSE Member(r1.ix, e, ops, 2)
            out == Outcome({r1.out, r2.out})
        IN  /\ index' = IF out = "applied" THEN r2.ix ELSE index
            /\ last' = [dev |-> d, base |-> b, ops |-> ops, out |-> out]
  BY DEF Enter
<1> DEFINE e == Entry(d, b, v)
<1>2. head \in Nat /\ head' = head + 1 /\ b \in Nat /\ v \in Nat
  BY RulesAreNumbers DEF Inv, Enter
<1>3. EntryOK(e) /\ e.seq = head + 1 /\ e.sub = 0 /\ e.dev = d /\ e.base = b
  BY <1>2 DEF Entry, EntryOK
<1> HIDE DEF e
<1>4. IndexOK(index, e.seq) /\ Unmade(nodes, e)
  BY <1>2, <1>3, IndexGrows, MadeIsUnmade DEF Inv, nodes
<1>5. IndexOK(WithGallery(index, e), e.seq) /\ Unmade(WithGallery(index, e).nodes, e)
  BY <1>3, <1>4, WithGalleryKeeps DEF nodes
<1> DEFINE r1 == Member(WithGallery(index, e), e, ops, 1)
           r2 == IF Len(ops) = 1 THEN r1 ELSE Member(r1.ix, e, ops, 2)
           out == Outcome({r1.out, r2.out})
<1>6. /\ index' = IF out = "applied" THEN r2.ix ELSE index
      /\ last' = [dev |-> d, base |-> b, ops |-> ops, out |-> out]
  BY <1>1 DEF e
<1> HIDE DEF r1, r2, out
<1>7. last'.dev = d /\ last'.base = b /\ last'.ops = ops /\ last'.out = out
  BY <1>6
<1>8. Takes(e, ops)
  BY <1>2, <1>3, <1>4, <1>5, <1>6, <1>7 DEF Takes
<1>9. last'.out = "applied" => out = "applied" /\ index' = r2.ix
  BY <1>6, <1>7
<1>10. Does(e, ops)
  BY <1>9 DEF r1, r2, out, Does
<1> QED  BY <1>3, <1>8, <1>10

\* An entry of one operation did what the operation does.
DoesOne(e, op) ==
  last'.out = "applied" =>
    /\ ApplyOp(WithGallery(index, e), e, op).out = "applied"
    /\ ApplyOp(WithGallery(index, e), e, op).ix = index'

\* Appending an entry of one operation.
LEMMA SingleStep ==
  ASSUME Inv, NEW d \in Device, NEW b \in 0 .. head, NEW op, Enter(d, b, <<op>>)
  PROVE  \E e : Takes(e, <<op>>) /\ e.dev = d /\ e.base = b /\ DoesOne(e, op)
<1> DEFINE ops == <<op>>
<1>1. Len(ops) = 1 /\ ops[1] = op
  OBVIOUS
<1> HIDE DEF ops
<1>2. Enter(d, b, ops)
  BY DEF ops
<1>3. PICK e : Takes(e, ops) /\ e.dev = d /\ e.base = b /\ Does(e, ops)
  BY <1>2, EnterTakes
<1>4. [e EXCEPT !.sub = 1 - 1] = e
  BY <1>3 DEF Takes, EntryOK
<1> DEFINE r == ApplyOp(WithGallery(index, e), e, op)
<1>5. Member(WithGallery(index, e), e, ops, 1) = r
  BY <1>1, <1>4 DEF Member
<1> HIDE DEF r
<1>6. last'.out = "applied" => Outcome({r.out, r.out}) = "applied" /\ index' = r.ix
  BY <1>1, <1>3, <1>5 DEF Does
<1>7. Outcome({r.out, r.out}) = "applied" => r.out = "applied"
  BY DEF Outcome
<1>8. DoesOne(e, op)
  BY <1>6, <1>7 DEF r, DoesOne
<1> QED  BY <1>3, <1>8 DEF ops

\* An entry of two operations did what the second does (as part f of the entry)
\* to what the first left (r1.ix). Neither was rejected; one of them may have
\* been skipped, or have changed nothing.
DoesTwo(e, f, r1, r2, op1, op2) ==
  /\ EntryOK(f) /\ f.seq = e.seq /\ f.dev = e.dev /\ f.base = e.base
  /\ r1 = ApplyOp(WithGallery(index, e), e, op1)
  /\ r2 = ApplyOp(r1.ix, f, op2)
  /\ IndexOK(r1.ix, e.seq) /\ Unmade(r1.ix.nodes, f)
  /\ last'.out = "applied" => r1.out # "rejected" /\ r2.out # "rejected" /\ r2.ix = index'

\* Appending an entry of two operations.
LEMMA PairStep ==
  ASSUME Inv, NEW d \in Device, NEW b \in 0 .. head, NEW op1, NEW op2,
         OpOK(op1), Enter(d, b, <<op1, op2>>)
  PROVE  \E e, f, r1, r2 : /\ Takes(e, <<op1, op2>>) /\ e.dev = d /\ e.base = b
                           /\ DoesTwo(e, f, r1, r2, op1, op2)
<1> DEFINE ops == <<op1, op2>>
<1>1. Len(ops) = 2 /\ ops[1] = op1 /\ ops[2] = op2
  OBVIOUS
<1> HIDE DEF ops
<1>2. Enter(d, b, ops)
  BY DEF ops
<1>3. PICK e : Takes(e, ops) /\ e.dev = d /\ e.base = b /\ Does(e, ops)
  BY <1>2, EnterTakes
<1> DEFINE f == [e EXCEPT !.sub = 1]
           start == WithGallery(index, e)
           r1 == ApplyOp(start, e, op1)
           r2 == ApplyOp(r1.ix, f, op2)
<1>4. [e EXCEPT !.sub = 1 - 1] = e /\ [e EXCEPT !.sub = 2 - 1] = f
      /\ EntryOK(f) /\ f.seq = e.seq /\ f.dev = d /\ f.base = b
  BY <1>3 DEF Takes, EntryOK
<1>5. IndexOK(r1.ix, e.seq) /\ Unmade(r1.ix.nodes, f)
  <2>1. EntryOK(e) /\ IndexOK(start, e.seq) /\ Unmade(start.nodes, e) /\ e.sub = 0
    BY <1>3 DEF Takes
  <2> HIDE DEF start
  <2>2. IndexOK(r1.ix, e.seq) /\ Joins(start.nodes, r1.ix.nodes, e)
    BY <2>1, ApplyOpKeeps
  <2> HIDE DEF r1
  <2>3. Unmade(r1.ix.nodes, [e EXCEPT !.sub = e.sub + 1])
    BY <2>1, <2>2, JoinsFacts
  <2> QED  BY <2>1, <2>2, <2>3
<1> HIDE DEF f
<1>6. Member(start, e, ops, 1) = r1 /\ Member(r1.ix, e, ops, 2) = r2
  <2>1. Member(start, e, ops, 1) = r1
    BY <1>1, <1>4 DEF Member
  <2> HIDE DEF start, r1
  <2>2. Member(r1.ix, e, ops, 2) = r2
    BY <1>1, <1>4 DEF Member
  <2> QED  BY <2>1, <2>2
<1>7. last'.out = "applied" => Outcome({r1.out, r2.out}) = "applied" /\ index' = r2.ix
  <2>1. LET q1 == Member(start, e, ops, 1)
            q2 == IF Len(ops) = 1 THEN q1 ELSE Member(q1.ix, e, ops, 2)
        IN  last'.out = "applied" => Outcome({q1.out, q2.out}) = "applied" /\ index' = q2.ix
    BY <1>3 DEF Does
  <2> HIDE DEF start, r1, r2
  <2> QED  BY <1>1, <1>6, <2>1
<1> DEFINE o1 == r1.out
           o2 == r2.out
<1>8. Outcome({o1, o2}) = "applied" => o1 # "rejected" /\ o2 # "rejected"
  <2> HIDE DEF o1, o2
  <2> QED  BY DEF Outcome
<1>9. DoesTwo(e, f, r1, r2, op1, op2)
  BY <1>3, <1>4, <1>5, <1>7, <1>8 DEF DoesTwo
<1> HIDE DEF start, r1, r2
<1> QED  BY <1>3, <1>9 DEF ops

-----------------------------------------------------------------------------
(* What the operations touch                                               *)

\* What a rename, a move, a trash, a restore or a purge may do to the tree:
\* contents stay; only a purge deletes, what was seen; only a move changes the
\* space of a node.
Reshapes(e, op, ns, new) ==
  /\ DOMAIN new \subseteq DOMAIN ns
  /\ \A n \in DOMAIN new : new[n].content = ns[n].content
  /\ op.type # "purge" => DOMAIN new = DOMAIN ns
  /\ op.type \in {"trash", "purge"} => \A n \in DOMAIN new : new[n].placed = ns[n].placed
  /\ op.type # "move" => \A n \in DOMAIN new : Space(new, n) = Space(ns, n)
  /\ \A n \in DOMAIN ns \ DOMAIN new : ~UnseenNode(e, ns[n])

\* A tree in which every node keeps its place.
LEMMA SameParents ==
  ASSUME NEW ns, NEW h, TreeOK(ns, h), NEW new, NEW k, TreeOK(new, k),
         DOMAIN new \subseteq DOMAIN ns, \A n \in DOMAIN new : new[n].parent = ns[n].parent,
         NEW n \in DOMAIN new
  PROVE  Space(new, n) = Space(ns, n)
BY SpacesStay

\* An operation that did nothing.
LEMMA ReshapesNothing ==
  ASSUME NEW e, NEW op, NEW ns
  PROVE  Reshapes(e, op, ns, ns)
BY DEF Reshapes

\* opRename and opMove put one node in a folder.
LEMMA RenameReshapes ==
  ASSUME NEW ix, NEW e, NEW op, EntryOK(e), IndexOK(ix, e.seq), OpOK(op), op.type = "rename"
  PROVE  Reshapes(e, op, ix.nodes, OpRename(ix, e, op).ix.nodes)
<1> DEFINE ns  == ix.nodes
           id  == op.node
           r   == OpRename(ix, e, op)
           named == [ns[id] EXCEPT !.name = op.name]
           new == IF ns[id].trashed # 0 THEN Put(ns, id, named)
                  ELSE PlaceLive(ns, id, named, ns[id].parent)
<1>1. CASE r.ix = ix
  BY <1>1, ReshapesNothing
<1>2. CASE r.ix # ix
  <2>1. id \in DOMAIN ns
    BY <1>2 DEF OpRename, Unchanged
  <2>2. r.ix.nodes = new
    BY <1>2 DEF OpRename, Unchanged, Applied
  <2>3. TreeOK(ns, e.seq) /\ TreeOK(r.ix.nodes, e.seq)
    BY RenameKeeps DEF IndexOK
  <2>4. named \in NodeSet(e.seq) /\ named.parent = ns[id].parent
        /\ named.content = ns[id].content
    BY <2>1, <2>3 DEF TreeOK, NodeSet, OpOK
  <2> HIDE DEF named
  <2>5. DOMAIN new = DOMAIN ns /\ (\A n \in DOMAIN ns \ {id} : new[n] = ns[n])
        /\ new[id].content = ns[id].content /\ new[id].parent = ns[id].parent
    <3>1. CASE ns[id].trashed # 0
      BY <2>1, <2>4, <3>1 DEF Put
    <3>2. CASE ns[id].trashed = 0
      <4>1. PutsLive(ns, PlaceLive(ns, id, named, ns[id].parent), id, named, ns[id].parent)
        BY <2>4, PlaceLiveDoes
      <4> QED  BY <2>1, <2>4, <3>2, <4>1 DEF PutsLive
    <3> QED  BY <3>1, <3>2
  <2> HIDE DEF new
  <2>6. \A n \in DOMAIN new : Space(new, n) = Space(ns, n)
    BY <2>2, <2>3, <2>5, SameParents
  <2> QED  BY <2>2, <2>5, <2>6 DEF Reshapes
<1> QED  BY <1>1, <1>2

\* opMove: the node moved is the only one that changes.
LEMMA MoveReshapes ==
  ASSUME NEW ix, NEW e, NEW op, EntryOK(e), IndexOK(ix, e.seq), op.type = "move"
  PROVE  Reshapes(e, op, ix.nodes, OpMove(ix, e, op).ix.nodes)
<1> DEFINE ns  == ix.nodes
           id  == op.node
           r   == OpMove(ix, e, op)
           moved == [ns[id] EXCEPT !.placed = Mark(e)]
           put == [moved EXCEPT !.parent = op.parent]
           new == IF ns[id].trashed # 0 THEN Put(ns, id, put)
                  ELSE PlaceLive(ns, id, moved, op.parent)
<1>1. CASE r.ix = ix
  BY <1>1, ReshapesNothing
<1>2. CASE r.ix # ix
  <2>1. id \in DOMAIN ns
    BY <1>2 DEF OpMove, Unchanged
  <2>2. r.ix.nodes = new
    BY <1>2 DEF OpMove, Unchanged, Applied
  <2>3. Mark(e) \in MarkSet(e.seq)
    BY DEF Mark, MarkSet, EntryOK
  <2>4. moved \in NodeSet(e.seq) /\ moved.content = ns[id].content
        /\ put.content = ns[id].content
    BY <2>1, <2>3 DEF IndexOK, TreeOK, NodeSet
  <2> HIDE DEF moved, put
  <2>5. DOMAIN new = DOMAIN ns /\ (\A n \in DOMAIN ns \ {id} : new[n] = ns[n])
        /\ new[id].content = ns[id].content
    <3>1. CASE ns[id].trashed # 0
      BY <2>1, <2>4, <3>1 DEF Put
    <3>2. CASE ns[id].trashed = 0
      <4>1. PutsLive(ns, PlaceLive(ns, id, moved, op.parent), id, moved, op.parent)
        BY <2>4, PlaceLiveDoes
      <4> QED  BY <2>1, <2>4, <3>2, <4>1 DEF PutsLive
    <3> QED  BY <3>1, <3>2
  <2> HIDE DEF new
  <2> QED  BY <2>2, <2>5 DEF Reshapes
<1> QED  BY <1>1, <1>2

\* opTrash changes one clock.
LEMMA TrashReshapes ==
  ASSUME NEW ix, NEW e, NEW op, EntryOK(e), IndexOK(ix, e.seq), op.type = "trash"
  PROVE  Reshapes(e, op, ix.nodes, OpTrash(ix, e, op).ix.nodes)
<1> DEFINE ns  == ix.nodes
           id  == op.node
           r   == OpTrash(ix, e, op)
           new == [ns EXCEPT ![id].trashed = e.seq]
<1>1. CASE r.ix = ix
  BY <1>1, ReshapesNothing
<1>2. CASE r.ix # ix
  <2>1. id \in DOMAIN ns
    BY <1>2 DEF OpTrash, Unchanged
  <2>2. r.ix.nodes = new
    BY <1>2 DEF OpTrash, Unchanged, Applied
  <2>3. TreeOK(ns, e.seq) /\ TreeOK(r.ix.nodes, e.seq)
    BY TrashKeeps DEF IndexOK
  <2>4. new = [ns EXCEPT ![id] = [ns[id] EXCEPT !.trashed = e.seq]]
    BY <2>1
  <2>5. ns[id] \in NodeSet(e.seq)
    BY <2>1, <2>3 DEF TreeOK
  <2> DEFINE rec == [ns[id] EXCEPT !.trashed = e.seq]
  <2>6. rec.content = ns[id].content /\ rec.parent = ns[id].parent /\ rec.placed = ns[id].placed
    BY <2>5 DEF NodeSet
  <2> HIDE DEF rec
  <2>7. DOMAIN new = DOMAIN ns /\ (\A n \in DOMAIN ns \ {id} : new[n] = ns[n])
        /\ new[id] = rec
    BY <2>1, <2>4 DEF rec
  <2> HIDE DEF new
  <2>8. \A n \in DOMAIN new : Space(new, n) = Space(ns, n)
    BY <2>2, <2>3, <2>6, <2>7, SameParents
  <2> QED  BY <2>2, <2>6, <2>7, <2>8 DEF Reshapes
<1> QED  BY <1>1, <1>2

\* The revived tree keeps every space.
LEMMA RevivedSpaces ==
  ASSUME NEW ns, NEW e, TreeOK(ns, e.seq), NEW id \in DOMAIN ns \ Roots,
         NEW new, Revives(ns, new, e, id), NEW n \in DOMAIN new
  PROVE  Space(new, n) = Space(ns, n)
<1>1. TreeOK(new, e.seq) /\ DOMAIN new = DOMAIN ns
  BY DEF Revives
<1>2. \A x \in DOMAIN ns \cap DOMAIN new :
        \/ new[x].parent = ns[x].parent
        \/ new[x].parent \in DOMAIN ns /\ Space(ns, new[x].parent) = Space(ns, x)
  BY DEF Revives, LivePlace
<1> QED  BY <1>1, <1>2, SpacesStay

\* opRestore revives one node.
LEMMA RestoreReshapes ==
  ASSUME NEW ix, NEW e, NEW op, EntryOK(e), IndexOK(ix, e.seq), op.type = "restore"
  PROVE  Reshapes(e, op, ix.nodes, OpRestore(ix, e, op).ix.nodes)
<1> DEFINE ns  == ix.nodes
           id  == op.node
           r   == OpRestore(ix, e, op)
           new == Revive(ns, e, id)
<1>1. CASE r.ix = ix
  BY <1>1, ReshapesNothing
<1>2. CASE r.ix # ix
  <2>1. id \in DOMAIN ns \ Roots
    BY <1>2, NotSystem DEF OpRestore, Unchanged
  <2>2. r.ix.nodes = new
    BY <1>2 DEF OpRestore, Unchanged, Applied
  <2>3. TreeOK(ns, e.seq)
    BY DEF IndexOK
  <2>4. Revives(ns, new, e, id)
    BY <2>1, <2>3, ReviveDoes
  <2> HIDE DEF new
  <2>5. \A n \in DOMAIN new : Space(new, n) = Space(ns, n)
    BY <2>1, <2>3, <2>4, RevivedSpaces
  <2>6. DOMAIN new = DOMAIN ns /\ \A n \in DOMAIN new : new[n].content = ns[n].content
    BY <2>4 DEF Revives
  <2> QED  BY <2>2, <2>5, <2>6 DEF Reshapes
<1> QED  BY <1>1, <1>2

\* What opPurge leaves is as it was, except that the clock of the topmost
\* trashed node starts again when something was kept.
Purges(e, top, ns, new) ==
  /\ top \in DOMAIN ns \ Roots
  /\ InTrash(ns, top)
  /\ DOMAIN new = DOMAIN ns \ Doomed(ns, e, top)
  /\ \A n \in DOMAIN new :
       /\ new[n].parent = ns[n].parent /\ new[n].placed = ns[n].placed
       /\ new[n].content = ns[n].content
       /\ new[n].trashed = IF Kept(ns, e, top) # {} /\ n \in TopTrashed(ns, top)
                           THEN e.seq ELSE ns[n].trashed

\* opPurge deletes what is doomed.
LEMMA PurgeDoes ==
  ASSUME NEW ix, NEW e, NEW op, EntryOK(e), IndexOK(ix, e.seq), OpPurge(ix, e, op).out = "applied"
  PROVE  Purges(e, op.node, ix.nodes, OpPurge(ix, e, op).ix.nodes)
<1> DEFINE ns   == ix.nodes
           top  == op.node
           r    == OpPurge(ix, e, op)
           gone == Doomed(ns, e, top)
           left == Drop(ns, gone)
           kept == Kept(ns, e, top)
           tops == TopTrashed(ns, top)
           new  == IF kept = {} THEN left
                   ELSE [x \in DOMAIN left |->
                           IF x \in tops THEN [left[x] EXCEPT !.trashed = e.seq] ELSE left[x]]
<1>1. top \in DOMAIN ns \ Roots /\ InTrash(ns, top)
  BY NotSystem DEF OpPurge, Unchanged
<1>2. r.ix.nodes = new
  BY DEF OpPurge, Unchanged, Applied
<1>3. DOMAIN left = DOMAIN ns \ gone /\ \A n \in DOMAIN left : left[n] = ns[n]
  BY DEF Drop
<1> HIDE DEF left
<1>4. ASSUME NEW n \in DOMAIN left
      PROVE  /\ new[n].parent = ns[n].parent /\ new[n].placed = ns[n].placed
             /\ new[n].content = ns[n].content
             /\ new[n].trashed = IF kept # {} /\ n \in tops THEN e.seq ELSE ns[n].trashed
  <2>1. left[n] = ns[n] /\ ns[n] \in NodeSet(e.seq)
    BY <1>3 DEF IndexOK, TreeOK
  <2> DEFINE rec == [ns[n] EXCEPT !.trashed = e.seq]
  <2>2. rec.parent = ns[n].parent /\ rec.placed = ns[n].placed
        /\ rec.content = ns[n].content /\ rec.trashed = e.seq
    BY <2>1 DEF NodeSet
  <2>3. new[n] = IF kept # {} /\ n \in tops THEN rec ELSE ns[n]
    BY <2>1
  <2> HIDE DEF rec, new
  <2> QED  BY <2>2, <2>3
<1>5. DOMAIN new = DOMAIN left
  OBVIOUS
<1> HIDE DEF new
<1> QED  BY <1>1, <1>2, <1>3, <1>4, <1>5 DEF Purges

\* Whatever is doomed was seen.
LEMMA DoomedWasSeen ==
  ASSUME NEW ns, NEW e, NEW top, NEW n \in Doomed(ns, e, top)
  PROVE  n \in Subtree(ns, top) /\ ~UnseenNode(e, ns[n])
BY DEF Doomed, Kept, Reached

\* opPurge deletes nothing its author had not seen.
LEMMA PurgeReshapes ==
  ASSUME NEW ix, NEW e, NEW op, EntryOK(e), IndexOK(ix, e.seq), op.type = "purge"
  PROVE  Reshapes(e, op, ix.nodes, OpPurge(ix, e, op).ix.nodes)
<1> DEFINE ns  == ix.nodes
           new == OpPurge(ix, e, op).ix.nodes
<1>1. CASE OpPurge(ix, e, op).out # "applied"
  <2>1. OpPurge(ix, e, op).ix = ix
    BY <1>1 DEF OpPurge, Unchanged, Applied
  <2> QED  BY <2>1, ReshapesNothing
<1>2. CASE OpPurge(ix, e, op).out = "applied"
  <2>1. Purges(e, op.node, ns, new)
    BY <1>2, PurgeDoes
  <2>2. TreeOK(ns, e.seq) /\ TreeOK(new, e.seq)
    BY PurgeKeeps DEF IndexOK
  <2> HIDE DEF new
  <2>3. DOMAIN new = DOMAIN ns \ Doomed(ns, e, op.node)
        /\ \A n \in DOMAIN new : new[n].parent = ns[n].parent
             /\ new[n].content = ns[n].content /\ new[n].placed = ns[n].placed
    BY <2>1 DEF Purges
  <2>4. \A n \in DOMAIN new : Space(new, n) = Space(ns, n)
    BY <2>2, <2>3, SameParents
  <2>5. \A n \in DOMAIN ns \ DOMAIN new : ~UnseenNode(e, ns[n])
    BY <2>3, DoomedWasSeen
  <2> QED  BY <2>3, <2>4, <2>5 DEF Reshapes, new
<1> QED  BY <1>1, <1>2

\* The operations that tidy the tree.
Tidies(op) == op.type \in {"rename", "move", "trash", "restore", "purge"}

\* All of them reshape the tree, and leave the index well formed.
LEMMA TidyReshapes ==
  ASSUME NEW ix, NEW e, NEW op, EntryOK(e), IndexOK(ix, e.seq), OpOK(op), Tidies(op)
  PROVE  Reshapes(e, op, ix.nodes, ApplyOp(ix, e, op).ix.nodes)
<1>1. CASE op.type = "rename"
  BY <1>1, RenameReshapes DEF ApplyOp
<1>2. CASE op.type = "move"
  BY <1>2, MoveReshapes DEF ApplyOp
<1>3. CASE op.type = "trash"
  BY <1>3, TrashReshapes DEF ApplyOp
<1>4. CASE op.type = "restore"
  BY <1>4, RestoreReshapes DEF ApplyOp
<1>5. CASE op.type = "purge"
  BY <1>5, PurgeReshapes DEF ApplyOp
<1> QED  BY <1>1, <1>2, <1>3, <1>4, <1>5 DEF Tidies

-----------------------------------------------------------------------------
(* New nodes and new content                                               *)

\* Nodes may have joined; those there were kept their places.
KeepsPlaces(ns, new) ==
  /\ DOMAIN ns \subseteq DOMAIN new
  /\ \A n \in DOMAIN ns : new[n].parent = ns[n].parent /\ new[n].trashed = ns[n].trashed

\* Then chains, spaces and the trash are what they were.
LEMMA PlacesKept ==
  ASSUME NEW ns, NEW h, TreeOK(ns, h), NEW new, NEW k, TreeOK(new, k),
         KeepsPlaces(ns, new), NEW n \in DOMAIN ns
  PROVE  /\ Chain(new, n) = Chain(ns, n)
         /\ InTrash(new, n) <=> InTrash(ns, n)
         /\ Space(new, n) = Space(ns, n)
<1>1. Closed(ns) /\ Closed(new)
  BY TreeFacts
<1>2. Chain(ns, n) \subseteq DOMAIN ns
  BY <1>1, ChainClosed
<1>3. Chain(new, n) = Chain(ns, n)
  BY <1>1, <1>2, ChainStays DEF KeepsPlaces
<1> QED  BY <1>2, <1>3 DEF InTrash, Space, KeepsPlaces

\* A node that joined below a live place is not in the trash.
LEMMA JoinedLive ==
  ASSUME NEW ns, NEW h, TreeOK(ns, h), NEW new, NEW k, TreeOK(new, k),
         KeepsPlaces(ns, new), NEW id \in DOMAIN new, new[id].trashed = 0,
         LivePlace(ns, new[id].parent)
  PROVE  ~InTrash(new, id)
<1>1. \A a \in Chain(ns, new[id].parent) : a \in DOMAIN ns
  BY TreeFacts, ChainClosed DEF LivePlace
<1> QED  BY <1>1, PutLive DEF KeepsPlaces

\* A node put live joins a tree that keeps its places.
LEMMA PutKeepsPlaces ==
  ASSUME NEW ns, NEW new, NEW id, id \notin DOMAIN ns, NEW rec, NEW p,
         PutsLive(ns, new, id, rec, p)
  PROVE  KeepsPlaces(ns, new)
BY DEF PutsLive, KeepsPlaces

\* One node joined, live, with content c; nothing else changed.
Adds(ns, new, id, c) ==
  /\ id \notin DOMAIN ns
  /\ DOMAIN new = DOMAIN ns \cup {id}
  /\ \A n \in DOMAIN ns : new[n] = ns[n] /\ Space(new, n) = Space(ns, n)
  /\ new[id].content = c
  /\ ~InTrash(new, id)

\* A node put live in a live place is added.
LEMMA PutAdds ==
  ASSUME NEW ns, NEW h, TreeOK(ns, h), NEW new, NEW k, TreeOK(new, k),
         NEW id, id \notin DOMAIN ns, NEW rec, NEW p, PutsLive(ns, new, id, rec, p), LivePlace(ns, p)
  PROVE  Adds(ns, new, id, rec.content)
<1>1. KeepsPlaces(ns, new)
  BY PutKeepsPlaces
<1>2. \A n \in DOMAIN ns : Space(new, n) = Space(ns, n)
  BY <1>1, PlacesKept
<1>3. id \in DOMAIN new /\ new[id].trashed = 0 /\ new[id].parent = p
  BY DEF PutsLive
<1>4. ~InTrash(new, id)
  BY <1>1, <1>3, JoinedLive
<1> QED  BY <1>2, <1>4 DEF PutsLive, Adds

\* And so is one put in the Recovered folder or in the Gallery.
LEMMA RecoveredAdds ==
  ASSUME NEW ns, NEW e, EntryOK(e), TreeOK(ns, e.seq), NEW new, NEW k, TreeOK(new, k),
         NEW id, id \notin DOMAIN ns, NEW rec, rec \in NodeSet(e.seq), NEW intended, NEW hint,
         new = PlaceRecovered(ns, e, id, rec, intended, hint)
  PROVE  Adds(ns, new, id, rec.content)
<1>1. {ROOT, RECOVERED} \subseteq DOMAIN ns
  BY DEF TreeOK, Rooted
<1>2. PutsRecovered(ns, new, e, id, rec, intended)
  BY <1>1, PlaceRecoveredDoes
<1> DEFINE put == [rec EXCEPT !.placed = Mark(e)]
<1>3. PICK p \in DOMAIN ns \cap {RECOVERED, GALLERY} : PutsLive(ns, new, id, put, p)
  BY <1>2 DEF PutsRecovered
<1>4. LivePlace(ns, p)
  BY DEF LivePlace, Roots
<1>5. put.content = rec.content
  BY DEF NodeSet
<1> HIDE DEF put
<1>6. Adds(ns, new, id, put.content)
  BY <1>3, <1>4, PutAdds
<1> QED  BY <1>5, <1>6

\* opCreate adds a node, with the version of a committed upload if it is a file.
LEMMA CreateDoes ==
  ASSUME NEW ix, NEW e, NEW op, EntryOK(e), IndexOK(ix, e.seq), Unmade(ix.nodes, e),
         OpOK(op), op.type = "create", OpCreate(ix, e, op).out = "applied"
  PROVE  /\ Adds(ix.nodes, OpCreate(ix, e, op).ix.nodes, op.node,
                 IF op.kind = "file" THEN Version(e, op) ELSE None)
         /\ op.kind = "file" => Usable(ix.uploads, op.up)
<1> DEFINE ns  == ix.nodes
           r   == OpCreate(ix, e, op)
           content == IF op.kind = "file" THEN Version(e, op) ELSE None
           rec == NewNode(e, op.kind, op.name, content)
           lost == op.parent \notin DOMAIN ns \/ InTrash(ns, op.parent)
           new == IF lost THEN PlaceRecovered(ns, e, op.node, rec, op.parent, op.space)
                          ELSE PlaceLive(ns, op.node, rec, op.parent)
<1>1. op.node \notin DOMAIN ns /\ (op.kind = "file" => Usable(ix.uploads, op.up))
  BY DEF OpCreate, Unchanged
<1>2. r.ix.nodes = new
  BY DEF OpCreate, Unchanged, Applied
<1>3. TreeOK(ns, e.seq) /\ TreeOK(new, e.seq)
  <2> HIDE DEF new
  <2> QED  BY <1>2, CreateKeeps DEF IndexOK
<1>4. content \in ContentSet(e.seq) \cup {None}
  BY VersionFacts DEF OpOK
<1> HIDE DEF content
<1>5. rec \in NodeSet(e.seq) /\ rec.content = content
  BY <1>4, NewNodeFacts DEF OpOK
<1> HIDE DEF rec
<1>6. Adds(ns, new, op.node, content)
  <2>1. CASE lost
    <3>1. new = PlaceRecovered(ns, e, op.node, rec, op.parent, op.space)
      BY <2>1
    <3> HIDE DEF new
    <3>2. Adds(ns, new, op.node, rec.content)
      BY <1>1, <1>3, <1>5, <3>1, RecoveredAdds
    <3> QED  BY <1>5, <3>2
  <2>2. CASE ~lost
    <3>1. PutsLive(ns, new, op.node, rec, op.parent)
      BY <1>5, <2>2, PlaceLiveDoes
    <3>2. LivePlace(ns, op.parent)
      BY <2>2 DEF LivePlace
    <3> HIDE DEF new
    <3>3. Adds(ns, new, op.node, rec.content)
      BY <1>1, <1>3, <3>1, <3>2, PutAdds
    <3> QED  BY <1>5, <3>3
  <2> QED  BY <2>1, <2>2
<1> HIDE DEF new
<1> QED  BY <1>1, <1>2, <1>6 DEF content

\* What new content may do: the file (a recovered one if it was purged) gets
\* the new version and is live; the version it had was the base, has the same
\* plaintext or is in a live copy; everything else stays.
Renews(e, op, ns, new) ==
  /\ DOMAIN ns \subseteq DOMAIN new
  /\ \A n \in DOMAIN ns : Space(new, n) = Space(ns, n)
  /\ \A n \in DOMAIN ns \ {op.node} : new[n] = ns[n]
  /\ \A n \in DOMAIN new : n = op.node \/ n \notin DOMAIN ns =>
       /\ ~InTrash(new, n)
       /\ \/ new[n].content = Version(e, op)
          \/ op.node \in DOMAIN ns /\ new[n].content = ns[op.node].content
  /\ op.node \in DOMAIN ns =>
       LET c == ns[op.node].content
       IN  /\ op.node \notin Roots /\ c # None /\ new[op.node].content = Version(e, op)
           /\ \/ c.up = op.baseVersion
              \/ Plain[c.up] # None /\ Plain[c.up] = Plain[op.up]
              \/ \E n \in DOMAIN new : new[n].content = c

\* The file that takes new content is out of the trash first.
LEMMA AwakeDoes ==
  ASSUME NEW ns, NEW e, EntryOK(e), TreeOK(ns, e.seq), NEW id \in DOMAIN ns \ Roots,
         NEW back, back = Awake(ns, e, id)
  PROVE  /\ TreeOK(back, e.seq) /\ DOMAIN back = DOMAIN ns
         /\ \A n \in DOMAIN ns \ {id} : back[n] = ns[n]
         /\ \A n \in DOMAIN ns : Space(back, n) = Space(ns, n)
         /\ ~InTrash(back, id)
<1>1. CASE InTrash(ns, id)
  <2>1. Revives(ns, back, e, id)
    BY <1>1, ReviveDoes DEF Awake
  <2> QED  BY <2>1, RevivedSpaces DEF Revives
<1>2. CASE ~InTrash(ns, id)
  BY <1>2 DEF Awake
<1> QED  BY <1>1, <1>2

\* And no other node is moved by taking it.
LEMMA UpdatedDoes ==
  ASSUME NEW ns, NEW e, EntryOK(e), TreeOK(ns, e.seq), NEW id \in DOMAIN ns \ Roots,
         ns[id].kind = "file", NEW version \in ContentSet(e.seq),
         NEW back, back = Awake(ns, e, id), NEW new, new = Updated(back, id, version)
  PROVE  /\ \A n \in DOMAIN ns : Space(new, n) = Space(ns, n)
         /\ ~InTrash(new, id)
         /\ new[id].content = version
<1>1. /\ TreeOK(back, e.seq) /\ DOMAIN back = DOMAIN ns
      /\ \A n \in DOMAIN ns \ {id} : back[n] = ns[n]
      /\ \A n \in DOMAIN ns : Space(back, n) = Space(ns, n)
      /\ ~InTrash(back, id)
  BY AwakeDoes
<1>2. TreeOK(new, e.seq)
  BY UpdatedFacts
<1> DEFINE rec == [back[id] EXCEPT !.content = version]
<1>3. back[id] \in NodeSet(e.seq)
  BY <1>1 DEF TreeOK
<1>4. rec.parent = back[id].parent /\ rec.trashed = back[id].trashed /\ rec.content = version
  BY <1>3 DEF NodeSet
<1> HIDE DEF rec
<1>5. DOMAIN new = DOMAIN back /\ new[id] = rec /\ \A n \in DOMAIN back \ {id} : new[n] = back[n]
  BY <1>1 DEF Updated, Put, rec
<1>6. KeepsPlaces(back, new)
  BY <1>4, <1>5 DEF KeepsPlaces
<1>7. \A n \in DOMAIN back : (InTrash(new, n) <=> InTrash(back, n)) /\ Space(new, n) = Space(back, n)
  BY <1>1, <1>2, <1>6, PlacesKept
<1> QED  BY <1>1, <1>4, <1>5, <1>7

\* The file was purged: its content is in a new, live file.
LEMMA RecoveredRenews ==
  ASSUME NEW ix, NEW e, NEW op, EntryOK(e), IndexOK(ix, e.seq), Unmade(ix.nodes, e),
         OpOK(op), op.type = "new_content_version", OpNewContent(ix, e, op).out = "applied",
         op.node \notin DOMAIN ix.nodes
  PROVE  Renews(e, op, ix.nodes, OpNewContent(ix, e, op).ix.nodes)
<1> DEFINE ns  == ix.nodes
           r   == OpNewContent(ix, e, op)
           id  == <<"recovered", e.seq, e.sub>>
           version == Version(e, op)
           rec == NewNode(e, "file", op.name, version)
           new == PlaceRecovered(ns, e, id, rec, None, op.space)
<1>1. r.ix.nodes = new
  BY DEF OpNewContent, Applied, Unchanged
<1>2. TreeOK(ns, e.seq) /\ TreeOK(new, e.seq)
  <2> HIDE DEF new
  <2> QED  BY <1>1, NewContentKeeps DEF IndexOK
<1>3. id \notin DOMAIN ns
  BY NewIdFacts
<1>4. version \in ContentSet(e.seq)
  BY VersionFacts DEF OpOK
<1> HIDE DEF version
<1>5. rec \in NodeSet(e.seq) /\ rec.content = version
  BY <1>4, NewNodeFacts DEF OpOK
<1> HIDE DEF rec, id
<1>6. Adds(ns, new, id, rec.content)
  BY <1>2, <1>3, <1>5, RecoveredAdds
<1> HIDE DEF new
<1> QED  BY <1>1, <1>3, <1>5, <1>6 DEF Renews, Adds, version

\* The file is in the tree.
LEMMA FileRenews ==
  ASSUME NEW ix, NEW e, NEW op, EntryOK(e), IndexOK(ix, e.seq), Unmade(ix.nodes, e),
         OpOK(op), op.type = "new_content_version", OpNewContent(ix, e, op).out = "applied",
         op.node \in DOMAIN ix.nodes
  PROVE  Renews(e, op, ix.nodes, OpNewContent(ix, e, op).ix.nodes)
<1> DEFINE ns == ix.nodes
           us == ix.uploads
           id == op.node
           r  == OpNewContent(ix, e, op)
           version == Version(e, op)
           back == Awake(ns, e, id)
           cur  == back[id].content
           same == Plain[cur.up] # None /\ Plain[cur.up] = Plain[op.up]
           updated == Updated(back, id, version)
           copyId  == <<"conflict", e.seq, e.sub>>
           copyRec == NewNode(e, "file", Suffixed(back[id].name, ConflictMark), cur)
           split   == PlaceLive(updated, copyId, copyRec, back[id].parent)
<1>1. id \in DOMAIN ns \ Roots /\ Usable(us, op.up) /\ ns[id].kind = "file"
  BY NotSystem DEF OpNewContent, Unchanged
<1>2. r.ix.nodes = IF cur.up # op.baseVersion /\ ~same THEN split ELSE updated
  BY <1>1 DEF OpNewContent, Unchanged, Applied
<1>3. TreeOK(ns, e.seq) /\ TreeOK(r.ix.nodes, e.seq) /\ ns[id].content # None
  BY <1>1, NewContentKeeps DEF IndexOK, Bound
<1>4. version \in ContentSet(e.seq)
  BY VersionFacts DEF OpOK
<1> HIDE DEF version, r
<1>5. /\ TreeOK(updated, e.seq)
      /\ DOMAIN updated = DOMAIN ns
      /\ \A n \in DOMAIN ns \ {id} : updated[n] = ns[n]
      /\ updated[id].kind = "file" /\ updated[id].content = version
      /\ updated[id].parent = back[id].parent
      /\ back[id] \in NodeSet(e.seq) /\ cur = ns[id].content
  BY <1>1, <1>3, <1>4, UpdatedFacts
<1>6. /\ \A n \in DOMAIN ns : Space(updated, n) = Space(ns, n)
      /\ ~InTrash(updated, id)
  BY <1>1, <1>3, <1>4, UpdatedDoes
<1> HIDE DEF updated, back, cur
<1>7. CASE ~(cur.up # op.baseVersion /\ ~same)
  <2>1. r.ix.nodes = updated
    BY <1>2, <1>7
  <2>2. cur.up = op.baseVersion \/ (Plain[cur.up] # None /\ Plain[cur.up] = Plain[op.up])
    BY <1>7
  <2> QED  BY <1>1, <1>3, <1>5, <1>6, <2>1, <2>2 DEF Renews, r, version
<1>8. CASE cur.up # op.baseVersion /\ ~same
  <2>1. r.ix.nodes = split
    BY <1>2, <1>8
  <2>2. copyId \notin DOMAIN ns
    BY NewIdFacts
  <2>3. Suffixed(back[id].name, ConflictMark) \in NameSet
    BY <1>5, SuffixedIsName DEF NodeSet, ConflictMark
  <2>4. cur \in ContentSet(e.seq) \cup {None}
    BY <1>1, <1>3, <1>5 DEF TreeOK, NodeSet
  <2>5. copyRec \in NodeSet(e.seq) /\ copyRec.content = cur
    BY <2>3, <2>4, NewNodeFacts
  <2> HIDE DEF copyRec
  <2>6. LivePlace(updated, back[id].parent)
    <3>1. back[id].parent \in DOMAIN updated /\ back[id].parent # None /\ Closed(updated)
      BY <1>1, <1>5, ParentFacts, TreeFacts DEF Closed
    <3>2. Chain(updated, id) = {id} \cup Chain(updated, back[id].parent)
      BY <1>1, <1>5, <3>1, ChainStep
    <3> QED  BY <1>6, <3>1, <3>2 DEF LivePlace, InTrash
  <2> HIDE DEF copyId
  <2>7. PutsLive(updated, split, copyId, copyRec, back[id].parent)
    BY <2>5, PlaceLiveDoes
  <2>8. TreeOK(split, e.seq)
    BY <1>3, <2>1
  <2> HIDE DEF split
  <2>9. Adds(updated, split, copyId, copyRec.content)
    BY <1>5, <2>2, <2>6, <2>7, <2>8, PutAdds
  <2>10. KeepsPlaces(updated, split)
    BY <1>5, <2>2, <2>7, PutKeepsPlaces
  <2>11. ~InTrash(split, id)
    BY <1>1, <1>5, <1>6, <2>8, <2>10, PlacesKept
  <2>12. /\ DOMAIN split = DOMAIN ns \cup {copyId}
         /\ \A n \in DOMAIN ns : Space(split, n) = Space(ns, n)
         /\ \A n \in DOMAIN ns \ {id} : split[n] = ns[n]
         /\ split[id].content = version /\ split[copyId].content = ns[id].content
         /\ ~InTrash(split, copyId)
    BY <1>1, <1>5, <1>6, <2>2, <2>5, <2>9 DEF Adds
  <2> QED  BY <1>1, <1>3, <2>1, <2>2, <2>11, <2>12 DEF Renews, r, version
<1> QED  BY <1>7, <1>8

\* opNewContent in each of its outcomes.
LEMMA NewContentRenews ==
  ASSUME NEW ix, NEW e, NEW op, EntryOK(e), IndexOK(ix, e.seq), Unmade(ix.nodes, e),
         OpOK(op), op.type = "new_content_version", OpNewContent(ix, e, op).out = "applied"
  PROVE  /\ Renews(e, op, ix.nodes, OpNewContent(ix, e, op).ix.nodes)
         /\ Usable(ix.uploads, op.up)
<1>1. Usable(ix.uploads, op.up)
  BY DEF OpNewContent, Unchanged
<1> QED  BY <1>1, RecoveredRenews, FileRenews

\* What a relocation may do: one version's bytes move, from where the mover
\* thought they were.
Relocates(op, ns, new) ==
  /\ DOMAIN new = DOMAIN ns
  /\ \A n \in DOMAIN ns :
       /\ new[n].parent = ns[n].parent
       /\ new[n].content = ns[n].content
          \/ /\ new[n].content # None /\ ns[n].content # None
             /\ ns[n].content.loc = op.from
             /\ new[n].content.up = ns[n].content.up
             /\ new[n].content.seq = ns[n].content.seq
             /\ new[n].content.dev = ns[n].content.dev

\* opRelocate is a compare and swap on the locator.
LEMMA RelocateDoes ==
  ASSUME NEW ix, NEW e, NEW op, EntryOK(e), IndexOK(ix, e.seq),
         OpOK(op), op.type = "relocate"
  PROVE  Relocates(op, ix.nodes, OpRelocate(ix, e, op).ix.nodes)
<1> DEFINE ns  == ix.nodes
           us  == ix.uploads
           up  == op.up
           id  == us[up].node
           r   == OpRelocate(ix, e, op)
           new == [ns EXCEPT ![id].content.loc = op.loc]
<1>1. CASE r.ix = ix
  BY <1>1 DEF Relocates
<1>2. CASE r.ix # ix
  <2>1. /\ up \in DOMAIN us /\ us[up].status = "bound" /\ id \in DOMAIN ns
        /\ ns[id].content # None /\ ns[id].content.up = up /\ ns[id].content.loc = op.from
    BY <1>2 DEF OpRelocate, Unchanged
  <2>2. r.ix.nodes = new
    BY <1>2 DEF OpRelocate, Unchanged, Applied
  <2>3. e.seq \in Nat /\ TreeOK(ns, e.seq) /\ op.loc \in Loc
    BY DEF EntryOK, IndexOK, OpOK
  <2>4. ns[id] \in NodeSet(e.seq) /\ ns[id].content \in ContentSet(e.seq)
    BY <2>1, <2>3 DEF TreeOK, NodeSet
  <2> DEFINE c == [ns[id].content EXCEPT !.loc = op.loc]
             rec == [ns[id] EXCEPT !.content = c]
  <2>5. c \in ContentSet(e.seq) /\ c.up = ns[id].content.up
        /\ c.seq = ns[id].content.seq /\ c.dev = ns[id].content.dev
    BY <2>3, <2>4 DEF ContentSet
  <2>6. new = [ns EXCEPT ![id] = rec]
    BY <2>4 DEF NodeSet, ContentSet
  <2> HIDE DEF c
  <2>7. rec.content = c /\ rec.parent = ns[id].parent
    BY <2>4 DEF NodeSet
  <2>8. c # None
    BY <2>3, <2>5, VersionIsSome
  <2> HIDE DEF rec
  <2>9. DOMAIN new = DOMAIN ns /\ new[id] = rec /\ \A n \in DOMAIN ns \ {id} : new[n] = ns[n]
    BY <2>1, <2>6
  <2> HIDE DEF new
  <2> QED  BY <2>1, <2>2, <2>5, <2>7, <2>8, <2>9 DEF Relocates
<1> QED  BY <1>1, <1>2

-----------------------------------------------------------------------------
(* The kinds of steps                                                      *)

\* The tree an entry starts from.
Start(e) == WithGallery(index, e).nodes

\* No file of the tree uses the upload.
Unused(ns, up) == \A n \in DOMAIN ns : ns[n].content # None => ns[n].content.up # up

\* A committed upload is not used yet.
LEMMA UsableIsUnused ==
  ASSUME NEW ix, NEW h, IndexOK(ix, h), NEW up, Usable(ix.uploads, up)
  PROVE  Unused(ix.nodes, up)
BY DEF IndexOK, Bound, Usable, Unused

\* An entry that changed nothing.
IdleStep == index' = index /\ last'.out # "applied"

\* An operation on the tree.
TidyStep(e, op) ==
  /\ Takes(e, <<op>>) /\ OpOK(op) /\ Tidies(op)
  /\ ApplyOp(WithGallery(index, e), e, op).out = "applied"
  /\ ApplyOp(WithGallery(index, e), e, op).ix = index'

\* A new folder.
FolderStep(e, op) ==
  /\ Takes(e, <<op>>) /\ op.type = "create"
  /\ Adds(Start(e), nodes', op.node, None)

\* An operation on an upload.
UploadStep(e, op) ==
  /\ Takes(e, <<op>>) /\ op.type \in {"upload_begin", "upload_abort"}
  /\ nodes' = Start(e)

\* A relocation.
RelocateStep(e, op) ==
  /\ Takes(e, <<op>>) /\ op.type = "relocate"
  /\ Relocates(op, Start(e), nodes')

\* A new file, with its upload.
FileStep(e, op1, op2) ==
  /\ Takes(e, <<op1, op2>>) /\ op1.type = "upload_commit" /\ op2.type = "create"
  /\ Unused(Start(e), op2.up)
  /\ Adds(Start(e), nodes', op2.node, Version(e, op2))

\* New content, with its upload; the base was the current version only if its
\* author had seen it.
ContentStep(e, op1, op2) ==
  /\ Takes(e, <<op1, op2>>) /\ op1.type = "upload_commit"
  /\ op2.type = "new_content_version"
  /\ Unused(Start(e), op2.up)
  /\ Renews(e, op2, Start(e), nodes')
  /\ \/ op2.baseVersion = None
     \/ /\ op2.node \in DOMAIN nodes
        /\ ~Unseen(e, nodes[op2.node].content)

\* A selection, or a move into the Safe.
SelectStep(e, op1, op2, mid) ==
  /\ Takes(e, <<op1, op2>>)
  /\ Tidies(op1) /\ Tidies(op2)
  /\ op2.type = op1.type \/ (op1.type = "trash" /\ op2.type = "purge")
  /\ TreeOK(mid, e.seq)
  /\ Reshapes(e, op1, Start(e), mid) /\ Reshapes(e, op2, mid, nodes')

\* An entry of one operation is one of those.
LEMMA SingleKinds ==
  ASSUME Inv, NEW d \in Device, NEW b \in 0 .. head, NEW op, OpOK(op), Enter(d, b, <<op>>),
         op.type \in {"create", "rename", "move", "trash", "restore", "purge",
                      "upload_begin", "upload_abort", "relocate"},
         op.type = "create" => op.kind = "folder"
  PROVE  \/ IdleStep
         \/ \E e : TidyStep(e, op) \/ FolderStep(e, op) \/ UploadStep(e, op) \/ RelocateStep(e, op)
<1>1. PICK e : Takes(e, <<op>>) /\ DoesOne(e, op)
  BY SingleStep
<1>2. CASE last'.out # "applied"
  BY <1>1, <1>2 DEF Takes, IdleStep
<1>3. CASE last'.out = "applied"
  <2> DEFINE ix == WithGallery(index, e)
  <2>1. ApplyOp(ix, e, op).out = "applied" /\ ApplyOp(ix, e, op).ix = index'
    BY <1>1, <1>3 DEF DoesOne
  <2>2. EntryOK(e) /\ IndexOK(ix, e.seq) /\ Unmade(ix.nodes, e)
    BY <1>1 DEF Takes
  <2>3. Start(e) = ix.nodes /\ nodes' = ApplyOp(ix, e, op).ix.nodes
    BY <2>1 DEF Start, nodes
  <2> HIDE DEF ix
  <2>4. CASE Tidies(op)
    BY <1>1, <2>1, <2>4 DEF TidyStep, ix
  <2>5. CASE op.type = "create"
    <3>1. ApplyOp(ix, e, op) = OpCreate(ix, e, op)
      BY <2>5 DEF ApplyOp
    <3>2. op.kind # "file"
      BY <2>5
    <3>3. Adds(ix.nodes, OpCreate(ix, e, op).ix.nodes, op.node,
               IF op.kind = "file" THEN Version(e, op) ELSE None)
      BY <2>1, <2>2, <2>5, <3>1, CreateDoes
    <3>4. FolderStep(e, op)
      BY <1>1, <2>3, <2>5, <3>1, <3>2, <3>3 DEF FolderStep
    <3> QED  BY <3>4
  <2>6. CASE op.type = "upload_begin"
    <3>1. ApplyOp(ix, e, op).ix.nodes = ix.nodes
      BY <2>2, <2>6, UploadBeginKeeps DEF ApplyOp
    <3> QED  BY <1>1, <2>3, <2>6, <3>1 DEF UploadStep
  <2>7. CASE op.type = "upload_abort"
    <3>1. ApplyOp(ix, e, op).ix.nodes = ix.nodes
      BY <2>2, <2>7, UploadAbortKeeps DEF ApplyOp
    <3> QED  BY <1>1, <2>3, <2>7, <3>1 DEF UploadStep
  <2>8. CASE op.type = "relocate"
    <3>1. Relocates(op, ix.nodes, ApplyOp(ix, e, op).ix.nodes)
      BY <2>2, <2>8, RelocateDoes DEF ApplyOp
    <3> QED  BY <1>1, <2>3, <2>8, <3>1 DEF RelocateStep
  <2> QED  BY <2>4, <2>5, <2>6, <2>7, <2>8 DEF Tidies
<1> QED  BY <1>2, <1>3

\* The two parts of a group have the same author, base and position.
LEMMA SameEntry ==
  ASSUME NEW e, NEW f, f.seq = e.seq, f.dev = e.dev, f.base = e.base
  PROVE  /\ \A op : Version(f, op) = Version(e, op)
         /\ \A rec : UnseenNode(f, rec) <=> UnseenNode(e, rec)
<1>1. \A m : Unseen(f, m) <=> Unseen(e, m)
  BY DEF Unseen
<1> QED  BY <1>1 DEF Version, UnseenNode, UnseenContent

\* A commit of an upload and its use in a new file.
LEMMA FileKinds ==
  ASSUME Inv, NEW d \in Device, NEW b \in 0 .. head, NEW op1, NEW op2, OpOK(op1), OpOK(op2),
         Enter(d, b, <<op1, op2>>),
         op1.type = "upload_commit", op2.type = "create", op2.kind = "file"
  PROVE  IdleStep \/ \E e : FileStep(e, op1, op2)
<1>1. PICK e, f, r1, r2 : Takes(e, <<op1, op2>>) /\ DoesTwo(e, f, r1, r2, op1, op2)
  BY PairStep
<1>2. CASE last'.out # "applied"
  BY <1>1, <1>2 DEF Takes, IdleStep
<1>3. CASE last'.out = "applied"
  <2>1. /\ EntryOK(f) /\ f.seq = e.seq /\ f.dev = e.dev /\ f.base = e.base
        /\ r1 = ApplyOp(WithGallery(index, e), e, op1)
        /\ r2 = ApplyOp(r1.ix, f, op2)
        /\ IndexOK(r1.ix, f.seq) /\ Unmade(r1.ix.nodes, f)
        /\ r2.out # "rejected" /\ r2.ix = index'
    BY <1>1, <1>3 DEF DoesTwo
  <2>2. EntryOK(e) /\ IndexOK(WithGallery(index, e), e.seq)
    BY <1>1 DEF Takes
  <2>3. r1.ix.nodes = Start(e)
    BY <2>1, <2>2, UploadCommitKeeps DEF ApplyOp, Start
  <2>4. r2 = OpCreate(r1.ix, f, op2)
    BY <2>1 DEF ApplyOp
  <2>5. r2.out = "applied"
    BY <2>1, <2>4 DEF OpCreate, Unchanged, Applied
  <2>6. /\ Adds(r1.ix.nodes, r2.ix.nodes, op2.node,
                IF op2.kind = "file" THEN Version(f, op2) ELSE None)
        /\ op2.kind = "file" => Usable(r1.ix.uploads, op2.up)
    BY <2>1, <2>4, <2>5, CreateDoes
  <2>7. Version(f, op2) = Version(e, op2)
    BY <2>1, SameEntry
  <2>8. Adds(Start(e), nodes', op2.node, Version(e, op2))
    BY <2>1, <2>3, <2>6, <2>7 DEF nodes
  <2>9. Unused(Start(e), op2.up)
    BY <2>1, <2>3, <2>6, UsableIsUnused
  <2> QED  BY <1>1, <2>8, <2>9 DEF FileStep
<1> QED  BY <1>2, <1>3

\* A commit of an upload and its use as new content.
LEMMA ContentKinds ==
  ASSUME Inv, NEW d \in Device, NEW b \in 0 .. head, NEW op1, NEW op2, OpOK(op1), OpOK(op2),
         Enter(d, b, <<op1, op2>>),
         op1.type = "upload_commit", op2.type = "new_content_version",
         MayBase(d, b, op2.node, op2.baseVersion)
  PROVE  IdleStep \/ \E e : ContentStep(e, op1, op2)
<1>1. PICK e, f, r1, r2 : /\ Takes(e, <<op1, op2>>) /\ e.dev = d /\ e.base = b
                          /\ DoesTwo(e, f, r1, r2, op1, op2)
  BY PairStep
<1>2. CASE last'.out # "applied"
  BY <1>1, <1>2 DEF Takes, IdleStep
<1>3. CASE last'.out = "applied"
  <2>1. /\ EntryOK(f) /\ f.seq = e.seq /\ f.dev = e.dev /\ f.base = e.base
        /\ r1 = ApplyOp(WithGallery(index, e), e, op1)
        /\ r2 = ApplyOp(r1.ix, f, op2)
        /\ IndexOK(r1.ix, f.seq) /\ Unmade(r1.ix.nodes, f)
        /\ r2.out # "rejected" /\ r2.ix = index'
    BY <1>1, <1>3 DEF DoesTwo
  <2>2. EntryOK(e) /\ IndexOK(WithGallery(index, e), e.seq) /\ IndexOK(index, e.seq)
    BY <1>1 DEF Takes
  <2>3. r1.ix.nodes = Start(e)
    BY <2>1, <2>2, UploadCommitKeeps DEF ApplyOp, Start
  <2>4. r2 = OpNewContent(r1.ix, f, op2)
    BY <2>1 DEF ApplyOp
  <2>5. r2.out = "applied"
    <3>1. OpNewContent(r1.ix, f, op2).out \in {"rejected", "applied"}
      BY DEF OpNewContent, Unchanged, Applied
    <3> QED
      BY <2>1, <2>4, <3>1
  <2>6. Renews(f, op2, r1.ix.nodes, r2.ix.nodes) /\ Usable(r1.ix.uploads, op2.up)
    BY <2>1, <2>4, <2>5, NewContentRenews
  <2>7. Version(f, op2) = Version(e, op2)
    BY <2>1, SameEntry
  <2>8. Renews(e, op2, Start(e), nodes')
    BY <2>1, <2>3, <2>6, <2>7 DEF nodes, Renews
  <2>9. Unused(Start(e), op2.up)
    BY <2>1, <2>3, <2>6, UsableIsUnused
  <2>10. op2.baseVersion # None =>
           op2.node \in DOMAIN nodes /\ ~Unseen(e, nodes[op2.node].content)
    <3>1. SUFFICES ASSUME op2.baseVersion # None
                   PROVE  op2.node \in DOMAIN nodes /\ ~Unseen(e, nodes[op2.node].content)
      OBVIOUS
    <3>2. /\ op2.node \in DOMAIN nodes
          /\ nodes[op2.node].content # None
          /\ nodes[op2.node].content.seq <= b \/ nodes[op2.node].content.dev = d
      BY <3>1 DEF MayBase
    <3>3. nodes[op2.node].content \in ContentSet(e.seq)
      BY <2>2, <3>2 DEF IndexOK, TreeOK, NodeSet, nodes
    <3>4. nodes[op2.node].content.seq \in Int /\ b \in Int
      BY <3>3 DEF ContentSet, Inv
    <3> QED  BY <1>1, <3>2, <3>4 DEF Unseen
  <2> QED  BY <1>1, <2>8, <2>9, <2>10 DEF ContentStep
<1> QED  BY <1>2, <1>3

\* Two operations on the tree.
LEMMA SelectKinds ==
  ASSUME Inv, NEW d \in Device, NEW b \in 0 .. head, NEW op1, NEW op2, OpOK(op1), OpOK(op2),
         Enter(d, b, <<op1, op2>>), Tidies(op1), Tidies(op2),
         op2.type = op1.type \/ (op1.type = "trash" /\ op2.type = "purge")
  PROVE  IdleStep \/ \E e, mid : SelectStep(e, op1, op2, mid)
<1>1. PICK e, f, r1, r2 : Takes(e, <<op1, op2>>) /\ DoesTwo(e, f, r1, r2, op1, op2)
  BY PairStep
<1>2. CASE last'.out # "applied"
  BY <1>1, <1>2 DEF Takes, IdleStep
<1>3. CASE last'.out = "applied"
  <2>1. /\ EntryOK(f) /\ f.seq = e.seq /\ f.dev = e.dev /\ f.base = e.base
        /\ r1 = ApplyOp(WithGallery(index, e), e, op1)
        /\ r2 = ApplyOp(r1.ix, f, op2)
        /\ IndexOK(r1.ix, e.seq)
        /\ r2.ix = index'
    BY <1>1, <1>3 DEF DoesTwo
  <2>2. EntryOK(e) /\ IndexOK(WithGallery(index, e), e.seq)
    BY <1>1 DEF Takes
  <2> DEFINE mid == r1.ix.nodes
  <2>3. Reshapes(e, op1, Start(e), mid)
    BY <2>1, <2>2, TidyReshapes DEF Start
  <2>4. IndexOK(r1.ix, f.seq)
    BY <2>1
  <2>5. Reshapes(f, op2, mid, r2.ix.nodes)
    BY <2>1, <2>4, TidyReshapes
  <2>6. \A rec : UnseenNode(f, rec) <=> UnseenNode(e, rec)
    BY <2>1, SameEntry
  <2>7. TreeOK(mid, e.seq) /\ nodes' = r2.ix.nodes
    BY <2>1 DEF IndexOK, nodes
  <2> HIDE DEF mid
  <2>8. Reshapes(e, op2, mid, nodes')
    BY <2>5, <2>6, <2>7 DEF Reshapes
  <2>9. SelectStep(e, op1, op2, mid)
    BY <1>1, <2>3, <2>7, <2>8 DEF SelectStep
  <2> QED  BY <2>9
<1> QED  BY <1>2, <1>3

\* The kinds of steps, whatever the entry.
Kinds ==
  \/ IdleStep
  \/ \E e, op : TidyStep(e, op) \/ FolderStep(e, op) \/ UploadStep(e, op) \/ RelocateStep(e, op)
  \/ \E e, op1, op2 : FileStep(e, op1, op2) \/ ContentStep(e, op1, op2)
  \/ \E e, op1, op2, mid : SelectStep(e, op1, op2, mid)

\* Every step of a device is one of them.
LEMMA StepKinds ==
  ASSUME Inv, Next
  PROVE  Kinds
<1>1. PICK d \in Device, b \in 0 .. head :
        \/ CreateFolder(d, b) \/ CreateFile(d, b) \/ NewContent(d, b)
        \/ Rename(d, b) \/ Move(d, b) \/ MoveTwo(d, b)
        \/ Trash(d, b) \/ Restore(d, b)
        \/ Purge(d, b) \/ SelectTwo(d, b) \/ TrashAndPurge(d, b)
        \/ UploadBegin(d, b) \/ UploadAbort(d, b) \/ Relocate(d, b)
  BY DEF Next
<1> DEFINE One(op) == Enter(d, b, <<op>>)
           Two(op1, op2) == Enter(d, b, <<op1, op2>>)
           Singles == {"create", "rename", "move", "trash", "restore", "purge",
                       "upload_begin", "upload_abort", "relocate"}
<1>2. ASSUME NEW op, OpOK(op), One(op), op.type \in Singles, op.type = "create" => op.kind = "folder"
      PROVE  Kinds
  <2>1. IdleStep
        \/ \E e : TidyStep(e, op) \/ FolderStep(e, op) \/ UploadStep(e, op) \/ RelocateStep(e, op)
    BY <1>2, SingleKinds
  <2> QED  BY <2>1 DEF Kinds
<1>3. ASSUME NEW op1, NEW op2, OpOK(op1), OpOK(op2), Two(op1, op2), op1.type = "upload_commit",
             \/ op2.type = "create" /\ op2.kind = "file"
             \/ op2.type = "new_content_version" /\ MayBase(d, b, op2.node, op2.baseVersion)
      PROVE  Kinds
  <2>1. CASE op2.type = "create"
    <3>1. IdleStep \/ \E e : FileStep(e, op1, op2)
      BY <1>3, <2>1, FileKinds
    <3> QED  BY <3>1 DEF Kinds
  <2>2. CASE op2.type # "create"
    <3>1. IdleStep \/ \E e : ContentStep(e, op1, op2)
      BY <1>3, <2>2, ContentKinds
    <3> QED  BY <3>1 DEF Kinds
  <2> QED  BY <2>1, <2>2
<1>4. ASSUME NEW op1, NEW op2, OpOK(op1), OpOK(op2), Two(op1, op2), Tidies(op1), Tidies(op2),
             op2.type = op1.type \/ (op1.type = "trash" /\ op2.type = "purge")
      PROVE  Kinds
  <2>1. IdleStep \/ \E e, mid : SelectStep(e, op1, op2, mid)
    BY <1>4, SelectKinds
  <2> QED  BY <2>1 DEF Kinds
<1>5. UserName \subseteq NameSet /\ Loc0 \in Loc
  BY NamesAreTyped, SomeLocation DEF NameSet, Loc0
<1> HIDE DEF One, Two
<1>6. CASE CreateFolder(d, b)
  BY <1>2, <1>5, <1>6 DEF CreateFolder, OpOK, One
<1>7. CASE CreateFile(d, b)
  BY <1>3, <1>5, <1>7 DEF CreateFile, OpOK, Two
<1>8. CASE NewContent(d, b)
  BY <1>3, <1>5, <1>8 DEF NewContent, OpOK, Two
<1>9. CASE Rename(d, b)
  BY <1>2, <1>5, <1>9 DEF Rename, OpOK, One
<1>10. CASE Move(d, b)
  BY <1>2, <1>10 DEF Move, OpOK, One
<1>11. CASE MoveTwo(d, b)
  <2>1. PICK id1 \in Known, id2 \in Known, p \in Known :
          Two([type |-> "move", node |-> id1, parent |-> p],
              [type |-> "move", node |-> id2, parent |-> p])
    BY <1>11 DEF MoveTwo, Two
  <2> DEFINE op1 == [type |-> "move", node |-> id1, parent |-> p]
             op2 == [type |-> "move", node |-> id2, parent |-> p]
  <2>2. op1.type = "move" /\ op2.type = "move"
    OBVIOUS
  <2>3. Two(op1, op2)
    BY <2>1
  <2> HIDE DEF op1, op2
  <2>4. OpOK(op1) /\ OpOK(op2) /\ Tidies(op1) /\ Tidies(op2)
    BY <2>2 DEF OpOK, Tidies
  <2>5. IdleStep \/ \E e, mid : SelectStep(e, op1, op2, mid)
    BY <2>2, <2>3, <2>4, SelectKinds DEF Two
  <2> QED  BY <2>5 DEF Kinds
<1>12. CASE Trash(d, b)
  BY <1>2, <1>12 DEF Trash, OpOK, One
<1>13. CASE Restore(d, b)
  BY <1>2, <1>13 DEF Restore, OpOK, One
<1>14. CASE Purge(d, b)
  BY <1>2, <1>14 DEF Purge, OpOK, One
<1>15. CASE SelectTwo(d, b)
  <2>1. PICK t \in {"trash", "restore", "purge"}, id1 \in Known, id2 \in Known :
          Two([type |-> t, node |-> id1], [type |-> t, node |-> id2])
    BY <1>15 DEF SelectTwo, Two
  <2> DEFINE op1 == [type |-> t, node |-> id1]
             op2 == [type |-> t, node |-> id2]
  <2>2. op1.type = t /\ op2.type = t
    OBVIOUS
  <2>3. Two(op1, op2)
    BY <2>1
  <2> HIDE DEF op1, op2
  <2>4. OpOK(op1) /\ OpOK(op2) /\ Tidies(op1) /\ Tidies(op2)
    BY <2>2 DEF OpOK, Tidies
  <2>5. IdleStep \/ \E e, mid : SelectStep(e, op1, op2, mid)
    BY <2>2, <2>3, <2>4, SelectKinds DEF Two
  <2> QED  BY <2>5 DEF Kinds
<1>16. CASE TrashAndPurge(d, b)
  BY <1>4, <1>16 DEF TrashAndPurge, OpOK, Two, Tidies
<1>17. CASE UploadBegin(d, b)
  BY <1>2, <1>17 DEF UploadBegin, OpOK, One
<1>18. CASE UploadAbort(d, b)
  BY <1>2, <1>18 DEF UploadAbort, OpOK, One
<1>19. CASE Relocate(d, b)
  BY <1>2, <1>19 DEF Relocate, OpOK, One
<1> QED  BY <1>1, <1>6, <1>7, <1>8, <1>9, <1>10, <1>11, <1>12, <1>13, <1>14, <1>15, <1>16,
            <1>17, <1>18, <1>19

-----------------------------------------------------------------------------
(* Versions                                                                *)

\* The tree an entry starts from is the drive's, but for the Gallery's root.
LEMMA StartWidens ==
  ASSUME NEW e
  PROVE  Widens(nodes, Start(e))
BY WithGalleryWidens DEF Start, nodes

\* Its files are those of the drive.
LEMMA StartContents ==
  ASSUME NEW e
  PROVE  /\ \A n \in DOMAIN Start(e) : Start(e)[n].content # None =>
              n \in DOMAIN nodes /\ Start(e)[n] = nodes[n]
         /\ \A n \in DOMAIN nodes : n \in DOMAIN Start(e) /\ Start(e)[n] = nodes[n]
BY StartWidens DEF Widens, SystemFolder

\* A tidying step reshapes the tree.
LEMMA TidyStepReshapes ==
  ASSUME NEW e, NEW op, TidyStep(e, op)
  PROVE  Reshapes(e, op, Start(e), nodes')
<1> DEFINE ix == WithGallery(index, e)
<1>1. EntryOK(e) /\ IndexOK(ix, e.seq) /\ OpOK(op) /\ Tidies(op)
      /\ ApplyOp(ix, e, op).ix = index'
  BY DEF TidyStep, Takes
<1>2. Reshapes(e, op, ix.nodes, ApplyOp(ix, e, op).ix.nodes)
  <2> HIDE DEF ix
  <2> QED  BY <1>1, TidyReshapes
<1> QED  BY <1>1, <1>2 DEF Start, nodes

\* Every version in `new' was in ns, or is that of an upload no file used.
Carries(ns, new) ==
  \A n \in DOMAIN new : new[n].content # None =>
    \/ \E m \in DOMAIN ns : ns[m].content = new[n].content
    \/ Unused(ns, new[n].content.up)

\* An upload is in one file of the index.
LEMMA OneFileOfAnUpload ==
  ASSUME Bound(index), NEW m \in DOMAIN nodes, NEW n \in DOMAIN nodes,
         nodes[m].content # None, nodes[n].content # None, nodes[m].content.up = nodes[n].content.up
  PROVE  m = n
<1>1. index.uploads[nodes[m].content.up].node = m
  BY DEF Bound, nodes
<1>2. index.uploads[nodes[n].content.up].node = n
  BY DEF Bound, nodes
<1> QED  BY <1>1, <1>2


\* Versions that are carried have not changed.
LEMMA CarriesVersions ==
  ASSUME Bound(index), Carries(nodes, nodes')
  PROVE  KeepsVersions
<1> SUFFICES ASSUME NEW m \in DOMAIN nodes, NEW n \in DOMAIN nodes',
                    nodes[m].content # None, nodes'[n].content # None,
                    nodes[m].content.up = nodes'[n].content.up
             PROVE  nodes'[n].content = nodes[m].content
  BY DEF KeepsVersions
<1>1. ~Unused(nodes, nodes'[n].content.up)
  BY DEF Unused
<1>2. PICK m2 \in DOMAIN nodes : nodes[m2].content = nodes'[n].content
  BY <1>1 DEF Carries
<1>3. m2 = m
  BY <1>2, OneFileOfAnUpload
<1> QED  BY <1>2, <1>3

\* Every step but a relocation carries the versions.
LEMMA StepCarries ==
  ASSUME NEW e, NEW op, NEW op1, NEW op2, NEW mid,
         \/ IdleStep
         \/ TidyStep(e, op) \/ FolderStep(e, op) \/ UploadStep(e, op)
         \/ FileStep(e, op1, op2) \/ ContentStep(e, op1, op2) \/ SelectStep(e, op1, op2, mid)
  PROVE  Carries(nodes, nodes')
<1> DEFINE ns == Start(e)
<1>1. \A n \in DOMAIN ns : ns[n].content # None => n \in DOMAIN nodes /\ ns[n] = nodes[n]
  BY StartContents
<1>2. \A n \in DOMAIN nodes : n \in DOMAIN ns /\ ns[n] = nodes[n]
  BY StartContents
<1>3. \A up : Unused(ns, up) => Unused(nodes, up)
  BY <1>2 DEF Unused
<1> HIDE DEF ns
<1>4. Carries(ns, nodes') => Carries(nodes, nodes')
  BY <1>1, <1>3 DEF Carries
<1>5. CASE IdleStep
  BY <1>5 DEF IdleStep, Carries, nodes
<1>6. CASE TidyStep(e, op)
  <2>1. Reshapes(e, op, ns, nodes')
    BY <1>6, TidyStepReshapes DEF ns
  <2> QED  BY <1>4, <2>1 DEF Reshapes, Carries
<1>7. CASE FolderStep(e, op)
  <2>1. Adds(ns, nodes', op.node, None)
    BY <1>7 DEF FolderStep, ns
  <2> QED  BY <1>4, <2>1 DEF Adds, Carries
<1>8. CASE UploadStep(e, op)
  BY <1>4, <1>8 DEF UploadStep, ns, Carries
<1>9. CASE FileStep(e, op1, op2)
  <2>1. Adds(ns, nodes', op2.node, Version(e, op2)) /\ Unused(ns, op2.up)
    BY <1>9 DEF FileStep, ns
  <2>2. Version(e, op2).up = op2.up
    BY DEF Version
  <2> QED  BY <1>4, <2>1, <2>2 DEF Adds, Carries
<1>10. CASE ContentStep(e, op1, op2)
  <2>1. Renews(e, op2, ns, nodes') /\ Unused(ns, op2.up)
    BY <1>10 DEF ContentStep, ns
  <2>2. Version(e, op2).up = op2.up
    BY DEF Version
  <2>3. ASSUME NEW n \in DOMAIN nodes', nodes'[n].content # None
        PROVE  \/ \E m \in DOMAIN ns : ns[m].content = nodes'[n].content
               \/ Unused(ns, nodes'[n].content.up)
    BY <2>1, <2>2, <2>3 DEF Renews
  <2> QED  BY <1>4, <2>3 DEF Carries
<1>11. CASE SelectStep(e, op1, op2, mid)
  <2>1. Reshapes(e, op1, ns, mid) /\ Reshapes(e, op2, mid, nodes')
    BY <1>11 DEF SelectStep, ns
  <2> QED  BY <1>4, <2>1 DEF Reshapes, Carries
<1> QED  BY <1>5, <1>6, <1>7, <1>8, <1>9, <1>10, <1>11

\* A relocation changes where the bytes are, and nothing else of a version.
LEMMA RelocationKeepsVersions ==
  ASSUME Bound(index), NEW e, NEW op, RelocateStep(e, op)
  PROVE  KeepsVersions
<1> SUFFICES ASSUME NEW m \in DOMAIN nodes, NEW n \in DOMAIN nodes',
                    nodes[m].content # None, nodes'[n].content # None,
                    nodes[m].content.up = nodes'[n].content.up
             PROVE  LET c == nodes[m].content
                        k == nodes'[n].content
                    IN  /\ k.seq = c.seq /\ k.dev = c.dev
                        /\ k.loc # c.loc => last'.ops[1].type = "relocate"
                                            /\ last'.ops[1].from = c.loc
  BY DEF KeepsVersions
<1>1. last'.ops = <<op>> /\ op.type = "relocate" /\ Relocates(op, Start(e), nodes')
  BY DEF RelocateStep, Takes
<1>2. last'.ops[1] = op
  BY <1>1
<1>3. n \in DOMAIN Start(e) /\ Start(e)[n].content # None
      /\ Start(e)[n].content.up = nodes'[n].content.up
  BY <1>1 DEF Relocates
<1>4. n \in DOMAIN nodes /\ Start(e)[n] = nodes[n]
  BY <1>3, StartContents
<1>5. m = n
  BY <1>3, <1>4, OneFileOfAnUpload
<1>6. /\ nodes'[n].content.seq = nodes[n].content.seq
      /\ nodes'[n].content.dev = nodes[n].content.dev
      /\ nodes'[n].content.loc # nodes[n].content.loc => nodes[n].content.loc = op.from
  BY <1>1, <1>3, <1>4 DEF Relocates
<1> QED  BY <1>1, <1>2, <1>5, <1>6

\* A version keeps its author and its position for as long as a file has it,
\* and its bytes move only from where the mover thought they were.
THEOREM VersionsStay == Spec => VersionsKeep
<1>1. Inv /\ [Next]_vars => [KeepsVersions]_vars
  <2> SUFFICES ASSUME Inv, Next  PROVE KeepsVersions
    OBVIOUS
  <2>1. Bound(index)
    BY DEF Inv, IndexOK
  <2>2. Kinds
    BY StepKinds
  <2>3. Carries(nodes, nodes') => KeepsVersions
    BY <2>1, CarriesVersions
  <2>4. ASSUME NEW e, NEW op, RelocateStep(e, op)  PROVE KeepsVersions
    BY <2>1, <2>4, RelocationKeepsVersions
  <2> QED  BY <2>2, <2>3, <2>4, StepCarries DEF Kinds
<1> QED  BY <1>1, Invariance, PTL DEF Spec, VersionsKeep

-----------------------------------------------------------------------------
(* What the author had not seen                                            *)

\* Nothing the author e had not seen is lost on the way from ns to `new'.
Spares(e, ns, new) ==
  /\ \A n \in DOMAIN ns \ DOMAIN new : ~Unseen(e, ns[n].placed)
  /\ \A n \in DOMAIN ns : LET c == ns[n].content IN
       c # None /\ Unseen(e, c) =>
         \/ \E m \in DOMAIN new : new[m].content # None /\ new[m].content.up = c.up
         \/ /\ n \in DOMAIN new /\ Plain[c.up] # None
            /\ Plain[new[n].content.up] = Plain[c.up]

\* An upload that a file of the tree uses is bound.
LEMMA SparedIsBound ==
  ASSUME Bound(index'), NEW e, last'.dev = e.dev, last'.base = e.base, Spares(e, nodes, nodes')
  PROVE  SparesUnseen
<1>1. \A m : Unseen(last', m) <=> Unseen(e, m)
  BY DEF Unseen
<1>2. \A m \in DOMAIN nodes' : nodes'[m].content # None =>
        uploads'[nodes'[m].content.up].status = "bound"
  BY DEF Bound, nodes, uploads
<1>3. \A n \in DOMAIN nodes \ DOMAIN nodes' : ~Unseen(last', nodes[n].placed)
  BY <1>1 DEF Spares
<1>4. ASSUME NEW n \in DOMAIN nodes, nodes[n].content # None, Unseen(last', nodes[n].content)
      PROVE  LET c == nodes[n].content
             IN  \/ uploads'[c.up].status = "bound"
                 \/ /\ n \in DOMAIN nodes' /\ Plain[c.up] # None
                    /\ Plain[nodes'[n].content.up] = Plain[c.up]
  <2>1. Unseen(e, nodes[n].content)
    BY <1>1, <1>4
  <2> QED  BY <1>2, <1>4, <2>1 DEF Spares
<1> QED  BY <1>3, <1>4 DEF SparesUnseen

\* A selection: what the second operation deletes was where it was before the
\* first.
LEMMA SelectSpares ==
  ASSUME NEW e, NEW op1, NEW op2, NEW mid, SelectStep(e, op1, op2, mid)
  PROVE  Spares(e, Start(e), nodes')
<1> DEFINE ns == Start(e)
<1>1. /\ Reshapes(e, op1, ns, mid) /\ Reshapes(e, op2, mid, nodes')
      /\ op2.type = op1.type \/ (op1.type = "trash" /\ op2.type = "purge")
  BY DEF SelectStep
<1> HIDE DEF ns
<1>2. \A n \in DOMAIN ns \ DOMAIN nodes' : ~UnseenNode(e, ns[n])
  <2> SUFFICES ASSUME NEW n \in DOMAIN ns, n \notin DOMAIN nodes'
               PROVE  ~UnseenNode(e, ns[n])
    OBVIOUS
  <2>1. CASE n \notin DOMAIN mid
    BY <1>1, <2>1 DEF Reshapes
  <2>2. CASE n \in DOMAIN mid
    <3>1. op2.type = "purge" /\ ~UnseenNode(e, mid[n])
      BY <1>1, <2>2 DEF Reshapes
    <3>2. op1.type \in {"trash", "purge"}
      BY <1>1, <3>1
    <3>3. mid[n].placed = ns[n].placed /\ mid[n].content = ns[n].content
      BY <1>1, <2>2, <3>2 DEF Reshapes
    <3> QED  BY <3>1, <3>3 DEF UnseenNode, UnseenContent
  <2> QED  BY <2>1, <2>2
<1>3. \A n \in DOMAIN nodes' : n \in DOMAIN ns /\ nodes'[n].content = ns[n].content
  BY <1>1 DEF Reshapes
<1> QED  BY <1>2, <1>3 DEF Spares, UnseenNode, UnseenContent, ns

\* New content: what it displaces was its base, is the same bytes or is kept.
LEMMA ContentSpares ==
  ASSUME NEW e, NEW op1, NEW op2, ContentStep(e, op1, op2), TreeOK(Start(e), e.seq)
  PROVE  Spares(e, Start(e), nodes')
<1> DEFINE ns == Start(e)
<1>1. /\ Renews(e, op2, ns, nodes')
      /\ \/ op2.baseVersion = None
         \/ /\ op2.node \in DOMAIN nodes
            /\ ~Unseen(e, nodes[op2.node].content)
  BY DEF ContentStep
<1>2. \A n \in DOMAIN nodes : n \in DOMAIN ns /\ ns[n] = nodes[n]
  BY StartContents
<1>3. \A n \in DOMAIN ns : ns[n] \in NodeSet(e.seq)
  BY DEF TreeOK
<1> HIDE DEF ns
<1>4. ASSUME NEW n \in DOMAIN ns, ns[n].content # None, Unseen(e, ns[n].content)
      PROVE  LET c == ns[n].content
             IN  \/ \E m \in DOMAIN nodes' :
                      nodes'[m].content # None /\ nodes'[m].content.up = c.up
                 \/ /\ n \in DOMAIN nodes' /\ Plain[c.up] # None
                    /\ Plain[nodes'[n].content.up] = Plain[c.up]
  <2>1. CASE n # op2.node
    BY <1>1, <1>4, <2>1 DEF Renews
  <2>2. CASE n = op2.node
    <3> DEFINE c == ns[n].content
    <3>1. n \in DOMAIN nodes' /\ nodes'[n].content.up = op2.up
      BY <1>1, <2>2 DEF Renews, Version
    <3>2. \/ c.up = op2.baseVersion
          \/ Plain[c.up] # None /\ Plain[c.up] = Plain[op2.up]
          \/ \E m \in DOMAIN nodes' : nodes'[m].content = c
      BY <1>1, <2>2 DEF Renews
    <3>3. c.up # op2.baseVersion
      <4>1. c.up \in Upload
        BY <1>3, <1>4 DEF NodeSet, ContentSet
      <4>2. CASE op2.baseVersion = None
        BY <4>1, <4>2, NoneIsNoUpload
      <4>3. CASE op2.baseVersion # None
        BY <1>1, <1>2, <1>4, <2>2, <4>3
      <4> QED  BY <4>2, <4>3
    <3> QED  BY <1>4, <3>1, <3>2, <3>3
  <2> QED  BY <2>1, <2>2
<1>5. DOMAIN ns \subseteq DOMAIN nodes'
  BY <1>1 DEF Renews
<1> QED  BY <1>4, <1>5 DEF Spares, ns

\* Every step spares what its author had not seen.
LEMMA StepSpares ==
  ASSUME NEW e, NEW op, NEW op1, NEW op2, NEW mid,
         \/ TidyStep(e, op) \/ FolderStep(e, op) \/ UploadStep(e, op) \/ RelocateStep(e, op)
         \/ FileStep(e, op1, op2) \/ ContentStep(e, op1, op2) \/ SelectStep(e, op1, op2, mid)
  PROVE  last'.dev = e.dev /\ last'.base = e.base /\ Spares(e, nodes, nodes')
<1> DEFINE ns == Start(e)
<1>1. last'.dev = e.dev /\ last'.base = e.base /\ TreeOK(ns, e.seq)
  BY DEF TidyStep, FolderStep, UploadStep, RelocateStep, FileStep, ContentStep, SelectStep,
         Takes, IndexOK, Start
<1>2. \A n \in DOMAIN nodes : n \in DOMAIN ns /\ ns[n] = nodes[n]
  BY StartContents
<1> HIDE DEF ns
<1>3. Spares(e, ns, nodes') => Spares(e, nodes, nodes')
  BY <1>2 DEF Spares
<1>4. CASE TidyStep(e, op)
  <2>1. Reshapes(e, op, ns, nodes')
    BY <1>4, TidyStepReshapes DEF ns
  <2>2. \A n \in DOMAIN ns \ DOMAIN nodes' : ~UnseenNode(e, ns[n])
    BY <2>1 DEF Reshapes
  <2>3. \A n \in DOMAIN nodes' : n \in DOMAIN ns /\ nodes'[n].content = ns[n].content
    BY <2>1 DEF Reshapes
  <2> QED  BY <1>1, <1>3, <2>2, <2>3 DEF Spares, UnseenNode, UnseenContent
<1>5. CASE FolderStep(e, op) \/ FileStep(e, op1, op2)
  <2>1. PICK id, c : Adds(ns, nodes', id, c)
    BY <1>5 DEF FolderStep, FileStep, ns
  <2> QED  BY <1>1, <1>3, <2>1 DEF Spares, Adds
<1>6. CASE UploadStep(e, op)
  BY <1>1, <1>3, <1>6 DEF UploadStep, Spares, ns
<1>7. CASE RelocateStep(e, op)
  <2>1. Relocates(op, ns, nodes')
    BY <1>7 DEF RelocateStep, ns
  <2>2. \A n \in DOMAIN ns : n \in DOMAIN nodes' /\ (ns[n].content # None =>
          nodes'[n].content # None /\ nodes'[n].content.up = ns[n].content.up)
    BY <2>1 DEF Relocates
  <2> QED  BY <1>1, <1>3, <2>2 DEF Spares
<1>8. CASE ContentStep(e, op1, op2)
  BY <1>1, <1>3, <1>8, ContentSpares DEF ns
<1>9. CASE SelectStep(e, op1, op2, mid)
  BY <1>1, <1>3, <1>9, SelectSpares DEF ns
<1> QED  BY <1>4, <1>5, <1>6, <1>7, <1>8, <1>9

\* Nobody destroys what he had not seen: an entry deletes no node whose place
\* its author did not know, and ends no version its author did not know,
\* unless the file's new version has the same plaintext.
THEOREM UnseenStays == Spec => NoUnseenLoss
<1>1. Inv /\ [Next]_vars => [SparesUnseen]_vars
  <2> SUFFICES ASSUME Inv, Next  PROVE SparesUnseen
    OBVIOUS
  <2>1. Bound(index')
    BY NextInv DEF Inv, IndexOK
  <2>2. Kinds
    BY StepKinds
  <2>3. CASE IdleStep
    <3>1. nodes' = nodes
      BY <2>3 DEF IdleStep, nodes
    <3>2. Spares(last', nodes, nodes')
      BY <3>1 DEF Spares
    <3> QED  BY <2>1, <3>2, SparedIsBound
  <2>4. ASSUME NEW e, last'.dev = e.dev, last'.base = e.base, Spares(e, nodes, nodes')
        PROVE  SparesUnseen
    BY <2>1, <2>4, SparedIsBound
  <2> QED  BY <2>2, <2>3, <2>4, StepSpares DEF Kinds
<1> QED  BY <1>1, Invariance, PTL DEF Spec, NoUnseenLoss

-----------------------------------------------------------------------------
(* Spaces                                                                  *)

\* Where the entry starts from, every node of the drive is where it was.
LEMMA StartPlaces ==
  ASSUME NEW e, NEW ops, Takes(e, ops)
  PROVE  \A n \in DOMAIN nodes :
           /\ n \in DOMAIN Start(e) /\ Start(e)[n] = nodes[n]
           /\ Chain(Start(e), n) = Chain(nodes, n)
           /\ InTrash(Start(e), n) <=> InTrash(nodes, n)
           /\ Space(Start(e), n) = Space(nodes, n)
<1> DEFINE ns == Start(e)
<1>1. \A n \in DOMAIN nodes : n \in DOMAIN ns /\ ns[n] = nodes[n]
  BY StartContents
<1>2. TreeOK(nodes, e.seq) /\ TreeOK(ns, e.seq)
  BY DEF Takes, IndexOK, Start, nodes
<1> HIDE DEF ns
<1>3. KeepsPlaces(nodes, ns)
  BY <1>1 DEF KeepsPlaces
<1>4. \A n \in DOMAIN nodes :
           /\ Chain(ns, n) = Chain(nodes, n)
           /\ InTrash(ns, n) <=> InTrash(nodes, n)
           /\ Space(ns, n) = Space(nodes, n)
  BY <1>2, <1>3, PlacesKept
<1> QED  BY <1>1, <1>4 DEF ns

\* A node either stays in its folder or in its space.
Stays(ns, new) ==
  \A n \in DOMAIN ns \cap DOMAIN new :
    new[n].parent = ns[n].parent \/ Space(new, n) = Space(ns, n)

\* Only a move changes the space of a node that got another parent.
LEMMA StepStays ==
  ASSUME NEW e, NEW op, NEW op1, NEW op2, NEW mid,
         \/ TidyStep(e, op) \/ FolderStep(e, op) \/ UploadStep(e, op) \/ RelocateStep(e, op)
         \/ FileStep(e, op1, op2) \/ ContentStep(e, op1, op2) \/ SelectStep(e, op1, op2, mid),
         \A i \in DOMAIN last'.ops : last'.ops[i].type # "move"
  PROVE  Stays(nodes, nodes')
<1> DEFINE ns == Start(e)
<1>1. PICK ops : Takes(e, ops)
  BY DEF TidyStep, FolderStep, UploadStep, RelocateStep, FileStep, ContentStep, SelectStep
<1>2. \A n \in DOMAIN nodes : n \in DOMAIN ns /\ ns[n] = nodes[n] /\ Space(ns, n) = Space(nodes, n)
  BY <1>1, StartPlaces
<1> HIDE DEF ns
<1>3. Stays(ns, nodes') => Stays(nodes, nodes')
  BY <1>2 DEF Stays
<1>4. CASE TidyStep(e, op)
  <2>1. Reshapes(e, op, ns, nodes')
    BY <1>4, TidyStepReshapes DEF ns
  <2>2. last'.ops = <<op>>
    BY <1>4 DEF TidyStep, Takes
  <2>3. op.type # "move"
    BY <2>2
  <2> QED  BY <1>3, <2>1, <2>3 DEF Reshapes, Stays
<1>5. CASE FolderStep(e, op) \/ FileStep(e, op1, op2)
  <2>1. PICK id, c : Adds(ns, nodes', id, c)
    BY <1>5 DEF FolderStep, FileStep, ns
  <2> QED  BY <1>3, <2>1 DEF Stays, Adds
<1>6. CASE UploadStep(e, op)
  BY <1>3, <1>6 DEF UploadStep, Stays, ns
<1>7. CASE RelocateStep(e, op)
  BY <1>3, <1>7 DEF RelocateStep, Relocates, Stays, ns
<1>8. CASE ContentStep(e, op1, op2)
  <2>1. Renews(e, op2, ns, nodes')
    BY <1>8 DEF ContentStep, ns
  <2> QED  BY <1>3, <2>1 DEF Renews, Stays
<1>9. CASE SelectStep(e, op1, op2, mid)
  <2>1. Reshapes(e, op1, ns, mid) /\ Reshapes(e, op2, mid, nodes') /\ last'.ops = <<op1, op2>>
    BY <1>9 DEF SelectStep, ns, Takes
  <2>2. op1.type # "move" /\ op2.type # "move"
    <3>1. last'.ops[1] = op1 /\ last'.ops[2] = op2 /\ 1 \in DOMAIN last'.ops /\ 2 \in DOMAIN last'.ops
      BY <2>1
    <3> QED  BY <3>1
  <2>3. \A n \in DOMAIN nodes' :
          n \in DOMAIN mid /\ Space(nodes', n) = Space(mid, n) /\ Space(mid, n) = Space(ns, n)
    BY <2>1, <2>2 DEF Reshapes
  <2> QED  BY <1>3, <2>3 DEF Stays
<1> QED  BY <1>4, <1>5, <1>6, <1>7, <1>8, <1>9

\* Only a move takes a node from the Drive to the Gallery or back: whatever a
\* restore, a recovery or a purge puts elsewhere stays in its space.
THEOREM SpacesAreKept == Spec => SpaceKept
<1>1. Inv /\ [Next]_vars => [KeepsSpaces]_vars
  <2> SUFFICES ASSUME Inv, Next, \A i \in DOMAIN last'.ops : last'.ops[i].type # "move"
               PROVE  Stays(nodes, nodes')
    BY DEF KeepsSpaces, Stays
  <2>1. Kinds
    BY StepKinds
  <2>2. CASE IdleStep
    BY <2>2 DEF IdleStep, nodes, Stays
  <2> QED  BY <2>1, <2>2, StepStays DEF Kinds
<1> QED  BY <1>1, Invariance, PTL DEF Spec, SpaceKept

-----------------------------------------------------------------------------
(* What is put in place is live                                            *)

\* What opRestore brings back is not in the trash.
LEMMA RestoreIsLive ==
  ASSUME NEW ix, NEW e, NEW op, EntryOK(e), IndexOK(ix, e.seq),
         OpRestore(ix, e, op).out = "applied"
  PROVE  ~InTrash(OpRestore(ix, e, op).ix.nodes, op.node)
<1>1. op.node \in DOMAIN ix.nodes \ Roots
  BY NotSystem DEF OpRestore, Unchanged
<1>2. OpRestore(ix, e, op).ix.nodes = Revive(ix.nodes, e, op.node)
  BY DEF OpRestore, Unchanged, Applied
<1>3. Revives(ix.nodes, Revive(ix.nodes, e, op.node), e, op.node)
  BY <1>1, ReviveDoes DEF IndexOK
<1> QED  BY <1>2, <1>3 DEF Revives

\* What opMove moves is not in the trash, unless it was trashed itself.
LEMMA MoveIsLive ==
  ASSUME NEW ix, NEW e, NEW op, EntryOK(e), IndexOK(ix, e.seq),
         OpMove(ix, e, op).out = "applied"
  PROVE  /\ op.node \in DOMAIN ix.nodes \ Roots
         /\ ix.nodes[op.node].trashed = 0 => ~InTrash(OpMove(ix, e, op).ix.nodes, op.node)
<1> DEFINE ns  == ix.nodes
           id  == op.node
           r   == OpMove(ix, e, op)
           moved == [ns[id] EXCEPT !.placed = Mark(e)]
           new == PlaceLive(ns, id, moved, op.parent)
<1>1. /\ id \in DOMAIN ns \ Roots /\ op.parent \in DOMAIN ns
      /\ ~InTrash(ns, op.parent) /\ id \notin Chain(ns, op.parent)
  BY NotSystem DEF OpMove, Unchanged, Misplaced
<1> SUFFICES ASSUME ns[id].trashed = 0  PROVE ~InTrash(r.ix.nodes, id)
  BY <1>1
<1>2. r.ix.nodes = new
  BY DEF OpMove, Unchanged, Applied
<1>3. TreeOK(ns, e.seq) /\ TreeOK(r.ix.nodes, e.seq)
  BY MoveKeeps DEF IndexOK, ApplyOp
<1> HIDE DEF r
<1>4. Mark(e) \in MarkSet(e.seq)
  BY DEF Mark, MarkSet, EntryOK
<1>5. moved \in NodeSet(e.seq)
  BY <1>1, <1>3, <1>4 DEF TreeOK, NodeSet
<1> HIDE DEF moved
<1>6. PutsLive(ns, new, id, moved, op.parent)
  BY <1>5, PlaceLiveDoes
<1> HIDE DEF new
<1>7. /\ id \in DOMAIN new /\ new[id].trashed = 0 /\ new[id].parent = op.parent
      /\ LivePlace(ns, op.parent)
  BY <1>1, <1>6 DEF PutsLive, LivePlace
<1>8. \A a \in Chain(ns, op.parent) : a \in DOMAIN new /\ new[a] = ns[a]
  BY <1>1, <1>3, <1>6, TreeFacts, ChainClosed DEF PutsLive
<1> QED  BY <1>2, <1>3, <1>7, <1>8, PutLive

\* The purpose of an entry of one operation is that operation, that of an
\* entry of two is the second, if the first commits its upload.
LEMMA PurposeIs ==
  ASSUME NEW ops
  PROVE  /\ \A x, op : ops = <<x>> /\ Purpose(ops, op) => op = x
         /\ \A x, y, op : ops = <<x, y>> /\ Purpose(ops, op) => op = y /\ x.type = "upload_commit"
<1>1. ASSUME NEW x, NEW op, ops = <<x>>, Purpose(ops, op)  PROVE op = x
  BY <1>1 DEF Purpose
<1>2. ASSUME NEW x, NEW y, NEW op, ops = <<x, y>>, Purpose(ops, op)
      PROVE  op = y /\ x.type = "upload_commit"
  BY <1>2 DEF Purpose
<1> QED  BY <1>1, <1>2

\* What the operation op put in place is not in the trash.
IsLive(op) ==
  /\ op.type \in {"create", "restore", "new_content_version"}
     /\ op.node \in DOMAIN nodes' => ~InTrash(nodes', op.node)
  /\ op.type = "move" /\ nodes[op.node].trashed = 0 => ~InTrash(nodes', op.node)
  /\ op.type = "new_content_version" =>
       \A n \in DOMAIN nodes' :
         nodes'[n].content # None /\ nodes'[n].placed.seq = head' => ~InTrash(nodes', n)

\* A tidying step.
LEMMA TidyIsLive ==
  ASSUME NEW e, NEW op, TidyStep(e, op)
  PROVE  IsLive(op)
<1> DEFINE ix == WithGallery(index, e)
<1>1. /\ EntryOK(e) /\ IndexOK(ix, e.seq) /\ Tidies(op) /\ Takes(e, <<op>>)
      /\ ApplyOp(ix, e, op).out = "applied" /\ ApplyOp(ix, e, op).ix = index'
  BY DEF TidyStep, Takes
<1>2. \A n \in DOMAIN ix.nodes \ Roots : n \in DOMAIN nodes /\ ix.nodes[n] = nodes[n]
  BY StartWidens DEF Start, Widens, Roots
<1> HIDE DEF ix
<1>3. CASE op.type = "restore"
  <2>1. ApplyOp(ix, e, op) = OpRestore(ix, e, op)
    BY <1>3 DEF ApplyOp
  <2>2. ~InTrash(OpRestore(ix, e, op).ix.nodes, op.node)
    BY <1>1, <2>1, RestoreIsLive
  <2> QED  BY <1>1, <1>3, <2>1, <2>2 DEF IsLive, nodes
<1>4. CASE op.type = "move"
  <2>1. ApplyOp(ix, e, op) = OpMove(ix, e, op)
    BY <1>4 DEF ApplyOp
  <2>2. /\ op.node \in DOMAIN ix.nodes \ Roots
        /\ ix.nodes[op.node].trashed = 0 => ~InTrash(OpMove(ix, e, op).ix.nodes, op.node)
    BY <1>1, <2>1, MoveIsLive
  <2>3. nodes[op.node].trashed = 0 => ~InTrash(nodes', op.node)
    BY <1>1, <1>2, <2>1, <2>2 DEF nodes
  <2> QED  BY <1>4, <2>3 DEF IsLive
<1> QED  BY <1>1, <1>3, <1>4 DEF IsLive, Tidies

\* New content: the file, and a copy that it was displaced to.
LEMMA ContentIsLive ==
  ASSUME IndexOK(index, head), NEW e, NEW op1, NEW op2, ContentStep(e, op1, op2)
  PROVE  IsLive(op2)
<1> DEFINE ns == Start(e)
<1>1. /\ Renews(e, op2, ns, nodes') /\ op2.type = "new_content_version"
      /\ head \in Nat /\ head' = head + 1
  BY DEF ContentStep, Takes
<1>2. \A n \in DOMAIN ns : ns[n].content # None => n \in DOMAIN nodes /\ ns[n] = nodes[n]
  BY StartContents
<1>3. \A n \in DOMAIN nodes : nodes[n].placed.seq # head'
  <2>1. \A n \in DOMAIN nodes : nodes[n] \in NodeSet(head)
    BY DEF IndexOK, TreeOK, nodes
  <2>2. \A n \in DOMAIN nodes : nodes[n].placed.seq \in 0 .. head
    BY <2>1 DEF NodeSet, MarkSet
  <2> QED  BY <1>1, <2>2
<1> HIDE DEF ns
<1>4. ASSUME NEW n \in DOMAIN nodes', nodes'[n].content # None, nodes'[n].placed.seq = head'
      PROVE  ~InTrash(nodes', n)
  <2>1. CASE n = op2.node \/ n \notin DOMAIN ns
    BY <1>1, <2>1 DEF Renews
  <2>2. CASE n # op2.node /\ n \in DOMAIN ns
    <3>1. nodes'[n] = ns[n]
      BY <1>1, <2>2 DEF Renews
    <3>2. n \in DOMAIN nodes /\ nodes'[n] = nodes[n]
      BY <1>2, <1>4, <2>2, <3>1
    <3> QED  BY <1>3, <1>4, <3>2
  <2> QED  BY <2>1, <2>2
<1>5. op2.node \in DOMAIN nodes' => ~InTrash(nodes', op2.node)
  BY <1>1 DEF Renews
<1> QED  BY <1>1, <1>4, <1>5 DEF IsLive

\* The purpose of every step.
LEMMA StepIsLive ==
  ASSUME IndexOK(index, head), NEW e, NEW op, NEW op1, NEW op2, NEW mid,
         \/ TidyStep(e, op) \/ FolderStep(e, op) \/ UploadStep(e, op) \/ RelocateStep(e, op)
         \/ FileStep(e, op1, op2) \/ ContentStep(e, op1, op2) \/ SelectStep(e, op1, op2, mid),
         NEW o, Purpose(last'.ops, o)
  PROVE  IsLive(o)
<1>1. CASE TidyStep(e, op) \/ FolderStep(e, op) \/ UploadStep(e, op) \/ RelocateStep(e, op)
  <2>1. last'.ops = <<op>>
    BY <1>1 DEF TidyStep, FolderStep, UploadStep, RelocateStep, Takes
  <2>2. o = op
    BY <2>1, PurposeIs
  <2>3. CASE TidyStep(e, op)
    BY <2>2, <2>3, TidyIsLive
  <2>4. CASE FolderStep(e, op)
    <3>1. op.type = "create" /\ ~InTrash(nodes', op.node)
      BY <2>4 DEF FolderStep, Adds
    <3> QED  BY <2>2, <3>1 DEF IsLive
  <2>5. CASE UploadStep(e, op) \/ RelocateStep(e, op)
    BY <2>2, <2>5 DEF UploadStep, RelocateStep, IsLive
  <2> QED  BY <1>1, <2>3, <2>4, <2>5
<1>2. CASE FileStep(e, op1, op2) \/ ContentStep(e, op1, op2) \/ SelectStep(e, op1, op2, mid)
  <2>1. last'.ops = <<op1, op2>>
    BY <1>2 DEF FileStep, ContentStep, SelectStep, Takes
  <2>2. o = op2 /\ op1.type = "upload_commit"
    BY <2>1, PurposeIs
  <2>3. CASE FileStep(e, op1, op2)
    <3>1. op2.type = "create" /\ ~InTrash(nodes', op2.node)
      BY <2>3 DEF FileStep, Adds
    <3> QED  BY <2>2, <3>1 DEF IsLive
  <2>4. CASE ContentStep(e, op1, op2)
    BY <2>2, <2>4, ContentIsLive
  <2>5. ~SelectStep(e, op1, op2, mid)
    BY <2>2 DEF SelectStep, Tidies
  <2> QED  BY <1>2, <2>3, <2>4, <2>5
<1> QED  BY <1>1, <1>2

\* What an applied create, restore, move or new version puts in place is not
\* in the trash, whatever others trashed meanwhile; nor is a version that new
\* content displaced.
THEOREM AppliedStaysLive == Spec => AppliedIsLive
<1>1. Inv /\ [Next]_vars => [PutsPurposeLive]_vars
  <2> SUFFICES ASSUME Inv, Next, last'.out = "applied",
                      NEW o \in {last'.ops[i] : i \in DOMAIN last'.ops}, Purpose(last'.ops, o)
               PROVE  IsLive(o)
    BY DEF PutsPurposeLive, IsLive
  <2>1. Kinds /\ IndexOK(index, head)
    BY StepKinds DEF Inv
  <2>2. ~IdleStep
    BY DEF IdleStep
  <2> QED  BY <2>1, <2>2, StepIsLive DEF Kinds
<1> QED  BY <1>1, Invariance, PTL DEF Spec, AppliedIsLive

-----------------------------------------------------------------------------
(* The notices of a trashed folder                                         *)

\* Of what a device changed unseen below a folder, a topmost node is told of.
LEMMA SomethingIsTold ==
  ASSUME NEW ns, NEW h, TreeOK(ns, h), NEW e, NEW folder, NEW d,
         NEW x \in Subtree(ns, folder) \ {folder}, ~InTrash(ns, x), d \in UnseenBy(e, ns[x])
  PROVE  \E a \in Path(ns, folder, x) : a \in Told(ns, e, folder, d)
<1> DEFINE S == {a \in Path(ns, folder, x) \ {folder} : d \in UnseenBy(e, ns[a])}
<1>1. Closed(ns) /\ x \in DOMAIN ns
  BY TreeFacts DEF Subtree
<1>2. x \in Chain(ns, x)
  BY <1>1, ChainClosed
<1>3. S \in SUBSET Chain(ns, x) /\ x \in S
  BY <1>2 DEF Path
<1> HIDE DEF S
<1>4. PICK t \in S : \A a \in Chain(ns, t) \ {t} : a \notin S
  BY <1>1, <1>3, TopmostOnChain
<1>5. t \in Path(ns, folder, x) \ {folder} /\ d \in UnseenBy(e, ns[t])
  BY <1>4 DEF S
<1>6. Chain(ns, t) \subseteq Chain(ns, x)
  BY <1>1, <1>5, ChainTransitive DEF Path
<1>7. Path(ns, folder, t) \subseteq Path(ns, folder, x) /\ Path(ns, folder, t) \subseteq Chain(ns, t)
  BY <1>6 DEF Path
<1>8. \A a \in Path(ns, folder, t) : ns[a].trashed = 0
  BY <1>6, <1>7 DEF InTrash
<1>9. \A a \in Path(ns, folder, t) \ {folder, t} : d \notin UnseenBy(e, ns[a])
  BY <1>4, <1>7 DEF S
<1>10. t \in Told(ns, e, folder, d)
  BY <1>5, <1>8, <1>9 DEF Told, Path
<1> QED  BY <1>5, <1>10

\* Trashing a folder tells every device whose unseen change went to the trash
\* with it, at that node or at one above it.
THEOREM TrashIsTold == Spec => UnseenTrashIsTold
<1>1. Inv /\ [Next]_vars => [TellsOfTrash]_vars
  <2> SUFFICES ASSUME Inv  PROVE TellsOfTrash
    OBVIOUS
  <2>1. TreeOK(nodes, head)
    BY DEF Inv, IndexOK, nodes
  <2> SUFFICES ASSUME NEW folder, NEW x \in Subtree(nodes, folder) \ {folder}, NEW d \in Device,
                      ~InTrash(nodes, x),
                      \/ nodes[x].placed.dev = d /\ Unseen(last', nodes[x].placed)
                      \/ nodes[x].content # None /\ nodes[x].content.dev = d
                         /\ Unseen(last', nodes[x].content)
               PROVE  \E a \in Path(nodes, folder, x) : a \in Told(nodes, last', folder, d)
    BY DEF TellsOfTrash
  <2>2. d \in UnseenBy(last', nodes[x])
    BY DEF UnseenBy, UnseenContent
  <2> QED  BY <2>1, <2>2, SomethingIsTold
<1> QED  BY <1>1, Invariance, PTL DEF Spec, UnseenTrashIsTold

-----------------------------------------------------------------------------
(* The clock of what a purge keeps                                         *)

\* A purge that left a node of the subtree kept something it had not seen.
LEMMA SomethingIsKept ==
  ASSUME NEW ns, NEW h, TreeOK(ns, h), NEW e, NEW top,
         NEW x \in Subtree(ns, top), x \notin Doomed(ns, e, top)
  PROVE  Kept(ns, e, top) # {}
<1> SUFFICES ASSUME Kept(ns, e, top) = {}  PROVE FALSE
  OBVIOUS
<1>1. Doomed(ns, e, top) = Reached(ns, e, top)
  BY DEF Doomed
<1> DEFINE S == {a \in Path(ns, top, x) : UnseenNode(e, ns[a])}
<1>2. S \in SUBSET Chain(ns, x) /\ S # {}
  BY <1>1 DEF Reached, Path
<1>3. Closed(ns) /\ x \in DOMAIN ns
  BY TreeFacts DEF Subtree
<1> HIDE DEF S
<1>4. PICK t \in S : \A a \in Chain(ns, t) \ {t} : a \notin S
  BY <1>2, <1>3, TopmostOnChain
<1>5. t \in Path(ns, top, x) /\ UnseenNode(e, ns[t])
  BY <1>4 DEF S
<1>6. Chain(ns, t) \subseteq Chain(ns, x)
  BY <1>3, <1>5, ChainTransitive DEF Path
<1>7. \A a \in Path(ns, top, t) \ {t} : ~UnseenNode(e, ns[a])
  BY <1>4, <1>6 DEF S, Path
<1>8. t \in Kept(ns, e, top)
  BY <1>5, <1>7 DEF Kept, Reached, Path
<1> QED  BY <1>8

\* What a purge leaves of the subtree is in the trash since the entry.
LEMMA KeptStarts ==
  ASSUME NEW ns, NEW e, e.seq # 0, TreeOK(ns, e.seq), NEW new, TreeOK(new, e.seq),
         NEW top, Purges(e, top, ns, new), NEW x \in Subtree(ns, top) \cap DOMAIN new
  PROVE  /\ InTrash(new, x)
         /\ \A t \in TopTrashed(new, x) : new[t].trashed = e.seq
<1>1. /\ Closed(ns) /\ Closed(new) /\ x \in DOMAIN ns /\ top \in DOMAIN ns
      /\ DOMAIN new = DOMAIN ns \ Doomed(ns, e, top)
      /\ InTrash(ns, top) /\ top \in Chain(ns, x)
  BY TreeFacts DEF Purges, Subtree
<1>2. Kept(ns, e, top) # {}
  BY <1>1, SomethingIsKept
<1>3. \A n \in DOMAIN new : new[n].parent = ns[n].parent
      /\ new[n].trashed = IF n \in TopTrashed(ns, top) THEN e.seq ELSE ns[n].trashed
  BY <1>2 DEF Purges
<1>4. ASSUME NEW n \in DOMAIN new  PROVE Chain(ns, n) = Chain(new, n)
  <2>1. \A a \in Chain(new, n) : a \in DOMAIN ns /\ ns[a].parent = new[a].parent
    BY <1>1, <1>3, ChainClosed
  <2> QED  BY <1>1, <2>1, ChainStays
<1> DEFINE S == {a \in Chain(ns, top) : ns[a].trashed # 0}
<1>5. S \in SUBSET Chain(ns, top) /\ S # {}
  BY <1>1 DEF InTrash
<1> HIDE DEF S
<1>6. PICK first \in S : \A a \in Chain(ns, first) \ {first} : a \notin S
  BY <1>1, <1>5, TopmostOnChain
<1>7. first \in Chain(ns, top) /\ ns[first].trashed # 0
  BY <1>6 DEF S
<1>8. Chain(ns, first) \subseteq Chain(ns, top) /\ Chain(ns, top) \subseteq Chain(ns, x)
  BY <1>1, <1>7, ChainTransitive
<1>9. \A a \in Chain(ns, first) \ {first} : ns[a].trashed = 0
  BY <1>6, <1>8 DEF S
<1>10. first \in TopTrashed(ns, top)
  BY <1>7, <1>9 DEF TopTrashed
<1>11. first \in Chain(new, x) /\ Chain(new, x) \subseteq DOMAIN new
  BY <1>1, <1>4, <1>7, <1>8, ChainClosed
<1>12. new[first].trashed = e.seq
  BY <1>3, <1>10, <1>11
<1>13. InTrash(new, x)
  BY <1>11, <1>12 DEF InTrash
<1>14. ASSUME NEW t \in TopTrashed(new, x)  PROVE new[t].trashed = e.seq
  <2>1. t \in Chain(new, x) /\ new[t].trashed # 0 /\ \A a \in Chain(new, t) \ {t} : new[a].trashed = 0
    BY DEF TopTrashed
  <2>2. first \in Chain(new, t) \/ t \in Chain(new, first)
    BY <1>1, <1>11, <2>1, ChainIsLinear
  <2>3. CASE first = t
    BY <1>12, <2>3
  <2>4. CASE first # t /\ first \in Chain(new, t)
    BY <1>12, <2>1, <2>4
  <2>5. CASE first # t /\ t \in Chain(new, first)
    <3>1. ns[t].trashed = 0
      BY <1>4, <1>9, <1>11, <2>5
    <3>2. new[t].trashed = 0
      BY <1>3, <1>11, <2>1, <3>1 DEF TopTrashed
    <3> QED  BY <2>1, <3>2
  <2> QED  BY <2>2, <2>3, <2>4, <2>5
<1> QED  BY <1>13, <1>14

\* A purge of one node.
LEMMA PurgeRestarts ==
  ASSUME Inv, NEW e, NEW op, TidyStep(e, op), op.type = "purge"
  PROVE  \A x \in Subtree(nodes, op.node) \cap DOMAIN nodes' :
           /\ InTrash(nodes', x)
           /\ \A t \in TopTrashed(nodes', x) : nodes'[t].trashed = head'
<1> DEFINE ix == WithGallery(index, e)
           ns == Start(e)
<1>1. /\ EntryOK(e) /\ IndexOK(ix, e.seq) /\ Takes(e, <<op>>)
      /\ e.seq = head' /\ e.seq # 0
      /\ ApplyOp(ix, e, op).out = "applied" /\ ApplyOp(ix, e, op).ix = index'
  BY DEF TidyStep, Takes
<1>2. TreeOK(ns, e.seq) /\ ix.nodes = ns
  BY <1>1 DEF IndexOK, Start
<1>3. \A n \in DOMAIN nodes : n \in DOMAIN ns /\ Chain(ns, n) = Chain(nodes, n)
  BY <1>1, StartPlaces
<1> HIDE DEF ix, ns
<1>4. ApplyOp(ix, e, op) = OpPurge(ix, e, op)
  BY DEF ApplyOp
<1>5. Purges(e, op.node, ix.nodes, OpPurge(ix, e, op).ix.nodes)
  BY <1>1, <1>4, PurgeDoes
<1>6. Purges(e, op.node, ns, nodes')
  BY <1>1, <1>2, <1>4, <1>5 DEF nodes
<1>7. TreeOK(ix.nodes, e.seq) /\ TreeOK(OpPurge(ix, e, op).ix.nodes, e.seq)
  BY <1>1, PurgeKeeps DEF IndexOK
<1>8. TreeOK(nodes', e.seq)
  BY <1>1, <1>4, <1>7 DEF nodes
<1>9. \A x \in Subtree(nodes, op.node) : x \in Subtree(ns, op.node)
  BY <1>3 DEF Subtree
<1> QED  BY <1>1, <1>2, <1>6, <1>8, <1>9, KeptStarts

\* Whatever a purge leaves below the node it was for stays in the trash, and
\* its clock starts again.
THEOREM KeptRestarts == Spec => KeptStartsAgain
<1>1. Inv /\ [Next]_vars => [RestartsKept]_vars
  <2> SUFFICES ASSUME Inv, Next, Len(last'.ops) = 1, last'.ops[1].type = "purge",
                      last'.out = "applied"
               PROVE  \A x \in Subtree(nodes, last'.ops[1].node) \cap DOMAIN nodes' :
                        /\ InTrash(nodes', x)
                        /\ \A t \in TopTrashed(nodes', x) : nodes'[t].trashed = head'
    BY DEF RestartsKept
  <2>1. Kinds /\ ~IdleStep
    BY StepKinds DEF IdleStep
  <2>2. ASSUME NEW e, NEW op1, NEW op2, NEW mid
        PROVE  ~FileStep(e, op1, op2) /\ ~ContentStep(e, op1, op2) /\ ~SelectStep(e, op1, op2, mid)
    BY DEF FileStep, ContentStep, SelectStep, Takes
  <2>3. ASSUME NEW e, NEW op
        PROVE  ~FolderStep(e, op) /\ ~UploadStep(e, op) /\ ~RelocateStep(e, op)
    BY DEF FolderStep, UploadStep, RelocateStep, Takes
  <2>4. ASSUME NEW e, NEW op, TidyStep(e, op)
        PROVE  last'.ops[1] = op
    BY <2>4 DEF TidyStep, Takes
  <2>5. PICK e, op : TidyStep(e, op)
    BY <2>1, <2>2, <2>3 DEF Kinds
  <2> QED  BY <2>4, <2>5, PurgeRestarts
<1> QED  BY <1>1, Invariance, PTL DEF Spec, KeptStartsAgain
=============================================================================
