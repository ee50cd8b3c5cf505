----------------------------- MODULE IndexProofs -----------------------------
(***************************************************************************)
(* Every operation of IndexRules keeps a well-formed index well formed.    *)
(* First what the tree operators do: the chain of a node, the free name,   *)
(* placing one node in a folder. Then one lemma per kind of operation, and *)
(* the members of an entry's group.                                        *)
(***************************************************************************)
EXTENDS IndexRules, FiniteSetTheorems, TLAPS

\* Every parent exists, or there is none: what the walks upward rely on.
Closed(ns) ==
  /\ None \notin DOMAIN ns
  /\ \A n \in DOMAIN ns : ns[n].parent \in DOMAIN ns \cup {None}

-----------------------------------------------------------------------------
(* The chain of a node                                                     *)

\* A node is on its own chain, which never leaves the tree and is closed
\* upwards.
LEMMA ChainClosed ==
  ASSUME NEW ns, Closed(ns), NEW id \in DOMAIN ns
  PROVE  /\ id \in Chain(ns, id)
         /\ Chain(ns, id) \subseteq DOMAIN ns
         /\ UpClosed(ns, Chain(ns, id))
<1>1. id \in Chain(ns, id) /\ Chain(ns, id) \subseteq DOMAIN ns
  BY DEF Chain
<1>2. ASSUME NEW x \in Chain(ns, id), ns[x].parent # None
      PROVE  ns[x].parent \in Chain(ns, id)
  BY <1>1, <1>2 DEF Chain, UpClosed, Closed
<1> QED  BY <1>1, <1>2 DEF UpClosed

\* The chain is the least such set.
LEMMA ChainLeast ==
  ASSUME NEW ns, NEW id, NEW S \in SUBSET DOMAIN ns, id \in S, UpClosed(ns, S)
  PROVE  Chain(ns, id) \subseteq S
BY DEF Chain

\* An ancestor's ancestors are ancestors.
LEMMA ChainTransitive ==
  ASSUME NEW ns, Closed(ns), NEW id \in DOMAIN ns, NEW a \in Chain(ns, id)
  PROVE  Chain(ns, a) \subseteq Chain(ns, id)
BY ChainClosed, ChainLeast

\* The chain of a root is the root; any other chain is the node and the chain
\* of its parent.
LEMMA ChainStep ==
  ASSUME NEW ns, Closed(ns), NEW id \in DOMAIN ns
  PROVE  /\ ns[id].parent = None => Chain(ns, id) = {id}
         /\ ns[id].parent # None => Chain(ns, id) = {id} \cup Chain(ns, ns[id].parent)
<1>1. ASSUME ns[id].parent = None  PROVE Chain(ns, id) = {id}
  <2>1. UpClosed(ns, {id})
    BY <1>1 DEF UpClosed
  <2> QED  BY <2>1, ChainClosed, ChainLeast
<1>2. ASSUME ns[id].parent # None
      PROVE  Chain(ns, id) = {id} \cup Chain(ns, ns[id].parent)
  <2> DEFINE p == ns[id].parent
  <2>1. p \in DOMAIN ns
    BY <1>2 DEF Closed
  <2>2. /\ p \in Chain(ns, p)
        /\ Chain(ns, p) \subseteq DOMAIN ns
        /\ UpClosed(ns, Chain(ns, p))
    BY <2>1, ChainClosed
  <2>3. UpClosed(ns, {id} \cup Chain(ns, p))
    BY <2>2 DEF UpClosed
  <2>4. Chain(ns, id) \subseteq {id} \cup Chain(ns, p)
    BY <2>2, <2>3, ChainLeast
  <2>5. /\ id \in Chain(ns, id)
        /\ UpClosed(ns, Chain(ns, id))
    BY ChainClosed
  <2>6. p \in Chain(ns, id)
    BY <1>2, <2>5 DEF UpClosed
  <2>7. Chain(ns, p) \subseteq Chain(ns, id)
    BY <2>6, ChainTransitive
  <2> QED  BY <2>4, <2>5, <2>7
<1> QED  BY <1>1, <1>2

\* In a tree without cycles no node is above itself.
LEMMA NotAboveItself ==
  ASSUME NEW ns, Closed(ns), Acyclic(ns),
         \A r \in DOMAIN ns \cap Roots : ns[r].parent = None,
         NEW id \in DOMAIN ns \ Roots, ns[id].parent # None
  PROVE  id \notin Chain(ns, ns[id].parent)
<1> SUFFICES ASSUME id \in Chain(ns, ns[id].parent)  PROVE FALSE
  OBVIOUS
<1> DEFINE S == {x \in Chain(ns, id) : id \in Chain(ns, x)}
<1>1. id \in Chain(ns, id) /\ Chain(ns, id) \subseteq DOMAIN ns
      /\ UpClosed(ns, Chain(ns, id))
  BY ChainClosed
<1>2. id \in S
  BY <1>1
<1>3. ASSUME NEW x \in S  PROVE x \notin Roots /\ ns[x].parent \in S
  <2>1. x \in DOMAIN ns /\ id \in Chain(ns, x)
    BY <1>1
  <2>2. ns[x].parent # None
    BY <2>1, ChainStep
  <2>3. Chain(ns, x) = {x} \cup Chain(ns, ns[x].parent)
    BY <2>1, <2>2, ChainStep
  <2>4. id \in Chain(ns, ns[x].parent)
    BY <2>1, <2>3
  <2>5. ns[x].parent \in Chain(ns, id)
    BY <1>1, <2>2 DEF UpClosed
  <2> QED  BY <2>1, <2>2, <2>4, <2>5
<1>4. S \in SUBSET (DOMAIN ns \ Roots) /\ S # {}
  BY <1>1, <1>2, <1>3
<1> QED  BY <1>3, <1>4 DEF Acyclic

-----------------------------------------------------------------------------
(* Free names                                                              *)

\* A non-empty set of numbers has a least one.
LEMMA LeastNumber ==
  ASSUME NEW T \in SUBSET Nat, IsFiniteSet(T), T # {}
  PROVE  \E i \in T : \A j \in T : i <= j
<1> DEFINE Seg(i) == {j \in T : j <= i}
           Segs == {Seg(i) : i \in T}
<1>1. IsWellFoundedOn(StrictSubsetOrdering(T), FiniteSubsetsOf(T))
  BY FS_StrictSubsetOrderingWellFounded
<1>2. FiniteSubsetsOf(T) = SUBSET T
  BY FS_FiniteSubsetsOfFinite
<1>3. Segs \subseteq FiniteSubsetsOf(T) /\ Segs # {}
  <2>1. \A i \in T : Seg(i) \in SUBSET T
    OBVIOUS
  <2>2. Segs \subseteq SUBSET T
    <3> HIDE DEF Seg
    <3> QED  BY <2>1
  <2>3. PICK i : i \in T
    OBVIOUS
  <2>4. Seg(i) \in Segs
    BY <2>3
  <2> QED  BY <1>2, <2>2, <2>4
<1>4. PICK x \in Segs : \A y \in Segs : <<y, x>> \notin StrictSubsetOrdering(T)
  <2> HIDE DEF Segs
  <2> QED  BY <1>1, <1>3, WFMin
<1>5. PICK i \in T : x = Seg(i)
  OBVIOUS
<1>6. ASSUME NEW j \in T, j < i  PROVE FALSE
  <2>1. Seg(j) \subseteq Seg(i) /\ Seg(j) # Seg(i)
    <3>1. i \in Seg(i) /\ i \notin Seg(j)
      BY <1>6
    <3>2. ASSUME NEW k \in Seg(j)  PROVE k \in Seg(i)
      <4>1. k \in T /\ k <= j
        OBVIOUS
      <4>2. i \in Nat /\ j \in Nat /\ k \in Nat
        BY <4>1
      <4> QED  BY <1>6, <4>1, <4>2
    <3> QED  BY <3>1, <3>2
  <2>2. <<Seg(j), Seg(i)>> \in StrictSubsetOrdering(T)
    BY <2>1 DEF StrictSubsetOrdering
  <2> QED  BY <1>4, <1>5, <2>2
<1> QED  BY <1>6

\* A suffixed name is a name.
LEMMA SuffixedIsName ==
  ASSUME NEW name \in NameSet, NEW i \in Nat
  PROVE  Suffixed(name, i) \in NameSet
<1>1. name[1] \in DOMAIN Fold \cup {None} /\ name[2] \in Seq(Nat)
  BY DEF NameSet
<1>2. Append(name[2], i) \in Seq(Nat)
  BY <1>1
<1> QED  BY <1>1, <1>2 DEF NameSet, Suffixed

\* Fewer nodes than numbers: one of the suffixed names is free.
LEMMA SomeSuffixIsFree ==
  ASSUME NEW ns, IsFiniteSet(DOMAIN ns), NEW parent, NEW self,
         NEW name \in NameSet
  PROVE  FreeSuffixes(ns, parent, name, self) # {}
<1> DEFINE N == Cardinality(DOMAIN ns)
           I == 2 .. (N + 2)
<1>1. N \in Nat
  BY FS_CardinalityType
<1>2. IsFiniteSet(I) /\ Cardinality(I) = N + 1
  BY <1>1, FS_Interval
<1> SUFFICES ASSUME \A i \in I : Taken(ns, parent, Suffixed(name, i), self)
             PROVE  FALSE
  BY DEF FreeSuffixes
<1> DEFINE holder(i) == CHOOSE x \in DOMAIN ns : Key(ns[x].name) = Key(Suffixed(name, i))
           f == [i \in I |-> holder(i)]
<1>3. ASSUME NEW i \in I
      PROVE  f[i] \in DOMAIN ns /\ Key(ns[f[i]].name) = Key(Suffixed(name, i))
  <2>1. \E x \in DOMAIN ns : Key(ns[x].name) = Key(Suffixed(name, i))
    BY DEF Taken
  <2> QED  BY <2>1
<1>4. f \in [I -> DOMAIN ns]
  BY <1>3
<1>5. PICK i, j \in I : i # j /\ f[i] = f[j]
  <2> HIDE DEF f
  <2>1. N < Cardinality(I)
    BY <1>1, <1>2
  <2> HIDE DEF I
  <2> QED  BY <1>2, <1>4, <2>1, FS_PigeonHole
<1>6. Key(Suffixed(name, i)) = Key(Suffixed(name, j))
  BY <1>3, <1>5
<1>7. Append(name[2], i) = Append(name[2], j)
  BY <1>6 DEF Key, Suffixed
<1>8. name[2] \in Seq(Nat) /\ i \in Nat /\ j \in Nat
  BY <1>1 DEF NameSet
<1>9. Append(name[2], i)[Len(name[2]) + 1] = i /\ Append(name[2], j)[Len(name[2]) + 1] = j
  BY <1>8
<1> QED  BY <1>5, <1>7, <1>9

\* Rule 2: the name given to a node is a name, and no live sibling has it.
LEMMA FreeNameIsFree ==
  ASSUME NEW ns, IsFiniteSet(DOMAIN ns), NEW parent, NEW self,
         NEW name \in NameSet
  PROVE  /\ FreeName(ns, parent, name, self) \in NameSet
         /\ ~Taken(ns, parent, FreeName(ns, parent, name, self), self)
<1> DEFINE free == FreeSuffixes(ns, parent, name, self)
<1>1. Cardinality(DOMAIN ns) \in Nat
  BY FS_CardinalityType
<1>2. free \in SUBSET Nat /\ IsFiniteSet(free)
  <2>1. IsFiniteSet(2 .. (Cardinality(DOMAIN ns) + 2))
    BY <1>1, FS_Interval
  <2>2. free \subseteq 2 .. (Cardinality(DOMAIN ns) + 2)
    BY DEF FreeSuffixes
  <2> QED  BY <1>1, <2>1, <2>2, FS_Subset
<1>3. free # {}
  BY SomeSuffixIsFree
<1>4. \E i \in free : \A j \in free : i <= j
  <2> HIDE DEF free
  <2> QED  BY <1>2, <1>3, LeastNumber
<1> DEFINE least == CHOOSE i \in free : \A j \in free : i <= j
<1>5. least \in free
  <2> HIDE DEF free
  <2> QED  BY <1>4
<1>6. least \in Nat /\ ~Taken(ns, parent, Suffixed(name, least), self)
  BY <1>2, <1>5 DEF FreeSuffixes
<1>7. Suffixed(name, least) \in NameSet
  <2> HIDE DEF least
  <2> QED  BY <1>6, SuffixedIsName
<1>8. FreeName(ns, parent, name, self) \in {name, Suffixed(name, least)}
  BY DEF FreeName
<1>9. CASE ~Taken(ns, parent, name, self)
  BY <1>9 DEF FreeName
<1>10. CASE Taken(ns, parent, name, self)
  <2>1. FreeName(ns, parent, name, self) = Suffixed(name, least)
    BY <1>10 DEF FreeName
  <2> HIDE DEF least
  <2> QED  BY <1>6, <1>7, <2>1
<1> QED  BY <1>9, <1>10

-----------------------------------------------------------------------------
(* Placing one node                                                        *)

\* A well-formed tree of an index that has taken the log up to h.
TreeOK(ns, h) ==
  /\ IsFiniteSet(DOMAIN ns)
  /\ DOMAIN ns \subseteq NodeId
  /\ \A n \in DOMAIN ns : ns[n] \in NodeSet(h)
  /\ Rooted(ns)
  /\ Acyclic(ns)
  /\ Unambiguous(ns)

\* None is the parent of the roots only: it is never the ID of a node.
LEMMA NoneIsNoNode == None \notin NodeId
BY IdsAreDistinct DEF NodeId

\* What TreeOK gives about one node: its fields' types and, unless it is a
\* root, a parent that is a folder of the tree.
LEMMA TreeFacts ==
  ASSUME NEW ns, NEW h, TreeOK(ns, h)
  PROVE  /\ Closed(ns)
         /\ \A r \in DOMAIN ns \cap Roots : ns[r].parent = None
         /\ \A n \in DOMAIN ns : ns[n].parent = None <=> n \in Roots
<1>1. None \notin DOMAIN ns
  BY NoneIsNoNode DEF TreeOK
<1> QED  BY <1>1 DEF TreeOK, Rooted, Closed

\* Chains end at a root, and a root is its own chain.
LEMMA RootChain ==
  ASSUME NEW ns, NEW h, TreeOK(ns, h), NEW r \in DOMAIN ns \cap Roots
  PROVE  Chain(ns, r) = {r}
BY TreeFacts, ChainStep

\* No cycle arises when a node is put below one that is not below it.
LEMMA PutAcyclic ==
  ASSUME NEW ns, Closed(ns), Acyclic(ns), NEW id, id \notin Roots \cup {None},
         NEW rec, rec.parent \in DOMAIN ns, id \notin Chain(ns, rec.parent)
  PROVE  Acyclic(Put(ns, id, rec))
<1> DEFINE new == Put(ns, id, rec)
           p == rec.parent
<1> SUFFICES ASSUME NEW S \in SUBSET (DOMAIN new \ Roots), S # {},
                    \A n \in S : new[n].parent \in S
             PROVE  FALSE
  BY DEF Acyclic
<1>1. /\ DOMAIN new = DOMAIN ns \cup {id}
      /\ new[id].parent = p
      /\ \A n \in DOMAIN ns \ {id} : new[n].parent = ns[n].parent
  BY DEF Put
<1> HIDE DEF new
<1>2. CASE id \notin S
  <2>1. S \in SUBSET (DOMAIN ns \ Roots) /\ \A n \in S : ns[n].parent \in S
    BY <1>1, <1>2
  <2> QED  BY <2>1 DEF Acyclic
<1>3. CASE id \in S
  <2> DEFINE T == S \cap Chain(ns, p)
  <2>1. /\ p \in Chain(ns, p)
        /\ Chain(ns, p) \subseteq DOMAIN ns
        /\ UpClosed(ns, Chain(ns, p))
    BY ChainClosed
  <2>2. p \in T
    BY <1>1, <1>3, <2>1
  <2>3. ASSUME NEW n \in T  PROVE ns[n].parent \in T
    <3>1. n # id /\ n \in DOMAIN ns /\ ns[n].parent = new[n].parent
      BY <1>1, <2>1
    <3>2. ns[n].parent \in S
      BY <3>1
    <3>3. ns[n].parent # None
      BY <1>1, <3>2, <1>3, <3>1 DEF Closed
    <3>4. ns[n].parent \in Chain(ns, p)
      BY <2>1, <3>3 DEF UpClosed
    <3> QED  BY <3>2, <3>4
  <2>4. T \in SUBSET (DOMAIN ns \ Roots) /\ T # {}
    BY <2>1, <2>2
  <2> QED  BY <2>3, <2>4 DEF Acyclic
<1> QED  BY <1>2, <1>3

\* A node put into an existing folder that is not below it, in the trash or
\* under a name no live sibling has, leaves the tree well formed.
LEMMA PutKeepsTree ==
  ASSUME NEW ns, NEW h \in Nat, TreeOK(ns, h), NEW id \in NodeId \ Roots,
         NEW rec \in NodeSet(h),
         rec.parent \in DOMAIN ns, ns[rec.parent].kind = "folder",
         id \notin Chain(ns, rec.parent),
         id \in DOMAIN ns => ns[id].kind = rec.kind,
         rec.trashed # 0 \/ ~Taken(ns, rec.parent, rec.name, id)
  PROVE  TreeOK(Put(ns, id, rec), h)
<1> DEFINE new == Put(ns, id, rec)
<1>1. /\ DOMAIN new = DOMAIN ns \cup {id}
      /\ new[id] = rec
      /\ \A n \in DOMAIN ns \ {id} : new[n] = ns[n]
  BY DEF Put
<1>2. IsFiniteSet(DOMAIN new)
  BY <1>1, FS_AddElement DEF TreeOK
<1>3. DOMAIN new \subseteq NodeId
  BY <1>1 DEF TreeOK
<1>4. \A n \in DOMAIN new : new[n] \in NodeSet(h)
  BY <1>1 DEF TreeOK
<1>5. Closed(ns)
  BY TreeFacts
<1>6. rec.parent # id
  BY <1>5, ChainClosed
<1>7. Rooted(new)
  <2> HIDE DEF new
  <2>1. \A n \in DOMAIN ns : new[n].kind = ns[n].kind
    BY <1>1
  <2>2. \A n \in DOMAIN new \cap Roots : n \in DOMAIN ns /\ new[n] = ns[n]
    BY <1>1
  <2>3. ASSUME NEW n \in DOMAIN new \ Roots
        PROVE  new[n].parent \in DOMAIN new /\ new[new[n].parent].kind = "folder"
    BY <1>1, <2>1 DEF TreeOK, Rooted
  <2> QED  BY <1>1, <2>2, <2>3 DEF TreeOK, Rooted
<1>8. Acyclic(new)
  BY <1>5, NoneIsNoNode, PutAcyclic DEF TreeOK
<1>9. Unambiguous(new)
  <2> HIDE DEF new
  <2> SUFFICES ASSUME NEW m \in DOMAIN new \ Roots, NEW n \in DOMAIN new \ Roots,
                      m # n, new[m].parent = new[n].parent,
                      new[m].trashed = 0, new[n].trashed = 0
               PROVE  Key(new[m].name) # Key(new[n].name)
    BY DEF Unambiguous
  <2>1. CASE m # id /\ n # id
    BY <1>1, <2>1 DEF TreeOK, Unambiguous
  <2>2. CASE m = id
    BY <1>1, <2>2 DEF Taken
  <2>3. CASE n = id
    BY <1>1, <2>3 DEF Taken
  <2> QED  BY <2>1, <2>2, <2>3
<1> QED  BY <1>2, <1>3, <1>4, <1>7, <1>8, <1>9 DEF TreeOK

\* Only the node id was put in place, with the kind and content of rec.
PlacedAt(ns, new, id, rec) ==
  /\ DOMAIN new = DOMAIN ns \cup {id}
  /\ \A n \in DOMAIN ns \ {id} : new[n] = ns[n]
  /\ new[id].kind = rec.kind /\ new[id].content = rec.content

\* The same for a node placed live under its free name (placeLive).
LEMMA PlaceLiveKeepsTree ==
  ASSUME NEW ns, NEW h \in Nat, TreeOK(ns, h), NEW id \in NodeId \ Roots,
         NEW rec \in NodeSet(h),
         NEW parent \in DOMAIN ns, ns[parent].kind = "folder",
         id \notin Chain(ns, parent),
         id \in DOMAIN ns => ns[id].kind = rec.kind
  PROVE  /\ TreeOK(PlaceLive(ns, id, rec, parent), h)
         /\ PlacedAt(ns, PlaceLive(ns, id, rec, parent), id, rec)
<1> DEFINE name == FreeName(ns, parent, rec.name, id)
           put  == [rec EXCEPT !.parent = parent, !.trashed = 0, !.name = name]
<1>1. rec.name \in NameSet
  BY DEF NodeSet
<1>2. IsFiniteSet(DOMAIN ns) /\ parent \in NodeId
  BY DEF TreeOK
<1>3. name \in NameSet /\ ~Taken(ns, parent, name, id)
  BY <1>1, <1>2, FreeNameIsFree
<1> HIDE DEF name
<1>4. put \in NodeSet(h) /\ put.parent = parent /\ put.kind = rec.kind
      /\ put.name = name /\ put.content = rec.content
  <2>1. 0 \in 0 .. h
    OBVIOUS
  <2>2. ~Taken(ns, parent, name, id) /\ name \in NameSet
    BY <1>3
  <2>3. rec = [kind |-> rec.kind, name |-> rec.name, parent |-> rec.parent,
               trashed |-> rec.trashed, placed |-> rec.placed, content |-> rec.content]
    BY DEF NodeSet
  <2> QED  BY <1>2, <2>1, <2>2, <2>3 DEF NodeSet
<1>5. PlaceLive(ns, id, rec, parent) = Put(ns, id, put)
  BY DEF PlaceLive, name
<1> HIDE DEF put
<1>6. TreeOK(Put(ns, id, put), h)
  BY <1>3, <1>4, PutKeepsTree
<1> QED  BY <1>4, <1>5, <1>6 DEF Put, PlacedAt

\* And for one placed in the Recovered folder or in the Gallery
\* (placeRecovered).
LEMMA PlaceRecoveredKeepsTree ==
  ASSUME NEW ns, NEW e, e.seq \in Nat, e.dev \in Device, TreeOK(ns, e.seq),
         NEW id \in NodeId \ Roots, NEW rec \in NodeSet(e.seq),
         id \in DOMAIN ns => ns[id].kind = rec.kind, NEW intended, NEW hint
  PROVE  LET new == PlaceRecovered(ns, e, id, rec, intended, hint)
         IN  TreeOK(new, e.seq) /\ PlacedAt(ns, new, id, rec)
<1> DEFINE put == [rec EXCEPT !.placed = Mark(e)]
<1>1. Mark(e) \in MarkSet(e.seq)
  BY DEF Mark, MarkSet
<1>2. put \in NodeSet(e.seq) /\ put.kind = rec.kind /\ put.content = rec.content
  BY <1>1 DEF NodeSet
<1> HIDE DEF put
<1>3. PICK place \in {RECOVERED, GALLERY} :
        /\ place \in DOMAIN ns
        /\ PlaceRecovered(ns, e, id, rec, intended, hint) = PlaceLive(ns, id, put, place)
  BY DEF PlaceRecovered, put, TreeOK, Rooted
<1>4. place \in DOMAIN ns \cap Roots /\ ns[place].kind = "folder"
  BY <1>3 DEF Roots, TreeOK, Rooted
<1>5. id \notin Chain(ns, place)
  BY <1>4, RootChain
<1> QED  BY <1>2, <1>3, <1>4, <1>5, PlaceLiveKeepsTree DEF PlacedAt

\* A node keeps its place when only its content, its mark or its clock in the
\* trash changes.
LEMMA TouchKeepsTree ==
  ASSUME NEW ns, NEW h \in Nat, TreeOK(ns, h), NEW new, DOMAIN new = DOMAIN ns,
         \A n \in DOMAIN ns :
           /\ new[n] \in NodeSet(h)
           /\ new[n].kind = ns[n].kind
           /\ new[n].name = ns[n].name
           /\ new[n].parent = ns[n].parent
           /\ new[n].trashed = 0 => ns[n].trashed = 0
           /\ n \in Roots => new[n].trashed = 0
  PROVE  TreeOK(new, h)
<1>1. Rooted(new)
  BY DEF TreeOK, Rooted
<1>2. Acyclic(new)
  BY DEF TreeOK, Acyclic
<1>3. Unambiguous(new)
  BY DEF TreeOK, Unambiguous
<1> QED  BY <1>1, <1>2, <1>3 DEF TreeOK

\* What is left of a tree is well formed when no folder goes before its
\* children.
LEMMA DropKeepsTree ==
  ASSUME NEW ns, NEW h, TreeOK(ns, h), NEW gone, gone \cap Roots = {},
         \A n \in DOMAIN ns \ gone : ns[n].parent \notin gone
  PROVE  TreeOK(Drop(ns, gone), h)
<1> DEFINE new == Drop(ns, gone)
<1>1. DOMAIN new = DOMAIN ns \ gone /\ \A n \in DOMAIN new : new[n] = ns[n]
  BY DEF Drop
<1> HIDE DEF new
<1>2. IsFiniteSet(DOMAIN new)
  BY <1>1, FS_Difference DEF TreeOK
<1>3. Rooted(new)
  <2>1. {ROOT, RECOVERED} \subseteq DOMAIN new
    BY <1>1 DEF TreeOK, Rooted, Roots
  <2>2. \A n \in DOMAIN new \cap Roots :
          new[n].kind = "folder" /\ new[n].parent = None /\ new[n].trashed = 0
    BY <1>1 DEF TreeOK, Rooted
  <2>3. \A n \in DOMAIN new \ Roots :
          new[n].parent \in DOMAIN new /\ new[new[n].parent].kind = "folder"
    BY <1>1 DEF TreeOK, Rooted
  <2> QED  BY <2>1, <2>2, <2>3 DEF Rooted
<1>4. Acyclic(new)
  BY <1>1 DEF TreeOK, Acyclic
<1>5. Unambiguous(new)
  BY <1>1 DEF TreeOK, Unambiguous
<1> QED  BY <1>1, <1>2, <1>3, <1>4, <1>5 DEF TreeOK, new

\* The Gallery's root joins the tree.
LEMMA GalleryKeepsTree ==
  ASSUME NEW ns, NEW h \in Nat, TreeOK(ns, h), GALLERY \notin DOMAIN ns,
         SystemFolder \in NodeSet(h)
  PROVE  TreeOK(Put(ns, GALLERY, SystemFolder), h)
<1> DEFINE new == Put(ns, GALLERY, SystemFolder)
<1>1. /\ DOMAIN new = DOMAIN ns \cup {GALLERY}
      /\ new[GALLERY] = SystemFolder
      /\ \A n \in DOMAIN ns : new[n] = ns[n]
  BY DEF Put
<1> HIDE DEF new
<1>2. IsFiniteSet(DOMAIN new) /\ DOMAIN new \subseteq NodeId
  BY <1>1, FS_AddElement DEF TreeOK, NodeId, Roots
<1>3. \A n \in DOMAIN new : new[n] \in NodeSet(h)
  BY <1>1 DEF TreeOK
<1>4. GALLERY \in Roots
  BY DEF Roots
<1>5. Rooted(new)
  <2>1. \A n \in DOMAIN new \cap Roots :
          new[n].kind = "folder" /\ new[n].parent = None /\ new[n].trashed = 0
    BY <1>1 DEF TreeOK, Rooted, SystemFolder
  <2>2. \A n \in DOMAIN new \ Roots :
          new[n].parent \in DOMAIN new /\ new[new[n].parent].kind = "folder"
    BY <1>1, <1>4 DEF TreeOK, Rooted
  <2> QED  BY <1>1, <2>1, <2>2 DEF TreeOK, Rooted
<1>6. Acyclic(new)
  <2>1. DOMAIN new \ Roots = DOMAIN ns \ Roots
    BY <1>1, <1>4
  <2>2. \A n \in DOMAIN ns \ Roots : new[n].parent = ns[n].parent
    BY <1>1
  <2> QED  BY <2>1, <2>2 DEF TreeOK, Acyclic
<1>7. Unambiguous(new)
  BY <1>1, <1>4 DEF TreeOK, Unambiguous
<1> QED  BY <1>2, <1>3, <1>5, <1>6, <1>7 DEF TreeOK, new

\* What a purge deletes holds no root, and no folder without its children.
LEMMA DoomedIsBelow ==
  ASSUME NEW ns, NEW h, TreeOK(ns, h), NEW e, NEW top \in DOMAIN ns \ Roots
  PROVE  /\ Doomed(ns, e, top) \subseteq DOMAIN ns \ Roots
         /\ \A n \in DOMAIN ns \ Doomed(ns, e, top) : ns[n].parent \notin Doomed(ns, e, top)
<1> DEFINE gone == Doomed(ns, e, top)
           kept == Kept(ns, e, top)
<1>1. Closed(ns)
  BY TreeFacts
<1>2. gone \subseteq Reached(ns, e, top) \ kept /\ Reached(ns, e, top) \subseteq Subtree(ns, top)
  BY DEF Doomed, Reached
<1>3. gone \subseteq DOMAIN ns \ Roots
  <2>1. \A r \in DOMAIN ns \cap Roots : r \notin Subtree(ns, top)
    BY RootChain DEF Subtree
  <2>2. Subtree(ns, top) \subseteq DOMAIN ns
    BY DEF Subtree
  <2> QED  BY <1>2, <2>1, <2>2
<1>4. ASSUME NEW n \in DOMAIN ns \ gone, ns[n].parent \in gone
      PROVE  FALSE
  <2> DEFINE p == ns[n].parent
  <2>1. p \in DOMAIN ns /\ p # None
    BY <1>1, <1>3, <1>4 DEF Closed
  <2>2. Chain(ns, n) = {n} \cup Chain(ns, p)
    BY <1>1, <2>1, ChainStep
  <2>3. p \in Reached(ns, e, top) /\ p \in Subtree(ns, top) /\ ~UnseenNode(e, ns[p])
    BY <1>2, <1>4 DEF Kept
  <2>4. p \in Chain(ns, p) /\ top \in Chain(ns, p)
    BY <1>1, <2>1, <2>3, ChainClosed DEF Subtree
  <2>5. n \in Subtree(ns, top)
    BY <2>2, <2>4 DEF Subtree
  <2>6. \A a \in Path(ns, top, n) \ {n} : ~UnseenNode(e, ns[a])
    <3> SUFFICES ASSUME NEW a \in Path(ns, top, n) \ {n}
                 PROVE  ~UnseenNode(e, ns[a])
      OBVIOUS
    <3>1. a \in Path(ns, top, p)
      BY <2>2 DEF Path
    <3> QED  BY <2>3, <3>1 DEF Reached
  <2>7. n \in Reached(ns, e, top)
    BY <2>5, <2>6 DEF Reached
  <2>8. ~\E k \in kept : p \in Path(ns, top, k)
    BY <1>4 DEF Doomed
  <2>9. CASE n \in kept
    BY <2>2, <2>3, <2>4, <2>8, <2>9 DEF Path
  <2>10. CASE n \notin kept
    <3>1. PICK k \in kept : n \in Path(ns, top, k)
      BY <1>4, <2>7, <2>10 DEF Doomed
    <3>2. k \in DOMAIN ns
      BY DEF Kept, Reached, Subtree
    <3>3. p \in Chain(ns, k)
      BY <1>1, <2>1, <3>1, <3>2, ChainClosed DEF Path, UpClosed
    <3> QED  BY <2>3, <2>8, <3>3 DEF Path
  <2> QED  BY <2>9, <2>10
<1> QED  BY <1>3, <1>4

-----------------------------------------------------------------------------
(* Well-formed indexes, entries and operations                             *)

UploadsOK(us, h) ==
  DOMAIN us \subseteq Upload /\ \A u \in DOMAIN us : us[u] \in UploadSet(h)

\* A well-formed index that has taken the log up to h.
IndexOK(ix, h) ==
  /\ TreeOK(ix.nodes, h)
  /\ UploadsOK(ix.uploads, h)
  /\ Bound(ix)

EntryOK(e) ==
  e \in [seq : Nat \ {0}, dev : Device, base : Nat, rules : Nat, sub : Nat]

\* Nodes this operation, or a later one, would make itself do not exist yet.
Unmade(ns, e) ==
  \A x \in DOMAIN ns \cap DerivedId :
    x[2] < e.seq \/ (x[2] = e.seq /\ x[3] < e.sub)

\* What may join the tree: a node the client named, or one derived from the
\* operation's own place in the log.
Joins(ns, new, e) ==
  DOMAIN new \subseteq
    DOMAIN ns \cup UserNode \cup {<<"recovered", e.seq, e.sub>>, <<"conflict", e.seq, e.sub>>}

\* The fields of an operation are what the codec admits.
OpOK(op) ==
  /\ op.type \in {"create", "rename", "move", "trash", "restore", "purge",
                  "new_content_version", "upload_begin", "upload_commit", "upload_abort",
                  "relocate"}
  /\ op.type = "create" => /\ op.node \in UserNode
                           /\ op.name \in NameSet
                           /\ op.kind \in {"folder", "file"}
                           /\ op.kind = "file" => op.up \in Upload /\ op.loc \in Loc
  /\ op.type = "rename" => op.name \in NameSet
  /\ op.type = "new_content_version" =>
       op.name \in NameSet /\ op.up \in Upload /\ op.loc \in Loc
  /\ op.type = "upload_begin" => op.up \in Upload
  /\ op.type = "relocate" => op.loc \in Loc

-----------------------------------------------------------------------------
(* Uploads                                                                 *)

\* bindUpload changes one upload's status, node and binding, nothing else.
LEMMA BindFacts ==
  ASSUME NEW us, NEW e, e.seq \in Nat, UploadsOK(us, e.seq),
         NEW up \in DOMAIN us, NEW id \in NodeId
  PROVE  LET new == Bind(us, e, up, id)
         IN  /\ UploadsOK(new, e.seq)
             /\ DOMAIN new = DOMAIN us
             /\ new[up].status = "bound" /\ new[up].node = id
             /\ \A u \in DOMAIN us \ {up} : new[u] = us[u]
<1>1. e.seq \in 0 .. e.seq
  OBVIOUS
<1>2. us[up] \in UploadSet(e.seq)
  BY DEF UploadsOK
<1>3. [us[up] EXCEPT !.status = "bound", !.node = id, !.bound = e.seq] \in UploadSet(e.seq)
  BY <1>1, <1>2 DEF UploadSet
<1>4. Bind(us, e, up, id) =
        [us EXCEPT ![up] = [us[up] EXCEPT !.status = "bound", !.node = id, !.bound = e.seq]]
  BY <1>2 DEF Bind, UploadSet
<1> QED  BY <1>3, <1>4 DEF UploadsOK, UploadSet

\* releaseUpload ends the uploads it names and leaves the others alone.
LEMMA ReleaseFacts ==
  ASSUME NEW us, NEW e, e.seq \in Nat, UploadsOK(us, e.seq), NEW ups
  PROVE  LET new == Release(us, e, ups)
         IN  /\ UploadsOK(new, e.seq)
             /\ DOMAIN new = DOMAIN us
             /\ \A u \in DOMAIN us \cap ups : new[u].status = "released"
             /\ \A u \in DOMAIN us \ ups : new[u] = us[u]
<1>1. e.seq \in 0 .. e.seq
  OBVIOUS
<1>2. ASSUME NEW u \in DOMAIN us
      PROVE  LET r == [us[u] EXCEPT !.status = "released", !.ended = e.seq]
             IN  r \in UploadSet(e.seq) /\ r.status = "released"
  <2>1. us[u] \in UploadSet(e.seq)
    BY DEF UploadsOK
  <2> QED  BY <1>1, <2>1 DEF UploadSet
<1> QED  BY <1>2 DEF Release, UploadsOK

\* An upload used once more, by a file new to the tree or by one whose version
\* was just taken from it, leaves files and uploads naming each other.
LEMMA BindKeepsBound ==
  ASSUME NEW ns, NEW us, NEW e, e.seq \in Nat,
         UploadsOK(us, e.seq), Bound([nodes |-> ns, uploads |-> us]),
         NEW id \in NodeId, id \notin DOMAIN ns,
         NEW up, Usable(us, up), NEW new, NEW rec, PlacedAt(ns, new, id, rec),
         rec.kind = "file", rec.content # None, rec.content.up = up
  PROVE  /\ UploadsOK(Bind(us, e, up, id), e.seq)
         /\ Bound([nodes |-> new, uploads |-> Bind(us, e, up, id)])
<1> DEFINE bs == Bind(us, e, up, id)
<1>1. up \in DOMAIN us /\ us[up].status = "committed"
  BY DEF Usable
<1>2. /\ UploadsOK(bs, e.seq)
      /\ DOMAIN bs = DOMAIN us
      /\ bs[up].status = "bound" /\ bs[up].node = id
      /\ \A u \in DOMAIN us \ {up} : bs[u] = us[u]
  BY <1>1, BindFacts
<1> HIDE DEF bs
<1>3. \A n \in DOMAIN ns : ns[n].content # None => ns[n].content.up # up
  BY <1>1 DEF Bound
<1>4. \A n \in DOMAIN new : (new[n].kind = "file") = (new[n].content # None)
  BY DEF PlacedAt, Bound
<1>5. ASSUME NEW n \in DOMAIN new, new[n].content # None
      PROVE  LET u == new[n].content.up
             IN  u \in DOMAIN bs /\ bs[u].status = "bound" /\ bs[u].node = n
  <2>1. CASE n = id
    BY <1>1, <1>2, <2>1 DEF PlacedAt
  <2>2. CASE n # id
    <3>1. n \in DOMAIN ns /\ new[n] = ns[n]
      BY <2>2 DEF PlacedAt
    <3> QED  BY <1>2, <1>3, <1>5, <3>1 DEF Bound
  <2> QED  BY <2>1, <2>2
<1>6. ASSUME NEW u \in DOMAIN bs, bs[u].status = "bound"
      PROVE  /\ bs[u].node \in DOMAIN new
             /\ new[bs[u].node].content # None
             /\ new[bs[u].node].content.up = u
  <2>1. CASE u = up
    BY <1>2, <2>1 DEF PlacedAt
  <2>2. CASE u # up
    <3>1. u \in DOMAIN us /\ bs[u] = us[u] /\ us[u].node \in DOMAIN ns
      BY <1>2, <1>6, <2>2 DEF Bound
    <3> QED  BY <1>6, <3>1 DEF PlacedAt, Bound
  <2> QED  BY <2>1, <2>2
<1> QED  BY <1>2, <1>4, <1>5, <1>6 DEF Bound, bs

\* Placing a node that exists already, with its kind and content, leaves files
\* and uploads as they are.
LEMMA PlacedKeepsBound ==
  ASSUME NEW ns, NEW us, Bound([nodes |-> ns, uploads |-> us]),
         NEW id \in DOMAIN ns, NEW new, PlacedAt(ns, new, id, ns[id])
  PROVE  Bound([nodes |-> new, uploads |-> us])
<1>1. DOMAIN new = DOMAIN ns
  BY DEF PlacedAt
<1>2. \A n \in DOMAIN ns : new[n].kind = ns[n].kind /\ new[n].content = ns[n].content
  BY DEF PlacedAt
<1> QED  BY <1>1, <1>2 DEF Bound

-----------------------------------------------------------------------------
(* The operations                                                          *)

\* A well-formed index is one whose tree and uploads are.
LEMMA IndexIsOK ==
  ASSUME NEW ns, NEW us, NEW h, TreeOK(ns, h), UploadsOK(us, h),
         Bound([nodes |-> ns, uploads |-> us])
  PROVE  IndexOK([nodes |-> ns, uploads |-> us], h)
BY DEF IndexOK

\* An upload is in one file.
LEMMA SameUploadSameNode ==
  ASSUME NEW ns, NEW us, Bound([nodes |-> ns, uploads |-> us]), NEW m \in DOMAIN ns, NEW n \in DOMAIN ns,
         ns[m].content # None, ns[n].content # None, ns[m].content.up = ns[n].content.up
  PROVE  m = n
<1>1. us[ns[m].content.up].node = m
  BY DEF Bound
<1>2. us[ns[n].content.up].node = n
  BY DEF Bound
<1> QED  BY <1>1, <1>2

\* A node that is no file comes: files and uploads still name each other.
LEMMA PlainNodeKeepsBound ==
  ASSUME NEW ns, NEW us, Bound([nodes |-> ns, uploads |-> us]), NEW id, id \notin DOMAIN ns,
         NEW new, DOMAIN new = DOMAIN ns \cup {id}, \A n \in DOMAIN ns : new[n] = ns[n],
         new[id].kind # "file", new[id].content = None
  PROVE  Bound([nodes |-> new, uploads |-> us])
<1>1. \A n \in DOMAIN new : (new[n].kind = "file") = (new[n].content # None)
  BY DEF Bound
<1>2. ASSUME NEW n \in DOMAIN new, new[n].content # None
      PROVE  LET u == new[n].content.up
             IN  u \in DOMAIN us /\ us[u].status = "bound" /\ us[u].node = n
  <2>1. n \in DOMAIN ns /\ new[n] = ns[n]
    BY <1>2
  <2>2. ns[n].content # None
    BY <1>2, <2>1
  <2> QED  BY <2>1, <2>2 DEF Bound
<1>3. ASSUME NEW u \in DOMAIN us, us[u].status = "bound"
      PROVE  /\ us[u].node \in DOMAIN new
             /\ new[us[u].node].content # None /\ new[us[u].node].content.up = u
  <2>1. /\ us[u].node \in DOMAIN ns
        /\ ns[us[u].node].content # None /\ ns[us[u].node].content.up = u
    BY <1>3 DEF Bound
  <2> QED  BY <2>1
<1> QED  BY <1>1, <1>2, <1>3 DEF Bound


\* A node the client names, or a derived one, is no root and was not there.
LEMMA NewIdFacts ==
  ASSUME NEW e, EntryOK(e), NEW ns, Unmade(ns, e), NEW tag \in {"recovered", "conflict"}
  PROVE  /\ <<tag, e.seq, e.sub>> \in NodeId \ Roots
         /\ <<tag, e.seq, e.sub>> \notin DOMAIN ns
         /\ \A x \in UserNode : x \in NodeId \ Roots
<1> DEFINE x == <<tag, e.seq, e.sub>>
<1>1. x \in DerivedId /\ x[2] = e.seq /\ x[3] = e.sub
  BY DEF DerivedId, EntryOK
<1>2. e.seq \in Nat /\ e.sub \in Nat
  BY DEF EntryOK
<1>3. x \notin DOMAIN ns
  <2> HIDE DEF x
  <2> QED  BY <1>1, <1>2 DEF Unmade
<1> QED  BY <1>1, <1>3, IdsAreDistinct DEF NodeId

\* The record of a new node.
LEMMA NewNodeFacts ==
  ASSUME NEW e, EntryOK(e), NEW kind \in {"folder", "file"}, NEW name \in NameSet,
         NEW content \in ContentSet(e.seq) \cup {None}
  PROVE  LET rec == NewNode(e, kind, name, content)
         IN  rec \in NodeSet(e.seq) /\ rec.kind = kind /\ rec.content = content
<1>1. Mark(e) \in MarkSet(e.seq) /\ 0 \in 0 .. e.seq
  BY DEF Mark, MarkSet, EntryOK
<1> QED  BY <1>1 DEF NewNode, NodeSet

\* toVersion builds a version of the typed set, marked with the entry.
LEMMA VersionFacts ==
  ASSUME NEW e, EntryOK(e), NEW op, op.up \in Upload, op.loc \in Loc
  PROVE  /\ Version(e, op) \in ContentSet(e.seq)
         /\ Version(e, op) # None
         /\ Version(e, op).up = op.up
<1>1. e.seq \in 0 .. e.seq /\ e.seq \in Nat
  BY DEF EntryOK
<1>2. Version(e, op) \in ContentSet(e.seq) /\ Version(e, op).up = op.up
  BY <1>1 DEF Version, ContentSet, EntryOK
<1>3. Version(e, op) \in [up : Upload, seq : Nat, dev : Device, loc : Loc]
  BY <1>1 DEF Version, EntryOK
<1> QED  BY <1>2, <1>3, IdsAreDistinct

\* opCreate keeps the index well formed.
LEMMA CreateKeeps ==
  ASSUME NEW ix, NEW e, NEW op, EntryOK(e), IndexOK(ix, e.seq), Unmade(ix.nodes, e),
         OpOK(op), op.type = "create"
  PROVE  LET r == OpCreate(ix, e, op)
         IN  IndexOK(r.ix, e.seq) /\ Joins(ix.nodes, r.ix.nodes, e)
<1> DEFINE ns  == ix.nodes
           us  == ix.uploads
           r   == OpCreate(ix, e, op)
           content == IF op.kind = "file" THEN Version(e, op) ELSE None
           rec == NewNode(e, op.kind, op.name, content)
           lost == op.parent \notin DOMAIN ns \/ InTrash(ns, op.parent)
           new == IF lost THEN PlaceRecovered(ns, e, op.node, rec, op.parent, op.space)
                          ELSE PlaceLive(ns, op.node, rec, op.parent)
<1>1. CASE r.ix = ix
  BY <1>1 DEF Joins
<1>2. CASE r.ix # ix
  <2>1. /\ op.node \notin DOMAIN ns
        /\ op.kind = "file" => Usable(us, op.up)
        /\ op.parent \in DOMAIN ns => ns[op.parent].kind = "folder"
    BY <1>2 DEF OpCreate, Unchanged
  <2>2. r.ix = [nodes |-> new,
                uploads |-> IF op.kind = "file" THEN Bind(us, e, op.up, op.node) ELSE us]
    BY <2>1 DEF OpCreate, Applied
  <2>3. /\ op.node \in UserNode /\ op.name \in NameSet /\ op.kind \in {"folder", "file"}
        /\ op.kind = "file" => op.up \in Upload /\ op.loc \in Loc
    BY DEF OpOK
  <2>4. content \in ContentSet(e.seq) \cup {None}
    BY <2>3, VersionFacts
  <2>5. rec \in NodeSet(e.seq) /\ rec.kind = op.kind /\ rec.content = content
    BY <2>3, <2>4, NewNodeFacts
  <2>6. op.node \in NodeId \ Roots
    BY <2>3, NewIdFacts
  <2>7. e.seq \in Nat /\ e.dev \in Device /\ TreeOK(ns, e.seq)
        /\ UploadsOK(us, e.seq) /\ Bound([nodes |-> ns, uploads |-> us])
    BY DEF EntryOK, IndexOK, Bound
  <2> HIDE DEF rec
  <2>8. TreeOK(new, e.seq) /\ PlacedAt(ns, new, op.node, rec)
    <3>1. CASE lost
      BY <2>1, <2>5, <2>6, <2>7, <3>1, PlaceRecoveredKeepsTree
    <3>2. CASE ~lost
      <4>1. op.parent \in DOMAIN ns /\ ns[op.parent].kind = "folder"
        BY <2>1, <3>2
      <4>2. op.node \notin Chain(ns, op.parent)
        BY <2>1 DEF Chain
      <4> QED  BY <2>1, <2>5, <2>6, <2>7, <3>2, <4>1, <4>2, PlaceLiveKeepsTree
    <3> QED  BY <3>1, <3>2
  <2> HIDE DEF new
  <2>9. Joins(ns, new, e)
    BY <2>3, <2>8 DEF Joins, PlacedAt
  <2>10. CASE op.kind = "file"
    <3>1. content # None /\ content.up = op.up
      BY <2>3, <2>10, VersionFacts
    <3> HIDE DEF content
    <3>2. /\ UploadsOK(Bind(us, e, op.up, op.node), e.seq)
          /\ Bound([nodes |-> new, uploads |-> Bind(us, e, op.up, op.node)])
      BY <2>1, <2>5, <2>6, <2>7, <2>8, <2>10, <3>1, BindKeepsBound
    <3> QED  BY <2>2, <2>8, <2>9, <2>10, <3>2, IndexIsOK
  <2>11. CASE op.kind # "file"
    <3>1. content = None /\ rec.kind # "file"
      BY <2>5, <2>11
    <3> HIDE DEF content
    <3>2. /\ DOMAIN new = DOMAIN ns \cup {op.node} /\ \A n \in DOMAIN ns : new[n] = ns[n]
          /\ new[op.node].kind # "file" /\ new[op.node].content = None
      BY <2>1, <2>5, <2>8, <3>1 DEF PlacedAt
    <3>3. Bound([nodes |-> ns, uploads |-> us])
      BY <2>7
    <3>4. Bound([nodes |-> new, uploads |-> us])
      BY <2>1, <3>2, <3>3, PlainNodeKeepsBound
    <3> QED  BY <2>2, <2>7, <2>8, <2>9, <2>11, <3>4, IndexIsOK
  <2> QED  BY <2>10, <2>11
<1> QED  BY <1>1, <1>2

\* Where a node that is no root hangs.
LEMMA ParentFacts ==
  ASSUME NEW ns, NEW h, TreeOK(ns, h), NEW id \in DOMAIN ns \ Roots
  PROVE  /\ id \in NodeId \ Roots
         /\ ns[id].parent \in DOMAIN ns
         /\ ns[ns[id].parent].kind = "folder"
         /\ id \notin Chain(ns, ns[id].parent)
<1>1. ns[id].parent \in DOMAIN ns /\ ns[ns[id].parent].kind = "folder"
  BY DEF TreeOK, Rooted
<1>2. ns[id].parent # None
  BY TreeFacts
<1> QED  BY <1>1, <1>2, TreeFacts, NotAboveItself DEF TreeOK

\* What is in the tree and not a system folder is no root.
LEMMA NotSystem ==
  ASSUME NEW ns, NEW id \in DOMAIN ns, ~IsSystem(ns, id)
  PROVE  id \in DOMAIN ns \ Roots
BY DEF IsSystem, Roots

\* opRename keeps the index well formed.
LEMMA RenameKeeps ==
  ASSUME NEW ix, NEW e, NEW op, EntryOK(e), IndexOK(ix, e.seq),
         OpOK(op), op.type = "rename"
  PROVE  LET r == OpRename(ix, e, op)
         IN  IndexOK(r.ix, e.seq) /\ Joins(ix.nodes, r.ix.nodes, e)
<1> DEFINE ns  == ix.nodes
           us  == ix.uploads
           id  == op.node
           r   == OpRename(ix, e, op)
           named == [ns[id] EXCEPT !.name = op.name]
           new == IF ns[id].trashed # 0 THEN Put(ns, id, named)
                  ELSE PlaceLive(ns, id, named, ns[id].parent)
<1>1. CASE r.ix = ix
  BY <1>1 DEF Joins
<1>2. CASE r.ix # ix
  <2>1. id \in DOMAIN ns \ Roots
    BY <1>2, NotSystem DEF OpRename, Unchanged
  <2>2. r.ix = [nodes |-> new, uploads |-> us]
    BY <1>2 DEF OpRename, Unchanged, Applied
  <2>3. e.seq \in Nat /\ TreeOK(ns, e.seq) /\ UploadsOK(us, e.seq)
        /\ Bound([nodes |-> ns, uploads |-> us]) /\ op.name \in NameSet
    BY DEF EntryOK, IndexOK, Bound, OpOK
  <2>4. /\ id \in NodeId \ Roots
        /\ ns[id].parent \in DOMAIN ns
        /\ ns[ns[id].parent].kind = "folder"
        /\ id \notin Chain(ns, ns[id].parent)
    BY <2>1, <2>3, ParentFacts
  <2>5. ns[id] \in NodeSet(e.seq)
    BY <2>1, <2>3 DEF TreeOK
  <2>6. /\ named \in NodeSet(e.seq)
        /\ named.kind = ns[id].kind /\ named.content = ns[id].content
        /\ named.parent = ns[id].parent /\ named.trashed = ns[id].trashed
    BY <2>3, <2>5 DEF NodeSet
  <2> HIDE DEF named
  <2>7. TreeOK(new, e.seq) /\ PlacedAt(ns, new, id, ns[id])
    <3>1. CASE ns[id].trashed # 0
      <4>1. TreeOK(Put(ns, id, named), e.seq)
        BY <2>3, <2>4, <2>6, <3>1, PutKeepsTree
      <4> QED  BY <2>6, <3>1, <4>1 DEF Put, PlacedAt
    <3>2. CASE ns[id].trashed = 0
      <4>1. /\ TreeOK(PlaceLive(ns, id, named, ns[id].parent), e.seq)
            /\ PlacedAt(ns, PlaceLive(ns, id, named, ns[id].parent), id, named)
        BY <2>3, <2>4, <2>6, PlaceLiveKeepsTree
      <4> QED  BY <2>6, <3>2, <4>1 DEF PlacedAt
    <3> QED  BY <3>1, <3>2
  <2> HIDE DEF new
  <2>8. Bound([nodes |-> new, uploads |-> us])
    BY <2>1, <2>3, <2>7, PlacedKeepsBound
  <2> QED  BY <2>1, <2>2, <2>3, <2>7, <2>8, IndexIsOK DEF Joins, PlacedAt
<1> QED  BY <1>1, <1>2

\* opMove keeps the index well formed: the moved node's new parent is not
\* below it (rule 6), so no cycle closes.
LEMMA MoveKeeps ==
  ASSUME NEW ix, NEW e, NEW op, EntryOK(e), IndexOK(ix, e.seq)
  PROVE  LET r == OpMove(ix, e, op)
         IN  IndexOK(r.ix, e.seq) /\ Joins(ix.nodes, r.ix.nodes, e)
<1> DEFINE ns  == ix.nodes
           us  == ix.uploads
           id  == op.node
           p   == op.parent
           r   == OpMove(ix, e, op)
           moved == [ns[id] EXCEPT !.placed = Mark(e)]
           put == [moved EXCEPT !.parent = p]
           new == IF ns[id].trashed # 0 THEN Put(ns, id, put)
                  ELSE PlaceLive(ns, id, moved, p)
<1>1. CASE r.ix = ix
  BY <1>1 DEF Joins
<1>2. CASE r.ix # ix
  <2>1. /\ id \in DOMAIN ns \ Roots
        /\ p \in DOMAIN ns /\ ns[p].kind = "folder"
        /\ id \notin Chain(ns, p)
    BY <1>2, NotSystem DEF OpMove, Unchanged, Misplaced
  <2>2. r.ix = [nodes |-> new, uploads |-> us]
    BY <1>2 DEF OpMove, Unchanged, Applied
  <2>3. e.seq \in Nat /\ TreeOK(ns, e.seq) /\ UploadsOK(us, e.seq)
        /\ Bound([nodes |-> ns, uploads |-> us])
    BY DEF EntryOK, IndexOK, Bound
  <2>4. id \in NodeId \ Roots /\ p \in NodeId /\ ns[id] \in NodeSet(e.seq)
    BY <2>1, <2>3 DEF TreeOK
  <2>5. Mark(e) \in MarkSet(e.seq)
    BY DEF Mark, MarkSet, EntryOK
  <2>6. /\ moved \in NodeSet(e.seq)
        /\ moved.kind = ns[id].kind /\ moved.content = ns[id].content
        /\ moved.trashed = ns[id].trashed
    BY <2>4, <2>5 DEF NodeSet
  <2> HIDE DEF moved
  <2>7. /\ put \in NodeSet(e.seq)
        /\ put.kind = ns[id].kind /\ put.content = ns[id].content
        /\ put.trashed = ns[id].trashed /\ put.parent = p
    BY <2>4, <2>6 DEF NodeSet
  <2> HIDE DEF put
  <2>8. TreeOK(new, e.seq) /\ PlacedAt(ns, new, id, ns[id])
    <3>1. CASE ns[id].trashed # 0
      <4>1. TreeOK(Put(ns, id, put), e.seq)
        BY <2>1, <2>3, <2>4, <2>7, <3>1, PutKeepsTree
      <4> QED  BY <2>7, <3>1, <4>1 DEF Put, PlacedAt
    <3>2. CASE ns[id].trashed = 0
      <4>1. /\ TreeOK(PlaceLive(ns, id, moved, p), e.seq)
            /\ PlacedAt(ns, PlaceLive(ns, id, moved, p), id, moved)
        BY <2>1, <2>3, <2>4, <2>6, PlaceLiveKeepsTree
      <4> QED  BY <2>6, <3>2, <4>1 DEF PlacedAt
    <3> QED  BY <3>1, <3>2
  <2> HIDE DEF new
  <2>9. Bound([nodes |-> new, uploads |-> us])
    BY <2>1, <2>3, <2>8, PlacedKeepsBound
  <2> QED  BY <2>1, <2>2, <2>3, <2>8, <2>9, IndexIsOK DEF Joins, PlacedAt
<1> QED  BY <1>1, <1>2

\* opTrash keeps the index well formed.
LEMMA TrashKeeps ==
  ASSUME NEW ix, NEW e, NEW op, EntryOK(e), IndexOK(ix, e.seq)
  PROVE  LET r == OpTrash(ix, e, op)
         IN  IndexOK(r.ix, e.seq) /\ Joins(ix.nodes, r.ix.nodes, e)
<1> DEFINE ns  == ix.nodes
           id  == op.node
           r   == OpTrash(ix, e, op)
           new == [ns EXCEPT ![id].trashed = e.seq]
<1>1. CASE r.ix = ix
  BY <1>1 DEF Joins
<1>2. CASE r.ix # ix
  <2>1. id \in DOMAIN ns \ Roots
    BY <1>2, NotSystem DEF OpTrash, Unchanged
  <2>2. r.ix = [nodes |-> new, uploads |-> ix.uploads]
    BY <1>2 DEF OpTrash, Unchanged, Applied
  <2>3. e.seq \in Nat \ {0} /\ TreeOK(ns, e.seq) /\ UploadsOK(ix.uploads, e.seq)
        /\ Bound([nodes |-> ns, uploads |-> ix.uploads])
    BY DEF EntryOK, IndexOK, Bound
  <2>4. ns[id] \in NodeSet(e.seq)
    BY <2>1, <2>3 DEF TreeOK
  <2>5. /\ DOMAIN new = DOMAIN ns
        /\ \A n \in DOMAIN ns \ {id} : new[n] = ns[n]
        /\ new[id] \in NodeSet(e.seq) /\ new[id].trashed = e.seq
        /\ new[id].kind = ns[id].kind /\ new[id].name = ns[id].name
        /\ new[id].parent = ns[id].parent /\ new[id].content = ns[id].content
    BY <2>1, <2>3, <2>4 DEF NodeSet
  <2> HIDE DEF new
  <2>6. TreeOK(new, e.seq)
    <3>1. ASSUME NEW n \in DOMAIN ns
          PROVE  /\ new[n] \in NodeSet(e.seq)
                 /\ new[n].kind = ns[n].kind
                 /\ new[n].name = ns[n].name
                 /\ new[n].parent = ns[n].parent
                 /\ new[n].trashed = 0 => ns[n].trashed = 0
                 /\ n \in Roots => new[n].trashed = 0
      BY <2>1, <2>3, <2>5 DEF TreeOK, Rooted
    <3> QED  BY <2>3, <2>5, <3>1, TouchKeepsTree
  <2>7. PlacedAt(ns, new, id, ns[id])
    BY <2>1, <2>5 DEF PlacedAt
  <2>8. Bound([nodes |-> new, uploads |-> ix.uploads])
    BY <2>1, <2>3, <2>7, PlacedKeepsBound
  <2> QED  BY <2>2, <2>3, <2>5, <2>6, <2>8, IndexIsOK DEF Joins
<1> QED  BY <1>1, <1>2

\* Reviving a node changes nothing else in the tree.
LEMMA ReviveKeepsTree ==
  ASSUME NEW ns, NEW e, EntryOK(e), TreeOK(ns, e.seq), NEW id \in DOMAIN ns \ Roots
  PROVE  TreeOK(Revive(ns, e, id), e.seq) /\ PlacedAt(ns, Revive(ns, e, id), id, ns[id])
<1> DEFINE back == [ns[id] EXCEPT !.trashed = 0, !.placed = Mark(e)]
           p == ns[id].parent
<1>1. ns[id] \in NodeSet(e.seq) /\ e.seq \in Nat /\ e.dev \in Device
  BY DEF TreeOK, EntryOK
<1>2. Mark(e) \in MarkSet(e.seq) /\ 0 \in 0 .. e.seq
  BY <1>1 DEF Mark, MarkSet, EntryOK
<1>3. /\ back \in NodeSet(e.seq)
      /\ back.kind = ns[id].kind /\ back.content = ns[id].content
  BY <1>1, <1>2 DEF NodeSet
<1> HIDE DEF back
<1>4. /\ id \in NodeId \ Roots
      /\ p \in DOMAIN ns /\ ns[p].kind = "folder" /\ id \notin Chain(ns, p)
  BY ParentFacts
<1>5. CASE ns[id].trashed # 0 /\ ~InTrash(ns, p)
  <2>1. Revive(ns, e, id) = PlaceLive(ns, id, back, p)
    BY <1>5 DEF Revive, back
  <2> QED  BY <1>1, <1>3, <1>4, <2>1, PlaceLiveKeepsTree DEF PlacedAt
<1>6. CASE ~(ns[id].trashed # 0 /\ ~InTrash(ns, p))
  <2>1. Revive(ns, e, id) = PlaceRecovered(ns, e, id, back, p, "drive")
    BY <1>6 DEF Revive, back
  <2> QED  BY <1>1, <1>3, <1>4, <2>1, PlaceRecoveredKeepsTree DEF PlacedAt
<1> QED  BY <1>5, <1>6

\* opRestore keeps the index well formed.
LEMMA RestoreKeeps ==
  ASSUME NEW ix, NEW e, NEW op, EntryOK(e), IndexOK(ix, e.seq)
  PROVE  LET r == OpRestore(ix, e, op)
         IN  IndexOK(r.ix, e.seq) /\ Joins(ix.nodes, r.ix.nodes, e)
<1> DEFINE ns  == ix.nodes
           r   == OpRestore(ix, e, op)
           new == Revive(ns, e, op.node)
<1>1. CASE r.ix = ix
  BY <1>1 DEF Joins
<1>2. CASE r.ix # ix
  <2>1. op.node \in DOMAIN ns \ Roots
    BY <1>2, NotSystem DEF OpRestore, Unchanged
  <2>2. r.ix = [nodes |-> new, uploads |-> ix.uploads]
    BY <1>2 DEF OpRestore, Unchanged, Applied
  <2>3. TreeOK(ns, e.seq) /\ UploadsOK(ix.uploads, e.seq)
        /\ Bound([nodes |-> ns, uploads |-> ix.uploads])
    BY DEF IndexOK, Bound
  <2>4. TreeOK(new, e.seq) /\ PlacedAt(ns, new, op.node, ns[op.node])
    BY <2>1, <2>3, ReviveKeepsTree
  <2>5. Bound([nodes |-> new, uploads |-> ix.uploads])
    BY <2>1, <2>3, <2>4, PlacedKeepsBound
  <2> QED  BY <2>1, <2>2, <2>3, <2>4, <2>5, IndexIsOK DEF Joins, PlacedAt
<1> QED  BY <1>1, <1>2

\* opPurge keeps the index well formed: what is deleted is closed downwards,
\* and exactly the uploads of deleted files are released.
LEMMA PurgeKeeps ==
  ASSUME NEW ix, NEW e, NEW op, EntryOK(e), IndexOK(ix, e.seq)
  PROVE  LET r == OpPurge(ix, e, op)
         IN  IndexOK(r.ix, e.seq) /\ Joins(ix.nodes, r.ix.nodes, e)
<1> DEFINE ns   == ix.nodes
           us   == ix.uploads
           top  == op.node
           r    == OpPurge(ix, e, op)
           gone == Doomed(ns, e, top)
           left == Drop(ns, gone)
           new  == IF Kept(ns, e, top) = {} THEN left
                   ELSE [x \in DOMAIN left |->
                           IF x \in TopTrashed(ns, top)
                           THEN [left[x] EXCEPT !.trashed = e.seq] ELSE left[x]]
           freed == Contents(ns, gone)
           rs   == Release(us, e, freed)
<1>1. CASE r.ix = ix
  BY <1>1 DEF Joins
<1>2. CASE r.ix # ix
  <2>1. top \in DOMAIN ns \ Roots
    BY <1>2, NotSystem DEF OpPurge, Unchanged
  <2>2. r.ix = [nodes |-> new, uploads |-> rs]
    BY <1>2 DEF OpPurge, Unchanged, Applied
  <2>3. e.seq \in Nat \ {0} /\ TreeOK(ns, e.seq) /\ UploadsOK(us, e.seq) /\ Bound(ix)
    BY DEF EntryOK, IndexOK
  <2>4. /\ gone \subseteq DOMAIN ns \ Roots
        /\ \A n \in DOMAIN ns \ gone : ns[n].parent \notin gone
    BY <2>1, <2>3, DoomedIsBelow
  <2> HIDE DEF gone
  <2>5. TreeOK(left, e.seq) /\ DOMAIN left = DOMAIN ns \ gone
        /\ \A n \in DOMAIN left : left[n] = ns[n]
    <3>1. gone \cap Roots = {}
      BY <2>4
    <3> QED  BY <2>3, <2>4, <3>1, DropKeepsTree DEF Drop
  <2> HIDE DEF left
  <2>6. /\ DOMAIN new = DOMAIN left
        /\ \A n \in DOMAIN left :
             /\ new[n] \in NodeSet(e.seq)
             /\ new[n].kind = left[n].kind /\ new[n].name = left[n].name
             /\ new[n].parent = left[n].parent /\ new[n].content = left[n].content
             /\ new[n].trashed = 0 => left[n].trashed = 0
             /\ n \in Roots => new[n].trashed = 0
    <3>1. ASSUME NEW n \in DOMAIN left
          PROVE  /\ new[n] \in NodeSet(e.seq)
                 /\ new[n].kind = left[n].kind /\ new[n].name = left[n].name
                 /\ new[n].parent = left[n].parent /\ new[n].content = left[n].content
                 /\ new[n].trashed = 0 => left[n].trashed = 0
                 /\ n \in Roots => new[n].trashed = 0
      <4>1. left[n] \in NodeSet(e.seq) /\ (n \in Roots => left[n].trashed = 0)
        BY <2>5 DEF TreeOK, Rooted
      <4>2. n \in Roots => n \notin TopTrashed(ns, top)
        BY <2>5, <4>1 DEF TopTrashed
      <4>3. CASE new[n] = left[n]
        BY <4>1, <4>3
      <4>4. CASE new[n] # left[n]
        <5>1. n \in TopTrashed(ns, top) /\ new[n] = [left[n] EXCEPT !.trashed = e.seq]
          BY <4>4
        <5> QED  BY <2>3, <4>1, <4>2, <5>1 DEF NodeSet
      <4> QED  BY <4>3, <4>4
    <3> QED  BY <3>1
  <2> HIDE DEF new
  <2>7. TreeOK(new, e.seq)
    BY <2>3, <2>5, <2>6, TouchKeepsTree
  <2>8. /\ UploadsOK(rs, e.seq)
        /\ DOMAIN rs = DOMAIN us
        /\ \A u \in DOMAIN us \cap freed : rs[u].status = "released"
        /\ \A u \in DOMAIN us \ freed : rs[u] = us[u]
    BY <2>3, ReleaseFacts
  <2>9. \A n \in DOMAIN ns : ns[n].content # None =>
          (ns[n].content.up \in freed <=> n \in gone)
    <3>1. ASSUME NEW n \in DOMAIN ns, ns[n].content # None, ns[n].content.up \in freed
          PROVE  n \in gone
      <4>1. PICK m \in gone : ns[m].content # None /\ ns[m].content.up = ns[n].content.up
        BY <2>4, <3>1 DEF Contents
      <4>2. Bound([nodes |-> ns, uploads |-> us])
        BY <2>3 DEF Bound
      <4>3. m \in DOMAIN ns
        BY <2>4
      <4> HIDE DEF ns, us, freed
      <4>4. m = n
        BY <3>1, <4>1, <4>2, <4>3, SameUploadSameNode
      <4> QED  BY <4>1, <4>4
    <3>2. ASSUME NEW n \in gone, ns[n].content # None  PROVE ns[n].content.up \in freed
      BY <3>2 DEF Contents
    <3> QED  BY <3>1, <3>2
  <2>10. freed \subseteq {ns[n].content.up : n \in {m \in DOMAIN ns : ns[m].content # None}}
    BY <2>4 DEF Contents
  <2> HIDE DEF rs, freed
  <2>11. Bound([nodes |-> new, uploads |-> rs])
    <3>1. \A n \in DOMAIN new : (new[n].kind = "file") = (new[n].content # None)
      BY <2>3, <2>5, <2>6 DEF Bound
    <3>2. ASSUME NEW n \in DOMAIN new, new[n].content # None
          PROVE  LET u == new[n].content.up
                 IN  u \in DOMAIN rs /\ rs[u].status = "bound" /\ rs[u].node = n
      <4>1. n \in DOMAIN ns \ gone /\ new[n].content = ns[n].content
        BY <2>5, <2>6
      <4>2. LET u == ns[n].content.up
            IN  u \in DOMAIN us /\ us[u].status = "bound" /\ us[u].node = n
        BY <2>3, <3>2, <4>1 DEF Bound
      <4>3. ns[n].content.up \notin freed
        BY <2>9, <3>2, <4>1
      <4> QED  BY <2>8, <4>1, <4>2, <4>3
    <3>3. ASSUME NEW u \in DOMAIN rs, rs[u].status = "bound"
          PROVE  /\ rs[u].node \in DOMAIN new
                 /\ new[rs[u].node].content # None
                 /\ new[rs[u].node].content.up = u
      <4>1. u \in DOMAIN us \ freed /\ rs[u] = us[u]
        BY <2>8, <3>3
      <4>2. /\ us[u].node \in DOMAIN ns
            /\ ns[us[u].node].content # None
            /\ ns[us[u].node].content.up = u
        BY <2>3, <3>3, <4>1 DEF Bound
      <4>3. us[u].node \in DOMAIN new
        BY <2>5, <2>6, <2>9, <4>1, <4>2
      <4> QED  BY <2>5, <2>6, <4>1, <4>2, <4>3
    <3> QED  BY <3>1, <3>2, <3>3 DEF Bound
  <2> QED  BY <2>2, <2>5, <2>6, <2>7, <2>8, <2>11, IndexIsOK DEF Joins
<1> QED  BY <1>1, <1>2

\* New content for a purged file: a new file in the Recovered folder.
LEMMA NewContentOfPurged ==
  ASSUME NEW ix, NEW e, NEW op, EntryOK(e), IndexOK(ix, e.seq), Unmade(ix.nodes, e),
         OpOK(op), op.type = "new_content_version", op.node \notin DOMAIN ix.nodes
  PROVE  LET r == OpNewContent(ix, e, op)
         IN  IndexOK(r.ix, e.seq) /\ Joins(ix.nodes, r.ix.nodes, e)
<1> DEFINE ns  == ix.nodes
           us  == ix.uploads
           r   == OpNewContent(ix, e, op)
           id  == <<"recovered", e.seq, e.sub>>
           rec == NewNode(e, "file", op.name, Version(e, op))
           new == PlaceRecovered(ns, e, id, rec, None, op.space)
<1>1. CASE r.ix = ix
  BY <1>1 DEF Joins
<1>2. CASE r.ix # ix
  <2>1. Usable(us, op.up) /\ r.ix = [nodes |-> new, uploads |-> Bind(us, e, op.up, id)]
    BY <1>2 DEF OpNewContent, Unchanged, Applied
  <2>2. e.seq \in Nat /\ e.dev \in Device /\ TreeOK(ns, e.seq)
        /\ UploadsOK(us, e.seq) /\ Bound([nodes |-> ns, uploads |-> us])
        /\ op.name \in NameSet /\ op.up \in Upload /\ op.loc \in Loc
    BY DEF EntryOK, IndexOK, Bound, OpOK
  <2>3. /\ Version(e, op) \in ContentSet(e.seq)
        /\ Version(e, op) # None /\ Version(e, op).up = op.up
    BY <2>2, VersionFacts
  <2>4. rec \in NodeSet(e.seq) /\ rec.kind = "file" /\ rec.content = Version(e, op)
    BY <2>2, <2>3, NewNodeFacts
  <2>5. id \in NodeId \ Roots /\ id \notin DOMAIN ns
    BY NewIdFacts
  <2> HIDE DEF rec, id
  <2>6. TreeOK(new, e.seq) /\ PlacedAt(ns, new, id, rec)
    BY <2>2, <2>4, <2>5, PlaceRecoveredKeepsTree
  <2> HIDE DEF new
  <2>7. /\ UploadsOK(Bind(us, e, op.up, id), e.seq)
        /\ Bound([nodes |-> new, uploads |-> Bind(us, e, op.up, id)])
    BY <2>1, <2>2, <2>3, <2>4, <2>5, <2>6, BindKeepsBound
  <2> QED  BY <2>1, <2>6, <2>7, IndexIsOK DEF Joins, PlacedAt, id
<1> QED  BY <1>1, <1>2

\* The file that takes the new version, out of the trash if it was there.
LEMMA UpdatedFacts ==
  ASSUME NEW ns, NEW e, EntryOK(e), TreeOK(ns, e.seq), NEW id \in DOMAIN ns \ Roots,
         ns[id].kind = "file", NEW version \in ContentSet(e.seq),
         NEW back, back = Awake(ns, e, id), NEW new, new = Updated(back, id, version)
  PROVE  /\ TreeOK(new, e.seq)
         /\ DOMAIN new = DOMAIN ns
         /\ \A n \in DOMAIN ns \ {id} : new[n] = ns[n]
         /\ new[id].kind = "file" /\ new[id].content = version
         /\ new[id].parent = back[id].parent
         /\ back[id] \in NodeSet(e.seq) /\ back[id].content = ns[id].content
<1> DEFINE rec == [back[id] EXCEPT !.content = version]
<1>1. TreeOK(back, e.seq) /\ PlacedAt(ns, back, id, ns[id])
  BY ReviveKeepsTree DEF PlacedAt, Awake
<1>2. /\ DOMAIN back = DOMAIN ns /\ id \in DOMAIN back /\ back[id] \in NodeSet(e.seq)
      /\ back[id].kind = "file" /\ back[id].content = ns[id].content
      /\ \A n \in DOMAIN ns \ {id} : back[n] = ns[n]
  BY <1>1 DEF PlacedAt, TreeOK
<1>3. /\ rec \in NodeSet(e.seq) /\ rec.content = version
      /\ rec.kind = back[id].kind /\ rec.name = back[id].name
      /\ rec.parent = back[id].parent /\ rec.trashed = back[id].trashed
  BY <1>2 DEF NodeSet
<1> HIDE DEF rec
<1>4. /\ DOMAIN new = DOMAIN back /\ new[id] = rec
      /\ \A n \in DOMAIN back \ {id} : new[n] = back[n]
  BY <1>2 DEF Updated, Put, rec
<1>5. TreeOK(new, e.seq)
  <2>1. e.seq \in Nat
    BY DEF EntryOK
  <2>2. ASSUME NEW n \in DOMAIN back
        PROVE  /\ new[n] \in NodeSet(e.seq)
               /\ new[n].kind = back[n].kind
               /\ new[n].name = back[n].name
               /\ new[n].parent = back[n].parent
               /\ new[n].trashed = 0 => back[n].trashed = 0
               /\ n \in Roots => new[n].trashed = 0
    BY <1>1, <1>3, <1>4 DEF TreeOK, Rooted
  <2> QED  BY <1>1, <1>4, <2>1, <2>2, TouchKeepsTree
<1>6. /\ DOMAIN new = DOMAIN ns
      /\ \A n \in DOMAIN ns \ {id} : new[n] = ns[n]
      /\ new[id].kind = "file" /\ new[id].content = version
      /\ new[id].parent = back[id].parent
  BY <1>2, <1>3, <1>4
<1> QED  BY <1>2, <1>5, <1>6

\* No conflict: the file's old upload is released.
LEMMA SwapKeepsBound ==
  ASSUME NEW ns, NEW us, NEW e, e.seq \in Nat, UploadsOK(us, e.seq),
         Bound([nodes |-> ns, uploads |-> us]),
         NEW id \in DOMAIN ns \cap NodeId, ns[id].kind = "file",
         NEW up, Usable(us, up),
         NEW new, DOMAIN new = DOMAIN ns, \A n \in DOMAIN ns \ {id} : new[n] = ns[n],
         new[id].kind = "file", new[id].content # None, new[id].content.up = up
  PROVE  LET bs == Bind(Release(us, e, {ns[id].content.up}), e, up, id)
         IN  UploadsOK(bs, e.seq) /\ Bound([nodes |-> new, uploads |-> bs])
<1> DEFINE old == ns[id].content.up
           rs  == Release(us, e, {old})
           bs  == Bind(rs, e, up, id)
<1>1. /\ ns[id].content # None /\ old \in DOMAIN us
      /\ us[old].status = "bound" /\ us[old].node = id
  BY DEF Bound
<1>2. up \in DOMAIN us /\ us[up].status = "committed" /\ up # old
  BY <1>1 DEF Usable
<1> HIDE DEF old
<1>3. /\ UploadsOK(rs, e.seq) /\ DOMAIN rs = DOMAIN us
      /\ rs[old].status = "released"
      /\ \A u \in DOMAIN us \ {old} : rs[u] = us[u]
  BY <1>1, ReleaseFacts
<1> HIDE DEF rs
<1>4. /\ UploadsOK(bs, e.seq) /\ DOMAIN bs = DOMAIN us
      /\ bs[up].status = "bound" /\ bs[up].node = id
      /\ \A u \in DOMAIN us \ {up} : bs[u] = rs[u]
  BY <1>2, <1>3, BindFacts
<1> HIDE DEF bs
<1>5. \A n \in DOMAIN new : (new[n].kind = "file") = (new[n].content # None)
  BY DEF Bound
<1>6. ASSUME NEW n \in DOMAIN new, new[n].content # None
      PROVE  LET u == new[n].content.up
             IN  u \in DOMAIN bs /\ bs[u].status = "bound" /\ bs[u].node = n
  <2>1. CASE n = id
    BY <1>2, <1>4, <2>1
  <2>2. CASE n # id
    <3>1. new[n] = ns[n] /\ n \in DOMAIN ns
      BY <2>2
    <3> DEFINE u == ns[n].content.up
    <3>2. u \in DOMAIN us /\ us[u].status = "bound" /\ us[u].node = n
      BY <1>6, <3>1 DEF Bound
    <3>3. u # up /\ u # old
      BY <1>1, <1>2, <2>2, <3>2
    <3> QED  BY <1>3, <1>4, <3>1, <3>2, <3>3
  <2> QED  BY <2>1, <2>2
<1>7. ASSUME NEW u \in DOMAIN bs, bs[u].status = "bound"
      PROVE  /\ bs[u].node \in DOMAIN new
             /\ new[bs[u].node].content # None
             /\ new[bs[u].node].content.up = u
  <2>1. CASE u = up
    BY <1>4, <2>1
  <2>2. CASE u # up
    <3>1. u \in DOMAIN us /\ u # old /\ bs[u] = us[u]
      BY <1>3, <1>4, <1>7, <2>2
    <3>2. /\ us[u].node \in DOMAIN ns /\ ns[us[u].node].content # None
          /\ ns[us[u].node].content.up = u
      BY <1>7, <3>1 DEF Bound
    <3>3. us[u].node # id
      BY <3>1, <3>2 DEF old
    <3> QED  BY <3>1, <3>2, <3>3
  <2> QED  BY <2>1, <2>2
<1> QED  BY <1>4, <1>5, <1>6, <1>7 DEF Bound, bs, rs, old

\* A conflict: the old upload goes to the conflict copy.
LEMMA SplitKeepsBound ==
  ASSUME NEW ns, NEW us, NEW e, e.seq \in Nat, UploadsOK(us, e.seq),
         Bound([nodes |-> ns, uploads |-> us]),
         NEW id \in DOMAIN ns \cap NodeId, ns[id].kind = "file",
         NEW up, Usable(us, up), NEW copy \in NodeId \ DOMAIN ns,
         NEW new, DOMAIN new = DOMAIN ns \cup {copy},
         \A n \in DOMAIN ns \ {id} : new[n] = ns[n],
         new[id].kind = "file", new[id].content # None, new[id].content.up = up,
         new[copy].kind = "file", new[copy].content = ns[id].content
  PROVE  LET bs == Bind(Bind(us, e, ns[id].content.up, copy), e, up, id)
         IN  UploadsOK(bs, e.seq) /\ Bound([nodes |-> new, uploads |-> bs])
<1> DEFINE old == ns[id].content.up
           cs  == Bind(us, e, old, copy)
           bs  == Bind(cs, e, up, id)
<1>1. /\ ns[id].content # None /\ old \in DOMAIN us
      /\ us[old].status = "bound" /\ us[old].node = id
  BY DEF Bound
<1>2. up \in DOMAIN us /\ us[up].status = "committed" /\ up # old
  BY <1>1 DEF Usable
<1> HIDE DEF old
<1>3. /\ UploadsOK(cs, e.seq) /\ DOMAIN cs = DOMAIN us
      /\ cs[old].status = "bound" /\ cs[old].node = copy
      /\ \A u \in DOMAIN us \ {old} : cs[u] = us[u]
  BY <1>1, BindFacts
<1> HIDE DEF cs
<1>4. /\ UploadsOK(bs, e.seq) /\ DOMAIN bs = DOMAIN us
      /\ bs[up].status = "bound" /\ bs[up].node = id
      /\ \A u \in DOMAIN us \ {up} : bs[u] = cs[u]
  BY <1>2, <1>3, BindFacts
<1> HIDE DEF bs
<1>5. \A n \in DOMAIN new : (new[n].kind = "file") = (new[n].content # None)
  BY <1>1 DEF Bound
<1>6. ASSUME NEW n \in DOMAIN new, new[n].content # None
      PROVE  LET u == new[n].content.up
             IN  u \in DOMAIN bs /\ bs[u].status = "bound" /\ bs[u].node = n
  <2>1. CASE n = id
    BY <1>2, <1>4, <2>1
  <2>2. CASE n = copy
    BY <1>1, <1>2, <1>3, <1>4, <2>2 DEF old
  <2>3. CASE n # id /\ n # copy
    <3>1. new[n] = ns[n] /\ n \in DOMAIN ns
      BY <2>3
    <3> DEFINE u == ns[n].content.up
    <3>2. u \in DOMAIN us /\ us[u].status = "bound" /\ us[u].node = n
      BY <1>6, <3>1 DEF Bound
    <3>3. u # up /\ u # old
      BY <1>1, <1>2, <2>3, <3>2
    <3> QED  BY <1>3, <1>4, <3>1, <3>2, <3>3
  <2> QED  BY <2>1, <2>2, <2>3
<1>7. ASSUME NEW u \in DOMAIN bs, bs[u].status = "bound"
      PROVE  /\ bs[u].node \in DOMAIN new
             /\ new[bs[u].node].content # None
             /\ new[bs[u].node].content.up = u
  <2>1. CASE u = up
    BY <1>4, <2>1
  <2>2. CASE u = old
    BY <1>1, <1>2, <1>3, <1>4, <2>2 DEF old
  <2>3. CASE u # up /\ u # old
    <3>1. u \in DOMAIN us /\ bs[u] = us[u]
      BY <1>3, <1>4, <1>7, <2>3
    <3>2. /\ us[u].node \in DOMAIN ns /\ ns[us[u].node].content # None
          /\ ns[us[u].node].content.up = u
      BY <1>7, <3>1 DEF Bound
    <3>3. us[u].node # id /\ us[u].node # copy
      BY <2>3, <3>1, <3>2 DEF old
    <3> QED  BY <3>1, <3>2, <3>3
  <2> QED  BY <2>1, <2>2, <2>3
<1> QED  BY <1>4, <1>5, <1>6, <1>7 DEF Bound, bs, cs, old

\* opNewContent keeps the index well formed in each of its outcomes: a new
\* recovered file, a conflict copy, a superseded version.
LEMMA NewContentKeeps ==
  ASSUME NEW ix, NEW e, NEW op, EntryOK(e), IndexOK(ix, e.seq), Unmade(ix.nodes, e),
         OpOK(op), op.type = "new_content_version"
  PROVE  LET r == OpNewContent(ix, e, op)
         IN  IndexOK(r.ix, e.seq) /\ Joins(ix.nodes, r.ix.nodes, e)
<1> DEFINE ns == ix.nodes
           us == ix.uploads
           id == op.node
           r  == OpNewContent(ix, e, op)
           version == Version(e, op)
           back == Awake(ns, e, id)
           cur  == back[id].content
           same == Plain[cur.up] # None /\ Plain[cur.up] = Plain[op.up]
           updated == Updated(back, id, version)
           copyId  == <<"conflict", e.seq, e.sub>>
           copyRec == NewNode(e, "file", Suffixed(back[id].name, ConflictMark), cur)
           split   == PlaceLive(updated, copyId, copyRec, back[id].parent)
<1>1. CASE r.ix = ix
  BY <1>1 DEF Joins
<1>2. CASE r.ix # ix /\ id \notin DOMAIN ns
  BY <1>2, NewContentOfPurged
<1>3. CASE r.ix # ix /\ id \in DOMAIN ns
  <2>1. id \in DOMAIN ns \ Roots /\ Usable(us, op.up) /\ ns[id].kind = "file"
    BY <1>3, NotSystem DEF OpNewContent, Unchanged
  <2>2. r.ix = IF cur.up # op.baseVersion /\ ~same
               THEN [nodes |-> split,
                     uploads |-> Bind(Bind(us, e, cur.up, copyId), e, op.up, id)]
               ELSE [nodes |-> updated,
                     uploads |-> Bind(Release(us, e, {cur.up}), e, op.up, id)]
    BY <1>3, <2>1 DEF OpNewContent, Unchanged, Applied
  <2>3. e.seq \in Nat /\ e.dev \in Device /\ TreeOK(ns, e.seq)
        /\ UploadsOK(us, e.seq) /\ Bound([nodes |-> ns, uploads |-> us])
        /\ op.name \in NameSet /\ op.up \in Upload /\ op.loc \in Loc
    BY DEF EntryOK, IndexOK, Bound, OpOK
  <2>4. version \in ContentSet(e.seq) /\ version # None /\ version.up = op.up
    BY <2>3, VersionFacts
  <2> HIDE DEF version
  <2>5. /\ TreeOK(updated, e.seq)
        /\ DOMAIN updated = DOMAIN ns
        /\ \A n \in DOMAIN ns \ {id} : updated[n] = ns[n]
        /\ updated[id].kind = "file" /\ updated[id].content = version
        /\ updated[id].parent = back[id].parent
        /\ back[id] \in NodeSet(e.seq) /\ cur = ns[id].content
    BY <2>1, <2>3, <2>4, UpdatedFacts
  <2> HIDE DEF updated, back, cur
  <2>6. id \in NodeId /\ copyId \in NodeId \ Roots /\ copyId \notin DOMAIN ns
    BY <2>1, <2>3, NewIdFacts DEF TreeOK
  <2> HIDE DEF copyId
  <2>7. CASE cur.up # op.baseVersion /\ ~same
    <3>1. Suffixed(back[id].name, ConflictMark) \in NameSet
      BY <2>5, SuffixedIsName DEF NodeSet, ConflictMark
    <3>2. cur \in ContentSet(e.seq) \cup {None}
      BY <2>1, <2>3, <2>5 DEF TreeOK, NodeSet
    <3>3. copyRec \in NodeSet(e.seq) /\ copyRec.kind = "file" /\ copyRec.content = cur
      BY <3>1, <3>2, NewNodeFacts
    <3> HIDE DEF copyRec
    <3>4. /\ back[id].parent \in DOMAIN updated
          /\ updated[back[id].parent].kind = "folder"
      BY <2>1, <2>5, ParentFacts
    <3>5. copyId \notin Chain(updated, back[id].parent)
      BY <2>5, <2>6 DEF Chain
    <3>6. TreeOK(split, e.seq) /\ PlacedAt(updated, split, copyId, copyRec)
      BY <2>3, <2>5, <2>6, <3>3, <3>4, <3>5, PlaceLiveKeepsTree
    <3> HIDE DEF split
    <3>7. /\ DOMAIN split = DOMAIN ns \cup {copyId}
          /\ \A n \in DOMAIN ns \ {id} : split[n] = ns[n]
          /\ split[id].kind = "file" /\ split[id].content = version
          /\ split[copyId].kind = "file" /\ split[copyId].content = ns[id].content
      BY <2>1, <2>5, <2>6, <3>3, <3>6 DEF PlacedAt
    <3> DEFINE bs == Bind(Bind(us, e, ns[id].content.up, copyId), e, op.up, id)
    <3>8. split[id].content # None /\ split[id].content.up = op.up
      BY <2>4, <3>7
    <3>9. id \in DOMAIN ns \cap NodeId /\ copyId \in NodeId \ DOMAIN ns
      BY <2>1, <2>6
    <3>10. e.seq \in Nat /\ UploadsOK(us, e.seq) /\ Bound([nodes |-> ns, uploads |-> us])
      BY <2>3
    <3>11. ns[id].kind = "file" /\ Usable(us, op.up)
      BY <2>1
    <3>12. UploadsOK(bs, e.seq) /\ Bound([nodes |-> split, uploads |-> bs])
      BY <3>7, <3>8, <3>9, <3>10, <3>11, SplitKeepsBound
    <3>13. r.ix = [nodes |-> split, uploads |-> bs]
      BY <2>2, <2>5, <2>7
    <3> HIDE DEF bs
    <3>14. IndexOK(r.ix, e.seq)
      BY <3>6, <3>12, <3>13, IndexIsOK
    <3> QED  BY <3>7, <3>13, <3>14 DEF Joins, copyId
  <2>8. CASE ~(cur.up # op.baseVersion /\ ~same)
    <3> DEFINE bs == Bind(Release(us, e, {cur.up}), e, op.up, id)
    <3>1. UploadsOK(bs, e.seq) /\ Bound([nodes |-> updated, uploads |-> bs])
      BY <2>1, <2>3, <2>4, <2>5, <2>6, SwapKeepsBound
    <3>2. r.ix = [nodes |-> updated, uploads |-> bs]
      BY <2>2, <2>8
    <3> QED  BY <2>5, <3>1, <3>2, IndexIsOK DEF Joins
  <2> QED  BY <2>7, <2>8
<1> QED  BY <1>1, <1>2, <1>3

\* An upload no file uses changes, and still none does.
LEMMA FreeUploadKeeps ==
  ASSUME NEW ix, NEW h, IndexOK(ix, h), NEW up \in Upload,
         up \in DOMAIN ix.uploads => ix.uploads[up].status # "bound",
         NEW rec \in UploadSet(h), rec.status # "bound"
  PROVE  IndexOK([nodes |-> ix.nodes, uploads |-> Put(ix.uploads, up, rec)], h)
<1> DEFINE us  == ix.uploads
           new == Put(us, up, rec)
<1>1. /\ DOMAIN new = DOMAIN us \cup {up} /\ new[up] = rec
      /\ \A u \in DOMAIN us \ {up} : new[u] = us[u]
  BY DEF Put
<1> HIDE DEF new
<1>2. UploadsOK(new, h)
  BY <1>1 DEF IndexOK, UploadsOK
<1>3. Bound([nodes |-> ix.nodes, uploads |-> new])
  <2> DEFINE ns == ix.nodes
  <2>1. Bound([nodes |-> ns, uploads |-> us])
    BY DEF IndexOK, Bound
  <2> HIDE DEF us
  <2>2. \A n \in DOMAIN ns : (ns[n].kind = "file") = (ns[n].content # None)
    BY <2>1 DEF Bound
  <2>3. ASSUME NEW n \in DOMAIN ns, ns[n].content # None
        PROVE  LET u == ns[n].content.up
               IN  u \in DOMAIN new /\ new[u].status = "bound" /\ new[u].node = n
    <3>1. LET u == ns[n].content.up
          IN  u \in DOMAIN us /\ us[u].status = "bound" /\ us[u].node = n
      BY <2>1, <2>3 DEF Bound
    <3>2. ns[n].content.up # up
      BY <3>1 DEF us
    <3> QED  BY <1>1, <3>1, <3>2
  <2>4. ASSUME NEW u \in DOMAIN new, new[u].status = "bound"
        PROVE  /\ new[u].node \in DOMAIN ns
               /\ ns[new[u].node].content # None /\ ns[new[u].node].content.up = u
    <3>1. u \in DOMAIN us /\ new[u] = us[u]
      BY <1>1, <2>4
    <3> QED  BY <2>1, <2>4, <3>1 DEF Bound
  <2> QED  BY <2>2, <2>3, <2>4 DEF Bound
<1> QED  BY <1>2, <1>3 DEF IndexOK, new

\* Changing fields of the record of an existing upload is putting a record.
LEMMA SetStatus ==
  ASSUME NEW us, NEW up \in DOMAIN us, NEW rec
  PROVE  [us EXCEPT ![up] = rec] = Put(us, up, rec)
BY DEF Put

\* opUploadBegin keeps the index well formed.
LEMMA UploadBeginKeeps ==
  ASSUME NEW ix, NEW e, NEW op, EntryOK(e), IndexOK(ix, e.seq),
         OpOK(op), op.type = "upload_begin"
  PROVE  LET r == OpUploadBegin(ix, e, op)
         IN  IndexOK(r.ix, e.seq) /\ r.ix.nodes = ix.nodes
<1>1. CASE op.up \in DOMAIN ix.uploads
  BY <1>1 DEF OpUploadBegin, Unchanged
<1>2. CASE op.up \notin DOMAIN ix.uploads
  <2>1. NewUpload \in UploadSet(e.seq) /\ NewUpload.status # "bound"
    <3>1. 0 \in 0 .. e.seq
      BY DEF EntryOK
    <3> QED  BY <3>1 DEF NewUpload, UploadSet
  <2>2. op.up \in Upload
    BY DEF OpOK
  <2> QED  BY <1>2, <2>1, <2>2, FreeUploadKeeps DEF OpUploadBegin, Applied
<1> QED  BY <1>1, <1>2

\* opUploadCommit keeps the index well formed.
LEMMA UploadCommitKeeps ==
  ASSUME NEW ix, NEW e, NEW op, EntryOK(e), IndexOK(ix, e.seq)
  PROVE  LET r == OpUploadCommit(ix, e, op)
         IN  IndexOK(r.ix, e.seq) /\ r.ix.nodes = ix.nodes
<1> DEFINE us  == ix.uploads
           up  == op.up
           r   == OpUploadCommit(ix, e, op)
           rec == [us[up] EXCEPT !.status = "committed"]
<1>1. CASE r.ix = ix
  BY <1>1
<1>2. CASE r.ix # ix
  <2>1. up \in DOMAIN us /\ us[up].status = "open"
    BY <1>2 DEF OpUploadCommit, Unchanged
  <2>2. us[up] \in UploadSet(e.seq) /\ up \in Upload
    BY <2>1 DEF IndexOK, UploadsOK
  <2>3. rec \in UploadSet(e.seq) /\ rec.status # "bound"
    BY <2>2 DEF UploadSet
  <2>4. r.ix = [nodes |-> ix.nodes, uploads |-> [us EXCEPT ![up] = rec]]
    BY <2>1, <2>2 DEF OpUploadCommit, Applied, UploadSet
  <2> HIDE DEF rec
  <2>5. r.ix = [nodes |-> ix.nodes, uploads |-> Put(us, up, rec)]
    BY <2>1, <2>4, SetStatus
  <2> QED  BY <2>1, <2>2, <2>3, <2>5, FreeUploadKeeps
<1> QED  BY <1>1, <1>2

\* opUploadAbort keeps the index well formed: it never touches an upload a
\* file uses.
LEMMA UploadAbortKeeps ==
  ASSUME NEW ix, NEW e, NEW op, EntryOK(e), IndexOK(ix, e.seq)
  PROVE  LET r == OpUploadAbort(ix, e, op)
         IN  IndexOK(r.ix, e.seq) /\ r.ix.nodes = ix.nodes
<1> DEFINE us  == ix.uploads
           up  == op.up
           r   == OpUploadAbort(ix, e, op)
           rec == [us[up] EXCEPT !.status = "aborted", !.ended = e.seq]
<1>1. CASE r.ix = ix
  BY <1>1
<1>2. CASE r.ix # ix
  <2>1. up \in DOMAIN us /\ us[up].status # "bound"
    BY <1>2 DEF OpUploadAbort, Unchanged
  <2>2. us[up] \in UploadSet(e.seq) /\ up \in Upload /\ e.seq \in 0 .. e.seq
    BY <2>1 DEF IndexOK, UploadsOK, EntryOK
  <2>3. rec \in UploadSet(e.seq) /\ rec.status # "bound"
    BY <2>2 DEF UploadSet
  <2>4. r.ix = [nodes |-> ix.nodes, uploads |-> [us EXCEPT ![up] = rec]]
    BY <1>2, <2>1, <2>2 DEF OpUploadAbort, Unchanged, Applied, UploadSet
  <2> HIDE DEF rec
  <2>5. r.ix = [nodes |-> ix.nodes, uploads |-> Put(us, up, rec)]
    BY <2>1, <2>4, SetStatus
  <2> QED  BY <2>1, <2>2, <2>3, <2>5, FreeUploadKeeps
<1> QED  BY <1>1, <1>2

\* A version is not None.
LEMMA VersionIsSome ==
  ASSUME NEW h \in Nat, NEW c \in ContentSet(h)
  PROVE  c # None
<1>1. c \in [up : Upload, seq : Nat, dev : Device, loc : Loc]
  BY DEF ContentSet
<1> QED  BY <1>1, IdsAreDistinct

\* Bindings depend on the kinds, the uploads that contents name, and the
\* status and node of uploads only.
LEMMA BoundDependsOn ==
  ASSUME NEW ns, NEW us, Bound([nodes |-> ns, uploads |-> us]), NEW new, NEW ms,
         DOMAIN new = DOMAIN ns, DOMAIN ms = DOMAIN us,
         \A n \in DOMAIN ns :
           /\ new[n].kind = ns[n].kind
           /\ new[n].content = None <=> ns[n].content = None
           /\ new[n].content # None => new[n].content.up = ns[n].content.up,
         \A u \in DOMAIN us : ms[u].status = us[u].status /\ ms[u].node = us[u].node
  PROVE  Bound([nodes |-> new, uploads |-> ms])
<1>1. \A n \in DOMAIN new : (new[n].kind = "file") = (new[n].content # None)
  BY DEF Bound
<1>2. ASSUME NEW n \in DOMAIN new, new[n].content # None
      PROVE  LET u == new[n].content.up
             IN  u \in DOMAIN ms /\ ms[u].status = "bound" /\ ms[u].node = n
  <2>1. n \in DOMAIN ns /\ ns[n].content # None /\ new[n].content.up = ns[n].content.up
    BY <1>2
  <2> QED  BY <2>1 DEF Bound
<1>3. ASSUME NEW u \in DOMAIN ms, ms[u].status = "bound"
      PROVE  /\ ms[u].node \in DOMAIN new
             /\ new[ms[u].node].content # None
             /\ new[ms[u].node].content.up = u
  <2>1. /\ u \in DOMAIN us /\ us[u].status = "bound" /\ us[u].node = ms[u].node
    BY <1>3
  <2>2. /\ us[u].node \in DOMAIN ns
        /\ ns[us[u].node].content # None /\ ns[us[u].node].content.up = u
    BY <2>1 DEF Bound
  <2> QED  BY <2>1, <2>2
<1> QED  BY <1>1, <1>2, <1>3 DEF Bound

\* opRelocate keeps the index well formed.
LEMMA RelocateKeeps ==
  ASSUME NEW ix, NEW e, NEW op, EntryOK(e), IndexOK(ix, e.seq),
         OpOK(op), op.type = "relocate"
  PROVE  LET r == OpRelocate(ix, e, op)
         IN  IndexOK(r.ix, e.seq) /\ DOMAIN r.ix.nodes = DOMAIN ix.nodes
<1> DEFINE ns  == ix.nodes
           us  == ix.uploads
           up  == op.up
           id  == us[up].node
           r   == OpRelocate(ix, e, op)
           new == [ns EXCEPT ![id].content.loc = op.loc]
           ms  == [us EXCEPT ![up].moved = e.seq]
<1>1. CASE r.ix = ix
  BY <1>1
<1>2. CASE r.ix # ix
  <2>1. /\ up \in DOMAIN us /\ us[up].status = "bound" /\ id \in DOMAIN ns
        /\ ns[id].content # None /\ ns[id].content.up = up
    BY <1>2 DEF OpRelocate, Unchanged
  <2>2. r.ix = [nodes |-> new, uploads |-> ms]
    BY <1>2 DEF OpRelocate, Unchanged, Applied
  <2>3. e.seq \in Nat /\ TreeOK(ns, e.seq) /\ UploadsOK(us, e.seq)
        /\ Bound([nodes |-> ns, uploads |-> us]) /\ op.loc \in Loc
    <3>1. TreeOK(ns, e.seq) /\ UploadsOK(us, e.seq) /\ Bound([nodes |-> ns, uploads |-> us])
      BY DEF IndexOK, Bound
    <3> QED  BY <3>1 DEF EntryOK, OpOK
  <2>4. ns[id] \in NodeSet(e.seq) /\ ns[id].content \in ContentSet(e.seq)
        /\ us[up] \in UploadSet(e.seq) /\ e.seq \in 0 .. e.seq
    <3>1. ns[id] \in NodeSet(e.seq)
      BY <2>1, <2>3 DEF TreeOK
    <3>2. ns[id].content \in ContentSet(e.seq)
      BY <2>1, <3>1 DEF NodeSet
    <3>3. us[up] \in UploadSet(e.seq)
      BY <2>1, <2>3 DEF UploadsOK
    <3> QED  BY <2>3, <3>1, <3>2, <3>3
  <2> DEFINE c == [ns[id].content EXCEPT !.loc = op.loc]
             m == [us[up] EXCEPT !.moved = e.seq]
  <2>5. c \in ContentSet(e.seq) /\ c.up = up
    BY <2>1, <2>3, <2>4 DEF ContentSet
  <2>6. c # None
    <3> HIDE DEF c
    <3> QED  BY <2>3, <2>5, VersionIsSome
  <2>7. m \in UploadSet(e.seq) /\ m.status = "bound" /\ m.node = id
    BY <2>1, <2>4 DEF UploadSet
  <2>8. new = [ns EXCEPT ![id] = [ns[id] EXCEPT !.content = c]]
    BY <2>4 DEF NodeSet, ContentSet
  <2>9. ms = [us EXCEPT ![up] = m]
    BY <2>4 DEF UploadSet
  <2> HIDE DEF c, m, new, ms
  <2>10. /\ DOMAIN new = DOMAIN ns
         /\ \A n \in DOMAIN ns \ {id} : new[n] = ns[n]
         /\ new[id] \in NodeSet(e.seq) /\ new[id].content = c
         /\ new[id].kind = ns[id].kind /\ new[id].name = ns[id].name
         /\ new[id].parent = ns[id].parent /\ new[id].trashed = ns[id].trashed
    BY <2>1, <2>4, <2>5, <2>8 DEF NodeSet
  <2>11. TreeOK(new, e.seq)
    <3>1. \A n \in DOMAIN ns :
            /\ new[n] \in NodeSet(e.seq)
            /\ new[n].kind = ns[n].kind
            /\ new[n].name = ns[n].name
            /\ new[n].parent = ns[n].parent
            /\ new[n].trashed = 0 => ns[n].trashed = 0
            /\ n \in Roots => new[n].trashed = 0
      BY <2>3, <2>10 DEF TreeOK, Rooted
    <3> QED  BY <2>3, <2>10, <3>1, TouchKeepsTree
  <2>12. UploadsOK(ms, e.seq)
    BY <2>3, <2>7, <2>9 DEF UploadsOK
  <2>13. Bound([nodes |-> new, uploads |-> ms])
    <3>1. \A n \in DOMAIN ns :
            /\ new[n].kind = ns[n].kind
            /\ new[n].content = None <=> ns[n].content = None
            /\ new[n].content # None => new[n].content.up = ns[n].content.up
      BY <2>1, <2>5, <2>6, <2>10
    <3>2. /\ DOMAIN ms = DOMAIN us
          /\ \A u \in DOMAIN us : ms[u].status = us[u].status /\ ms[u].node = us[u].node
      BY <2>1, <2>7, <2>9
    <3>3. DOMAIN new = DOMAIN ns
      BY <2>10
    <3>4. Bound([nodes |-> ns, uploads |-> us])
      BY <2>3
    <3> HIDE DEF ns, us
    <3> QED  BY <3>1, <3>2, <3>3, <3>4, BoundDependsOn
  <2> QED  BY <2>2, <2>10, <2>11, <2>12, <2>13, IndexIsOK
<1> QED  BY <1>1, <1>2

-----------------------------------------------------------------------------
(* Entries                                                                 *)

\* applySingle keeps the index well formed, whatever the operation.
LEMMA ApplyOpKeeps ==
  ASSUME NEW ix, NEW e, NEW op, EntryOK(e), IndexOK(ix, e.seq), Unmade(ix.nodes, e), OpOK(op)
  PROVE  LET r == ApplyOp(ix, e, op)
         IN  IndexOK(r.ix, e.seq) /\ Joins(ix.nodes, r.ix.nodes, e)
<1> DEFINE r == ApplyOp(ix, e, op)
<1>1. CASE op.type = "create"
  BY <1>1, CreateKeeps DEF ApplyOp
<1>2. CASE op.type = "rename"
  BY <1>2, RenameKeeps DEF ApplyOp
<1>3. CASE op.type = "move"
  BY <1>3, MoveKeeps DEF ApplyOp
<1>4. CASE op.type = "trash"
  BY <1>4, TrashKeeps DEF ApplyOp
<1>5. CASE op.type = "restore"
  BY <1>5, RestoreKeeps DEF ApplyOp
<1>6. CASE op.type = "purge"
  BY <1>6, PurgeKeeps DEF ApplyOp
<1>7. CASE op.type = "new_content_version"
  BY <1>7, NewContentKeeps DEF ApplyOp
<1>8. CASE op.type = "upload_begin"
  <2>1. r = OpUploadBegin(ix, e, op)
    BY <1>8 DEF ApplyOp
  <2> QED  BY <1>8, <2>1, UploadBeginKeeps DEF Joins
<1>9. CASE op.type = "upload_commit"
  <2>1. r = OpUploadCommit(ix, e, op)
    BY <1>9 DEF ApplyOp
  <2> QED  BY <2>1, UploadCommitKeeps DEF Joins
<1>10. CASE op.type = "upload_abort"
  <2>1. r = OpUploadAbort(ix, e, op)
    BY <1>10 DEF ApplyOp
  <2> QED  BY <2>1, UploadAbortKeeps DEF Joins
<1>11. CASE op.type = "relocate"
  <2>1. r = OpRelocate(ix, e, op)
    BY <1>11 DEF ApplyOp
  <2> QED  BY <1>11, <2>1, RelocateKeeps DEF Joins
<1> QED  BY <1>1, <1>2, <1>3, <1>4, <1>5, <1>6, <1>7, <1>8, <1>9, <1>10, <1>11 DEF OpOK

\* Every derived node comes from the log up to h.
Made(ns, h) == \A x \in DOMAIN ns \cap DerivedId : x[2] <= h

\* After an operation the derived nodes are of this entry or an earlier one,
\* and of this place in its group or an earlier one.
LEMMA JoinsFacts ==
  ASSUME NEW ns, NEW new, NEW e, EntryOK(e), Unmade(ns, e), Joins(ns, new, e)
  PROVE  /\ Made(new, e.seq)
         /\ Unmade(new, [e EXCEPT !.sub = e.sub + 1])
<1>1. ASSUME NEW x \in DOMAIN new \cap DerivedId
      PROVE  x[2] < e.seq \/ (x[2] = e.seq /\ x[3] <= e.sub)
  <2>1. x \notin UserNode
    BY IdsAreDistinct
  <2>2. \/ x \in DOMAIN ns
        \/ x \in {<<"recovered", e.seq, e.sub>>, <<"conflict", e.seq, e.sub>>}
    BY <2>1 DEF Joins
  <2>3. e.seq \in Nat /\ e.sub \in Nat /\ x[2] \in Nat /\ x[3] \in Nat
    BY DEF EntryOK, DerivedId
  <2>4. CASE x \in DOMAIN ns
    BY <2>3, <2>4 DEF Unmade
  <2>5. CASE x \in {<<"recovered", e.seq, e.sub>>, <<"conflict", e.seq, e.sub>>}
    BY <2>3, <2>5
  <2> QED  BY <2>2, <2>4, <2>5
<1>2. Made(new, e.seq)
  BY <1>1 DEF Made, EntryOK, DerivedId
<1>3. Unmade(new, [e EXCEPT !.sub = e.sub + 1])
  <2> DEFINE f == [e EXCEPT !.sub = e.sub + 1]
  <2>1. f.seq = e.seq /\ f.sub = e.sub + 1 /\ e.sub \in Nat
    BY DEF EntryOK
  <2> HIDE DEF f
  <2>2. \A x \in DOMAIN new \cap DerivedId :
          x[2] < e.seq \/ (x[2] = e.seq /\ x[3] < e.sub + 1)
    BY <1>1, <2>1 DEF DerivedId
  <2> QED  BY <2>1, <2>2 DEF Unmade
<1> QED  BY <1>2, <1>3

\* Derived IDs made up to the head are not those the next entry makes.
LEMMA MadeIsUnmade ==
  ASSUME NEW ns, NEW h \in Nat, Made(ns, h), NEW e, e.seq = h + 1
  PROVE  Unmade(ns, e)
BY DEF Made, Unmade, DerivedId

\* The records of an index are those of a longer log too.
LEMMA IndexGrows ==
  ASSUME NEW ix, NEW h \in Nat, IndexOK(ix, h)
  PROVE  IndexOK(ix, h + 1)
<1>1. 0 .. h \subseteq 0 .. (h + 1)
  OBVIOUS
<1>2. MarkSet(h) \subseteq MarkSet(h + 1)
  BY <1>1 DEF MarkSet
<1>3. ContentSet(h) \subseteq ContentSet(h + 1)
  BY <1>1 DEF ContentSet
<1>4. NodeSet(h) \subseteq NodeSet(h + 1)
  BY <1>1, <1>2, <1>3 DEF NodeSet
<1>5. UploadSet(h) \subseteq UploadSet(h + 1)
  BY <1>1 DEF UploadSet
<1>6. TreeOK(ix.nodes, h + 1)
  BY <1>4 DEF IndexOK, TreeOK
<1>7. UploadsOK(ix.uploads, h + 1)
  BY <1>5 DEF IndexOK, UploadsOK
<1> QED  BY <1>6, <1>7 DEF IndexOK

\* systemNode builds a record of the typed set.
LEMMA SystemFolderIsNode ==
  ASSUME NEW h \in Nat
  PROVE  SystemFolder \in NodeSet(h)
<1>1. <<None, <<>>>> \in NameSet
  <2>1. <<>> \in Seq(Nat)
    OBVIOUS
  <2> QED  BY <2>1 DEF NameSet
<1>2. 0 \in 0 .. h
  OBVIOUS
<1>3. [seq |-> 0, dev |-> System] \in MarkSet(h)
  BY <1>2 DEF MarkSet
<1> QED  BY <1>1, <1>2, <1>3 DEF SystemFolder, NodeSet

\* ensureGalleryRoot keeps the index well formed.
LEMMA WithGalleryKeeps ==
  ASSUME NEW ix, NEW e, EntryOK(e), IndexOK(ix, e.seq), Unmade(ix.nodes, e)
  PROVE  LET start == WithGallery(ix, e)
         IN  IndexOK(start, e.seq) /\ Unmade(start.nodes, e)
<1> DEFINE ns    == ix.nodes
           new   == Put(ns, GALLERY, SystemFolder)
           start == WithGallery(ix, e)
<1>1. CASE start = ix
  BY <1>1
<1>2. CASE start # ix
  <2>1. GALLERY \notin DOMAIN ns /\ start = [ix EXCEPT !.nodes = new]
    BY <1>2 DEF WithGallery
  <2>2. e.seq \in Nat /\ TreeOK(ns, e.seq)
    BY DEF EntryOK, IndexOK
  <2>3. TreeOK(new, e.seq)
    BY <2>1, <2>2, SystemFolderIsNode, GalleryKeepsTree
  <2>4. /\ DOMAIN new = DOMAIN ns \cup {GALLERY}
        /\ new[GALLERY] = SystemFolder
        /\ \A n \in DOMAIN ns : new[n] = ns[n]
    BY <2>1 DEF Put
  <2> HIDE DEF new
  <2>5. Unmade(new, e)
    BY <2>4, IdsAreDistinct DEF Unmade, Roots
  <2>6. Bound([nodes |-> new, uploads |-> ix.uploads])
    <3>1. Bound([nodes |-> ns, uploads |-> ix.uploads])
      BY DEF IndexOK, Bound
    <3>2. new[GALLERY].kind # "file" /\ new[GALLERY].content = None
      BY <2>4 DEF SystemFolder
    <3> QED  BY <2>1, <2>4, <3>1, <3>2, PlainNodeKeepsBound
  <2>7. start.nodes = new /\ start.uploads = ix.uploads
    BY <2>1
  <2> HIDE DEF start
  <2>8. Unmade(start.nodes, e) /\ TreeOK(start.nodes, e.seq)
    BY <2>3, <2>5, <2>7
  <2>9. UploadsOK(start.uploads, e.seq)
    BY <2>7 DEF IndexOK
  <2>10. Bound(start)
    BY <2>6, <2>7 DEF Bound
  <2> QED  BY <2>8, <2>9, <2>10 DEF IndexOK, start
<1> QED  BY <1>1, <1>2

\* A member of a group keeps the index well formed.
LEMMA MemberKeeps ==
  ASSUME NEW ix, NEW e, NEW ops, NEW i \in Nat \ {0}, EntryOK(e), OpOK(ops[i]),
         IndexOK(ix, e.seq), Unmade(ix.nodes, [e EXCEPT !.sub = i - 1])
  PROVE  LET r == Member(ix, e, ops, i)
         IN  /\ IndexOK(r.ix, e.seq)
             /\ Made(r.ix.nodes, e.seq)
             /\ Unmade(r.ix.nodes, [e EXCEPT !.sub = i])
<1> DEFINE f == [e EXCEPT !.sub = i - 1]
           r == ApplyOp(ix, f, ops[i])
<1>1. EntryOK(f) /\ f.seq = e.seq /\ f.sub = i - 1
  BY DEF EntryOK
<1>2. Unmade(ix.nodes, f)
  OBVIOUS
<1>3. [f EXCEPT !.sub = f.sub + 1] = [e EXCEPT !.sub = i]
  <2>1. f.sub + 1 = i
    BY <1>1
  <2>2. [f EXCEPT !.sub = i] = [e EXCEPT !.sub = i]
    BY DEF EntryOK
  <2> QED  BY <2>1, <2>2
<1> HIDE DEF f
<1>4. IndexOK(r.ix, e.seq) /\ Joins(ix.nodes, r.ix.nodes, f)
  BY <1>1, <1>2, ApplyOpKeeps
<1>5. Made(r.ix.nodes, e.seq) /\ Unmade(r.ix.nodes, [f EXCEPT !.sub = f.sub + 1])
  <2>1. Made(r.ix.nodes, f.seq) /\ Unmade(r.ix.nodes, [f EXCEPT !.sub = f.sub + 1])
    BY <1>1, <1>2, <1>4, JoinsFacts
  <2> QED  BY <1>1, <2>1
<1>6. Member(ix, e, ops, i) = r
  BY DEF Member, f
<1> QED  BY <1>3, <1>4, <1>5, <1>6

\* An entry of one or two operations leaves the index well formed: the derived
\* IDs of its first member differ from those of its second.
LEMMA MembersKeep ==
  ASSUME NEW ix, NEW h \in Nat, IndexOK(ix, h), Made(ix.nodes, h),
         NEW e, EntryOK(e), e.seq = h + 1, e.sub = 0,
         NEW ops, Len(ops) = 1 \/ Len(ops) = 2, OpOK(ops[1]), Len(ops) = 2 => OpOK(ops[2])
  PROVE  LET r1 == Member(WithGallery(ix, e), e, ops, 1)
             r2 == IF Len(ops) = 1 THEN r1 ELSE Member(r1.ix, e, ops, 2)
         IN  IndexOK(r2.ix, e.seq) /\ Made(r2.ix.nodes, e.seq)
<1> DEFINE start == WithGallery(ix, e)
           r1 == Member(start, e, ops, 1)
           r2 == Member(r1.ix, e, ops, 2)
<1>1. IndexOK(ix, e.seq) /\ Unmade(ix.nodes, e)
  BY IndexGrows, MadeIsUnmade
<1>2. IndexOK(start, e.seq) /\ Unmade(start.nodes, e)
  BY <1>1, WithGalleryKeeps
<1>3. [e EXCEPT !.sub = 1 - 1] = e /\ [e EXCEPT !.sub = 2 - 1] = [e EXCEPT !.sub = 1]
  BY DEF EntryOK
<1> HIDE DEF start
<1>4. /\ IndexOK(r1.ix, e.seq)
      /\ Made(r1.ix.nodes, e.seq)
      /\ Unmade(r1.ix.nodes, [e EXCEPT !.sub = 1])
  BY <1>2, <1>3, MemberKeeps
<1> HIDE DEF r1
<1>5. CASE Len(ops) = 2
  <2>1. Unmade(r1.ix.nodes, [e EXCEPT !.sub = 2 - 1]) /\ 2 \in Nat \ {0}
    BY <1>3, <1>4
  <2>2. IndexOK(r2.ix, e.seq) /\ Made(r2.ix.nodes, e.seq)
    BY <1>4, <1>5, <2>1, MemberKeeps
  <2> QED  BY <1>5, <2>2 DEF r1, start
<1>6. CASE Len(ops) = 1
  BY <1>4, <1>6 DEF r1, start
<1> QED  BY <1>5, <1>6
=============================================================================
