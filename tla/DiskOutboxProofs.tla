-------------------------- MODULE DiskOutboxProofs --------------------------
(***************************************************************************)
(* What the queue of the virtual disk keeps, for any names, any number of  *)
(* saves, moves, failures and ends of the app: its types, that a copy the  *)
(* user still wants leaves it only for the account, and, as long as        *)
(* nothing fails or crosses, what the account ends with.                   *)
(***************************************************************************)
EXTENDS DiskOutbox, FiniteSetTheorems, WellFoundedInduction, TLAPS

Node == [name : Name \cup {Spare}, live : BOOLEAN, content : Save]
Item == [name : Name, trashed : BOOLEAN, fresh : BOOLEAN, late : BOOLEAN]

\* The nodes of an account are numbered in the order they were made.
Account(ns) == \E n \in Nat : ns \in [1 .. n -> Node]

Calls == [op : {"none", "remove", "rename"}, node : Nat, there : Nat, to : Name \cup {Spare}]

\* A queue and what is on this computer of it.
Queue(its, dsk) ==
  /\ its \in [DOMAIN dsk -> Item] /\ DOMAIN dsk \subseteq Save
  /\ \A k \in DOMAIN dsk : dsk[k] = its[k].name

\* A call is about nodes the account has.
CallOn(ns, c) == c \in Calls /\ {c.node, c.there} \subseteq DOMAIN ns \cup {0}

\* The types, with those of the numbers that TypeOK leaves out.
Typing ==
  /\ Queue(items, disk)
  /\ running \in BOOLEAN /\ troubled \in BOOLEAN
  /\ upload \in [step : {"none", "made", "sent", "stored", "after"},
                 n : Save \cup {0}, name : Name \cup {Spare}, node : Nat]
  /\ upload.step \in {"made", "sent", "stored"} => upload.n \in DOMAIN items
  /\ Account(nodes) /\ upload.node \in DOMAIN nodes \cup {0}
  /\ CallOn(nodes, call) /\ CallOn(nodes, after)
  /\ (upload.step = "after") = (after # NoCall)
  /\ folders \subseteq Name
  /\ want \in [Name -> Save \cup {0}]
  /\ count \in [saves : Nat, moves : Nat, fails : Nat, crashes : Nat]

\* What an upload has stored is in the account until the queue lets its copy go.
StoredIsThere == upload.step = "stored" => \E i \in DOMAIN nodes : nodes[i].content = upload.n

-----------------------------------------------------------------------------
(* Numbers                                                                 *)

\* A non-empty set of numbers up to N has a least one.
LEMMA LeastOf ==
  ASSUME NEW N \in Nat, NEW T \in SUBSET (0 .. N), T # {}
  PROVE  \E i \in T : \A j \in T : i <= j
<1> DEFINE Seg(i) == {j \in T : j <= i}
           Segs == {Seg(i) : i \in T}
<1>1. IsFiniteSet(T)
  <2>1. IsFiniteSet(0 .. N)
    BY FS_Interval
  <2> QED  BY <2>1, FS_Subset
<1>2. IsWellFoundedOn(StrictSubsetOrdering(T), FiniteSubsetsOf(T)) /\ FiniteSubsetsOf(T) = SUBSET T
  BY <1>1, FS_StrictSubsetOrderingWellFounded, FS_FiniteSubsetsOfFinite
<1>3. Segs \subseteq FiniteSubsetsOf(T) /\ Segs # {}
  <2>1. \A i \in T : Seg(i) \in SUBSET T
    OBVIOUS
  <2>2. Segs \subseteq SUBSET T
    <3> HIDE DEF Seg
    <3> QED  BY <2>1
  <2>3. PICK i : i \in T
    OBVIOUS
  <2>4. Seg(i) \in Segs
    BY <2>3
  <2> QED  BY <1>2, <2>2, <2>4
<1>4. PICK x \in Segs : \A y \in Segs : <<y, x>> \notin StrictSubsetOrdering(T)
  <2> HIDE DEF Segs
  <2> QED  BY <1>2, <1>3, WFMin
<1>5. PICK i \in T : x = Seg(i)
  OBVIOUS
<1>6. ASSUME NEW j \in T, j < i  PROVE FALSE
  <2>1. i \in Nat /\ j \in Nat /\ \A k \in T : k \in Nat
    OBVIOUS
  <2>2. Seg(j) \subseteq Seg(i) /\ Seg(j) # Seg(i)
    <3>1. i \in Seg(i) /\ i \notin Seg(j)
      BY <1>6, <2>1
    <3>2. ASSUME NEW k \in Seg(j)  PROVE k \in Seg(i)
      <4>1. k \in T /\ k <= j
        OBVIOUS
      <4> QED  BY <1>6, <2>1, <4>1
    <3> QED  BY <3>1, <3>2
  <2>3. <<Seg(j), Seg(i)>> \in StrictSubsetOrdering(T)
    BY <2>2 DEF StrictSubsetOrdering
  <2> QED  BY <1>4, <1>5, <2>3
<1> QED  BY <1>6

\* And a greatest one.
LEMMA GreatestOf ==
  ASSUME NEW N \in Nat, NEW T \in SUBSET (0 .. N), T # {}
  PROVE  \E i \in T : \A j \in T : j <= i
<1> DEFINE R == {N - i : i \in T}
<1>1. R \in SUBSET (0 .. N) /\ R # {}
  <2>1. \A i \in T : N - i \in 0 .. N
    OBVIOUS
  <2>2. PICK i : i \in T
    OBVIOUS
  <2>3. N - i \in R
    BY <2>2
  <2> QED  BY <2>1, <2>3
<1>2. PICK r \in R : \A s \in R : r <= s
  <2> HIDE DEF R
  <2> QED  BY <1>1, LeastOf
<1>3. PICK i \in T : r = N - i
  OBVIOUS
<1>4. ASSUME NEW j \in T  PROVE j <= i
  <2>1. N - j \in R
    OBVIOUS
  <2>2. r <= N - j
    BY <1>2, <2>1
  <2> QED  BY <1>3, <2>2
<1> QED  BY <1>4

\* Which copy is first, or newest.
LEMMA CopiesAreOrdered ==
  ASSUME NEW S \in SUBSET Save, S # {}
  PROVE  /\ Newest(S) \in S /\ \A j \in S : j <= Newest(S)
         /\ (CHOOSE k \in S : \A j \in S : k <= j) \in S
<1>1. MaxSaves \in Nat
  BY BoundsAreNumbers
<1>2. S \in SUBSET (0 .. MaxSaves)
  BY <1>1 DEF Save
<1> QED  BY <1>1, <1>2, LeastOf, GreatestOf DEF Newest

-----------------------------------------------------------------------------
(* The account                                                             *)

\* The account's file of a name is one of its live nodes.
LEMMA ChildIsLive ==
  ASSUME NEW ns, Account(ns), NEW x
  PROVE  /\ Child(ns, x) \in DOMAIN ns \cup {0} /\ Child(ns, x) \in Nat
         /\ Child(ns, x) # 0 => ns[Child(ns, x)].live /\ ns[Child(ns, x)].name = x
         /\ Child(ns, x) = 0 => \A i \in DOMAIN ns : ~(ns[i].live /\ ns[i].name = x)
<1> DEFINE mine == {i \in DOMAIN ns : ns[i].live /\ ns[i].name = x}
<1>1. \A i \in DOMAIN ns : i \in Nat /\ i # 0
  BY DEF Account
<1>2. Child(ns, x) = IF mine = {} THEN 0 ELSE CHOOSE i \in mine : TRUE
  BY DEF Child
<1>3. CASE mine = {}
  <2>1. Child(ns, x) = 0
    BY <1>2, <1>3
  <2>2. \A i \in DOMAIN ns : ~(ns[i].live /\ ns[i].name = x)
    BY <1>3
  <2> QED  BY <2>1, <2>2
<1>4. CASE mine # {}
  <2> HIDE DEF mine
  <2>1. Child(ns, x) \in mine
    BY <1>2, <1>4
  <2>2. Child(ns, x) \in DOMAIN ns /\ ns[Child(ns, x)].live /\ ns[Child(ns, x)].name = x
    BY <2>1 DEF mine
  <2> QED  BY <1>1, <2>2
<1> QED  BY <1>3, <1>4

\* Two states of the account differ in their nodes' names and places at most.
SameContent(ns, ms) == DOMAIN ms = DOMAIN ns /\ \A i \in DOMAIN ns : ms[i].content = ns[i].content

\* A node that keeps its content is all that changes.
LEMMA OneNodeChanges ==
  ASSUME NEW k \in Nat, NEW ms \in [1 .. k -> Node], NEW i, NEW r \in Node, r.content = ms[i].content,
         NEW ns, ns = [ms EXCEPT ![i] = r]
  PROVE  Account(ns) /\ SameContent(ms, ns)
<1>1. ns \in [1 .. k -> Node]
  OBVIOUS
<1>2. \A j \in 1 .. k : ns[j].content = ms[j].content
  OBVIOUS
<1> QED  BY <1>1, <1>2 DEF Account, SameContent

\* No call makes, moves or changes content.
LEMMA CallsKeepContent ==
  ASSUME NEW ns, Account(ns), NEW c \in Calls
  PROVE  /\ Account(Performed(ns, c)) /\ SameContent(ns, Performed(ns, c))
         /\ \A ms \in PerformedInPart(ns, c) : Account(ms) /\ SameContent(ns, ms)
<1>1. ASSUME NEW ms, Account(ms), NEW i \in Nat
      PROVE  Account(Trashed(ms, i)) /\ SameContent(ms, Trashed(ms, i))
  <2>1. PICK k \in Nat : ms \in [1 .. k -> Node]
    BY <1>1 DEF Account
  <2>2. CASE i \in 1 .. k
    <3> DEFINE r == [ms[i] EXCEPT !.live = FALSE]
    <3>1. ms[i] \in Node
      BY <2>1, <2>2
    <3>2. r \in Node /\ r.content = ms[i].content
      BY <3>1 DEF Node
    <3>3. Trashed(ms, i) = [ms EXCEPT ![i] = r]
      BY <2>1, <2>2 DEF Trashed
    <3> HIDE DEF r
    <3> QED  BY <2>1, <3>2, <3>3, OneNodeChanges
  <2>3. CASE i \notin 1 .. k
    <3>1. Trashed(ms, i) = ms
      BY <2>1, <2>3 DEF Trashed
    <3> QED  BY <1>1, <3>1 DEF SameContent
  <2> QED  BY <2>2, <2>3
<1>2. ASSUME NEW ms, Account(ms), NEW i \in Nat, NEW x \in Name \cup {Spare}
      PROVE  Account(Renamed(ms, i, x)) /\ SameContent(ms, Renamed(ms, i, x))
  <2> DEFINE y == IF ms[i].live THEN FreeName(ms, i, x) ELSE x
  <2>1. y \in Name \cup {Spare}
    BY DEF FreeName
  <2>2. Renamed(ms, i, x) = [ms EXCEPT ![i].name = y]
    BY DEF Renamed
  <2> HIDE DEF y
  <2>3. PICK k \in Nat : ms \in [1 .. k -> Node]
    BY <1>2 DEF Account
  <2>4. CASE i \in 1 .. k
    <3> DEFINE r == [ms[i] EXCEPT !.name = y]
    <3>1. ms[i] \in Node
      BY <2>3, <2>4
    <3>2. r \in Node /\ r.content = ms[i].content
      BY <2>1, <3>1 DEF Node
    <3>3. [ms EXCEPT ![i].name = y] = [ms EXCEPT ![i] = r]
      BY <2>3, <2>4
    <3> HIDE DEF r
    <3> QED  BY <2>2, <2>3, <3>2, <3>3, OneNodeChanges
  <2>5. CASE i \notin 1 .. k
    <3>1. Renamed(ms, i, x) = ms
      BY <2>2, <2>3, <2>5
    <3> QED  BY <1>2, <3>1 DEF SameContent
  <2> QED  BY <2>4, <2>5
<1>3. c.node \in Nat /\ c.there \in Nat /\ c.to \in Name \cup {Spare}
  BY DEF Calls
<1>4. Account(Trashed(ns, c.there)) /\ SameContent(ns, Trashed(ns, c.there))
  BY <1>1, <1>3
<1>5. /\ Account(Renamed(Trashed(ns, c.there), c.node, c.to))
      /\ SameContent(Trashed(ns, c.there), Renamed(Trashed(ns, c.there), c.node, c.to))
  BY <1>2, <1>3, <1>4
<1>6. Account(Performed(ns, c)) /\ SameContent(ns, Performed(ns, c))
  BY <1>1, <1>3, <1>4, <1>5 DEF Performed, SameContent
<1>7. ASSUME NEW ms \in PerformedInPart(ns, c)  PROVE Account(ms) /\ SameContent(ns, ms)
  BY <1>4, <1>7 DEF PerformedInPart, SameContent
<1> QED  BY <1>6, <1>7

\* A commit stores the content, in a node that was there or a new one.
LEMMA CommitStores ==
  ASSUME NEW ns, Account(ns), NEW i \in DOMAIN ns \cup {0}, NEW x \in Name \cup {Spare}, NEW n \in Save
  PROVE  /\ Account(Stored(ns, i, x, n))
         /\ DOMAIN ns \subseteq DOMAIN Stored(ns, i, x, n)
         /\ \E j \in DOMAIN Stored(ns, i, x, n) : Stored(ns, i, x, n)[j].content = n
<1>1. PICK k \in Nat : ns \in [1 .. k -> Node]
  BY DEF Account
<1>2. CASE i = 0
  <2> DEFINE r == [name |-> FreeName(ns, 0, x), live |-> TRUE, content |-> n]
  <2>1. Cardinality(DOMAIN ns) = k
    BY <1>1, FS_Interval
  <2>2. r \in Node /\ r.content = n
    BY DEF FreeName, Node
  <2>3. Stored(ns, i, x, n) = With(ns, k + 1, r)
    BY <1>2, <2>1 DEF Stored
  <2> HIDE DEF r
  <2>4. With(ns, k + 1, r) \in [1 .. k + 1 -> Node] /\ With(ns, k + 1, r)[k + 1] = r
    BY <1>1, <2>2 DEF With
  <2> QED  BY <1>1, <2>2, <2>3, <2>4 DEF Account
<1>3. CASE i # 0
  <2> DEFINE r == [live |-> TRUE, content |-> n,
                   name |-> IF ns[i].live THEN ns[i].name ELSE FreeName(ns, i, ns[i].name)]
  <2>1. i \in 1 .. k /\ ns[i] \in Node
    BY <1>1, <1>3
  <2>2. r \in Node /\ r.content = n
    BY <2>1 DEF FreeName, Node
  <2>3. Stored(ns, i, x, n) = [ns EXCEPT ![i] = r]
    BY <1>3 DEF Stored
  <2> HIDE DEF r
  <2> QED  BY <1>1, <2>1, <2>2, <2>3 DEF Account
<1> QED  BY <1>2, <1>3

-----------------------------------------------------------------------------
(* The queue                                                               *)

\* Copies leave together with what is on the computer of them.
LEMMA WithoutIsQueue ==
  ASSUME NEW its, NEW dsk, Queue(its, dsk), NEW S
  PROVE  /\ Queue(Without(its, S), Without(dsk, S))
         /\ DOMAIN Without(its, S) = DOMAIN its \ S
         /\ \A k \in DOMAIN its \ S : Without(its, S)[k] = its[k]
BY DEF Queue, Without

\* A copy enters it with the name that is written next to it.
LEMMA WithIsQueue ==
  ASSUME NEW its, NEW dsk, Queue(its, dsk), NEW n \in Save, NEW it \in Item
  PROVE  /\ Queue(With(its, n, it), With(dsk, n, it.name))
         /\ DOMAIN With(its, n, it) = DOMAIN its \cup {n}
BY DEF Queue, With

\* Copies change what is in memory of them, but for the name.
LEMMA ChangedIsQueue ==
  ASSUME NEW its, NEW jts, NEW dsk, Queue(its, dsk), jts \in [DOMAIN dsk -> Item],
         \A k \in DOMAIN dsk : jts[k].name = its[k].name
  PROVE  Queue(jts, dsk)
BY DEF Queue

\* What the helper and the loop ask of the account is about its nodes.
LEMMA AskedOfTheAccount ==
  ASSUME Account(nodes), NEW x, NEW y \in Name
  PROVE  /\ CallOn(nodes, NoCall) /\ CallOn(nodes, ToRemove(x)) /\ CallOn(nodes, ToRename(x, y))
         /\ Child(nodes, x) # 0 => ToRemove(x) # NoCall /\ ToRename(x, y) # NoCall
<1>1. \A z : Child(nodes, z) \in DOMAIN nodes \cup {0} /\ Child(nodes, z) \in Nat
  BY ChildIsLive
<1> QED  BY <1>1 DEF CallOn, Calls, NoCall, ToRemove, ToRename

LEMMA InitTyping == Init => Typing /\ StoredIsThere
<1> SUFFICES ASSUME Init  PROVE Typing /\ StoredIsThere
  OBVIOUS
<1>1. Queue(items, disk) /\ CallOn(nodes, call) /\ CallOn(nodes, after)
  BY DEF Init, Queue, CallOn, Calls, NoCall
<1>2. Account(nodes)
  <2>1. nodes \in [1 .. 0 -> Node]
    BY DEF Init
  <2> QED  BY <2>1 DEF Account
<1>3. count \in [saves : Nat, moves : Nat, fails : Nat, crashes : Nat]
  BY DEF Init, Zero
<1> QED  BY <1>1, <1>2, <1>3 DEF Init, Typing, StoredIsThere, NoUpload, NoCall

LEMMA TypingIsTypeOK == Typing => TypeOK
<1> SUFFICES ASSUME Typing  PROVE TypeOK
  OBVIOUS
<1>1. nodes \in [1 .. Cardinality(DOMAIN nodes) -> Node]
  <2>1. PICK n \in Nat : nodes \in [1 .. n -> Node]
    BY DEF Typing, Account
  <2>2. Cardinality(DOMAIN nodes) = n
    BY <2>1, FS_Interval
  <2> QED  BY <2>1, <2>2
<1> QED  BY <1>1 DEF Typing, TypeOK, Queue, CallOn, Item, Node

-----------------------------------------------------------------------------
(* The steps                                                               *)

\* What the user does: the queue changes, and what is asked of the account.
LEMMA UserKeepsTyping ==
  ASSUME Typing, StoredIsThere, User
  PROVE  Typing' /\ StoredIsThere'
<1>1. MaxSaves \in Nat /\ Account(nodes) /\ Queue(items, disk) /\ DOMAIN items = DOMAIN disk
  BY BoundsAreNumbers DEF Typing, Queue
<1>2. ASSUME NEW x \in Name, Add(x)
      PROVE  Typing' /\ StoredIsThere'
  <2> DEFINE n == count.saves + 1
             it == [name |-> x, trashed |-> FALSE, fresh |-> TRUE, late |-> FALSE]
             S == Replaced(x)
  <2>1. /\ n \in Save /\ it \in Item
        /\ items' = With(Without(items, S), n, it)
        /\ disk' = With(Without(disk, S), n, it.name)
    BY <1>2 DEF Add, Item
  <2>2. S \cap Current = {}
    BY DEF Replaced
  <2> HIDE DEF S, it, n
  <2>3. /\ Queue(items', disk') /\ DOMAIN items \ S \subseteq DOMAIN items'
    <3> DEFINE its == Without(items, S)
               dsk == Without(disk, S)
    <3>1. Queue(its, dsk) /\ DOMAIN its = DOMAIN items \ S
      BY <1>1, WithoutIsQueue
    <3>2. items' = With(its, n, it) /\ disk' = With(dsk, n, it.name) /\ n \in Save /\ it \in Item
      BY <2>1
    <3> HIDE DEF its, dsk
    <3>3. Queue(With(its, n, it), With(dsk, n, it.name)) /\ DOMAIN With(its, n, it) = DOMAIN its \cup {n}
      BY <3>1, <3>2, WithIsQueue
    <3> QED  BY <3>1, <3>2, <3>3
  <2>4. upload.step \in {"made", "sent", "stored"} => upload.n \in DOMAIN items'
    <3>1. upload.n \in DOMAIN items => upload.n \in Current
      BY <1>1 DEF Queue, Current, Save
    <3> QED  BY <2>2, <2>3, <3>1 DEF Typing
  <2>5. count' \in [saves : Nat, moves : Nat, fails : Nat, crashes : Nat]
    BY <1>2 DEF Add, Count, Typing
  <2>6. running' \in BOOLEAN /\ want' \in [Name -> Save \cup {0}]
    BY <1>2, <2>1 DEF Add, Typing
  <2>7. UNCHANGED <<upload, call, after, nodes, folders, troubled>>
    BY <1>2 DEF Add
  <2> QED  BY <2>3, <2>4, <2>5, <2>6, <2>7 DEF Typing, StoredIsThere
<1>3. ASSUME NEW x \in Name, Remove(x)
      PROVE  Typing' /\ StoredIsThere'
  <2> DEFINE S == Pending(x) \ Current
             jts == [k \in DOMAIN items |->
                       IF k \in Pending(x) THEN [items[k] EXCEPT !.trashed = TRUE] ELSE items[k]]
  <2>1. items' = Without(jts, S) /\ disk' = Without(disk, S)
    BY <1>3 DEF Remove, RemovePending
  <2>2. Queue(jts, disk)
    BY <1>1 DEF Queue, Item
  <2>3. S \cap Current = {} /\ DOMAIN jts = DOMAIN items
    OBVIOUS
  <2> HIDE DEF S, jts
  <2>4. Queue(items', disk') /\ DOMAIN items' = DOMAIN items \ S
    BY <2>1, <2>2, <2>3, WithoutIsQueue
  <2>5. upload.step \in {"made", "sent", "stored"} => upload.n \in DOMAIN items'
    <3>1. upload.n \in DOMAIN items => upload.n \in Current
      BY <1>1 DEF Queue, Current, Save
    <3> QED  BY <2>3, <2>4, <3>1 DEF Typing
  <2>6. count' \in [saves : Nat, moves : Nat, fails : Nat, crashes : Nat]
    BY <1>3 DEF Remove, Moves, Count, Typing
  <2>7. want' \in [Name -> Save \cup {0}] /\ troubled' \in BOOLEAN
    BY <1>3 DEF Remove, Typing
  <2>8. CallOn(nodes, call')
    BY <1>1, <1>3, AskedOfTheAccount DEF Remove
  <2>9. UNCHANGED <<running, upload, after, nodes, folders>>
    BY <1>3 DEF Remove, Moves
  <2> QED  BY <2>4, <2>5, <2>6, <2>7, <2>8, <2>9 DEF Typing, StoredIsThere
<1>4. ASSUME NEW x \in Name, NEW y \in Name, Rename(x, y)
      PROVE  Typing' /\ StoredIsThere'
  <2>1. Queue(items', disk') /\ DOMAIN items' = DOMAIN items
    BY <1>1, <1>4 DEF Rename, RenamePending, Queue, Item
  <2>2. count' \in [saves : Nat, moves : Nat, fails : Nat, crashes : Nat]
    BY <1>4 DEF Rename, Moves, Count, Typing
  <2>3. Shown(x) \in Save
    <3>1. Shown(x) # 0
      BY <1>4 DEF Rename, Moves
    <3>2. CASE Pending(x) # {}
      <4>1. Pending(x) \in SUBSET Save
        BY <1>1 DEF Pending, Queue
      <4> QED  BY <3>2, <4>1, CopiesAreOrdered DEF Shown
    <3>3. CASE Pending(x) = {}
      <4>1. Child(nodes, x) \in DOMAIN nodes
        BY <1>1, <3>1, <3>3, ChildIsLive DEF Shown
      <4>2. nodes[Child(nodes, x)].content \in Save
        BY <1>1, <4>1 DEF Account, Node
      <4> QED  BY <3>1, <3>3, <4>2 DEF Shown
    <3> QED  BY <3>2, <3>3
  <2>4. want' \in [Name -> Save \cup {0}]
    BY <1>4, <2>3 DEF Rename, Exchange, Typing
  <2>5. running' \in BOOLEAN
    BY <1>4 DEF Rename, RenamePending, Typing
  <2>6. troubled' \in BOOLEAN
    BY <1>4 DEF Rename, Typing
  <2>7. CallOn(nodes, call')
    <3>1. call' \in {call, NoCall, ToRename(x, y)}
      BY <1>4 DEF Rename
    <3> QED  BY <1>1, <1>4, <3>1, AskedOfTheAccount DEF Typing
  <2>8. UNCHANGED <<upload, after, nodes, folders>>
    BY <1>4 DEF Rename, Moves
  <2> QED  BY <2>1, <2>2, <2>4, <2>5, <2>6, <2>7, <2>8 DEF Typing, StoredIsThere
<1> QED  BY <1>2, <1>3, <1>4 DEF User

\* The account's answers.
LEMMA RequestKeepsTyping ==
  ASSUME Typing, StoredIsThere, Request
  PROVE  Typing' /\ StoredIsThere'
<1>1. Account(nodes) /\ call \in Calls
  BY DEF Typing, CallOn
<1>2. Account(nodes') /\ SameContent(nodes, nodes')
  BY <1>1, CallsKeepContent DEF Request, Answered, NotAnswered
<1>3. call' = NoCall /\ CallOn(nodes', NoCall)
  BY DEF Request, Answered, NotAnswered, CallOn, Calls, NoCall
<1>4. count' \in [saves : Nat, moves : Nat, fails : Nat, crashes : Nat]
  BY DEF Request, Answered, NotAnswered, Fails, Count, Typing
<1>5. troubled' \in BOOLEAN
  BY DEF Request, Answered, NotAnswered, Fails, Typing
<1>6. UNCHANGED <<items, disk, running, upload, after, folders, want>>
  BY DEF Request, Answered, NotAnswered
<1> QED  BY <1>2, <1>3, <1>4, <1>5, <1>6 DEF Typing, StoredIsThere, SameContent, CallOn

\* The loop of the queue.
LEMMA LoopKeepsTyping ==
  ASSUME Typing, StoredIsThere, Loop
  PROVE  Typing' /\ StoredIsThere'
<1>1. Account(nodes) /\ Queue(items, disk) /\ DOMAIN items = DOMAIN disk /\ DOMAIN items \subseteq Save
      /\ NoUpload \in [step : {"none", "made", "sent", "stored", "after"},
                       n : Save \cup {0}, name : Name \cup {Spare}, node : Nat]
      /\ CallOn(nodes, NoCall) /\ 0 \notin Save
  BY DEF Typing, Queue, CallOn, Calls, NoCall, NoUpload, Save
<1>2. CASE Start
  <2>1. Ready \in SUBSET Save /\ Ready # {}
    BY <1>1, <1>2 DEF Start, MayStart, Ready, Waiting
  <2>2. First \in Ready
    BY <2>1, CopiesAreOrdered DEF First
  <2>3. First \in DOMAIN items /\ items[First].name \in Name /\ First \in Save
    BY <1>1, <2>1, <2>2 DEF Ready, Waiting, Queue, Item
  <2> QED  BY <1>2, <2>3 DEF Start, MayStart, AtRest, NoUpload, Typing, StoredIsThere
<1>3. CASE Open
  <2>1. Child(nodes, upload.name) \in DOMAIN nodes \cup {0} /\ Child(nodes, upload.name) \in Nat
    BY <1>1, ChildIsLive
  <2>2. troubled' \in BOOLEAN
    BY <1>3 DEF Open, Typing
  <2> QED  BY <1>3, <2>1, <2>2 DEF Open, Typing, StoredIsThere
<1>4. CASE Refused \/ Failed
  <2>1. upload' = NoUpload /\ UNCHANGED <<running, call, after, nodes, folders>> /\ upload.step # "after"
    BY <1>4 DEF Refused, Failed
  <2>2. Queue(items', disk')
    <3>1. CASE Refused
      BY <1>1, <3>1, WithoutIsQueue DEF Refused, Drop
    <3>2. CASE Failed
      <4>1. items' = [items EXCEPT ![upload.n].late = TRUE] /\ UNCHANGED disk
        BY <3>2 DEF Failed
      <4>2. items' \in [DOMAIN disk -> Item] /\ \A k \in DOMAIN disk : items'[k].name = items[k].name
        <5>1. upload.n \in DOMAIN disk
          BY <1>1, <3>2 DEF Failed, Typing
        <5>2. items[upload.n] \in Item
          BY <1>1, <5>1 DEF Queue
        <5>3. [items[upload.n] EXCEPT !.late = TRUE] \in Item
              /\ [items[upload.n] EXCEPT !.late = TRUE].name = items[upload.n].name
          BY <5>2 DEF Item
        <5>4. items' = [items EXCEPT ![upload.n] = [items[upload.n] EXCEPT !.late = TRUE]]
              /\ items \in [DOMAIN disk -> Item]
          BY <1>1, <4>1 DEF Queue
        <5> QED  BY <5>1, <5>3, <5>4
      <4> QED  BY <1>1, <4>1, <4>2, ChangedIsQueue
    <3> QED  BY <1>4, <3>1, <3>2
  <2>3. want' \in [Name -> Save \cup {0}]
    BY <1>4 DEF Refused, Failed, Typing
  <2>4. count' \in [saves : Nat, moves : Nat, fails : Nat, crashes : Nat]
    BY <1>4 DEF Refused, Failed, Fails, Count, Typing
  <2>5. troubled' \in BOOLEAN
    BY <1>4 DEF Refused, Failed, Fails, Typing
  <2> QED  BY <1>1, <2>1, <2>2, <2>3, <2>4, <2>5 DEF Typing, StoredIsThere, NoUpload
<1>5. CASE Commit
  <2>1. upload.n \in Save /\ upload.name \in Name \cup {Spare} /\ upload.node \in DOMAIN nodes \cup {0}
    BY <1>1, <1>5 DEF Commit, Typing
  <2> DEFINE ms == Stored(nodes, upload.node, upload.name, upload.n)
  <2>2. /\ Account(ms) /\ DOMAIN nodes \subseteq DOMAIN ms
        /\ \E j \in DOMAIN ms : ms[j].content = upload.n
    <3> DEFINE i == upload.node
               x == upload.name
               n == upload.n
    <3>1. i \in DOMAIN nodes \cup {0} /\ x \in Name \cup {Spare} /\ n \in Save
      BY <2>1
    <3> HIDE DEF i, x, n
    <3>2. Account(nodes)
      BY <1>1
    <3>3. /\ Account(Stored(nodes, i, x, n)) /\ DOMAIN nodes \subseteq DOMAIN Stored(nodes, i, x, n)
          /\ \E j \in DOMAIN Stored(nodes, i, x, n) : Stored(nodes, i, x, n)[j].content = n
      BY ONLY <3>1, <3>2, CommitStores, Zenon
    <3> QED  BY <3>3 DEF i, x, n
  <2>3. nodes' = ms
    BY <1>5 DEF Commit
  <2> HIDE DEF ms
  <2>4. UNCHANGED <<items, disk, running, call, after, folders, count, want, troubled>>
        /\ upload.step = "sent" /\ upload' = [upload EXCEPT !.step = "stored"]
    BY <1>5 DEF Commit
  <2> QED  BY <2>2, <2>3, <2>4 DEF Typing, StoredIsThere, CallOn
<1>6. CASE Uploaded
  <2>1. upload.step = "stored" /\ UNCHANGED <<running, call, nodes, folders, count, want, troubled>>
    BY <1>6 DEF Uploaded
  <2>2. Queue(items', disk')
    BY <1>1, <1>6, WithoutIsQueue DEF Uploaded, Drop
  <2>3. CallOn(nodes, after')
    <3>1. items[upload.n] \in Item
      BY <1>1, <2>1 DEF Typing, Queue
    <3>2. after' \in {NoCall, ToRemove(upload.name), ToRename(upload.name, items[upload.n].name)}
      BY <1>6 DEF Uploaded, Follows
    <3> QED  BY <1>1, <3>1, <3>2, AskedOfTheAccount DEF Item
  <2>4. upload' = IF after' = NoCall THEN NoUpload ELSE [upload EXCEPT !.step = "after"]
    BY <1>6 DEF Uploaded
  <2> QED  BY <1>1, <2>1, <2>2, <2>3, <2>4 DEF Typing, StoredIsThere, NoUpload
<1>7. CASE Followed
  <2>1. Account(nodes') /\ SameContent(nodes, nodes')
    BY <1>1, <1>7, CallsKeepContent DEF Followed, Typing, CallOn
  <2>2. count' \in [saves : Nat, moves : Nat, fails : Nat, crashes : Nat]
    BY <1>7 DEF Followed, Fails, Count, Typing
  <2>3. troubled' \in BOOLEAN
    BY <1>7 DEF Followed, Fails, Typing
  <2>4. upload' = NoUpload /\ after' = NoCall /\ UNCHANGED <<items, disk, running, call, folders, want>>
    BY <1>7 DEF Followed
  <2> QED  BY <1>1, <2>1, <2>2, <2>4, <2>3 DEF Typing, StoredIsThere, SameContent, CallOn, NoUpload
<1>8. CASE LoopEnds
  BY <1>8 DEF LoopEnds, Typing, StoredIsThere
<1> QED  BY <1>2, <1>3, <1>4, <1>5, <1>6, <1>7, <1>8 DEF Loop

\* Time, other devices, and the end of the app.
LEMMA RestKeepsTyping ==
  ASSUME Typing, StoredIsThere, Passes \/ Restart \/ \E x \in Name : FolderAppears(x)
  PROVE  Typing' /\ StoredIsThere'
<1>1. Queue(items, disk) /\ DOMAIN items = DOMAIN disk
  BY DEF Typing, Queue
<1>2. ASSUME NEW k \in Save, Settles(k) \/ ComesAgain(k)
      PROVE  Typing' /\ StoredIsThere'
  <2>1. UNCHANGED <<disk, running, upload, call, after, nodes, folders, count, want, troubled>>
    BY <1>2 DEF Settles, ComesAgain
  <2>2. /\ items \in [DOMAIN disk -> Item] /\ DOMAIN disk \subseteq Save
        /\ \A j \in DOMAIN disk : disk[j] = items[j].name
    BY <1>1 DEF Queue
  <2>3. PICK r : items' = [items EXCEPT ![k] = r] /\ r \in Item /\ r.name = items[k].name
    <3>1. k \in DOMAIN items
      BY <1>2 DEF Settles, ComesAgain
    <3>2. items[k] \in Item
      BY <1>1, <2>2, <3>1
    <3>3. CASE Settles(k)
      <4>1. items' = [items EXCEPT ![k] = [items[k] EXCEPT !.fresh = FALSE]]
        BY <3>3 DEF Settles
      <4>2. [items[k] EXCEPT !.fresh = FALSE] \in Item /\ [items[k] EXCEPT !.fresh = FALSE].name = items[k].name
        BY <3>2 DEF Item
      <4> QED  BY <4>1, <4>2
    <3>4. CASE ComesAgain(k)
      <4>1. items' = [items EXCEPT ![k] = [items[k] EXCEPT !.late = FALSE]]
        BY <3>4 DEF ComesAgain
      <4>2. [items[k] EXCEPT !.late = FALSE] \in Item /\ [items[k] EXCEPT !.late = FALSE].name = items[k].name
        BY <3>2 DEF Item
      <4> QED  BY <4>1, <4>2
    <3> QED  BY <1>2, <3>3, <3>4
  <2>4. Queue(items', disk') /\ DOMAIN items' = DOMAIN items
    <3>1. items' \in [DOMAIN disk -> Item]
      BY <2>2, <2>3
    <3>2. DOMAIN items' = DOMAIN items /\ disk' = disk
      BY <2>1, <2>3
    <3>3. \A j \in DOMAIN disk : items'[j].name = items[j].name
      BY <1>1, <2>2, <2>3
    <3>4. \A j \in DOMAIN disk : disk[j] = items'[j].name
      BY <2>2, <3>3
    <3> QED  BY <2>2, <3>1, <3>2, <3>4 DEF Queue
  <2> QED  BY <2>4, <2>1 DEF Typing, StoredIsThere
<1>3. CASE Restart
  <2>1. Queue(items', disk')
    <3> DEFINE left == {k \in DOMAIN disk : disk[k] \notin Temp}
    <3>1. /\ items' = [k \in left |-> [name |-> disk[k], trashed |-> FALSE, fresh |-> FALSE, late |-> FALSE]]
          /\ disk' = Without(disk, DOMAIN disk \ left)
      BY <1>3 DEF Restart
    <3>2. DOMAIN disk' = left /\ \A k \in left : disk'[k] = disk[k] /\ disk[k] \in Name
      BY <1>1, <3>1 DEF Without, Queue, Item
    <3>3. left \subseteq Save
      BY <1>1 DEF Queue
    <3> HIDE DEF left
    <3> QED  BY <3>1, <3>2, <3>3 DEF Queue, Item
  <2>2. count' \in [saves : Nat, moves : Nat, fails : Nat, crashes : Nat]
    BY <1>3 DEF Restart, Count, Typing
  <2>3. want' \in [Name -> Save \cup {0}]
    BY <1>3 DEF Restart, Typing
  <2>4. /\ upload' = NoUpload /\ call' = NoCall /\ after' = NoCall /\ running' = TRUE /\ troubled' = TRUE
        /\ UNCHANGED <<nodes, folders>>
    BY <1>3 DEF Restart
  <2> QED  BY <2>1, <2>2, <2>3, <2>4 DEF Typing, StoredIsThere, NoUpload, NoCall, CallOn, Calls
<1>4. ASSUME NEW x \in Name, FolderAppears(x)
      PROVE  Typing' /\ StoredIsThere'
  BY <1>4 DEF FolderAppears, Typing, StoredIsThere
<1> QED  BY <1>2, <1>3, <1>4 DEF Passes

LEMMA NextTyping == Typing /\ StoredIsThere /\ [Next]_vars => Typing' /\ StoredIsThere'
<1>1. Typing /\ StoredIsThere /\ UNCHANGED vars => Typing' /\ StoredIsThere'
  BY DEF vars, Typing, StoredIsThere
<1> QED
  BY <1>1, UserKeepsTyping, RequestKeepsTyping, LoopKeepsTyping, RestKeepsTyping DEF Next

\* The queue and what is on the computer of it agree, and the copy an upload
\* is made of is there until the upload has ended, in every behaviour.
THEOREM QueueIsTyped == Spec => []TypeOK
BY InitTyping, NextTyping, TypingIsTypeOK, PTL DEF Spec

-----------------------------------------------------------------------------
(* No copy leaves the queue for nothing                                    *)

\* A step that lets a copy go which is still what the user wants under its
\* name has its content in the account.
LEMMA StepLeavesUploaded ==
  ASSUME Typing, StoredIsThere, [Next]_vars,
         NEW k \in DOMAIN items \ DOMAIN items',
         want[items[k].name] = k, want'[items[k].name] = k
  PROVE  \E i \in DOMAIN nodes' : nodes'[i].content = k
<1>1. /\ Queue(items, disk) /\ DOMAIN items = DOMAIN disk /\ k \in DOMAIN items /\ k \in Save
      /\ items[k].name \in Name /\ k # 0 /\ want \in [Name -> Save \cup {0}]
  BY DEF Typing, Queue, Item, Save
<1>2. ASSUME NEW x \in Name, Add(x)  PROVE FALSE
  <2> DEFINE n == count.saves + 1
  <2>1. k \in Replaced(x) /\ k # n
    BY <1>1, <1>2 DEF Add, With, Without
  <2>2. items[k].name = x /\ want'[x] = n
    BY <1>1, <1>2, <2>1 DEF Add, Replaced
  <2> QED  BY <2>1, <2>2
<1>3. ASSUME NEW x \in Name, Remove(x)  PROVE FALSE
  <2>1. k \in Pending(x)
    BY <1>1, <1>3 DEF Remove, RemovePending, Without
  <2>2. items[k].name = x /\ want'[x] = 0
    BY <1>1, <1>3, <2>1 DEF Remove, Pending
  <2> QED  BY <1>1, <2>2
<1>4. ASSUME NEW x \in Name, NEW y \in Name, Rename(x, y)  PROVE FALSE
  BY <1>4 DEF Rename, RenamePending
<1>5. CASE Refused
  <2>1. k = upload.n
    BY <1>1, <1>5 DEF Refused, Drop, Without, Current
  <2> QED  BY <1>1, <1>5, <2>1 DEF Refused
<1>6. CASE Failed
  BY <1>6 DEF Failed
<1>7. CASE Uploaded
  <2>1. k = upload.n
    BY <1>1, <1>7 DEF Uploaded, Drop, Without, Current
  <2> QED  BY <1>7, <2>1 DEF Uploaded, StoredIsThere
<1>8. CASE Restart
  <2>1. disk[k] \in Temp /\ disk[k] = items[k].name
    BY <1>1, <1>8 DEF Restart, Queue
  <2>2. k \in DOMAIN disk \ {j \in DOMAIN disk : disk[j] \notin Temp}
    BY <1>1, <2>1
  <2> QED  BY <1>1, <1>8, <2>1, <2>2 DEF Restart
<1>9. ASSUME NEW j \in Save, Settles(j) \/ ComesAgain(j)  PROVE FALSE
  BY <1>9 DEF Settles, ComesAgain
<1>10. CASE UNCHANGED items
  BY <1>10
<1> QED
  BY <1>2, <1>3, <1>4, <1>5, <1>6, <1>7, <1>8, <1>9, <1>10
  DEF Next, vars, User, Request, Loop, Passes, Answered, NotAnswered, Start, Open, Commit,
      Followed, LoopEnds, FolderAppears

\* A copy the user still wants under its name leaves the queue only for the
\* account, whatever fails and whenever the app ends.
THEOREM CopiesLeaveUploaded == Spec => LeavesUploaded
<1>1. Typing /\ StoredIsThere /\ [Next]_vars =>
        [\A k \in DOMAIN items \ DOMAIN items' :
           want[items[k].name] = k /\ want'[items[k].name] = k
             => \E i \in DOMAIN nodes' : nodes'[i].content = k]_vars
  BY StepLeavesUploaded
<1> QED  BY <1>1, InitTyping, NextTyping, PTL DEF Spec, LeavesUploaded

-----------------------------------------------------------------------------
(* What the account ends with while nothing fails: the invariant           *)

\* The content the account has under a name, 0 for none.
Has(ns, x) == IF Child(ns, x) = 0 THEN 0 ELSE ns[Child(ns, x)].content

\* Live files have names of files, each its own.
OneOfAName(ns) ==
  /\ \A i \in DOMAIN ns : ns[i].live => ns[i].name \in Name
  /\ \A i, j \in DOMAIN ns : ns[i].live /\ ns[j].live /\ ns[i].name = ns[j].name => i = j

\* A call that does what it was made for, whatever has happened since.
CallFits(ns, c) ==
  /\ c.op \in {"remove", "rename"} /\ c.node \in DOMAIN ns
  /\ c.op = "remove" => c.there = 0 /\ c.to = Spare
  /\ c.op = "rename" =>
       /\ c.to \in Name /\ ns[c.node].live /\ c.there # c.node
       /\ Child(ns, c.to) \in {0, c.there, c.node}
       /\ c.there # 0 => (ns[c.there].live => ns[c.there].name = c.to)

SameMove(c, d) == c.op = d.op /\ c.node = d.node /\ c.to = d.to

\* The queue still has the copy that is uploading, which is Moved when the user
\* has renamed or removed it meanwhile.
Busy == upload.step \in {"made", "sent", "stored"}
Copy == items[upload.n]
Moved == Copy.trashed \/ Copy.name # upload.name

\* Only the copy uploading can be trashed, and it is older than those that have
\* its name.
QueueFits ==
  \A k \in DOMAIN items :
    /\ k <= count.saves /\ ~items[k].late
    /\ items[k].trashed => Busy /\ k = upload.n
    /\ Busy /\ k # upload.n /\ items[k].name = Copy.name => upload.n < k

\* Nothing waits under the name that a call moves away, and no upload goes to
\* the name that it moves to.
CallMoves ==
  call # NoCall =>
    /\ CallFits(nodes, call)
    /\ upload.step \in {"sent", "stored", "after"} => call.to # upload.name
    /\ \A x \in Name : x # call.to /\ Child(nodes, x) = call.node => Pending(x) = {}

\* What follows an upload takes its node from the name it was uploaded under;
\* a call under way then is the same move.
AfterMoves ==
  upload.step = "after" =>
    /\ CallFits(nodes, after) /\ after.to # upload.name /\ upload.n \notin DOMAIN items
    /\ \A x \in Name : Child(nodes, x) = after.node => x \in {upload.name, after.to}
    /\ Child(nodes, upload.name) \in {0, after.node}
    /\ call # NoCall => SameMove(call, after)

UploadShape ==
  /\ upload.step = "none" => upload = NoUpload
  /\ upload.step # "none" => upload.name \in Name /\ upload.n \in Save /\ upload.n <= count.saves

\* Where the upload of a copy goes that nothing has happened to.
UploadStays ==
  /\ upload.step = "sent" => upload.node = Child(nodes, upload.name)
  /\ upload.step = "stored" => Has(nodes, upload.name) = upload.n

\* The account has yet to move the file that is being uploaded.
UploadToMove ==
  /\ call.node = Child(nodes, upload.name)
  /\ IF Copy.trashed THEN call.op = "remove" ELSE call.op = "rename" /\ call.to = Copy.name
  /\ upload.step = "sent" => upload.node = call.node
  /\ upload.step = "stored" => nodes[call.node].content = upload.n

\* The account has moved it, or had nothing to move.
UploadMoved ==
  /\ upload.step \in {"made", "sent"} => Child(nodes, upload.name) = 0
  /\ upload.step = "sent" /\ upload.node # 0 =>
       IF Copy.trashed THEN ~nodes[upload.node].live /\ nodes[upload.node].name = upload.name
       ELSE upload.node = Child(nodes, Copy.name)
  /\ upload.step = "stored" /\ ~Copy.trashed =>
       IF Child(nodes, upload.name) # 0 THEN Has(nodes, upload.name) = upload.n
       ELSE Has(nodes, Copy.name) = upload.n

UploadMoves ==
  Busy =>
    /\ Copy.trashed => Copy.name = upload.name
    /\ ~Moved => UploadStays
    /\ Moved /\ call # NoCall => UploadToMove
    /\ Moved /\ call = NoCall => UploadMoved

Quiet ==
  /\ folders = {} /\ OneOfAName(nodes)
  /\ QueueFits /\ CallMoves /\ AfterMoves /\ UploadShape /\ UploadMoves

\* Nothing stays under a name that an upload or a call moves its file from.
Leaving(x) ==
  \/ upload.step # "none" /\ x = upload.name
  \/ call # NoCall /\ x # call.to /\ Child(nodes, x) = call.node

\* What the account has under a name once what is under way has ended.
Coming(x) ==
  IF Leaving(x) THEN 0
  ELSE IF x = after.to THEN nodes[after.node].content
  ELSE IF x = call.to THEN nodes[call.node].content
  ELSE Has(nodes, x)

\* And what it has once the queue is done as well.
Promised(x) == IF Pending(x) # {} THEN Newest(Pending(x)) ELSE Coming(x)

\* It is what the user put there.
Kept == \A x \in Name : want[x] = Promised(x)

\* The invariant: as long as nothing has failed or crossed.
Undisturbed == ~troubled => Quiet /\ Kept

\* Nodes are numbers from 1, and are nodes.
LEMMA NodesOf ==
  ASSUME NEW ns, Account(ns)
  PROVE  /\ 0 \notin DOMAIN ns /\ DOMAIN ns \subseteq Nat
         /\ \A i \in DOMAIN ns : ns[i] \in Node /\ ns[i].content \in Save /\ ns[i].content # 0
BY DEF Account, Node, Save

\* The live file of a name is the account's file of that name.
LEMMA ChildIsTheOne ==
  ASSUME NEW ns, Account(ns), OneOfAName(ns), NEW i \in DOMAIN ns, ns[i].live
  PROVE  /\ ns[i].name \in Name /\ Child(ns, ns[i].name) = i
         /\ \A x : Child(ns, x) = i => x = ns[i].name
<1> DEFINE x == ns[i].name
<1>1. ns[i].name \in Name
  BY DEF OneOfAName
<1>2. /\ Child(ns, x) \in DOMAIN ns \cup {0}
      /\ Child(ns, x) # 0 => ns[Child(ns, x)].live /\ ns[Child(ns, x)].name = x
      /\ Child(ns, x) = 0 => \A j \in DOMAIN ns : ~(ns[j].live /\ ns[j].name = x)
  <2> HIDE DEF x
  <2> QED  BY ChildIsLive
<1>3. Child(ns, x) = i
  BY <1>2 DEF OneOfAName
<1>4. ASSUME NEW y, Child(ns, y) = i  PROVE y = x
  BY <1>4, NodesOf, ChildIsLive
<1> QED  BY <1>1, <1>3, <1>4

\* Two names have two files.
LEMMA TwoNames ==
  ASSUME NEW ns, Account(ns), NEW x, NEW y, Child(ns, x) # 0, Child(ns, x) = Child(ns, y)
  PROVE  x = y
BY ChildIsLive

\* An account is known by its live files.
LEMMA ChildIs ==
  ASSUME NEW ms, Account(ms), OneOfAName(ms), NEW x, NEW i \in DOMAIN ms \cup {0},
         i # 0 => ms[i].live /\ ms[i].name = x,
         i = 0 => \A j \in DOMAIN ms : ~(ms[j].live /\ ms[j].name = x)
  PROVE  Child(ms, x) = i
<1>1. CASE i = 0
  BY <1>1, ChildIsLive
<1>2. CASE i # 0
  BY <1>2, ChildIsTheOne
<1> QED  BY <1>1, <1>2

\* What a call does to the nodes, one by one.
LEMMA PerformedNodes ==
  ASSUME folders = {}, NEW ns, Account(ns), OneOfAName(ns), NEW c \in Calls, CallFits(ns, c),
         c.there \in DOMAIN ns \cup {0},
         NEW ms, ms = Performed(ns, c)
  PROVE  /\ DOMAIN ms = DOMAIN ns
         /\ \A i \in DOMAIN ns \ {c.node} :
              ms[i].name = ns[i].name /\ ms[i].live = (ns[i].live /\ i # c.there)
         /\ c.op = "remove" => ~ms[c.node].live /\ ms[c.node].name = ns[c.node].name
         /\ c.op = "rename" => ms[c.node].live /\ ms[c.node].name = c.to
<1>1. PICK n \in Nat : ns \in [1 .. n -> Node]
  BY DEF Account
<1>2. c.node \in 1 .. n /\ c.there \in (1 .. n) \cup {0} /\ c.there # c.node
  BY <1>1, NodesOf DEF CallFits
<1>3. CASE c.op = "remove"
  <2>1. ms = [ns EXCEPT ![c.node].live = FALSE] /\ c.there = 0
    BY <1>2, <1>3 DEF Performed, Trashed, CallFits
  <2>2. ns[c.node] \in Node
    BY <1>1, <1>2
  <2>3. ms[c.node] = [ns[c.node] EXCEPT !.live = FALSE]
    BY <1>1, <1>2, <2>1
  <2>4. ~ms[c.node].live /\ ms[c.node].name = ns[c.node].name
    BY <2>2, <2>3 DEF Node
  <2>5. DOMAIN ms = DOMAIN ns /\ \A i \in DOMAIN ns \ {c.node} : ms[i] = ns[i]
    BY <1>1, <2>1
  <2>6. \A i \in DOMAIN ns : ns[i].live \in BOOLEAN /\ i # c.there
    BY <1>1, <2>1 DEF Node
  <2> QED  BY <1>3, <2>4, <2>5, <2>6
<1>4. CASE c.op = "rename"
  <2> DEFINE ts == Trashed(ns, c.there)
  <2>1. /\ ts \in [1 .. n -> Node] /\ ts[c.node] = ns[c.node]
        /\ \A i \in 1 .. n : ts[i].name = ns[i].name /\ ts[i].live = (ns[i].live /\ i # c.there)
    <3>1. CASE c.there = 0
      BY <1>1, <1>2, <3>1 DEF Trashed, Node
    <3>2. CASE c.there # 0
      <4>1. ts = [ns EXCEPT ![c.there] = [ns[c.there] EXCEPT !.live = FALSE]]
        BY <3>2 DEF Trashed
      <4>2. ns[c.there] \in Node /\ c.there \in 1 .. n
        BY <1>1, <1>2, <3>2
      <4> DEFINE r == [ns[c.there] EXCEPT !.live = FALSE]
      <4>3. r \in Node /\ r.name = ns[c.there].name /\ r.live = FALSE
        BY <4>2 DEF Node
      <4>4. \A i \in 1 .. n : ns[i].live \in BOOLEAN
        BY <1>1 DEF Node
      <4>5. ts = [ns EXCEPT ![c.there] = r]
        BY <4>1
      <4> HIDE DEF r, ts
      <4>6. ts \in [1 .. n -> Node] /\ \A i \in 1 .. n : ts[i] = IF i = c.there THEN r ELSE ns[i]
        BY <1>1, <4>2, <4>3, <4>5
      <4> QED  BY <1>2, <4>3, <4>4, <4>6
    <3> QED  BY <3>1, <3>2
  <2>2. ns[c.node].live /\ c.to \in Name /\ Child(ns, c.to) \in {0, c.there, c.node}
    BY <1>4 DEF CallFits
  <2>3. ms = Renamed(ts, c.node, c.to)
    BY <1>4 DEF Performed
  <2>4. Account(ts)
    BY <2>1 DEF Account
  <2> HIDE DEF ts
  <2>5. Child(ts, c.to) \in {0, c.node}
    <3> DEFINE j == Child(ts, c.to)
    <3>1. j \in 1 .. n /\ j # 0 => ts[j].live /\ ts[j].name = c.to
      BY <2>1, <2>4, ChildIsLive
    <3>2. j \in DOMAIN ts \cup {0}
      BY <2>4, ChildIsLive
    <3> HIDE DEF j
    <3>3. SUFFICES ASSUME j # 0  PROVE j = c.node
      BY DEF j
    <3>4. j \in 1 .. n /\ ns[j].live /\ ns[j].name = c.to /\ j # c.there
      BY <2>1, <3>1, <3>2, <3>3
    <3>5. Child(ns, c.to) = j
      BY <1>1, <3>4, ChildIsTheOne
    <3> QED  BY <2>2, <3>3, <3>4, <3>5
  <2>6. ms = [ts EXCEPT ![c.node] = [ts[c.node] EXCEPT !.name = c.to]]
    <3>1. FreeName(ts, c.node, c.to) = c.to
      BY <2>5 DEF FreeName
    <3> QED  BY <2>1, <2>2, <2>3, <3>1 DEF Renamed
  <2>7. ns[c.node] \in Node
    BY <1>1, <1>2
  <2> QED  BY <1>1, <1>2, <1>4, <2>1, <2>2, <2>6, <2>7 DEF Node
<1> QED  BY <1>3, <1>4 DEF CallFits

\* What it does to the names: its node has the new one, and no longer its own.
LEMMA PerformedNames ==
  ASSUME folders = {}, NEW ns, Account(ns), OneOfAName(ns), NEW c, CallOn(ns, c), CallFits(ns, c),
         NEW ms, ms = Performed(ns, c)
  PROVE  /\ Account(ms) /\ OneOfAName(ms) /\ SameContent(ns, ms)
         /\ \A x \in Name : Child(ms, x) = IF x = c.to THEN c.node
                                           ELSE IF Child(ns, x) = c.node THEN 0 ELSE Child(ns, x)
         /\ c.op = "remove" => ~ms[c.node].live /\ ms[c.node].name = ns[c.node].name
<1>1. c \in Calls /\ c.there \in DOMAIN ns \cup {0} /\ c.node \in DOMAIN ns /\ c.op \in {"remove", "rename"}
  BY DEF CallOn, CallFits
<1>2. Account(ms) /\ SameContent(ns, ms)
  BY <1>1, CallsKeepContent
<1>3. /\ DOMAIN ms = DOMAIN ns
      /\ \A i \in DOMAIN ns \ {c.node} :
           ms[i].name = ns[i].name /\ ms[i].live = (ns[i].live /\ i # c.there)
      /\ c.op = "remove" => ~ms[c.node].live /\ ms[c.node].name = ns[c.node].name
      /\ c.op = "rename" => ms[c.node].live /\ ms[c.node].name = c.to
  BY <1>1, PerformedNodes
\* (nothing else is left under the new name)
<1>4. ASSUME NEW i \in DOMAIN ns \ {c.node}, ms[i].live  PROVE ns[i].live /\ ns[i].name # c.to
  <2>1. ns[i].live /\ i # c.there /\ ns[i].name \in Name /\ Child(ns, ns[i].name) = i
    BY <1>3, <1>4, ChildIsTheOne
  <2>2. CASE c.op = "remove"
    BY <2>1, <2>2, SpareIsNoName DEF CallFits
  <2>3. CASE c.op = "rename"
    <3>1. Child(ns, c.to) \in {0, c.there, c.node} /\ i # 0
      BY <2>3, NodesOf DEF CallFits
    <3> QED  BY <2>1, <3>1
  <2> QED  BY <1>1, <2>1, <2>2, <2>3
<1>5. OneOfAName(ms)
  <2>1. \A i \in DOMAIN ms : ms[i].live => ms[i].name \in Name
    <3>1. ASSUME NEW i \in DOMAIN ms, ms[i].live, i # c.node  PROVE ms[i].name \in Name
      BY <1>3, <1>4, <3>1 DEF OneOfAName
    <3>2. ms[c.node].live => ms[c.node].name \in Name
      BY <1>1, <1>3 DEF CallFits
    <3> QED  BY <3>1, <3>2
  <2>2. ASSUME NEW i \in DOMAIN ms, NEW j \in DOMAIN ms, ms[i].live, ms[j].live, ms[i].name = ms[j].name
        PROVE  i = j
    <3>1. CASE i # c.node /\ j # c.node
      BY <1>3, <1>4, <2>2, <3>1 DEF OneOfAName
    <3>2. CASE i = c.node /\ j # c.node
      BY <1>1, <1>3, <1>4, <2>2, <3>2
    <3>3. CASE i # c.node /\ j = c.node
      BY <1>1, <1>3, <1>4, <2>2, <3>3
    <3> QED  BY <3>1, <3>2, <3>3
  <2> QED  BY <2>1, <2>2 DEF OneOfAName
<1>6. ASSUME NEW x \in Name
      PROVE  Child(ms, x) = IF x = c.to THEN c.node
                            ELSE IF Child(ns, x) = c.node THEN 0 ELSE Child(ns, x)
  <2>1. CASE x = c.to
    <3>1. ms[c.node].live /\ ms[c.node].name = c.to
      BY <1>1, <1>3, <2>1, SpareIsNoName DEF CallFits
    <3> QED  BY <1>1, <1>2, <1>3, <1>5, <2>1, <3>1, ChildIsTheOne
  <2>2. CASE x # c.to
    <3> DEFINE i == Child(ns, x)
               k == IF i = c.node THEN 0 ELSE i
    <3>1. /\ i \in DOMAIN ns \cup {0}
          /\ i # 0 => ns[i].live /\ ns[i].name = x
          /\ i = 0 => \A j \in DOMAIN ns : ~(ns[j].live /\ ns[j].name = x)
      BY ChildIsLive
    <3>2. \A j \in DOMAIN ns : ns[j].live /\ ns[j].name = x => j = i
      BY ChildIsTheOne
    <3>3. 0 \notin DOMAIN ns
      BY NodesOf
    <3> HIDE DEF i
    <3>4. k \in DOMAIN ms \cup {0}
      BY <1>3, <3>1
    <3>5. k # 0 => ms[k].live /\ ms[k].name = x
      <4>1. SUFFICES ASSUME k # 0  PROVE ms[k].live /\ ms[k].name = x
        OBVIOUS
      <4>2. k = i /\ i \in DOMAIN ns \ {c.node} /\ ns[i].live /\ ns[i].name = x
        BY <3>1, <4>1
      <4>3. i # c.there
        BY <1>1, <2>2, <3>3, <4>2 DEF CallFits
      <4> QED  BY <1>3, <4>2, <4>3
    <3>6. k = 0 => \A j \in DOMAIN ms : ~(ms[j].live /\ ms[j].name = x)
      <4>1. SUFFICES ASSUME k = 0, NEW j \in DOMAIN ms, ms[j].live, ms[j].name = x  PROVE FALSE
        OBVIOUS
      <4>2. j # c.node
        BY <1>1, <1>3, <2>2, <4>1
      <4>3. ns[j].live /\ ns[j].name = x /\ j \in DOMAIN ns
        BY <1>3, <4>1, <4>2
      <4> QED  BY <3>2, <3>3, <4>1, <4>2, <4>3
    <3> HIDE DEF k
    <3>7. Child(ms, x) = k
      BY <1>2, <1>5, <3>4, <3>5, <3>6, ChildIs
    <3> QED  BY <2>2, <3>7 DEF i, k
  <2> QED  BY <2>1, <2>2
<1> QED  BY <1>2, <1>3, <1>5, <1>6

\* A call that is the same move still does it, after the one that came first.
LEMMA FitsAfterSameMove ==
  ASSUME folders = {}, NEW ns, Account(ns), OneOfAName(ns), NEW c, CallOn(ns, c), CallFits(ns, c),
         NEW d, CallOn(ns, d), CallFits(ns, d), SameMove(d, c),
         NEW ms, ms = Performed(ns, c)
  PROVE  CallFits(ms, d)
<1>1. /\ d.op = c.op /\ d.node = c.node /\ d.to = c.to /\ c \in Calls
      /\ c.there \in DOMAIN ns \cup {0} /\ d.there \in DOMAIN ns \cup {0} /\ c.node \in DOMAIN ns
  BY DEF SameMove, CallOn, CallFits
<1>2. /\ DOMAIN ms = DOMAIN ns
      /\ \A i \in DOMAIN ns \ {c.node} :
           ms[i].name = ns[i].name /\ ms[i].live = (ns[i].live /\ i # c.there)
      /\ c.op = "rename" => ms[c.node].live /\ ms[c.node].name = c.to
  BY <1>1, PerformedNodes
<1>3. \A x \in Name : x = c.to => Child(ms, x) = c.node
  BY PerformedNames
<1>4. CASE d.op = "remove"
  BY <1>1, <1>2, <1>4 DEF CallFits
<1>5. CASE d.op = "rename"
  <2>1. d.to \in Name /\ d.there # d.node /\ (d.there # 0 => (ns[d.there].live => ns[d.there].name = d.to))
    BY <1>5 DEF CallFits
  <2>2. d.there # 0 => (ms[d.there].live => ms[d.there].name = d.to)
    BY <1>1, <1>2, <2>1
  <2> QED  BY <1>1, <1>2, <1>3, <1>5, <2>1, <2>2 DEF CallFits
<1> QED  BY <1>4, <1>5 DEF CallFits

\* A commit puts its content in one live node, under the name it had or the
\* upload's, and no other file changes.
LEMMA StoredNames ==
  ASSUME folders = {}, NEW ns, Account(ns), OneOfAName(ns),
         NEW i \in DOMAIN ns \cup {0}, NEW x \in Name, NEW n \in Save,
         i = 0 => Child(ns, x) = 0,
         i # 0 => ns[i].live \/ (ns[i].name = x /\ Child(ns, x) = 0),
         NEW ms, ms = Stored(ns, i, x, n)
  PROVE  \E j \in DOMAIN ms, z \in Name :
           /\ Account(ms) /\ OneOfAName(ms) /\ DOMAIN ns \subseteq DOMAIN ms
           /\ IF i = 0 THEN j \notin DOMAIN ns ELSE j = i
           /\ z = IF i # 0 /\ ns[i].live THEN ns[i].name ELSE x
           /\ ms[j].live /\ ms[j].content = n /\ \A k \in DOMAIN ns \ {j} : ms[k] = ns[k]
           /\ \A y \in Name : Child(ms, y) = IF y = z THEN j ELSE Child(ns, y)
<1>1. PICK m \in Nat : ns \in [1 .. m -> Node]
  BY DEF Account
<1> DEFINE j == IF i = 0 THEN m + 1 ELSE i
           z == IF i # 0 /\ ns[i].live THEN ns[i].name ELSE x
           r == [name |-> z, live |-> TRUE, content |-> n]
           D == (DOMAIN ns) \cup {j}
<1>2. z \in Name
  BY <1>1 DEF OneOfAName
<1>3. r \in Node /\ r.name = z /\ r.live /\ r.content = n
  BY <1>2 DEF Node
<1>4. DOMAIN ms = D /\ ms[j] = r /\ \A k \in DOMAIN ns \ {j} : ms[k] = ns[k]
  <2>1. CASE i = 0
    <3>1. Cardinality(DOMAIN ns) = m
      BY <1>1, FS_Interval
    <3>2. FreeName(ns, 0, x) = x
      BY <2>1 DEF FreeName
    <3>3. ms = With(ns, m + 1, r)
      BY <2>1, <3>1, <3>2 DEF Stored
    <3> HIDE DEF r
    <3> QED  BY <1>1, <2>1, <3>3 DEF With
  <2>2. CASE i # 0
    <3>1. ~ns[i].live => FreeName(ns, i, ns[i].name) = x
      BY <2>2 DEF FreeName
    <3>2. ms = [ns EXCEPT ![i] = r]
      BY <2>2, <3>1 DEF Stored
    <3> HIDE DEF r
    <3> QED  BY <1>1, <2>2, <3>2
  <2> QED  BY <2>1, <2>2
<1>5. Account(ms)
  BY CommitStores
<1>6. IF i = 0 THEN j \notin DOMAIN ns ELSE j = i /\ j \in DOMAIN ns
  BY <1>1
\* (the name is free for it)
<1>7. ASSUME NEW k \in DOMAIN ns \ {j}, ns[k].live  PROVE ns[k].name # z
  <2>1. Child(ns, ns[k].name) = k /\ k # 0
    BY <1>7, ChildIsTheOne, NodesOf
  <2>2. CASE i # 0 /\ ns[i].live
    <3>1. Child(ns, ns[i].name) = i
      BY <2>2, ChildIsTheOne
    <3> QED  BY <1>6, <1>7, <2>1, <2>2, <3>1
  <2>3. CASE ~(i # 0 /\ ns[i].live)
    BY <2>1, <2>3
  <2> QED  BY <2>2, <2>3
<1> HIDE DEF r, D
<1>8. ms[j].live /\ ms[j].name = z /\ ms[j].content = n /\ j \in DOMAIN ms
  BY <1>3, <1>4 DEF D
<1>9. \A k \in DOMAIN ms \ {j} : k \in DOMAIN ns /\ ms[k] = ns[k]
  BY <1>4 DEF D
<1> HIDE DEF j, z
<1>10. OneOfAName(ms)
  <2>1. \A k \in DOMAIN ms : ms[k].live => ms[k].name \in Name
    BY <1>2, <1>8, <1>9 DEF OneOfAName
  <2>2. ASSUME NEW k \in DOMAIN ms, NEW l \in DOMAIN ms, ms[k].live, ms[l].live, ms[k].name = ms[l].name
        PROVE  k = l
    <3>1. CASE k # j /\ l # j
      BY <1>9, <2>2, <3>1 DEF OneOfAName
    <3>2. CASE k = j /\ l # j
      BY <1>7, <1>8, <1>9, <2>2, <3>2
    <3>3. CASE k # j /\ l = j
      BY <1>7, <1>8, <1>9, <2>2, <3>3
    <3> QED  BY <3>1, <3>2, <3>3
  <2> QED  BY <2>1, <2>2 DEF OneOfAName
<1>11. ASSUME NEW y \in Name  PROVE Child(ms, y) = IF y = z THEN j ELSE Child(ns, y)
  <2>1. CASE y = z
    BY <1>5, <1>8, <1>10, <2>1, ChildIsTheOne
  <2>2. CASE y # z
    <3> DEFINE l == Child(ns, y)
    <3>1. /\ l \in DOMAIN ns \cup {0}
          /\ l # 0 => ns[l].live /\ ns[l].name = y
          /\ l = 0 => \A k \in DOMAIN ns : ~(ns[k].live /\ ns[k].name = y)
      BY ChildIsLive
    <3> HIDE DEF l
    <3>2. l # j \/ l = 0
      <4>1. SUFFICES ASSUME l = j, l # 0  PROVE FALSE
        OBVIOUS
      <4>2. i # 0 /\ j = i
        BY <1>6, <3>1, <4>1
      <4>3. z = ns[i].name
        BY <3>1, <4>1, <4>2 DEF z
      <4> QED  BY <2>2, <3>1, <4>1, <4>2, <4>3
    <3>3. l \in DOMAIN ms \cup {0} /\ (l # 0 => ms[l].live /\ ms[l].name = y)
      BY <1>4, <3>1, <3>2 DEF D
    <3>4. l = 0 => \A k \in DOMAIN ms : ~(ms[k].live /\ ms[k].name = y)
      BY <1>8, <1>9, <2>2, <3>1
    <3>5. Child(ms, y) = l
      BY <1>5, <1>10, <3>3, <3>4, ChildIs
    <3> QED  BY <2>2, <3>5 DEF l
  <2> QED  BY <2>1, <2>2
<1>12. IF i = 0 THEN j \notin DOMAIN ns ELSE j = i
  BY <1>6
<1>13. DOMAIN ns \subseteq DOMAIN ms /\ \A k \in DOMAIN ns \ {j} : ms[k] = ns[k]
  BY <1>4 DEF D
<1>14. z = IF i # 0 /\ ns[i].live THEN ns[i].name ELSE x
  BY DEF z
<1> QED  BY <1>2, <1>5, <1>8, <1>10, <1>11, <1>12, <1>13, <1>14

\* And a call under way that moves to another name still does what it was for.
LEMMA FitsAfterCommit ==
  ASSUME NEW ns, Account(ns), OneOfAName(ns), NEW c, CallOn(ns, c), CallFits(ns, c),
         NEW ms, NEW j, NEW z \in Name, DOMAIN ns \subseteq DOMAIN ms, ms[j].live,
         \A k \in DOMAIN ns \ {j} : ms[k] = ns[k],
         \A y \in Name : Child(ms, y) = IF y = z THEN j ELSE Child(ns, y),
         z # c.to, j \in DOMAIN ns => j = Child(ns, z)
  PROVE  CallFits(ms, c)
<1>1. c.node \in DOMAIN ns /\ c.there \in DOMAIN ns \cup {0} /\ c.op \in {"remove", "rename"}
  BY DEF CallFits, CallOn
<1>2. CASE c.op = "remove"
  BY <1>1, <1>2 DEF CallFits
<1>3. CASE c.op = "rename"
  <2>1. /\ c.to \in Name /\ ns[c.node].live /\ c.there # c.node
        /\ Child(ns, c.to) \in {0, c.there, c.node}
        /\ c.there # 0 => (ns[c.there].live => ns[c.there].name = c.to)
    BY <1>3 DEF CallFits
  <2>2. ms[c.node].live
    BY <1>1, <2>1
  <2>3. Child(ms, c.to) = Child(ns, c.to)
    BY <2>1
  <2>4. c.there # 0 => c.there # j
    <3>1. SUFFICES ASSUME c.there # 0, c.there = j  PROVE FALSE
      OBVIOUS
    <3>2. j = Child(ns, z) /\ j # 0
      BY <1>1, <3>1
    <3>3. ns[j].live /\ ns[j].name = z
      BY <3>2, ChildIsLive
    <3> QED  BY <2>1, <3>1, <3>3
  <2>5. c.there # 0 => (ms[c.there].live => ms[c.there].name = c.to)
    BY <1>1, <2>1, <2>4
  <2> QED  BY <1>1, <1>3, <2>1, <2>2, <2>3, <2>5 DEF CallFits
<1> QED  BY <1>1, <1>2, <1>3

-----------------------------------------------------------------------------
(* What the account ends with while nothing fails: the steps               *)

\* The newest copy is the one that is not older than any.
LEMMA NewestIs ==
  ASSUME NEW S \in SUBSET Save, NEW k \in S, \A j \in S : j <= k
  PROVE  Newest(S) = k
<1>1. Newest(S) \in S /\ \A j \in S : j <= Newest(S)
  BY CopiesAreOrdered
<1>2. \A j \in Save : j \in Nat
  BY BoundsAreNumbers DEF Save
<1>3. Newest(S) <= k /\ k <= Newest(S) /\ Newest(S) \in Nat /\ k \in Nat
  BY <1>1, <1>2
<1> QED  BY <1>3

\* What the types say of the queue, the upload and the calls.
LEMMA TypedParts ==
  ASSUME Typing
  PROVE  /\ Account(nodes) /\ CallOn(nodes, call) /\ CallOn(nodes, after)
         /\ DOMAIN items \subseteq Save /\ \A x : Pending(x) \in SUBSET Save
         /\ \A k \in DOMAIN items : items[k] \in Item /\ items[k].name \in Name
         /\ Busy => upload.n \in DOMAIN items
         /\ (upload.step = "after") = (after # NoCall)
         /\ upload.step \in {"none", "made", "sent", "stored", "after"} /\ upload.node \in DOMAIN nodes \cup {0}
         /\ NoCall.to = Spare /\ Spare \notin Name /\ 0 \notin Save
BY SpareIsNoName DEF Typing, Queue, Item, Pending, Busy, NoCall, Save

\* Time that passes for a copy, and the end of an empty queue, change nothing
\* of it.
LEMMA TimeIsQuiet ==
  ASSUME Typing, Quiet, Kept,
         DOMAIN items' = DOMAIN items,
         \A k \in DOMAIN items :
           items'[k].name = items[k].name /\ items'[k].trashed = items[k].trashed /\ ~items'[k].late,
         UNCHANGED <<upload, call, after, nodes, folders, count, want>>
  PROVE  Quiet' /\ Kept'
<1>1. \A x : Pending(x)' = Pending(x)
  BY DEF Pending
<1>2. Busy => Copy'.name = Copy.name /\ Copy'.trashed = Copy.trashed
  BY TypedParts DEF Copy
<1>3. QueueFits'
  BY <1>2, TypedParts DEF Quiet, QueueFits, Busy
<1>4. CallMoves'
  BY <1>1 DEF Quiet, CallMoves
<1>5. AfterMoves'
  BY DEF Quiet, AfterMoves
<1>6. UploadMoves'
  BY <1>2 DEF Quiet, UploadMoves, Busy, Moved, UploadStays, UploadToMove, UploadMoved
<1>7. Kept'
  BY <1>1 DEF Kept, Promised, Coming, Leaving
<1> QED  BY <1>3, <1>4, <1>5, <1>6, <1>7 DEF Quiet, UploadShape

\* The loop takes the first copy: nothing has happened to it yet.
LEMMA StartIsQuiet ==
  ASSUME Typing, Quiet, Kept, Start
  PROVE  Quiet' /\ Kept'
<1> DEFINE n == First
<1>1. /\ upload = NoUpload /\ upload.step = "none" /\ Ready # {}
      /\ upload' = [step |-> "made", n |-> n, name |-> items[n].name, node |-> 0]
      /\ UNCHANGED <<items, call, after, nodes, folders, count, want>>
  BY DEF Start, MayStart, AtRest, NoUpload
<1>2. ~Busy /\ \A k \in DOMAIN items : ~items[k].trashed /\ ~items[k].late /\ k <= count.saves
  BY <1>1 DEF Quiet, QueueFits, Busy
<1>3. Ready = Waiting /\ Ready \in SUBSET Save
  BY <1>2, TypedParts DEF Ready, Waiting
<1>4. n \in Ready /\ \A j \in Ready : n <= j
  <2>1. \E k \in Ready : \A j \in Ready : k <= j
    <3>1. MaxSaves \in Nat
      BY BoundsAreNumbers
    <3>2. Ready \in SUBSET (0 .. MaxSaves)
      BY <1>3, <3>1 DEF Save
    <3> QED  BY <1>1, <3>1, <3>2, LeastOf
  <2> QED  BY <2>1 DEF First
<1>5. n \in DOMAIN items /\ n \in Save /\ items[n].name \in Name /\ items[n].name \notin Temp /\ ~items[n].trashed
  BY <1>2, <1>3, <1>4, TypedParts DEF Waiting
<1> HIDE DEF n
<1>6. Copy' = items[n] /\ ~Moved' /\ upload'.step = "made" /\ upload'.n = n /\ upload'.name = items[n].name
  BY <1>1, <1>5 DEF Copy, Moved
<1>7. QueueFits'
  <2>1. ASSUME NEW k \in DOMAIN items, k # n, items[k].name = items[n].name  PROVE n < k
    <3>1. k \in Waiting
      BY <1>5, <2>1 DEF Waiting
    <3>2. n <= k /\ n \in Nat /\ k \in Nat
      BY <1>3, <1>4, <1>5, <3>1 DEF Save
    <3> QED  BY <2>1, <3>2
  <2> QED  BY <1>1, <1>2, <1>6, <2>1 DEF QueueFits
<1>8. CallMoves'
  <2>1. \A x : Pending(x)' = Pending(x)
    BY <1>1 DEF Pending
  <2> QED  BY <1>1, <1>6, <2>1 DEF Quiet, CallMoves
<1>9. AfterMoves' /\ UploadShape'
  BY <1>1, <1>2, <1>5, <1>6 DEF AfterMoves, UploadShape
<1>10. UploadMoves'
  BY <1>5, <1>6 DEF UploadMoves, UploadStays
<1>11. ASSUME NEW x \in Name  PROVE want'[x] = Promised(x)'
  <2>1. Pending(x)' = Pending(x) /\ want' = want
    BY <1>1 DEF Pending
  <2>2. want[x] = Promised(x)
    BY DEF Kept
  <2>3. CASE Pending(x) # {}
    BY <2>1, <2>2, <2>3 DEF Promised
  <2>4. CASE Pending(x) = {}
    <3>1. x # items[n].name
      BY <1>5, <2>4 DEF Pending
    <3>2. Leaving(x)' = Leaving(x)
      BY <1>1, <1>6, <3>1 DEF Leaving
    <3>3. Coming(x)' = Coming(x)
      BY <1>1, <3>2 DEF Coming
    <3> QED  BY <2>1, <2>2, <3>3 DEF Promised
  <2> QED  BY <2>3, <2>4
<1> QED  BY <1>1, <1>7, <1>8, <1>9, <1>10, <1>11 DEF Quiet, Kept

\* It looks for the file that the copy replaces.
LEMMA OpenIsQuiet ==
  ASSUME Typing, Quiet, Kept, Open, ~troubled'
  PROVE  Quiet' /\ Kept'
<1> DEFINE U == upload.name
<1>1. /\ upload.step = "made" /\ call.to # U
      /\ upload' = [upload EXCEPT !.step = "sent", !.node = Child(nodes, U)]
      /\ UNCHANGED <<items, call, after, nodes, folders, count, want>>
  BY DEF Open
<1>2. upload'.step = "sent" /\ upload'.n = upload.n /\ upload'.name = U /\ upload'.node = Child(nodes, U)
  BY <1>1 DEF Typing
<1>3. Busy /\ Busy' /\ Copy' = Copy /\ Moved' = Moved
  BY <1>1, <1>2 DEF Busy, Copy, Moved
<1>4. QueueFits' /\ CallMoves' /\ AfterMoves' /\ UploadShape'
  <2>1. \A x : Pending(x)' = Pending(x)
    BY <1>1 DEF Pending
  <2>2. QueueFits'
    BY <1>1, <1>2, <1>3 DEF Quiet, QueueFits
  <2>3. CallMoves'
    BY <1>1, <1>2, <2>1 DEF Quiet, CallMoves
  <2> QED  BY <1>1, <1>2, <2>2, <2>3 DEF Quiet, AfterMoves, UploadShape
<1>5. UploadMoves'
  BY <1>1, <1>2, <1>3 DEF Quiet, UploadMoves, UploadStays, UploadToMove, UploadMoved
<1>6. Kept'
  <2>1. ASSUME NEW x  PROVE Promised(x)' = Promised(x)
    <3>1. Leaving(x)' = Leaving(x) /\ Pending(x)' = Pending(x)
      BY <1>1, <1>2 DEF Leaving, Pending
    <3> QED  BY <1>1, <3>1 DEF Promised, Coming
  <2> QED  BY <1>1, <2>1 DEF Kept
<1> QED  BY <1>1, <1>4, <1>5, <1>6 DEF Quiet

\* The content goes where the upload has it, or is moved from there.
LEMMA CommitIsQuiet ==
  ASSUME Typing, Quiet, Kept, Commit
  PROVE  Quiet' /\ Kept'
<1> DEFINE U == upload.name
           i == upload.node
           n == upload.n
<1>1. /\ upload.step = "sent" /\ upload' = [upload EXCEPT !.step = "stored"]
      /\ nodes' = Stored(nodes, i, U, n)
      /\ UNCHANGED <<items, call, after, folders, count, want>>
  BY DEF Commit
<1>2. upload'.step = "stored" /\ upload'.n = n /\ upload'.name = U /\ upload'.node = i
  BY <1>1 DEF Typing
<1>3. Busy /\ Busy' /\ Copy' = Copy /\ Moved' = Moved /\ n \in DOMAIN items /\ after = NoCall
  BY <1>1, <1>2, TypedParts DEF Busy, Copy, Moved
<1>4. /\ Account(nodes) /\ OneOfAName(nodes) /\ folders = {} /\ i \in DOMAIN nodes \cup {0}
      /\ U \in Name /\ n \in Save
  BY <1>1, TypedParts DEF Quiet, UploadShape
<1>5. /\ 0 \notin DOMAIN nodes
      /\ \A x : Child(nodes, x) \in DOMAIN nodes \cup {0}
      /\ \A x : Child(nodes, x) # 0 => nodes[Child(nodes, x)].live /\ nodes[Child(nodes, x)].name = x
  BY <1>4, NodesOf, ChildIsLive
<1>6. call # NoCall => CallFits(nodes, call) /\ CallOn(nodes, call) /\ call.node \in DOMAIN nodes /\ call.to # U
  BY <1>1, TypedParts DEF Quiet, CallMoves, CallFits
\* Where it is, as the step before has left it.
<1>7. /\ ~Moved => i = Child(nodes, U)
      /\ Moved /\ call # NoCall => UploadToMove /\ i = Child(nodes, U) /\ i = call.node
      /\ Moved /\ call = NoCall => Child(nodes, U) = 0
      /\ Moved /\ call = NoCall /\ i # 0 =>
           IF Copy.trashed THEN ~nodes[i].live /\ nodes[i].name = U ELSE i = Child(nodes, Copy.name)
      /\ Copy.trashed => Copy.name = U
  BY <1>1, <1>3 DEF Quiet, UploadMoves, UploadStays, UploadToMove, UploadMoved
<1>8. PICK j \in DOMAIN nodes', z \in Name :
        /\ Account(nodes') /\ OneOfAName(nodes') /\ DOMAIN nodes \subseteq DOMAIN nodes'
        /\ IF i = 0 THEN j \notin DOMAIN nodes ELSE j = i
        /\ z = IF i # 0 /\ nodes[i].live THEN nodes[i].name ELSE U
        /\ nodes'[j].live /\ nodes'[j].content = n /\ \A k \in DOMAIN nodes \ {j} : nodes'[k] = nodes[k]
        /\ \A y \in Name : Child(nodes', y) = IF y = z THEN j ELSE Child(nodes, y)
  <2>1. i = 0 => Child(nodes, U) = 0
    BY <1>5, <1>6, <1>7
  <2>2. i # 0 => nodes[i].live \/ (nodes[i].name = U /\ Child(nodes, U) = 0)
    BY <1>5, <1>7
  <2> DEFINE ns == nodes
             ms == nodes'
             k == i
             x == U
             m == n
  <2>3. /\ k \in DOMAIN ns \cup {0} /\ x \in Name /\ m \in Save /\ folders = {}
        /\ Account(ns) /\ OneOfAName(ns) /\ ms = Stored(ns, k, x, m)
        /\ k = 0 => Child(ns, x) = 0
        /\ k # 0 => ns[k].live \/ (ns[k].name = x /\ Child(ns, x) = 0)
    BY <1>1, <1>4, <2>1, <2>2
  <2> HIDE DEF ns, ms, k, x, m
  <2>4. \E j \in DOMAIN ms, z \in Name :
          /\ Account(ms) /\ OneOfAName(ms) /\ DOMAIN ns \subseteq DOMAIN ms
          /\ IF k = 0 THEN j \notin DOMAIN ns ELSE j = k
          /\ z = IF k # 0 /\ ns[k].live THEN ns[k].name ELSE x
          /\ ms[j].live /\ ms[j].content = m /\ \A l \in DOMAIN ns \ {j} : ms[l] = ns[l]
          /\ \A y \in Name : Child(ms, y) = IF y = z THEN j ELSE Child(ns, y)
    BY <2>3, StoredNames
  <2> QED  BY <2>4 DEF ns, ms, k, x, m
<1> HIDE DEF U, i, n
<1>9. /\ z = U \/ (Moved /\ call = NoCall /\ ~Copy.trashed /\ i # 0 /\ z = Copy.name)
      /\ call # NoCall => z = U
      /\ Moved /\ call = NoCall /\ ~Copy.trashed /\ i # 0 => z = Copy.name
      /\ j # 0 /\ (j \in DOMAIN nodes => j = i)
  BY <1>5, <1>6, <1>7, <1>8, NodesOf
<1>10. CallMoves'
  <2>1. SUFFICES ASSUME call # NoCall  PROVE CallMoves'
    BY <1>1 DEF CallMoves
  <2>2. z = U /\ (j \in DOMAIN nodes => j = Child(nodes, z))
    BY <1>7, <1>9, <2>1
  <2>3. CallFits(nodes', call)
    <3> DEFINE ms == nodes'
    <3>1. /\ DOMAIN nodes \subseteq DOMAIN ms /\ ms[j].live /\ \A k \in DOMAIN nodes \ {j} : ms[k] = nodes[k]
          /\ \A y \in Name : Child(ms, y) = IF y = z THEN j ELSE Child(nodes, y)
      BY <1>8
    <3> HIDE DEF ms
    <3>2. CallFits(ms, call)
      BY <1>4, <1>6, <2>1, <2>2, <3>1, FitsAfterCommit
    <3> QED  BY <3>2 DEF ms
  <2>4. ASSUME NEW x \in Name, x # call.to, Child(nodes', x) = call.node  PROVE Pending(x) = {}
    <3>1. Child(nodes, x) = call.node
      BY <1>6, <1>8, <2>1, <2>2, <2>4
    <3> QED  BY <2>1, <2>4, <3>1 DEF Quiet, CallMoves
  <2>5. call' = call /\ \A x : Pending(x)' = Pending(x)
    BY <1>1 DEF Pending
  <2> QED  BY <1>2, <1>6, <2>1, <2>3, <2>4, <2>5 DEF CallMoves, U
<1>11. QueueFits' /\ AfterMoves' /\ UploadShape'
  <2>1. QueueFits'
    BY <1>1, <1>2, <1>3 DEF Quiet, QueueFits, n
  <2> QED  BY <1>1, <1>2, <1>4, <2>1 DEF Quiet, AfterMoves, UploadShape, U, n
<1>12. UploadMoves'
  <2>1. CASE ~Moved
    <3>1. Has(nodes', U) = n
      BY <1>4, <1>8, <1>9, <2>1 DEF Has
    <3> QED  BY <1>2, <1>3, <1>7, <2>1, <3>1 DEF UploadMoves, UploadStays, U
  <2>2. CASE Moved /\ call # NoCall
    <3>1. Child(nodes', U) = call.node /\ nodes'[call.node].content = n
      <4>1. z = U /\ i = call.node /\ i \in DOMAIN nodes /\ i # 0
        BY <1>5, <1>6, <1>7, <1>9, <2>2
      <4>2. j = i
        BY <1>8, <4>1
      <4> QED  BY <1>4, <1>8, <4>1, <4>2
    <3>2. UploadToMove'
      BY <1>1, <1>2, <1>3, <1>7, <2>2, <3>1 DEF UploadToMove, U
    <3> QED  BY <1>1, <1>2, <1>3, <1>7, <2>2, <3>2 DEF UploadMoves, U
  <2>3. CASE Moved /\ call = NoCall
    <3>1. ~Copy.trashed => IF Child(nodes', U) # 0 THEN Has(nodes', U) = n ELSE Has(nodes', Copy.name) = n
      BY <1>4, <1>7, <1>8, <1>9, <2>3 DEF Has
    <3>2. UploadMoved'
      BY <1>2, <1>3, <3>1 DEF UploadMoved, U
    <3> QED  BY <1>1, <1>2, <1>3, <1>7, <2>3, <3>2 DEF UploadMoves, U
  <2> QED  BY <2>1, <2>2, <2>3
<1>13. ASSUME NEW x \in Name  PROVE want'[x] = Promised(x)'
  <2>1. Pending(x)' = Pending(x) /\ want' = want /\ want[x] = Promised(x)
    BY <1>1 DEF Pending, Kept
  <2>2. CASE Pending(x) # {}
    BY <2>1, <2>2 DEF Promised
  <2>3. CASE Pending(x) = {}
    <3>1. x = Copy.name => Copy.trashed
      BY <1>3, <2>3 DEF Pending, Copy, n
    <3>2. x # after.to /\ after' = NoCall
      BY <1>1, <1>3, TypedParts
    <3>3. CASE x = U
      BY <1>1, <1>2, <2>1, <2>3, <3>3 DEF Promised, Coming, Leaving, U
    <3>4. CASE x # U
      <4>1. x # z /\ Child(nodes', x) = Child(nodes, x)
        BY <1>8, <1>9, <3>1, <3>4
      <4>2. Leaving(x)' = Leaving(x)
        BY <1>1, <1>2, <4>1 DEF Leaving, U
      <4>3. x = call.to => nodes'[call.node].content = nodes[call.node].content
        <5>1. SUFFICES ASSUME x = call.to, call.node = j  PROVE FALSE
          BY <1>6, <1>8, TypedParts
        <5>2. call # NoCall /\ call.node \in DOMAIN nodes /\ j = i /\ i = Child(nodes, U)
          BY <1>6, <1>7, <1>9, <5>1, TypedParts
        <5>3. CASE Moved
          <6>1. IF Copy.trashed THEN call.op = "remove" ELSE call.to = Copy.name
            BY <1>7, <5>2, <5>3 DEF UploadToMove
          <6> QED  BY <1>6, <3>1, <5>1, <5>2, <6>1, TypedParts DEF CallFits
        <5>4. CASE ~Moved
          <6>1. Pending(U) = {}
            BY <1>4, <1>6, <5>1, <5>2 DEF Quiet, CallMoves
          <6> QED  BY <1>3, <5>4, <6>1 DEF Pending, Moved, Copy, U, n
        <5> QED  BY <5>3, <5>4
      <4>4. Has(nodes', x) = Has(nodes, x)
        <5>1. CASE Child(nodes, x) = 0
          BY <4>1, <5>1 DEF Has
        <5>2. CASE Child(nodes, x) # 0
          <6>1. /\ Child(nodes, x) \in DOMAIN nodes
                /\ nodes[Child(nodes, x)].live /\ nodes[Child(nodes, x)].name = x
            BY <1>5, <5>2
          <6>2. Child(nodes, x) # j
            BY <1>8, <1>9, <4>1, <5>2, <6>1
          <6> QED  BY <1>8, <4>1, <6>1, <6>2 DEF Has
        <5> QED  BY <5>1, <5>2
      <4>5. Coming(x)' = Coming(x)
        BY <1>1, <3>2, <4>2, <4>3, <4>4 DEF Coming
      <4> QED  BY <2>1, <2>3, <4>5 DEF Promised
    <3> QED  BY <3>3, <3>4
  <2> QED  BY <2>2, <2>3
<1> QED  BY <1>1, <1>4, <1>8, <1>10, <1>11, <1>12, <1>13 DEF Quiet, Kept

\* The copy leaves the queue; a move of it that the account does not know yet
\* is what follows.
LEMMA UploadedIsQuiet ==
  ASSUME Typing, Quiet, Kept, Uploaded
  PROVE  Quiet' /\ Kept'
<1> DEFINE U == upload.name
           n == upload.n
           y == Copy.name
<1>1. /\ upload.step = "stored" /\ after' = Follows(Copy)
      /\ items' = Without(items, Current)
      /\ upload' = IF after' = NoCall THEN NoUpload ELSE [upload EXCEPT !.step = "after"]
      /\ UNCHANGED <<call, nodes, folders, count, want>>
  BY DEF Uploaded, Drop, Copy
<1>2. /\ Busy /\ n \in DOMAIN items /\ n \in Save /\ n # 0 /\ U \in Name /\ after = NoCall
      /\ y \in Name /\ n <= count.saves
  BY <1>1, TypedParts DEF Busy, Quiet, UploadShape, Copy
<1>3. /\ Account(nodes) /\ OneOfAName(nodes) /\ folders = {} /\ 0 \notin DOMAIN nodes
      /\ \A x : Child(nodes, x) \in DOMAIN nodes \cup {0}
      /\ \A x : Child(nodes, x) # 0 => nodes[Child(nodes, x)].live /\ nodes[Child(nodes, x)].name = x
  BY TypedParts, NodesOf, ChildIsLive DEF Quiet
<1>4. DOMAIN items' = DOMAIN items \ {n} /\ \A k \in DOMAIN items' : items'[k] = items[k]
  BY <1>1, <1>2 DEF Without, Current
<1>5. /\ \A x : Pending(x)' = Pending(x) \ {n}
      /\ \A x : n \in Pending(x) <=> ~Copy.trashed /\ x = y
  BY <1>2, <1>4 DEF Pending, Copy
<1>6. call # NoCall =>
        /\ CallFits(nodes, call) /\ call.node \in DOMAIN nodes /\ call.to # U
        /\ \A x \in Name : x # call.to /\ Child(nodes, x) = call.node => Pending(x) = {}
  BY <1>1 DEF Quiet, CallMoves, CallFits
<1>7. /\ ~Moved => Has(nodes, U) = n
      /\ Moved /\ call # NoCall => UploadToMove
      /\ Moved /\ call = NoCall /\ ~Copy.trashed =>
           IF Child(nodes, U) # 0 THEN Has(nodes, U) = n ELSE Has(nodes, y) = n
      /\ Copy.trashed => y = U
  BY <1>1, <1>2 DEF Quiet, UploadMoves, UploadStays, UploadMoved
<1>8. Child(nodes, U) # 0 => ToRemove(U) # NoCall /\ ToRename(U, y) # NoCall
  BY <1>2, <1>3, AskedOfTheAccount
<1>9. after' = IF ~Moved \/ Child(nodes, U) = 0 THEN NoCall
               ELSE IF Copy.trashed THEN ToRemove(U) ELSE ToRename(U, y)
  BY <1>1, <1>3 DEF Follows, Moved
<1>10. /\ upload'.name = IF after' = NoCall THEN Spare ELSE U
       /\ upload'.step = IF after' = NoCall THEN "none" ELSE "after"
       /\ after' # NoCall => upload'.n = n
       /\ ~Busy'
  BY <1>1 DEF NoUpload, Busy, Typing
<1>11. QueueFits'
  BY <1>1, <1>2, <1>4, <1>10 DEF Quiet, QueueFits
<1>12. \A k \in Pending(y) : k # n => n < k
  BY <1>2 DEF Quiet, QueueFits, Pending
<1> HIDE DEF U, n, y
<1>13. CallMoves'
  <2>1. call # NoCall => call.to # upload'.name \/ upload'.step = "none"
    BY <1>6, <1>10
  <2>2. \A x : Pending(x) = {} => Pending(x)' = {}
    BY <1>5
  <2> QED  BY <1>1, <1>6, <1>10, <2>1, <2>2 DEF CallMoves
<1>14. UploadShape' /\ UploadMoves'
  BY <1>1, <1>2, <1>10 DEF UploadShape, UploadMoves, U, n
\* (the same move as a call under way)
<1>15. AfterMoves' /\ (after' # NoCall => after'.node = Child(nodes, U) /\ after'.node \in DOMAIN nodes)
  <2>1. SUFFICES ASSUME Moved, Child(nodes, U) # 0  PROVE AfterMoves' /\ after'.node = Child(nodes, U) /\ after'.node \in DOMAIN nodes
    BY <1>9, <1>10 DEF AfterMoves
  <2> DEFINE i == Child(nodes, U)
  <2>2. i \in DOMAIN nodes /\ nodes[i].live /\ nodes[i].name = U /\ i # 0
    BY <1>3, <2>1
  <2>3. \A x \in Name : Child(nodes, x) = i => x = U
    BY <1>3, <2>1, TwoNames
  <2>4. CASE Copy.trashed
    <3>1. after' = [op |-> "remove", node |-> i, there |-> 0, to |-> Spare]
      BY <1>9, <2>1, <2>4 DEF ToRemove
    <3>2. CallFits(nodes, after')
      BY <2>2, <3>1 DEF CallFits
    <3>3. call # NoCall => SameMove(call, after')
      BY <1>6, <1>7, <2>1, <2>4, <3>1 DEF SameMove, UploadToMove, CallFits, U
    <3>4. after' # NoCall
      BY <1>8, <1>9, <2>1, <2>4
    <3> QED  BY <1>1, <1>2, <1>4, <1>10, <2>1, <2>2, <2>3, <3>1, <3>2, <3>3, <3>4, TypedParts DEF AfterMoves
  <2>5. CASE ~Copy.trashed
    <3>1. y # U
      BY <2>1, <2>5 DEF Moved, y, U
    <3>2. Child(nodes, y) # i
      BY <1>3, <2>2, <3>1
    <3>3. after' = [op |-> "rename", node |-> i, to |-> y, there |-> Child(nodes, y)]
      BY <1>9, <2>1, <2>5, <3>2 DEF ToRename
    <3>4. CallFits(nodes, after')
      BY <1>2, <1>3, <2>2, <3>2, <3>3 DEF CallFits
    <3>5. call # NoCall => SameMove(call, after')
      BY <1>7, <2>1, <2>5, <3>3 DEF SameMove, UploadToMove, U, y
    <3>6. after' # NoCall
      BY <1>8, <1>9, <2>1, <2>5
    <3> QED  BY <1>1, <1>2, <1>4, <1>10, <2>2, <2>3, <3>1, <3>3, <3>4, <3>5, <3>6 DEF AfterMoves
  <2> QED  BY <2>4, <2>5
<1>16. ASSUME NEW x \in Name  PROVE want'[x] = Promised(x)'
  <2>1. want' = want /\ want[x] = Promised(x) /\ Pending(x)' = Pending(x) \ {n} /\ Pending(x) \in SUBSET Save
    BY <1>1, <1>5, TypedParts DEF Kept
  <2>2. x # after.to /\ (call = NoCall => x # call.to) /\ (after' = NoCall => x # after'.to)
    BY <1>2, TypedParts
  <2>3. CASE Pending(x) \ {n} # {}
    <3>1. Newest(Pending(x)) \in Pending(x) /\ \A j \in Pending(x) : j <= Newest(Pending(x))
      BY <2>1, <2>3, CopiesAreOrdered
    <3>2. Newest(Pending(x)) # n
      <4>1. SUFFICES ASSUME n \in Pending(x)  PROVE Newest(Pending(x)) # n
        BY <3>1
      <4>2. PICK k \in Pending(x) : k # n
        BY <2>3
      <4>3. n < k /\ k <= Newest(Pending(x))
        BY <1>5, <1>12, <3>1, <4>1, <4>2
      <4>4. n \in Nat /\ k \in Nat
        BY <1>2, <2>1, BoundsAreNumbers DEF Save
      <4> QED  BY <4>3, <4>4
    <3>3. Newest(Pending(x) \ {n}) = Newest(Pending(x))
      <4> DEFINE S == Pending(x) \ {n}
                 k == Newest(Pending(x))
      <4>1. S \in SUBSET Save /\ k \in S /\ \A j \in S : j <= k
        BY <2>1, <3>1, <3>2
      <4> HIDE DEF S, k
      <4>2. Newest(S) = k
        BY <4>1, NewestIs
      <4> QED  BY <4>2 DEF S, k
    <3>4. Pending(x)' # {} /\ Newest(Pending(x)') = Newest(Pending(x))
      BY <2>1, <2>3, <3>3
    <3>5. Promised(x)' = Newest(Pending(x)') /\ Promised(x) = Newest(Pending(x))
      BY <2>1, <2>3, <3>4 DEF Promised, Newest
    <3> QED  BY <2>1, <3>4, <3>5
  <2>4. CASE Pending(x) = {n}
    <3>1. ~Copy.trashed /\ x = y /\ want[x] = n
      <4>1. Newest({n}) = n
        <5>1. {n} \in SUBSET Save /\ n \in {n} /\ \A j \in {n} : j <= n
          BY <1>2, BoundsAreNumbers DEF Save
        <5> QED  BY <5>1, NewestIs
      <4> QED  BY <1>5, <2>1, <2>4, <4>1 DEF Promised
    <3>2. Promised(x)' = Coming(x)'
      BY <2>1, <2>4 DEF Promised
    <3>3. CASE ~Moved
      <4>1. x = U
        BY <3>1, <3>3 DEF Moved, y, U
      <4>2. after' = NoCall /\ upload'.step = "none"
        BY <1>9, <1>10, <3>3
      <4>3. ~Leaving(x)'
        BY <1>1, <1>6, <2>4, <4>1, <4>2 DEF Leaving
      <4>4. x # call.to
        BY <1>6, <2>2, <4>1
      <4> QED  BY <1>1, <1>7, <2>1, <2>2, <3>1, <3>2, <3>3, <4>1, <4>2, <4>3, <4>4 DEF Coming
    <3>4. CASE Moved
      <4>1. x # U
        BY <3>1, <3>4 DEF Moved, y, U
      <4>2. CASE Child(nodes, U) = 0
        <5>1. call = NoCall
          BY <1>3, <1>6, <1>7, <3>4, <4>2 DEF UploadToMove, U
        <5>2. after' = NoCall /\ upload'.step = "none" /\ Has(nodes, x) = n
          BY <1>7, <1>9, <1>10, <3>1, <3>4, <4>2, <5>1
        <5> QED  BY <1>1, <2>1, <2>2, <3>1, <3>2, <5>1, <5>2 DEF Coming, Leaving
      <4>3. CASE Child(nodes, U) # 0
        <5>1. after' = ToRename(U, y) /\ after' # NoCall /\ after'.to = x /\ after'.node = Child(nodes, U)
          BY <1>8, <1>9, <3>1, <3>4, <4>3 DEF ToRename
        <5>2. nodes[Child(nodes, U)].content = n
          BY <1>1, <1>7, <3>1, <3>4, <4>3 DEF UploadToMove, Has, U, n
        <5>3. call # NoCall => call.to = x
          BY <1>7, <3>1, <3>4 DEF UploadToMove, y
        <5>4. ~Leaving(x)'
          BY <1>1, <1>10, <4>1, <5>1, <5>3 DEF Leaving
        <5> QED  BY <1>1, <2>1, <3>1, <3>2, <5>1, <5>2, <5>4 DEF Coming
      <4> QED  BY <4>2, <4>3
    <3> QED  BY <3>3, <3>4
  <2>5. CASE Pending(x) = {}
    <3>1. Promised(x)' = Coming(x)' /\ want[x] = Coming(x) /\ ~(~Copy.trashed /\ x = y)
      BY <1>5, <2>1, <2>5 DEF Promised
    <3>2. CASE x # U
      <4>1. Leaving(x)' = Leaving(x)
        BY <1>1, <1>10, <3>2 DEF Leaving, U
      <4>2. x # after'.to
        BY <1>9, <2>2, <3>1, TypedParts DEF ToRemove, ToRename
      <4> QED  BY <1>1, <2>1, <2>2, <3>1, <4>1, <4>2 DEF Coming
    <3>3. CASE x = U
      <4>1. want[x] = 0
        BY <1>1, <3>1, <3>3 DEF Coming, Leaving, U
      <4>2. CASE after' # NoCall
        <5>1. Leaving(x)'
          BY <1>10, <3>3, <4>2 DEF Leaving
        <5> QED  BY <2>1, <3>1, <4>1, <5>1 DEF Coming
      <4>3. CASE after' = NoCall
        <5>1. Moved
          BY <3>1, <3>3 DEF Moved, y, U
        <5>2. Child(nodes, x) = 0
          BY <1>8, <1>9, <3>3, <4>3, <5>1
        <5>3. x # call.to
          BY <1>6, <2>2, <3>3
        <5> QED  BY <1>1, <2>1, <2>2, <3>1, <4>1, <4>3, <5>2, <5>3 DEF Coming, Has
      <4> QED  BY <4>2, <4>3
    <3> QED  BY <3>2, <3>3
  <2> QED  BY <2>3, <2>4, <2>5
<1> QED  BY <1>1, <1>3, <1>11, <1>13, <1>14, <1>15, <1>16 DEF Quiet, Kept

\* The move that follows an upload is done.
LEMMA FollowedIsQuiet ==
  ASSUME Typing, Quiet, Kept, Followed, ~troubled'
  PROVE  Quiet' /\ Kept'
<1> DEFINE U == upload.name
<1>1. /\ upload.step = "after" /\ nodes' = Performed(nodes, after)
      /\ after' = NoCall /\ upload' = NoUpload
      /\ UNCHANGED <<items, call, folders, count, want>>
  BY DEF Followed, Fails
<1>2. /\ CallFits(nodes, after) /\ after.to # U /\ after.node \in DOMAIN nodes /\ U \in Name
      /\ \A x \in Name : Child(nodes, x) = after.node => x \in {U, after.to}
      /\ Child(nodes, U) \in {0, after.node}
      /\ call # NoCall => SameMove(call, after) /\ CallFits(nodes, call)
  BY <1>1 DEF Quiet, AfterMoves, CallMoves, CallFits, UploadShape
<1>3. /\ Account(nodes) /\ OneOfAName(nodes) /\ folders = {} /\ CallOn(nodes, call) /\ CallOn(nodes, after)
      /\ 0 \notin DOMAIN nodes /\ ~Busy
  BY <1>1, TypedParts, NodesOf DEF Quiet, Busy
<1>4. /\ Account(nodes') /\ OneOfAName(nodes') /\ SameContent(nodes, nodes')
      /\ \A x \in Name : Child(nodes', x) = IF x = after.to THEN after.node
                                            ELSE IF Child(nodes, x) = after.node THEN 0 ELSE Child(nodes, x)
  <2> DEFINE ms == nodes'
  <2>1. ms = Performed(nodes, after)
    BY <1>1
  <2> HIDE DEF ms
  <2>2. /\ Account(ms) /\ OneOfAName(ms) /\ SameContent(nodes, ms)
        /\ \A x \in Name : Child(ms, x) = IF x = after.to THEN after.node
                                          ELSE IF Child(nodes, x) = after.node THEN 0 ELSE Child(nodes, x)
    BY <1>2, <1>3, <2>1, PerformedNames
  <2> QED  BY <2>2 DEF ms
<1>5. call # NoCall => CallFits(nodes', call)
  <2> DEFINE ms == nodes'
  <2>1. ms = Performed(nodes, after)
    BY <1>1
  <2> HIDE DEF ms
  <2>2. call # NoCall => CallFits(ms, call)
    BY <1>2, <1>3, <2>1, FitsAfterSameMove
  <2> QED  BY <2>2 DEF ms
<1>6. /\ upload'.step = "none" /\ ~Busy' /\ \A x : Pending(x)' = Pending(x)
      /\ call # NoCall => call.to = after.to /\ call.node = after.node
  BY <1>1, <1>2 DEF NoUpload, Busy, Pending, SameMove
<1> HIDE DEF U
<1>7. QueueFits' /\ AfterMoves' /\ UploadShape' /\ UploadMoves'
  BY <1>1, <1>3, <1>6 DEF Quiet, QueueFits, AfterMoves, UploadShape, UploadMoves
<1>8. CallMoves'
  <2>1. ASSUME NEW x \in Name, x # after.to  PROVE Child(nodes', x) # after.node
    BY <1>2, <1>3, <1>4, <2>1
  <2> QED  BY <1>1, <1>5, <1>6, <2>1 DEF CallMoves
<1>9. \A i \in DOMAIN nodes : nodes'[i].content = nodes[i].content
  BY <1>4 DEF SameContent
<1>10. ASSUME NEW x \in Name, Pending(x) = {}  PROVE Coming(x)' = Coming(x)
  <2>1. x # NoCall.to /\ after' = NoCall /\ call' = call
    BY <1>1, TypedParts
  <2>2. ~Leaving(x)'
    <3>1. SUFFICES ASSUME call # NoCall, x # call.to, Child(nodes', x) = call.node  PROVE FALSE
      BY <1>1, <1>6 DEF Leaving
    <3> QED  BY <1>2, <1>3, <1>4, <1>6, <3>1
  <2>3. CASE x = U
    <3>1. Leaving(x) /\ Coming(x) = 0
      BY <1>1, <2>3 DEF Leaving, Coming, U
    <3>2. x # call.to
      BY <1>2, <1>6, <2>1, <2>3
    <3>3. Child(nodes', x) = 0
      BY <1>2, <1>4, <2>3
    <3> QED  BY <2>1, <2>2, <3>1, <3>2, <3>3 DEF Coming, Has
  <2>4. CASE x = after.to
    <3>1. ~Leaving(x) /\ Coming(x) = nodes[after.node].content
      BY <1>2, <1>6, <2>4 DEF Leaving, Coming, U
    <3>2. Child(nodes', x) = after.node
      BY <1>4, <2>4
    <3>3. CASE x = call.to
      BY <1>2, <1>6, <1>9, <2>1, <2>2, <3>1, <3>3 DEF Coming
    <3>4. CASE x # call.to
      BY <1>2, <1>3, <1>9, <2>1, <2>2, <3>1, <3>2, <3>4 DEF Coming, Has
    <3> QED  BY <3>3, <3>4
  <2>5. CASE x # U /\ x # after.to
    <3>1. Child(nodes, x) # after.node
      BY <1>2, <2>5
    <3>2. ~Leaving(x) /\ x # call.to
      BY <1>6, <2>1, <2>5, <3>1 DEF Leaving, U
    <3>3. Child(nodes', x) = Child(nodes, x)
      BY <1>4, <2>5, <3>1
    <3>4. Has(nodes', x) = Has(nodes, x)
      <4>1. Child(nodes, x) \in DOMAIN nodes \cup {0}
        BY <1>3, ChildIsLive
      <4> QED  BY <1>9, <3>3, <4>1 DEF Has
    <3> QED  BY <2>1, <2>2, <2>5, <3>2, <3>4 DEF Coming
  <2> QED  BY <2>3, <2>4, <2>5
<1>11. Kept'
  <2>1. ASSUME NEW x \in Name  PROVE Promised(x)' = Promised(x)
    <3>1. Pending(x)' = Pending(x)
      BY <1>6
    <3>2. CASE Pending(x) = {}
      BY <1>10, <3>1, <3>2 DEF Promised
    <3>3. CASE Pending(x) # {}
      BY <3>1, <3>3 DEF Promised
    <3> QED  BY <3>2, <3>3
  <2> QED  BY <1>1, <2>1 DEF Kept
<1> QED  BY <1>1, <1>3, <1>4, <1>7, <1>8, <1>11 DEF Quiet

\* The account answers a call.
LEMMA AnsweredIsQuiet ==
  ASSUME Typing, Quiet, Kept, Answered
  PROVE  Quiet' /\ Kept'
<1> DEFINE U == upload.name
           y == Copy.name
<1>1. /\ call # NoCall /\ nodes' = Performed(nodes, call) /\ call' = NoCall
      /\ UNCHANGED <<items, upload, after, folders, count, want>>
  BY DEF Answered
<1>2. /\ CallFits(nodes, call) /\ call.node \in DOMAIN nodes
      /\ upload.step \in {"sent", "stored", "after"} => call.to # U
      /\ \A x \in Name : x # call.to /\ Child(nodes, x) = call.node => Pending(x) = {}
  BY <1>1 DEF Quiet, CallMoves, CallFits
<1>3. /\ Account(nodes) /\ OneOfAName(nodes) /\ folders = {} /\ CallOn(nodes, call) /\ CallOn(nodes, after)
      /\ 0 \notin DOMAIN nodes /\ \A x : Child(nodes, x) \in DOMAIN nodes \cup {0}
  BY TypedParts, NodesOf, ChildIsLive DEF Quiet
<1>4. /\ Account(nodes') /\ OneOfAName(nodes') /\ SameContent(nodes, nodes')
      /\ \A x \in Name : Child(nodes', x) = IF x = call.to THEN call.node
                                            ELSE IF Child(nodes, x) = call.node THEN 0 ELSE Child(nodes, x)
      /\ call.op = "remove" => ~nodes'[call.node].live /\ nodes'[call.node].name = nodes[call.node].name
  <2> DEFINE ms == nodes'
  <2>1. ms = Performed(nodes, call)
    BY <1>1
  <2> HIDE DEF ms
  <2>2. /\ Account(ms) /\ OneOfAName(ms) /\ SameContent(nodes, ms)
        /\ \A x \in Name : Child(ms, x) = IF x = call.to THEN call.node
                                          ELSE IF Child(nodes, x) = call.node THEN 0 ELSE Child(nodes, x)
        /\ call.op = "remove" => ~ms[call.node].live /\ ms[call.node].name = nodes[call.node].name
    BY <1>2, <1>3, <2>1, PerformedNames
  <2> QED  BY <2>2 DEF ms
<1>5. /\ Busy' = Busy /\ Copy' = Copy /\ Moved' = Moved /\ \A x : Pending(x)' = Pending(x)
      /\ \A i \in DOMAIN nodes : nodes'[i].content = nodes[i].content
  BY <1>1, <1>4 DEF Busy, Copy, Moved, Pending, SameContent
<1>6. Busy => U \in Name /\ upload.n \in DOMAIN items /\ y \in Name
  BY TypedParts DEF Quiet, UploadShape, Busy, Copy
<1> HIDE DEF U, y
<1>7. QueueFits' /\ CallMoves' /\ UploadShape'
  BY <1>1, <1>5 DEF Quiet, QueueFits, CallMoves, UploadShape
<1>8. AfterMoves'
  <2>1. SUFFICES ASSUME upload.step = "after"  PROVE AfterMoves'
    BY <1>1 DEF AfterMoves
  <2>2. /\ CallFits(nodes, after) /\ after.to # U /\ upload.n \notin DOMAIN items
        /\ Child(nodes, U) \in {0, after.node} /\ SameMove(call, after) /\ U \in Name
    BY <1>1, <2>1 DEF Quiet, AfterMoves, UploadShape, U
  <2>3. after.op = call.op /\ after.node = call.node /\ after.to = call.to /\ SameMove(after, call)
    BY <2>2 DEF SameMove
  <2>4. CallFits(nodes', after)
    <3> DEFINE ms == nodes'
    <3>1. ms = Performed(nodes, call)
      BY <1>1
    <3> HIDE DEF ms
    <3>2. CallFits(ms, after)
      BY <1>2, <1>3, <2>2, <2>3, <3>1, FitsAfterSameMove
    <3> QED  BY <3>2 DEF ms
  <2>5. ASSUME NEW x \in Name, Child(nodes', x) = after.node  PROVE x = after.to
    BY <1>2, <1>3, <1>4, <2>3, <2>5
  <2>6. Child(nodes', U) \in {0, after.node}
    BY <1>4, <2>2, <2>3
  <2> QED  BY <1>1, <2>2, <2>4, <2>5, <2>6 DEF AfterMoves, U
<1>9. UploadMoves'
  <2>1. SUFFICES ASSUME Busy  PROVE UploadMoves'
    BY <1>5 DEF UploadMoves
  <2>2. /\ Copy.trashed => y = U
        /\ ~Moved => UploadStays
        /\ Moved => UploadToMove
    BY <1>1, <2>1 DEF Quiet, UploadMoves, y, U
  <2>3. CASE ~Moved
    <3>1. Pending(U) # {}
      BY <1>6, <2>1, <2>3 DEF Moved, Pending, Copy, U
    <3>2. upload.step \in {"sent", "stored"} => Child(nodes', U) = Child(nodes, U)
      BY <1>2, <1>4, <1>6, <2>1, <3>1
    <3>3. upload.step = "stored" => Has(nodes', U) = Has(nodes, U)
      BY <1>3, <1>5, <3>2 DEF Has
    <3>4. UploadStays'
      BY <1>1, <2>2, <2>3, <3>2, <3>3 DEF UploadStays, U
    <3> QED  BY <1>1, <1>5, <2>2, <2>3, <3>4 DEF UploadMoves, y, U
  <2>4. CASE Moved
    <3>1. /\ call.node = Child(nodes, U)
          /\ IF Copy.trashed THEN call.op = "remove" ELSE call.op = "rename" /\ call.to = y
          /\ upload.step = "sent" => upload.node = call.node
          /\ upload.step = "stored" => nodes[call.node].content = upload.n
      BY <2>2, <2>4 DEF UploadToMove, U, y
    <3>2. call.to # U
      <4>1. Copy.trashed => call.to = Spare
        BY <1>2, <3>1 DEF CallFits
      <4>2. ~Copy.trashed => y # U
        BY <2>4 DEF Moved, y, U
      <4> QED  BY <1>6, <2>1, <3>1, <4>1, <4>2, TypedParts
    <3>3. Child(nodes', U) = 0
      BY <1>4, <1>6, <2>1, <3>1, <3>2
    <3>4. ~Copy.trashed => Child(nodes', y) = call.node /\ Has(nodes', y) = nodes[call.node].content
      <4>1. SUFFICES ASSUME ~Copy.trashed  PROVE Child(nodes', y) = call.node /\ Has(nodes', y) = nodes[call.node].content
        OBVIOUS
      <4>2. Child(nodes', y) = call.node
        BY <1>4, <1>6, <2>1, <3>1, <4>1
      <4> QED  BY <1>2, <1>3, <1>5, <4>2 DEF Has
    <3>5. Copy.trashed => ~nodes'[call.node].live /\ nodes'[call.node].name = U
      <4>1. nodes[call.node].name = U
        BY <1>2, <1>3, <3>1, ChildIsLive
      <4> QED  BY <1>4, <3>1, <4>1
    <3>6. UploadMoved'
      BY <1>1, <1>5, <3>1, <3>3, <3>4, <3>5 DEF UploadMoved, U, y
    <3> QED  BY <1>1, <1>5, <2>2, <2>4, <3>6 DEF UploadMoves, U, y
  <2> QED  BY <2>3, <2>4
<1>10. ASSUME NEW x \in Name, Pending(x) = {}  PROVE Coming(x)' = Coming(x)
  <2>1. x # NoCall.to /\ call' = NoCall /\ after' = after
    BY <1>1, TypedParts
  <2>2. Leaving(x)' <=> upload.step # "none" /\ x = U
    BY <1>1 DEF Leaving, U
  <2>3. CASE upload.step # "none" /\ x = U
    BY <2>2, <2>3 DEF Coming, Leaving, U
  <2>4. CASE ~(upload.step # "none" /\ x = U) /\ x = after.to
    <3>1. upload.step = "after"
      BY <2>1, <2>4, TypedParts
    <3>2. after.to = call.to /\ after.node \in DOMAIN nodes
      BY <1>1, <3>1 DEF Quiet, AfterMoves, SameMove, CallFits
    <3>3. ~Leaving(x)
      BY <2>4, <3>2 DEF Leaving, U
    <3> QED  BY <1>5, <2>1, <2>2, <2>4, <3>2, <3>3 DEF Coming
  <2>5. CASE ~(upload.step # "none" /\ x = U) /\ x # after.to /\ x = call.to
    <3>1. ~Leaving(x) /\ Coming(x) = nodes[call.node].content
      BY <2>5 DEF Leaving, Coming, U
    <3>2. Coming(x)' = Has(nodes', x)
      BY <1>1, <2>1, <2>2, <2>5 DEF Coming
    <3>3. Child(nodes', x) = call.node
      BY <1>4, <2>5
    <3> QED  BY <1>2, <1>3, <1>5, <3>1, <3>2, <3>3 DEF Has
  <2>6. CASE ~(upload.step # "none" /\ x = U) /\ x # after.to /\ x # call.to
    <3>1. Coming(x)' = Has(nodes', x)
      BY <1>1, <2>1, <2>2, <2>6 DEF Coming
    <3>2. CASE Child(nodes, x) = call.node
      <4>1. Leaving(x) /\ Coming(x) = 0
        BY <1>1, <2>6, <3>2 DEF Leaving, Coming
      <4>2. Child(nodes', x) = 0
        BY <1>4, <2>6, <3>2
      <4> QED  BY <3>1, <4>1, <4>2 DEF Has
    <3>3. CASE Child(nodes, x) # call.node
      <4>1. ~Leaving(x) /\ Coming(x) = Has(nodes, x)
        BY <2>6, <3>3 DEF Leaving, Coming, U
      <4>2. Child(nodes', x) = Child(nodes, x) /\ Child(nodes, x) \in DOMAIN nodes \cup {0}
        BY <1>3, <1>4, <2>6, <3>3
      <4> QED  BY <1>5, <3>1, <4>1, <4>2 DEF Has
    <3> QED  BY <3>2, <3>3
  <2> QED  BY <2>3, <2>4, <2>5, <2>6
<1>11. Kept'
  <2>1. ASSUME NEW x \in Name  PROVE Promised(x)' = Promised(x)
    <3>1. Pending(x)' = Pending(x)
      BY <1>5
    <3>2. CASE Pending(x) = {}
      BY <1>10, <3>1, <3>2 DEF Promised
    <3>3. CASE Pending(x) # {}
      BY <3>1, <3>3 DEF Promised
    <3> QED  BY <3>2, <3>3
  <2> QED  BY <1>1, <2>1 DEF Kept
<1> QED  BY <1>1, <1>3, <1>4, <1>7, <1>8, <1>9, <1>11 DEF Quiet

\* A copy enters the queue, newer than all that are there.
LEMMA AddIsQuiet ==
  ASSUME Typing, Quiet, Kept, NEW x \in Name, Add(x)
  PROVE  Quiet' /\ Kept'
<1> DEFINE n == count.saves + 1
           S == Replaced(x)
           r == [name |-> x, trashed |-> FALSE, fresh |-> TRUE, late |-> FALSE]
<1>1. /\ call = NoCall /\ n \in Save
      /\ items' = With(Without(items, S), n, r)
      /\ want' = [want EXCEPT ![x] = n]
      /\ UNCHANGED <<upload, call, after, nodes, folders>>
  BY DEF Add
<1>2. count.saves \in Nat /\ count'.saves = n /\ want \in [Name -> Save \cup {0}]
  BY DEF Add, Count, Typing
<1>3. S \cap Current = {} /\ \A k \in DOMAIN items : k \in S => items[k].name = x
  BY DEF Replaced
<1>4. \A k \in DOMAIN items : k <= count.saves /\ k \in Nat /\ k # n
  <2>1. \A k \in Save : k \in Nat
    BY BoundsAreNumbers DEF Save
  <2> QED  BY <1>2, <2>1, TypedParts DEF Quiet, QueueFits
<1>5. r.name = x /\ ~r.trashed /\ ~r.late
  OBVIOUS
<1> HIDE DEF S, r
<1>6. /\ DOMAIN items' = (DOMAIN items \ S) \cup {n} /\ items'[n] = r
      /\ \A k \in DOMAIN items \ S : items'[k] = items[k] /\ k # n
  <2> DEFINE its == Without(items, S)
  <2>1. DOMAIN its = DOMAIN items \ S /\ \A k \in DOMAIN items \ S : its[k] = items[k]
    BY DEF Without
  <2>2. items' = With(its, n, r)
    BY <1>1
  <2> HIDE DEF its, n
  <2> QED  BY <1>4, <2>1, <2>2 DEF With
<1>7. /\ upload.step # "none" => upload.n <= count.saves /\ upload.n \in Nat /\ upload.n # n
      /\ Busy' = Busy
      /\ Busy => upload.n \in DOMAIN items \ S /\ Copy' = Copy
  <2>1. upload.step # "none" => upload.n <= count.saves /\ upload.n \in Save
    BY DEF Quiet, UploadShape
  <2>2. upload.step # "none" => upload.n \in Nat /\ upload.n # n
    BY <1>2, <2>1, BoundsAreNumbers DEF Save
  <2>3. Busy => upload.n \in DOMAIN items \ S
    BY <1>3, TypedParts DEF Current
  <2>4. Busy' = Busy /\ (Busy => Copy' = Copy)
    BY <1>1, <1>6, <2>3 DEF Busy, Copy
  <2> QED  BY <2>1, <2>2, <2>3, <2>4
<1>8. QueueFits'
  <2>1. n <= count'.saves /\ \A k \in DOMAIN items : k <= count'.saves
    BY <1>2, <1>4
  <2>2. \A k \in DOMAIN items \ S :
          /\ ~items'[k].late
          /\ items'[k].trashed => Busy' /\ k = upload'.n
          /\ Busy' /\ k # upload'.n /\ items'[k].name = Copy'.name => upload'.n < k
    BY <1>1, <1>6, <1>7 DEF Quiet, QueueFits
  <2>3. ~items'[n].late /\ ~items'[n].trashed /\ (Busy' => upload'.n < n)
    BY <1>1, <1>2, <1>5, <1>6, <1>7 DEF Busy
  <2> HIDE DEF n
  <2>4. ASSUME NEW k \in DOMAIN items'
        PROVE  /\ k <= count'.saves /\ ~items'[k].late
               /\ items'[k].trashed => Busy' /\ k = upload'.n
               /\ Busy' /\ k # upload'.n /\ items'[k].name = Copy'.name => upload'.n < k
    <3>1. CASE k = n
      BY <2>1, <2>3, <3>1
    <3>2. CASE k # n
      BY <1>6, <2>1, <2>2, <2>4, <3>2
    <3> QED  BY <3>1, <3>2
  <2> QED  BY <2>4 DEF QueueFits
<1>9. CallMoves' /\ UploadShape' /\ AfterMoves'
  <2>1. upload.step # "none" => upload.n <= n
    BY <1>2, <1>7
  <2>2. UploadShape'
    BY <1>1, <1>2, <2>1 DEF Quiet, UploadShape
  <2>3. upload.step = "after" /\ upload.n \notin DOMAIN items => upload.n \notin DOMAIN items'
    BY <1>6, <1>7
  <2>4. AfterMoves'
    BY <1>1, <2>3 DEF Quiet, AfterMoves
  <2> QED  BY <1>1, <2>2, <2>4 DEF CallMoves
<1>10. UploadMoves'
  BY <1>1, <1>7 DEF Quiet, UploadMoves, Moved, UploadStays, UploadMoved
<1>11. ASSUME NEW z \in Name  PROVE want'[z] = Promised(z)'
  <2>1. CASE z = x
    <3>1. /\ n \in Pending(x)' /\ Pending(x)' \in SUBSET Save
          /\ \A j \in Pending(x)' : j <= n
      <4>1. n \in Pending(x)'
        BY <1>5, <1>6 DEF Pending
      <4>2. Pending(x)' \subseteq DOMAIN items \cup {n}
        BY <1>6 DEF Pending
      <4>3. \A j \in DOMAIN items \cup {n} : j <= n /\ j \in Save
        BY <1>1, <1>2, <1>4, TypedParts
      <4> QED  BY <4>1, <4>2, <4>3
    <3>2. Newest(Pending(x)') = n
      <4> DEFINE T == Pending(x)'
      <4>1. T \in SUBSET Save /\ n \in T /\ \A j \in T : j <= n
        BY <3>1
      <4> HIDE DEF T, n
      <4>2. Newest(T) = n
        BY <4>1, NewestIs
      <4> QED  BY <4>2 DEF T
    <3>3. Promised(z)' = n
      BY <2>1, <3>1, <3>2 DEF Promised, Newest
    <3> QED  BY <1>1, <1>2, <2>1, <3>3
  <2>2. CASE z # x
    <3>1. Pending(z)' = Pending(z)
      BY <1>3, <1>5, <1>6, <2>2 DEF Pending
    <3>2. Leaving(z)' = Leaving(z) /\ want'[z] = want[z] /\ want[z] = Promised(z)
      BY <1>1, <1>2, <2>2 DEF Leaving, Kept
    <3>3. Coming(z)' = Coming(z)
      BY <1>1, <3>2 DEF Coming
    <3> QED  BY <3>1, <3>2, <3>3 DEF Promised
  <2> QED  BY <2>1, <2>2
<1> QED  BY <1>1, <1>8, <1>9, <1>10, <1>11 DEF Quiet, Kept

\* What is renamed or removed while the queue is quiet has not been before
\* within its upload.
LEMMA NotChangedYet ==
  ASSUME Typing, Quiet, ~Changed
  PROVE  /\ upload.step # "after" /\ after = NoCall
         /\ upload.step = "none" => upload = NoUpload /\ ~Busy /\ Current = {} /\ \A k \in DOMAIN items : ~items[k].trashed
         /\ upload.step # "none" =>
              /\ Busy /\ ~Moved /\ UploadStays /\ upload.n \in DOMAIN items /\ Current = {upload.n}
              /\ \A x : upload.n \in Pending(x) <=> x = upload.name
              /\ upload.name \in Name
         /\ \A k \in DOMAIN items : ~items[k].trashed
<1>1. CASE upload.step = "none"
  <2>1. upload = NoUpload /\ ~Busy /\ after = NoCall
    BY <1>1, TypedParts DEF Quiet, UploadShape, Busy
  <2> QED  BY <1>1, <2>1 DEF Quiet, QueueFits, Current, NoUpload
<1>2. CASE upload.step # "none"
  <2>1. upload.n \in Pending(upload.name)
    BY <1>2 DEF Changed
  <2>2. upload.n \in DOMAIN items /\ items[upload.n].name = upload.name /\ ~items[upload.n].trashed
    BY <2>1 DEF Pending
  <2>3. upload.step # "after" /\ after = NoCall
    BY <2>2, TypedParts DEF Quiet, AfterMoves
  <2>4. Busy /\ ~Moved
    BY <1>2, <2>2, <2>3, TypedParts DEF Busy, Moved, Copy
  <2>5. UploadStays /\ Current = {upload.n} /\ upload.name \in Name
    BY <1>2, <2>2, <2>4, TypedParts DEF Quiet, UploadMoves, UploadShape, Current
  <2> QED  BY <1>2, <2>2, <2>3, <2>4, <2>5 DEF Pending, Quiet, QueueFits
<1> QED  BY <1>1, <1>2

\* A file is removed: from the queue, from the account, or once it is there.
LEMMA RemoveIsQuiet ==
  ASSUME Typing, Quiet, Kept, NEW x \in Name, Remove(x), ~troubled'
  PROVE  Quiet' /\ Kept'
<1> DEFINE U == upload.name
           n == upload.n
           P == Pending(x)
<1>1. /\ call = NoCall /\ ~Changed
      /\ want' = [want EXCEPT ![x] = 0] /\ want \in [Name -> Save \cup {0}]
      /\ call' = IF Child(nodes, x) = 0 THEN NoCall ELSE ToRemove(x)
      /\ UNCHANGED <<upload, after, nodes, folders>> /\ count'.saves = count.saves
  BY DEF Remove, Moves, Crosses, Count, Typing
<1>2. /\ after = NoCall /\ upload.step # "after"
      /\ upload.step = "none" => upload = NoUpload /\ ~Busy /\ Current = {}
      /\ upload.step # "none" =>
           /\ Busy /\ ~Moved /\ UploadStays /\ n \in DOMAIN items /\ Current = {n}
           /\ \A z : n \in Pending(z) <=> z = U
           /\ U \in Name
      /\ \A k \in DOMAIN items : ~items[k].trashed
  BY <1>1, NotChangedYet
<1>3. /\ DOMAIN items' = DOMAIN items \ (P \ Current)
      /\ \A k \in DOMAIN items' : /\ items'[k].name = items[k].name /\ items'[k].late = items[k].late
                                  /\ items'[k].trashed <=> k \in P
                                  /\ k \notin P => items'[k] = items[k]
  <2> DEFINE jts == [k \in DOMAIN items |-> IF k \in P THEN [items[k] EXCEPT !.trashed = TRUE] ELSE items[k]]
  <2>1. items' = Without(jts, P \ Current)
    BY DEF Remove, RemovePending
  <2>2. \A k \in DOMAIN items : /\ jts[k].name = items[k].name /\ jts[k].late = items[k].late
                                /\ jts[k].trashed <=> k \in P
                                /\ k \notin P => jts[k] = items[k]
    <3>1. ASSUME NEW k \in DOMAIN items
          PROVE  LET r == [items[k] EXCEPT !.trashed = TRUE]
                 IN  r.name = items[k].name /\ r.late = items[k].late /\ r.trashed
      BY <3>1, TypedParts DEF Item
    <3>2. \A k \in DOMAIN items : jts[k] = IF k \in P THEN [items[k] EXCEPT !.trashed = TRUE] ELSE items[k]
      OBVIOUS
    <3> HIDE DEF jts, P
    <3>3. ASSUME NEW k \in DOMAIN items
          PROVE  /\ jts[k].name = items[k].name /\ jts[k].late = items[k].late
                 /\ jts[k].trashed <=> k \in P
                 /\ k \notin P => jts[k] = items[k]
      <4>1. CASE k \in P
        BY <3>1, <3>2, <4>1
      <4>2. CASE k \notin P
        BY <1>2, <3>2, <4>2, TypedParts DEF Item
      <4> QED  BY <4>1, <4>2
    <3> QED  BY <3>3
  <2>3. DOMAIN jts = DOMAIN items
    OBVIOUS
  <2> HIDE DEF jts, P
  <2> QED  BY <2>1, <2>2, <2>3 DEF Without
<1>4. Pending(x)' = {} /\ \A z : z # x => Pending(z)' = Pending(z)
  <2>1. \A k \in DOMAIN items : k \in P <=> items[k].name = x
    BY <1>2 DEF Pending
  <2>2. Pending(x)' = {}
    BY <1>3, <2>1 DEF Pending
  <2>3. ASSUME NEW z, z # x  PROVE Pending(z)' = Pending(z)
    <3>1. \A k : k \in Pending(z) => k \notin P
      BY <2>3 DEF Pending
    <3>2. \A k : k \in Pending(z)' => k \notin P
      BY <1>3 DEF Pending
    <3> QED  BY <1>2, <1>3, <3>1, <3>2 DEF Pending
  <2> QED  BY <2>2, <2>3
<1>5. /\ Account(nodes) /\ OneOfAName(nodes) /\ folders = {} /\ 0 \notin DOMAIN nodes
      /\ Child(nodes, x) \in DOMAIN nodes \cup {0}
      /\ \A z : Child(nodes, x) # 0 /\ Child(nodes, z) = Child(nodes, x) => z = x
  BY TypedParts, NodesOf, ChildIsLive DEF Quiet
<1>6. Child(nodes, x) # 0 =>
        /\ call' # NoCall /\ call'.op = "remove" /\ call'.node = Child(nodes, x)
        /\ call'.there = 0 /\ call'.to = Spare
  BY <1>1, <1>5, AskedOfTheAccount DEF ToRemove
<1>7. Child(nodes, x) = 0 => call' = NoCall
  BY <1>1
<1>8. Busy' = Busy /\ (Busy => n \in DOMAIN items' /\ Copy'.name = U /\ (Copy'.trashed <=> x = U))
  <2>1. Busy => n \in DOMAIN items' /\ Copy' = items'[n] /\ Copy = items[n]
    BY <1>1, <1>2, <1>3 DEF Copy, Busy
  <2> QED  BY <1>1, <1>2, <1>3, <2>1 DEF Busy, Moved
<1> HIDE DEF U, n, P
<1>9. QueueFits'
  <2>1. ASSUME NEW k \in DOMAIN items'
        PROVE  k \in DOMAIN items /\ (k \in P => Busy /\ k = n)
    BY <1>2, <1>3, <2>1
  <2>2. Busy => Copy'.name = Copy.name
    BY <1>2, <1>8 DEF Moved, U
  <2>3. ASSUME NEW k \in DOMAIN items'
        PROVE  /\ k <= count.saves /\ ~items'[k].late
               /\ items'[k].trashed => Busy /\ k = n
               /\ Busy /\ k # n /\ items'[k].name = Copy'.name => n < k
    BY <1>3, <2>1, <2>2, <2>3 DEF Quiet, QueueFits, n
  <2> QED  BY <1>1, <1>8, <2>3 DEF QueueFits, n
<1>10. CallMoves'
  <2>1. SUFFICES ASSUME Child(nodes, x) # 0  PROVE CallMoves'
    BY <1>7 DEF CallMoves
  <2>2. CallFits(nodes, call')
    BY <1>5, <1>6, <2>1 DEF CallFits
  <2>3. upload.step \in {"sent", "stored", "after"} => call'.to # U
    BY <1>2, <1>6, <2>1, TypedParts
  <2>4. \A z \in Name : Child(nodes, z) = call'.node => Pending(z)' = {}
    BY <1>4, <1>5, <1>6, <2>1
  <2> QED  BY <1>1, <2>2, <2>3, <2>4 DEF CallMoves, U
<1>11. AfterMoves' /\ UploadShape'
  BY <1>1, <1>2 DEF Quiet, AfterMoves, UploadShape
<1>12. UploadMoves'
  <2>1. SUFFICES ASSUME Busy  PROVE UploadMoves'
    BY <1>8 DEF UploadMoves
  <2>2. UploadStays /\ Copy'.name = U /\ (Copy'.trashed <=> x = U)
    BY <1>2, <1>8, <2>1 DEF Busy
  <2>3. CASE x # U
    <3>1. ~Moved' /\ UploadStays'
      BY <1>1, <2>2, <2>3 DEF Moved, UploadStays, U
    <3> QED  BY <2>2, <2>3, <3>1 DEF UploadMoves
  <2>4. CASE x = U
    <3>1. /\ upload.step = "sent" => upload.node = Child(nodes, x)
          /\ upload.step = "stored" => Has(nodes, x) = n
      BY <2>2, <2>4 DEF UploadStays, U, n
    <3>2. Moved'
      BY <2>2, <2>4 DEF Moved
    <3>3. CASE Child(nodes, x) # 0
      <4>1. UploadToMove'
        BY <1>1, <1>6, <2>2, <2>4, <3>1, <3>3 DEF UploadToMove, Has, U, n
      <4> QED  BY <1>1, <1>6, <2>2, <3>3, <3>2, <4>1 DEF UploadMoves, U
    <3>4. CASE Child(nodes, x) = 0
      <4>1. UploadMoved'
        BY <1>1, <2>2, <2>4, <3>1, <3>4 DEF UploadMoved, U
      <4> QED  BY <1>1, <1>7, <2>2, <3>4, <3>2, <4>1 DEF UploadMoves, U
    <3> QED  BY <3>3, <3>4
  <2> QED  BY <2>3, <2>4
<1>13. ASSUME NEW z \in Name  PROVE want'[z] = Promised(z)'
  <2>1. z # after'.to /\ z # call'.to
    BY <1>1, <1>2, <1>6, <1>7, TypedParts
  <2>2. CASE z = x
    <3>1. want'[z] = 0 /\ Promised(z)' = Coming(z)'
      BY <1>1, <1>4, <2>2 DEF Promised
    <3>2. CASE Child(nodes, x) # 0
      <4>1. Leaving(z)'
        BY <1>1, <1>6, <2>1, <2>2, <3>2 DEF Leaving
      <4> QED  BY <3>1, <4>1 DEF Coming
    <3>3. CASE Child(nodes, x) = 0
      <4>1. Has(nodes', z) = 0
        BY <1>1, <2>2, <3>3 DEF Has
      <4> QED  BY <2>1, <3>1, <4>1 DEF Coming
    <3> QED  BY <3>2, <3>3
  <2>3. CASE z # x
    <3>1. want'[z] = want[z] /\ want[z] = Promised(z) /\ Pending(z)' = Pending(z)
      BY <1>1, <1>4, <2>3 DEF Kept
    <3>2. z # after.to /\ z # call.to
      BY <1>1, <1>2, TypedParts
    <3>3. Leaving(z)' = Leaving(z)
      BY <1>1, <1>5, <1>6, <1>7, <2>3 DEF Leaving
    <3>4. Coming(z)' = Coming(z)
      BY <1>1, <2>1, <3>2, <3>3 DEF Coming
    <3> QED  BY <3>1, <3>4 DEF Promised
  <2> QED  BY <2>2, <2>3
<1> QED  BY <1>1, <1>5, <1>9, <1>10, <1>11, <1>12, <1>13 DEF Quiet, Kept

\* A file is renamed to a name that nothing in the queue has.
LEMMA RenameIsQuiet ==
  ASSUME Typing, Quiet, Kept, NEW x \in Name, NEW y \in Name, Rename(x, y), ~troubled'
  PROVE  Quiet' /\ Kept'
<1> DEFINE U == upload.name
           n == upload.n
           P == Pending(x)
<1>1. /\ x # y /\ call = NoCall /\ ~Changed /\ ~Queued(y) /\ Shown(x) # 0
      /\ items' = [k \in DOMAIN items |-> IF k \in P THEN [items[k] EXCEPT !.name = y] ELSE items[k]]
      /\ want' = [want EXCEPT ![x] = 0, ![y] = Shown(x)] /\ want \in [Name -> Save \cup {0}]
      /\ call' = IF Child(nodes, x) = 0 THEN NoCall ELSE ToRename(x, y)
      /\ UNCHANGED <<upload, after, nodes, folders>> /\ count'.saves = count.saves
  BY DEF Rename, RenamePending, Moves, Crosses, Count, Exchange, Typing
<1>2. /\ after = NoCall /\ upload.step # "after"
      /\ upload.step = "none" => upload = NoUpload /\ ~Busy /\ Current = {}
      /\ upload.step # "none" =>
           /\ Busy /\ ~Moved /\ UploadStays /\ n \in DOMAIN items /\ Current = {n}
           /\ \A z : n \in Pending(z) <=> z = U
           /\ U \in Name
      /\ \A k \in DOMAIN items : ~items[k].trashed
  BY <1>1, NotChangedYet
<1>3. y # U /\ \A k \in DOMAIN items : items[k].name # y
  BY <1>1 DEF Queued
<1>4. /\ DOMAIN items' = DOMAIN items
      /\ \A k \in DOMAIN items : /\ ~items'[k].trashed /\ items'[k].late = items[k].late
                                 /\ items'[k].name = IF k \in P THEN y ELSE items[k].name
                                 /\ k \notin P => items'[k] = items[k]
  <2>1. ASSUME NEW k \in DOMAIN items
        PROVE  LET r == [items[k] EXCEPT !.name = y]
               IN  r.name = y /\ r.late = items[k].late /\ r.trashed = items[k].trashed
    BY <2>1, TypedParts DEF Item
  <2> HIDE DEF P
  <2>2. ASSUME NEW k \in DOMAIN items
        PROVE  /\ ~items'[k].trashed /\ items'[k].late = items[k].late
               /\ items'[k].name = IF k \in P THEN y ELSE items[k].name
               /\ k \notin P => items'[k] = items[k]
    <3>1. CASE k \in P
      BY <1>1, <1>2, <2>1, <3>1
    <3>2. CASE k \notin P
      BY <1>1, <1>2, <3>2
    <3> QED  BY <3>1, <3>2
  <2> QED  BY <1>1, <2>2
<1>5. \A z : Pending(z)' = IF z = x THEN {} ELSE IF z = y THEN Pending(x) ELSE Pending(z)
  <2>1. \A z, k : k \in Pending(z) <=> k \in DOMAIN items /\ items[k].name = z
    BY <1>2 DEF Pending
  <2>2. \A z, k : k \in Pending(z)' <=> k \in DOMAIN items /\ items'[k].name = z
    BY <1>4 DEF Pending
  <2>3. \A k : k \in P <=> k \in DOMAIN items /\ items[k].name = x
    BY <2>1
  <2> HIDE DEF P
  <2>4. ASSUME NEW z, NEW k
        PROVE  k \in Pending(z)' <=> k \in (IF z = x THEN {} ELSE IF z = y THEN Pending(x) ELSE Pending(z))
    <3>1. k \in Pending(z)' <=> k \in DOMAIN items /\ (IF k \in P THEN y ELSE items[k].name) = z
      BY <1>4, <2>2
    <3>2. CASE z = x
      BY <1>1, <2>3, <3>1, <3>2
    <3>3. CASE z = y
      BY <1>1, <1>3, <2>1, <2>3, <3>1, <3>3
    <3>4. CASE z # x /\ z # y
      BY <2>1, <2>3, <3>1, <3>4
    <3> QED  BY <3>2, <3>3, <3>4
  <2> QED  BY <2>4
<1>6. /\ Account(nodes) /\ OneOfAName(nodes) /\ folders = {} /\ 0 \notin DOMAIN nodes
      /\ \A z : Child(nodes, z) \in DOMAIN nodes \cup {0}
      /\ \A z : Child(nodes, z) # 0 => nodes[Child(nodes, z)].live /\ nodes[Child(nodes, z)].name = z
  BY TypedParts, NodesOf, ChildIsLive DEF Quiet
<1>7. Child(nodes, x) # 0 =>
        /\ call' # NoCall /\ call'.op = "rename" /\ call'.node = Child(nodes, x)
        /\ call'.there = Child(nodes, y) /\ call'.to = y
        /\ Child(nodes, y) # Child(nodes, x)
  BY <1>1, <1>6, AskedOfTheAccount DEF ToRename
<1>8. Child(nodes, x) = 0 => call' = NoCall
  BY <1>1
<1>9. Busy' = Busy /\ (Busy => Copy'.name = (IF x = U THEN y ELSE U) /\ ~Copy'.trashed)
  <2>1. Busy => n \in DOMAIN items' /\ Copy' = items'[n] /\ Copy = items[n]
    BY <1>1, <1>2, <1>4 DEF Copy, Busy
  <2> QED  BY <1>1, <1>2, <1>4, <2>1 DEF Busy, Moved
<1>10. Busy => Copy.name = U /\ n \in DOMAIN items /\ (n \in P <=> x = U)
  BY <1>2 DEF Moved, Busy
<1>11. \A k : k \in P <=> k \in DOMAIN items /\ items[k].name = x
  BY <1>2 DEF Pending
<1> HIDE DEF U, n, P
<1>12. QueueFits'
  <2>1. ASSUME NEW k \in DOMAIN items', Busy, k # n, items'[k].name = Copy'.name
        PROVE  n < k
    <3>1. items[k].name = Copy.name
      BY <1>3, <1>4, <1>9, <1>10, <1>11, <2>1
    <3> QED  BY <1>4, <2>1, <3>1 DEF Quiet, QueueFits, n
  <2>2. \A k \in DOMAIN items' : k <= count.saves /\ ~items'[k].late /\ ~items'[k].trashed
    BY <1>4 DEF Quiet, QueueFits
  <2> QED  BY <1>1, <1>9, <2>1, <2>2 DEF QueueFits, n
<1>13. CallMoves'
  <2>1. SUFFICES ASSUME Child(nodes, x) # 0  PROVE CallMoves'
    BY <1>8 DEF CallMoves
  <2>2. CallFits(nodes, call')
    BY <1>6, <1>7, <2>1 DEF CallFits
  <2>3. \A z \in Name : Child(nodes, z) = call'.node => Pending(z)' = {}
    BY <1>5, <1>6, <1>7, <2>1
  <2> QED  BY <1>1, <1>3, <1>7, <2>1, <2>2, <2>3 DEF CallMoves, U
<1>14. AfterMoves' /\ UploadShape'
  BY <1>1, <1>2 DEF Quiet, AfterMoves, UploadShape
<1>15. UploadMoves'
  <2>1. SUFFICES ASSUME Busy  PROVE UploadMoves'
    BY <1>9 DEF UploadMoves
  <2>2. UploadStays /\ Copy'.name = (IF x = U THEN y ELSE U) /\ ~Copy'.trashed
    BY <1>2, <1>9, <2>1 DEF Busy
  <2>3. CASE x # U
    <3>1. ~Moved' /\ UploadStays'
      BY <1>1, <2>2, <2>3 DEF Moved, UploadStays, U
    <3> QED  BY <2>2, <3>1 DEF UploadMoves
  <2>4. CASE x = U
    <3>1. /\ upload.step = "sent" => upload.node = Child(nodes, x)
          /\ upload.step = "stored" => Has(nodes, x) = n
      BY <2>2, <2>4 DEF UploadStays, U, n
    <3>2. Moved' /\ Copy'.name = y
      BY <1>1, <1>3, <2>2, <2>4 DEF Moved, U
    <3>3. CASE Child(nodes, x) # 0
      <4>1. UploadToMove'
        BY <1>1, <1>7, <2>2, <2>4, <3>1, <3>2, <3>3 DEF UploadToMove, Has, U, n
      <4> QED  BY <1>7, <2>2, <3>2, <3>3, <4>1 DEF UploadMoves
    <3>4. CASE Child(nodes, x) = 0
      <4>1. upload.step # "stored"
        BY <1>2, <3>1, <3>4, TypedParts DEF Has, Quiet, UploadShape, n
      <4>2. UploadMoved'
        BY <1>1, <2>4, <3>1, <3>4, <4>1 DEF UploadMoved, U
      <4> QED  BY <1>8, <2>2, <3>2, <3>4, <4>2 DEF UploadMoves
    <3> QED  BY <3>3, <3>4
  <2> QED  BY <2>3, <2>4
<1>16. ASSUME NEW z \in Name  PROVE want'[z] = Promised(z)'
  <2>1. z # after'.to /\ (Child(nodes, x) = 0 => z # call'.to)
    BY <1>1, <1>2, <1>8, TypedParts
  <2>2. CASE z = x
    <3>1. want'[z] = 0 /\ Promised(z)' = Coming(z)'
      BY <1>1, <1>5, <2>2 DEF Promised
    <3>2. CASE Child(nodes, x) # 0
      <4>1. Leaving(z)'
        BY <1>1, <1>7, <2>2, <3>2 DEF Leaving
      <4> QED  BY <3>1, <4>1 DEF Coming
    <3>3. CASE Child(nodes, x) = 0
      <4>1. Has(nodes', z) = 0
        BY <1>1, <2>2, <3>3 DEF Has
      <4> QED  BY <2>1, <3>1, <3>3, <4>1 DEF Coming
    <3> QED  BY <3>2, <3>3
  <2>3. CASE z = y
    <3>1. want'[z] = Shown(x) /\ Pending(z)' = Pending(x)
      BY <1>1, <1>5, <2>3
    <3>2. CASE Pending(x) # {}
      BY <3>1, <3>2 DEF Promised, Shown, Newest
    <3>3. CASE Pending(x) = {}
      <4>1. Child(nodes, x) # 0 /\ Shown(x) = nodes[Child(nodes, x)].content
        BY <1>1, <3>3 DEF Shown
      <4>2. ~Leaving(z)'
        BY <1>1, <1>3, <1>7, <2>3, <4>1 DEF Leaving, U
      <4>3. Promised(z)' = Coming(z)'
        BY <3>1, <3>3 DEF Promised
      <4> QED  BY <1>1, <1>7, <2>1, <2>3, <3>1, <4>1, <4>2, <4>3 DEF Coming
    <3> QED  BY <3>2, <3>3
  <2>4. CASE z # x /\ z # y
    <3>1. want'[z] = want[z] /\ want[z] = Promised(z) /\ Pending(z)' = Pending(z)
      BY <1>1, <1>5, <2>4 DEF Kept
    <3>2. z # after.to /\ z # call.to /\ z # call'.to
      BY <1>1, <1>2, <1>7, <2>1, <2>4, TypedParts
    <3>3. Leaving(z)' = Leaving(z)
      BY <1>1, <1>6, <1>7, <1>8, <2>4 DEF Leaving
    <3>4. Coming(z)' = Coming(z)
      BY <1>1, <2>1, <3>2, <3>3 DEF Coming
    <3> QED  BY <3>1, <3>4 DEF Promised
  <2> QED  BY <2>2, <2>3, <2>4
<1> QED  BY <1>1, <1>6, <1>12, <1>13, <1>14, <1>15, <1>16 DEF Quiet, Kept

-----------------------------------------------------------------------------
(* What the account ends with while nothing fails: the theorem             *)

LEMMA InitUndisturbed == Init => Undisturbed
<1> SUFFICES ASSUME Init  PROVE Quiet /\ Kept
  BY DEF Undisturbed
<1>1. /\ DOMAIN items = {} /\ DOMAIN nodes = {} /\ folders = {} /\ want = [x \in Name |-> 0]
      /\ upload = NoUpload /\ call = NoCall /\ after = NoCall /\ upload.step = "none"
  BY DEF Init, NoUpload
<1>2. OneOfAName(nodes) /\ QueueFits /\ CallMoves /\ AfterMoves /\ UploadShape /\ UploadMoves
  BY <1>1 DEF OneOfAName, QueueFits, CallMoves, AfterMoves, UploadShape, UploadMoves, Busy
<1>3. ASSUME NEW x \in Name  PROVE want[x] = Promised(x)
  <2>1. Pending(x) = {} /\ Child(nodes, x) = 0
    BY <1>1 DEF Pending, Child
  <2>2. x # Spare
    BY SpareIsNoName
  <2> QED  BY <1>1, <2>1, <2>2 DEF Promised, Coming, Leaving, Has, NoCall
<1> QED  BY <1>1, <1>2, <1>3 DEF Quiet, Kept

\* Each step that leaves everything undisturbed keeps what was promised.
LEMMA NextUndisturbed == Typing /\ Undisturbed /\ [Next]_vars => Undisturbed'
<1> SUFFICES ASSUME Typing, Undisturbed, [Next]_vars, ~troubled'  PROVE Quiet' /\ Kept'
  BY DEF Undisturbed
<1>1. ~troubled
  BY DEF vars, Next, User, Add, Remove, Rename, Moves, Request, Answered, NotAnswered, Fails, Loop, Start, Open,
         Refused, Commit, Failed, Uploaded, Followed, LoopEnds, Passes, Settles, ComesAgain, Restart, FolderAppears
<1>2. Quiet /\ Kept
  BY <1>1 DEF Undisturbed
<1>3. CASE User
  BY <1>2, <1>3, AddIsQuiet, RemoveIsQuiet, RenameIsQuiet DEF User
<1>4. CASE Request
  BY <1>2, <1>4, AnsweredIsQuiet DEF Request, NotAnswered, Fails
<1>5. CASE Start \/ Open \/ Commit \/ Uploaded \/ Followed
  BY <1>2, <1>5, StartIsQuiet, OpenIsQuiet, CommitIsQuiet, UploadedIsQuiet, FollowedIsQuiet
\* (no folder has taken a name)
<1>6. ~Refused /\ ~Failed /\ ~Restart /\ ~(\E x \in Name : FolderAppears(x))
  BY <1>2 DEF Quiet, Refused, Failed, Fails, Restart, FolderAppears
<1>7. CASE LoopEnds \/ Passes \/ UNCHANGED vars
  <2>1. UNCHANGED <<upload, call, after, nodes, folders, count, want>>
    BY <1>7 DEF LoopEnds, Passes, Settles, ComesAgain, vars
  <2>2. \A k \in DOMAIN items : ~items[k].late
    BY <1>2 DEF Quiet, QueueFits
  <2>3. DOMAIN items' = DOMAIN items
        /\ \A k \in DOMAIN items :
             items'[k].name = items[k].name /\ items'[k].trashed = items[k].trashed /\ ~items'[k].late
    <3>1. CASE UNCHANGED items
      BY <2>2, <3>1
    <3>2. ASSUME NEW j \in Save, Settles(j)
          PROVE  DOMAIN items' = DOMAIN items
                 /\ \A k \in DOMAIN items :
                      items'[k].name = items[k].name /\ items'[k].trashed = items[k].trashed /\ ~items'[k].late
      <4>1. j \in DOMAIN items /\ items' = [items EXCEPT ![j] = [items[j] EXCEPT !.fresh = FALSE]]
        BY <3>2 DEF Settles
      <4> DEFINE r == [items[j] EXCEPT !.fresh = FALSE]
      <4>2. r.name = items[j].name /\ r.trashed = items[j].trashed /\ r.late = items[j].late
        BY <4>1, TypedParts DEF Item
      <4>3. items' = [items EXCEPT ![j] = r]
        BY <4>1
      <4> HIDE DEF r
      <4> QED  BY <2>2, <4>1, <4>2, <4>3
    <3>3. ASSUME NEW j \in Save  PROVE ~ComesAgain(j)
      BY <2>2 DEF ComesAgain
    <3> QED  BY <1>7, <3>1, <3>2, <3>3 DEF LoopEnds, Passes, vars
  <2> QED  BY <1>2, <2>1, <2>3, TimeIsQuiet
<1> QED  BY <1>3, <1>4, <1>5, <1>6, <1>7 DEF Next, Loop

LEMMA UndisturbedIsSettled == Typing /\ Undisturbed => UndisturbedSettles
<1> SUFFICES ASSUME Typing, Undisturbed, ~troubled, Settled, NEW x \in Name, x \notin Temp
             PROVE  LET i == Child(nodes, x)
                    IN  IF want[x] = 0 THEN i = 0 ELSE i # 0 /\ nodes[i].content = want[x]
  BY DEF UndisturbedSettles
<1>1. Waiting = {} /\ upload.step = "none" /\ call = NoCall /\ after = NoCall
  BY TypedParts DEF Settled, AtRest, NoUpload
<1>2. Pending(x) = {} /\ ~Leaving(x)
  BY <1>1 DEF Waiting, Pending, Leaving
<1>3. x # NoCall.to
  BY TypedParts
<1>4. want[x] = Has(nodes, x)
  BY <1>1, <1>2, <1>3 DEF Undisturbed, Kept, Promised, Coming
<1>5. Child(nodes, x) # 0 => nodes[Child(nodes, x)].content # 0
  <2>1. Account(nodes)
    BY TypedParts
  <2> QED  BY <2>1, ChildIsLive, NodesOf
<1> QED  BY <1>4, <1>5 DEF Has

\* Whatever is renamed, removed or saved again before, during and after its
\* upload: when nothing fails and no rename takes a name that is in the queue,
\* the account ends with what the user put on the disk, in every behaviour.
THEOREM AccountEndsAsTheDisk == Spec => []UndisturbedSettles
<1>1. Init => Typing /\ StoredIsThere /\ Undisturbed
  BY InitTyping, InitUndisturbed
<1>2. Typing /\ StoredIsThere /\ Undisturbed /\ [Next]_vars => (Typing /\ StoredIsThere /\ Undisturbed)'
  BY NextTyping, NextUndisturbed
<1>3. Typing /\ StoredIsThere /\ Undisturbed => UndisturbedSettles
  BY UndisturbedIsSettled
<1> QED  BY <1>1, <1>2, <1>3, PTL DEF Spec
=============================================================================
