------------------------ MODULE SnapshotChainProofs ------------------------
(***************************************************************************)
(* What the snapshot chain keeps for any devices, lengths of the log, days *)
(* and moves: a pointer is one whole chain whoever wrote it, and as long   *)
(* as no writer built on a pointer that had changed, what the account's    *)
(* pointer reaches is never deleted.                                       *)
(*                                                                         *)
(* The chain is walked by a recursive function. Its value is the least set *)
(* of messages closed under "the one before", and all that is used of it   *)
(* here follows from that: the walk is closed, and it is the least.        *)
(***************************************************************************)
EXTENDS SnapshotChain, FiniteSetTheorems, SequenceTheorems, WellFoundedInduction, TLAPS

-----------------------------------------------------------------------------
(* Numbers                                                                 *)

\* A non-empty set of numbers up to N has a least one.
LEMMA LeastOf ==
  ASSUME NEW N \in Nat, NEW T \in SUBSET (0 .. N), T # {}
  PROVE  \E i \in T : \A j \in T : i <= j
<1> DEFINE Seg(i) == {j \in T : j <= i}
           Segs == {Seg(i) : i \in T}
<1>1. IsFiniteSet(T)
  <2>1. IsFiniteSet(0 .. N)
    BY FS_Interval
  <2> QED  BY <2>1, FS_Subset
<1>2. IsWellFoundedOn(StrictSubsetOrdering(T), FiniteSubsetsOf(T)) /\ FiniteSubsetsOf(T) = SUBSET T
  BY <1>1, FS_StrictSubsetOrderingWellFounded, FS_FiniteSubsetsOfFinite
<1>3. Segs \subseteq FiniteSubsetsOf(T) /\ Segs # {}
  <2>1. \A i \in T : Seg(i) \in SUBSET T
    OBVIOUS
  <2>2. Segs \subseteq SUBSET T
    <3> HIDE DEF Seg
    <3> QED  BY <2>1
  <2>3. PICK i : i \in T
    OBVIOUS
  <2>4. Seg(i) \in Segs
    BY <2>3
  <2> QED  BY <1>2, <2>2, <2>4
<1>4. PICK x \in Segs : \A y \in Segs : <<y, x>> \notin StrictSubsetOrdering(T)
  <2> HIDE DEF Segs
  <2> QED  BY <1>2, <1>3, WFMin
<1>5. PICK i \in T : x = Seg(i)
  OBVIOUS
<1>6. ASSUME NEW j \in T, j < i  PROVE FALSE
  <2>1. i \in Nat /\ j \in Nat /\ \A k \in T : k \in Nat
    OBVIOUS
  <2>2. Seg(j) \subseteq Seg(i) /\ Seg(j) # Seg(i)
    <3>1. i \in Seg(i) /\ i \notin Seg(j)
      BY <1>6, <2>1
    <3>2. ASSUME NEW k \in Seg(j)  PROVE k \in Seg(i)
      <4>1. k \in T /\ k <= j
        OBVIOUS
      <4> QED  BY <1>6, <2>1, <4>1
    <3> QED  BY <3>1, <3>2
  <2>3. <<Seg(j), Seg(i)>> \in StrictSubsetOrdering(T)
    BY <2>2 DEF StrictSubsetOrdering
  <2> QED  BY <1>4, <1>5, <2>3
<1> QED  BY <1>6

\* ... and a greatest one.
LEMMA GreatestOf ==
  ASSUME NEW N \in Nat, NEW T \in SUBSET (0 .. N), T # {}
  PROVE  \E i \in T : \A j \in T : j <= i
<1> DEFINE Z == {N - n : n \in T}
<1>1. Z \in SUBSET (0 .. N) /\ Z # {}
  <2>1. ASSUME NEW n \in T  PROVE N - n \in 0 .. N
    OBVIOUS
  <2> QED  BY <2>1
<1>2. PICK z \in Z : \A y \in Z : z <= y
  <2> HIDE DEF Z
  <2> QED  BY <1>1, LeastOf
<1>3. PICK i \in T : z = N - i
  OBVIOUS
<1>4. ASSUME NEW j \in T  PROVE j <= i
  <2>1. N - j \in Z /\ j \in Nat /\ i \in Nat
    OBVIOUS
  <2>2. z <= N - j
    BY <1>2, <2>1
  <2> QED  BY <1>3, <2>1, <2>2
<1> QED  BY <1>4

-----------------------------------------------------------------------------
(* The walk                                                                *)

MessageType == [from : Nat, to : Nat, prev : Nat, live : BOOLEAN]

\* Messages, each linked to an earlier one or to none.
Linked(ms) == ms \in Seq(MessageType) /\ \A m \in DOMAIN ms : ms[m].prev < m

\* The walk ends here.
Stops(ms, m, floor) == m = 0 \/ ms[m].to <= floor

\* Walk, of any messages.
WalkIn(ms, last, floor) ==
  LET back[m \in 0..Len(ms)] ==
        IF m = 0 \/ ms[m].to <= floor THEN {} ELSE {m} \cup back[ms[m].prev]
  IN  back[last]

\* Sets that are closed: with a message the one before, unless the walk ends.
WalkClosed(ms, S, floor) ==
  \A x \in S : ~Stops(ms, ms[x].prev, floor) => ms[x].prev \in S

\* The walk is empty where it ends, and goes on to the message before.
IsWalk(ms, F, floor) ==
  F = [m \in 0..Len(ms) |-> IF m = 0 \/ ms[m].to <= floor THEN {} ELSE {m} \cup F[ms[m].prev]]

\* What is meant by a walk: the least closed set with its start.
LeastWalk(ms, m, floor) ==
  IF Stops(ms, m, floor) THEN {}
  ELSE {x \in 1..Len(ms) : \A S \in SUBSET (1..Len(ms)) : m \in S /\ WalkClosed(ms, S, floor) => x \in S}

\* The links are numbers of messages.
LEMMA LinksAreMessages ==
  ASSUME NEW ms, Linked(ms), NEW m \in 1..Len(ms)
  PROVE  /\ Len(ms) \in Nat /\ DOMAIN ms = 1..Len(ms) /\ ms[m] \in MessageType
         /\ ms[m].prev \in 0..(m - 1) /\ ms[m].prev \in 0..Len(ms)
         /\ ms[m].to \in Nat /\ ms[m].from \in Nat /\ ms[m].live \in BOOLEAN
<1>1. ms \in Seq(MessageType) /\ DOMAIN ms = 1..Len(ms) /\ Len(ms) \in Nat
  BY DEF Linked
<1>2. ms[m] \in MessageType /\ ms[m].prev < m
  BY <1>1 DEF Linked
<1> QED  BY <1>1, <1>2 DEF MessageType

\* The least closed set obeys the equation of the walk.
LEMMA LeastWalkStep ==
  ASSUME NEW ms, Linked(ms), NEW floor \in Nat, NEW m \in 0..Len(ms), ~Stops(ms, m, floor)
  PROVE  LeastWalk(ms, m, floor) = {m} \cup LeastWalk(ms, ms[m].prev, floor)
<1> DEFINE p == ms[m].prev
           N == 1..Len(ms)
           R == LeastWalk(ms, p, floor)
<1>1. m \in N /\ p \in 0..Len(ms) /\ (~Stops(ms, p, floor) => p \in N)
  <2>1. m \in N
    BY DEF Stops, Linked
  <2>2. p \in 0..Len(ms)
    BY <2>1, LinksAreMessages
  <2> QED  BY <2>1, <2>2 DEF Stops
<1>2. ASSUME NEW x \in LeastWalk(ms, m, floor)  PROVE x \in {m} \cup R
  <2>1. x \in N /\ \A S \in SUBSET N : m \in S /\ WalkClosed(ms, S, floor) => x \in S
    BY DEF LeastWalk
  <2>2. R \subseteq N
    BY DEF LeastWalk
  <2>3. ASSUME NEW y \in {m} \cup R, ~Stops(ms, ms[y].prev, floor)  PROVE ms[y].prev \in {m} \cup R
    <3>1. CASE y = m
      <4>1. ~Stops(ms, p, floor)
        BY <2>3, <3>1
      <4>2. p \in R
        BY <1>1, <4>1 DEF LeastWalk
      <4> QED  BY <3>1, <4>2
    <3>2. CASE y \in R
      <4>1. ~Stops(ms, p, floor) /\ y \in N
        BY <3>2 DEF LeastWalk
      <4>2. ms[y].prev \in N
        BY <2>3, <4>1, LinksAreMessages DEF Stops
      <4>3. ASSUME NEW S \in SUBSET N, p \in S, WalkClosed(ms, S, floor)  PROVE ms[y].prev \in S
        <5>1. y \in S
          BY <3>2, <4>1, <4>3 DEF LeastWalk
        <5> QED  BY <2>3, <4>3, <5>1 DEF WalkClosed
      <4> QED  BY <4>1, <4>2, <4>3 DEF LeastWalk
    <3> QED  BY <2>3, <3>1, <3>2
  <2>4. WalkClosed(ms, {m} \cup R, floor)
    BY <2>3 DEF WalkClosed
  <2>5. {m} \cup R \in SUBSET N
    BY <1>1, <2>2
  <2> HIDE DEF R
  <2> QED  BY <2>1, <2>4, <2>5
<1>3. ASSUME NEW x \in {m} \cup R, NEW S \in SUBSET N, m \in S, WalkClosed(ms, S, floor)  PROVE x \in S
  <2>1. CASE x = m
    BY <1>3, <2>1
  <2>2. CASE x \in R
    <3>1. ~Stops(ms, p, floor)
      BY <2>2 DEF LeastWalk
    <3>2. p \in S
      BY <1>3, <3>1 DEF WalkClosed
    <3> QED  BY <1>3, <2>2, <3>1, <3>2 DEF LeastWalk
  <2> QED  BY <1>3, <2>1, <2>2
<1>4. {m} \cup R \subseteq N
  BY <1>1 DEF LeastWalk
<1>5. {m} \cup R \subseteq LeastWalk(ms, m, floor)
  <2> HIDE DEF R
  <2> QED  BY <1>3, <1>4 DEF LeastWalk
<1> QED  BY <1>2, <1>5

\* So Walk is the least closed set: it starts at the message, is closed, and is
\* in every set that is.
LEMMA WalkIsSomeWalk ==
  ASSUME NEW ms, Linked(ms), NEW floor \in Nat
  PROVE  \E F : IsWalk(ms, F, floor) /\ \A m \in 0..Len(ms) : WalkIn(ms, m, floor) = F[m]
<1> DEFINE G == [m \in 0..Len(ms) |-> LeastWalk(ms, m, floor)]
           B == CHOOSE F : IsWalk(ms, F, floor)
<1>1. IsWalk(ms, G, floor)
  <2>1. ASSUME NEW m \in 0..Len(ms)
        PROVE  G[m] = IF m = 0 \/ ms[m].to <= floor THEN {} ELSE {m} \cup G[ms[m].prev]
    <3>1. CASE Stops(ms, m, floor)
      BY <3>1 DEF Stops, LeastWalk
    <3>2. CASE ~Stops(ms, m, floor)
      <4>1. m \in 1..Len(ms)
        BY <3>2 DEF Stops, Linked
      <4>2. ms[m].prev \in 0..Len(ms)
        BY <4>1, LinksAreMessages
      <4>3. G[m] = {m} \cup G[ms[m].prev]
        BY <3>2, <4>2, LeastWalkStep
      <4> QED  BY <3>2, <4>3 DEF Stops
    <3> QED  BY <3>1, <3>2
  <2> QED  BY <2>1 DEF IsWalk
<1>2. IsWalk(ms, B, floor)
  <2> HIDE DEF G
  <2> QED  BY <1>1
<1>3. \A m \in 0..Len(ms) : WalkIn(ms, m, floor) = B[m]
  BY DEF WalkIn, IsWalk
<1> QED  BY <1>2, <1>3

\* The equation of the walk.
LEMMA WalkStep ==
  ASSUME NEW ms, Linked(ms), NEW floor \in Nat, NEW m \in 0..Len(ms)
  PROVE  /\ Stops(ms, m, floor) => WalkIn(ms, m, floor) = {}
         /\ ~Stops(ms, m, floor) => /\ m \in 1..Len(ms) /\ ms[m].prev \in 0..(m - 1)
                                    /\ WalkIn(ms, m, floor) = {m} \cup WalkIn(ms, ms[m].prev, floor)
<1>1. PICK F : IsWalk(ms, F, floor) /\ \A x \in 0..Len(ms) : WalkIn(ms, x, floor) = F[x]
  BY WalkIsSomeWalk
<1>2. F[m] = IF m = 0 \/ ms[m].to <= floor THEN {} ELSE {m} \cup F[ms[m].prev]
  BY <1>1 DEF IsWalk
<1>3. CASE Stops(ms, m, floor)
  BY <1>1, <1>2, <1>3 DEF Stops
<1>4. CASE ~Stops(ms, m, floor)
  <2>1. m \in 1..Len(ms)
    BY <1>4 DEF Stops, Linked
  <2>2. ms[m].prev \in 0..(m - 1) /\ ms[m].prev \in 0..Len(ms)
    BY <2>1, LinksAreMessages
  <2> QED  BY <1>1, <1>2, <1>4, <2>1, <2>2 DEF Stops
<1> QED  BY <1>3, <1>4

\* The walk is in every closed set that it starts in.
LEMMA WalkIsIn ==
  ASSUME NEW ms, Linked(ms), NEW floor \in Nat, NEW last \in 0..Len(ms), NEW S,
         ~Stops(ms, last, floor) => last \in S, WalkClosed(ms, S, floor)
  PROVE  WalkIn(ms, last, floor) \subseteq S
<1> DEFINE Starts(m) == ~Stops(ms, m, floor) => m \in S
           Bad == {m \in 0..Len(ms) : Starts(m) /\ ~(WalkIn(ms, m, floor) \subseteq S)}
<1>1. Len(ms) \in Nat
  BY DEF Linked
<1>2. SUFFICES ASSUME Bad # {}  PROVE FALSE
  OBVIOUS
<1>3. PICK m \in Bad : \A n \in Bad : m <= n
  <2> HIDE DEF Bad
  <2>1. Bad \in SUBSET (0..Len(ms))
    BY DEF Bad
  <2> QED  BY <1>1, <1>2, <2>1, LeastOf
<1>4. m \in 0..Len(ms) /\ Starts(m) /\ ~(WalkIn(ms, m, floor) \subseteq S)
  OBVIOUS
<1>5. ~Stops(ms, m, floor)
  BY <1>4, WalkStep
<1>6. /\ m \in S /\ m \in 1..Len(ms) /\ ms[m].prev \in 0..(m - 1)
      /\ WalkIn(ms, m, floor) = {m} \cup WalkIn(ms, ms[m].prev, floor)
  BY <1>4, <1>5, WalkStep
<1>7. Starts(ms[m].prev) /\ ms[m].prev \in 0..Len(ms)
  BY <1>1, <1>6 DEF WalkClosed
<1>8. ms[m].prev \in Bad
  BY <1>4, <1>6, <1>7
<1> QED  BY <1>3, <1>6, <1>8

\* The walk visits messages on which it does not end, down from the last.
LEMMA WalkVisits ==
  ASSUME NEW ms, Linked(ms), NEW floor \in Nat, NEW last \in 0..Len(ms), NEW m \in WalkIn(ms, last, floor)
  PROVE  m \in 1..Len(ms) /\ m <= last /\ ~Stops(ms, m, floor)
<1> DEFINE S == {x \in 1..Len(ms) : x <= last /\ ~Stops(ms, x, floor)}
<1>1. Len(ms) \in Nat
  BY DEF Linked
<1>2. ~Stops(ms, last, floor) => last \in S
  BY <1>1 DEF Stops
<1>3. ASSUME NEW x \in S, ~Stops(ms, ms[x].prev, floor)  PROVE ms[x].prev \in S
  <2>1. ms[x].prev \in 0..(x - 1) /\ x \in 1..Len(ms) /\ x <= last
    BY LinksAreMessages
  <2>2. ms[x].prev \in 1..Len(ms) /\ ms[x].prev <= last
    BY <1>1, <1>3, <2>1 DEF Stops
  <2> QED  BY <1>3, <2>2
<1>4. WalkClosed(ms, S, floor)
  BY <1>3 DEF WalkClosed
<1>5. WalkIn(ms, last, floor) \subseteq S
  <2> HIDE DEF S
  <2> QED  BY <1>2, <1>4, WalkIsIn
<1> QED  BY <1>5

\* The walk is closed.
LEMMA WalkGoesOn ==
  ASSUME NEW ms, Linked(ms), NEW floor \in Nat, NEW last \in 0..Len(ms)
  PROVE  /\ ~Stops(ms, last, floor) => last \in WalkIn(ms, last, floor)
         /\ WalkClosed(ms, WalkIn(ms, last, floor), floor)
<1> DEFINE W == WalkIn(ms, last, floor)
           S == {x \in 1..Len(ms) : ~Stops(ms, x, floor) /\ WalkIn(ms, x, floor) \subseteq W}
<1>1. Len(ms) \in Nat
  BY DEF Linked
<1>2. ~Stops(ms, last, floor) => last \in W /\ last \in S
  <2>1. ASSUME ~Stops(ms, last, floor)  PROVE last \in W /\ last \in 1..Len(ms)
    BY <2>1, WalkStep
  <2> QED  BY <2>1
<1>3. ASSUME NEW x \in S, ~Stops(ms, ms[x].prev, floor)
      PROVE  ms[x].prev \in W /\ ms[x].prev \in S
  <2>1. x \in 0..Len(ms) /\ x \in 1..Len(ms) /\ ~Stops(ms, x, floor) /\ WalkIn(ms, x, floor) \subseteq W
    BY <1>1
  <2>2. ms[x].prev \in 0..Len(ms) /\ ms[x].prev \in 1..Len(ms)
    BY <1>3, <2>1, LinksAreMessages DEF Stops
  <2>3. WalkIn(ms, ms[x].prev, floor) \subseteq W
    BY <2>1, WalkStep
  <2>4. ms[x].prev \in WalkIn(ms, ms[x].prev, floor)
    BY <1>3, <2>2, WalkStep
  <2> QED  BY <1>3, <2>2, <2>3, <2>4
<1>4. W \subseteq S
  <2>1. WalkClosed(ms, S, floor)
    <3> HIDE DEF S
    <3> QED  BY <1>3 DEF WalkClosed
  <2> HIDE DEF S
  <2> QED  BY <1>2, <2>1, WalkIsIn
<1>5. WalkClosed(ms, W, floor)
  <2> HIDE DEF W, S
  <2> QED  BY <1>3, <1>4 DEF WalkClosed
<1> QED  BY <1>2, <1>5

\* A higher floor ends the walk earlier.
LEMMA HigherFloor ==
  ASSUME NEW ms, Linked(ms), NEW low \in Nat, NEW high \in Nat, low <= high, NEW last \in 0..Len(ms)
  PROVE  WalkIn(ms, last, high) \subseteq WalkIn(ms, last, low)
<1> DEFINE W == WalkIn(ms, last, low)
<1>1. ASSUME NEW m \in 0..Len(ms), ~Stops(ms, m, high)  PROVE ~Stops(ms, m, low)
  <2>1. m \in 1..Len(ms)
    BY <1>1 DEF Stops, Linked
  <2>2. ms[m].to \in Nat
    BY <2>1, LinksAreMessages
  <2> QED  BY <1>1, <2>1, <2>2 DEF Stops
<1>2. ~Stops(ms, last, low) => last \in W
  BY WalkGoesOn
<1>3. WalkClosed(ms, W, low)
  BY WalkGoesOn
<1>4. ASSUME NEW x \in W, ~Stops(ms, ms[x].prev, high)  PROVE ms[x].prev \in W
  <2>1. x \in 1..Len(ms)
    BY WalkVisits
  <2>2. ms[x].prev \in 0..Len(ms)
    BY <2>1, LinksAreMessages
  <2> HIDE DEF W
  <2> QED  BY <1>1, <1>3, <1>4, <2>2 DEF WalkClosed
<1>5. WalkClosed(ms, W, high)
  BY <1>4 DEF WalkClosed
<1>6. WalkIn(ms, last, high) \subseteq W
  <2> HIDE DEF W
  <2> QED  BY <1>1, <1>2, <1>5, WalkIsIn
<1> QED  BY <1>6

\* What is posted or deleted does not change where the chain leads.
Grown(ms, ns) ==
  /\ Linked(ms) /\ Linked(ns) /\ Len(ms) <= Len(ns)
  /\ \A m \in 1..Len(ms) : ns[m].from = ms[m].from /\ ns[m].to = ms[m].to /\ ns[m].prev = ms[m].prev

\* A walk from an old message stays the same.
LEMMA WalkStays ==
  ASSUME NEW ms, NEW ns, Grown(ms, ns), NEW floor \in Nat, NEW last \in 0..Len(ms)
  PROVE  WalkIn(ns, last, floor) = WalkIn(ms, last, floor)
<1> DEFINE V == WalkIn(ms, last, floor)
           W == WalkIn(ns, last, floor)
<1>1. Len(ms) \in Nat /\ Len(ns) \in Nat /\ Linked(ms) /\ Linked(ns) /\ Len(ms) <= Len(ns)
  BY DEF Grown, Linked
<1>2. last \in 0..Len(ns)
  BY <1>1
<1>3. ASSUME NEW m \in 0..Len(ms)  PROVE Stops(ms, m, floor) <=> Stops(ns, m, floor)
  <2>1. m # 0 => m \in 1..Len(ms)
    BY <1>1
  <2> QED  BY <2>1 DEF Stops, Grown
<1>4. W \subseteq V
  <2>1. ASSUME NEW x \in V, ~Stops(ns, ns[x].prev, floor)  PROVE ns[x].prev \in V
    <3>1. x \in 1..Len(ms)
      BY <1>1, WalkVisits
    <3>2. ns[x].prev = ms[x].prev /\ ms[x].prev \in 0..Len(ms)
      BY <1>1, <3>1, LinksAreMessages DEF Grown
    <3>3. WalkClosed(ms, V, floor)
      BY <1>1, WalkGoesOn
    <3> HIDE DEF V
    <3> QED  BY <1>3, <2>1, <3>2, <3>3 DEF WalkClosed
  <2>2. WalkClosed(ns, V, floor)
    BY <2>1 DEF WalkClosed
  <2>3. ~Stops(ns, last, floor) => last \in V
    BY <1>1, <1>3, WalkGoesOn
  <2> HIDE DEF V
  <2> QED  BY <1>1, <1>2, <2>2, <2>3, WalkIsIn
<1>5. V \subseteq W
  <2> DEFINE U == {x \in W : x \in 1..Len(ms)}
  <2>1. ASSUME NEW x \in U, ~Stops(ms, ms[x].prev, floor)  PROVE ms[x].prev \in U
    <3>1. x \in 1..Len(ms) /\ x \in W
      OBVIOUS
    <3>2. ns[x].prev = ms[x].prev /\ ms[x].prev \in 0..Len(ms)
      BY <1>1, <3>1, LinksAreMessages DEF Grown
    <3>3. WalkClosed(ns, W, floor)
      BY <1>1, <1>2, WalkGoesOn
    <3>4. ms[x].prev \in W
      <4> HIDE DEF W
      <4> QED  BY <1>3, <2>1, <3>1, <3>2, <3>3 DEF WalkClosed
    <3> QED  BY <2>1, <3>2, <3>4 DEF Stops
  <2>2. WalkClosed(ms, U, floor)
    BY <2>1 DEF WalkClosed
  <2>3. ~Stops(ms, last, floor) => last \in U
    <3>1. ASSUME ~Stops(ms, last, floor)  PROVE last \in W /\ last \in 1..Len(ms)
      <4>1. last \in W
        BY <1>1, <1>2, <1>3, <3>1, WalkGoesOn
      <4> QED  BY <1>1, <3>1, <4>1 DEF Stops
    <3> QED  BY <3>1
  <2> HIDE DEF U
  <2>4. V \subseteq U
    BY <1>1, <2>2, <2>3, WalkIsIn
  <2> QED  BY <2>4 DEF U
<1> QED  BY <1>4, <1>5

-----------------------------------------------------------------------------
(* Chains and pointers                                                     *)

\* Bases begin at 0, segments later.
IsBase(ms, m) == m \in DOMAIN ms /\ ms[m].from = 0
IsSegment(ms, m) == m \in DOMAIN ms /\ ms[m].from # 0

\* A segment begins where the one before it ends; the first begins at 1.
Follows(ms, m) ==
  IF ms[m].prev = 0 THEN ms[m].from = 1
  ELSE IsSegment(ms, ms[m].prev) /\ ms[ms[m].prev].to + 1 = ms[m].from

\* The messages as posted: bases, and segments without a gap between them.
Chained(ms) ==
  /\ Linked(ms)
  /\ \A m \in DOMAIN ms :
       /\ ms[m].from <= ms[m].to /\ ms[m].to <= MaxHead
       /\ IF ms[m].from = 0 THEN ms[m].prev = 0 ELSE Follows(ms, m)

\* A base that is named.
GoodRef(ms, b) ==
  /\ b \in Ref /\ IsBase(ms, b.part)
  /\ b.head <= MaxHead /\ b.day <= MaxDay
  /\ b.segment # 0 => IsSegment(ms, b.segment)

\* The segment that a base was posted after is on the chain of the pointer, unless
\* it has been pruned.
Anchored(ms, p) ==
  \A b \in Bases(p) :
    ~Stops(ms, b.segment, p.prunedUpTo) => b.segment \in WalkIn(ms, p.last, p.prunedUpTo)

\* A pointer names the last segment of a chain up to where it says it goes, and
\* bases, the newest of them apart, that lie in what has not been pruned.
Sound(ms, p) ==
  /\ p \in Pointer /\ p.toSeq <= MaxHead
  /\ IF p.last = 0 THEN p.toSeq = 0 ELSE IsSegment(ms, p.last) /\ ms[p.last].to = p.toSeq
  /\ \A b \in Bases(p) : GoodRef(ms, b) /\ p.prunedUpTo <= b.head /\ b.head <= p.toSeq
  /\ \A b, c \in Bases(p) : b.part = c.part => b = c
  /\ \A b \in p.history : b.head < p.base.head
  /\ p.base = None => p.history = {} /\ p.prunedUpTo = 0
  /\ Anchored(ms, p)

\* Reached, of any messages.
ReachedIn(ms, p) == WalkIn(ms, p.last, p.prunedUpTo) \cup {b.part : b \in Bases(p)}

\* A walk without a gap covers what it goes back over.
LEMMA WalkCovers ==
  ASSUME NEW ms, Chained(ms), NEW floor \in Nat, NEW last, IsSegment(ms, last),
         NEW s \in (floor + 1)..ms[last].to
  PROVE  \E m \in WalkIn(ms, last, floor) : s \in ms[m].from..ms[m].to
<1> DEFINE W == WalkIn(ms, last, floor)
           T == {m \in W : s <= ms[m].to}
<1>1. Linked(ms) /\ Len(ms) \in Nat /\ last \in 1..Len(ms) /\ last \in 0..Len(ms) /\ DOMAIN ms = 1..Len(ms)
  BY DEF Chained, Linked, IsSegment
<1>2. s \in Nat /\ floor < s /\ s <= ms[last].to /\ ms[last].to \in Nat
  BY <1>1, LinksAreMessages
<1>3. last \in T
  <2>1. ~Stops(ms, last, floor)
    BY <1>1, <1>2 DEF Stops
  <2> QED  BY <1>1, <1>2, <2>1, WalkGoesOn
<1>4. PICK m \in T : \A n \in T : m <= n
  <2>1. T \in SUBSET (0..Len(ms))
    <3>1. ASSUME NEW n \in T  PROVE n \in 0..Len(ms)
      <4>1. n \in 1..Len(ms)
        BY <1>1, WalkVisits
      <4> QED  BY <4>1
    <3> QED  BY <3>1
  <2> HIDE DEF T
  <2> QED  BY <1>1, <1>3, <2>1, LeastOf
<1>5. m \in W /\ m \in 1..Len(ms) /\ s <= ms[m].to
  BY <1>1, WalkVisits
<1>6. /\ ms[m].from \in Nat /\ ms[m].to \in Nat /\ ms[m].prev \in 0..(m - 1)
  BY <1>1, <1>5, LinksAreMessages
<1>7. CASE ms[m].from <= s
  BY <1>2, <1>5, <1>6, <1>7
<1>8. CASE s < ms[m].from
  <2>1. ms[m].from # 0 /\ ms[m].from # 1
    BY <1>2, <1>8
  <2>2. IsSegment(ms, ms[m].prev) /\ ms[ms[m].prev].to + 1 = ms[m].from /\ ms[m].prev # 0
    BY <1>1, <1>5, <2>1 DEF Chained, Follows
  <2>3. ms[m].prev \in 1..Len(ms) /\ ms[ms[m].prev].to \in Nat
    BY <1>1, <2>2, LinksAreMessages DEF IsSegment
  <2>4. s <= ms[ms[m].prev].to /\ ~Stops(ms, ms[m].prev, floor)
    <3>1. s <= ms[ms[m].prev].to
      BY <1>2, <1>6, <1>8, <2>2, <2>3
    <3>2. floor < ms[ms[m].prev].to
      BY <1>2, <2>3, <3>1
    <3> QED  BY <1>2, <2>2, <2>3, <3>1, <3>2 DEF Stops
  <2>5. ms[m].prev \in W
    <3>1. WalkClosed(ms, W, floor)
      BY <1>1, WalkGoesOn
    <3> HIDE DEF W
    <3> QED  BY <1>5, <2>4, <3>1 DEF WalkClosed
  <2>6. ms[m].prev \in T /\ ms[m].prev < m /\ m \in Nat /\ ms[m].prev \in Nat
    <3>1. ms[m].prev < m /\ m \in Nat /\ ms[m].prev \in Nat
      BY <1>5, <1>6
    <3> HIDE DEF W
    <3> QED  BY <2>4, <2>5, <3>1
  <2>7. m <= ms[m].prev
    <3> HIDE DEF T
    <3> QED  BY <1>4, <2>6
  <2> QED  BY <2>6, <2>7
<1> QED  BY <1>2, <1>6, <1>7, <1>8

\* A walk from a segment visits segments.
LEMMA WalkOfSegments ==
  ASSUME NEW ms, Chained(ms), NEW floor \in Nat, NEW last, last = 0 \/ IsSegment(ms, last),
         NEW m \in WalkIn(ms, last, floor)
  PROVE  IsSegment(ms, m) /\ m \in 1..Len(ms) /\ floor < ms[m].to
<1> DEFINE S == {x \in DOMAIN ms : ms[x].from # 0}
<1>1. Linked(ms) /\ Len(ms) \in Nat /\ last \in 0..Len(ms) /\ DOMAIN ms = 1..Len(ms)
  BY DEF Chained, Linked, IsSegment
<1>2. ~Stops(ms, last, floor) => last \in S
  BY DEF Stops, IsSegment
<1>3. ASSUME NEW x \in S, ~Stops(ms, ms[x].prev, floor)  PROVE ms[x].prev \in S
  BY <1>1, <1>3 DEF Chained, Follows, IsSegment, Stops
<1>4. WalkClosed(ms, S, floor)
  BY <1>3 DEF WalkClosed
<1>5. WalkIn(ms, last, floor) \subseteq S
  <2> HIDE DEF S
  <2> QED  BY <1>1, <1>2, <1>4, WalkIsIn
<1>6. m \in 1..Len(ms) /\ ~Stops(ms, m, floor)
  BY <1>1, WalkVisits
<1>7. ms[m].to \in Nat
  BY <1>1, <1>6, LinksAreMessages
<1> QED  BY <1>1, <1>5, <1>6, <1>7 DEF IsSegment, Stops

\* What a pointer reaches are messages: segments that are not pruned, and bases.
LEMMA ReachedAreMessages ==
  ASSUME NEW ms, Chained(ms), NEW p, Sound(ms, p)
  PROVE  /\ Linked(ms) /\ Len(ms) \in Nat /\ DOMAIN ms = 1..Len(ms)
         /\ p.last \in 0..Len(ms) /\ p.prunedUpTo \in Nat /\ p.toSeq \in Nat
         /\ p.last = 0 \/ IsSegment(ms, p.last)
         /\ \A b \in Bases(p) : b \in Ref /\ b.head \in Nat /\ b.part \in Nat /\ b.part \in 1..Len(ms)
         /\ ReachedIn(ms, p) \subseteq 1..Len(ms)
<1>1. Linked(ms) /\ Len(ms) \in Nat /\ DOMAIN ms = 1..Len(ms)
  BY DEF Chained, Linked
<1>2. p.last \in Nat /\ p.prunedUpTo \in Nat /\ p.toSeq \in Nat
  BY DEF Sound, Pointer
<1>3. p.last \in 0..Len(ms) /\ (p.last = 0 \/ IsSegment(ms, p.last))
  BY <1>1 DEF Sound, IsSegment
<1>4. ASSUME NEW b \in Bases(p)
      PROVE  b \in Ref /\ b.head \in Nat /\ b.part \in Nat /\ b.part \in 1..Len(ms)
  <2>1. GoodRef(ms, b)
    BY DEF Sound
  <2> QED  BY <1>1, <2>1 DEF GoodRef, Ref, IsBase
<1>5. ASSUME NEW m \in ReachedIn(ms, p)  PROVE m \in 1..Len(ms)
  <2>1. CASE m \in WalkIn(ms, p.last, p.prunedUpTo)
    BY <1>2, <1>3, <2>1, WalkOfSegments
  <2>2. CASE m \in {b.part : b \in Bases(p)}
    BY <1>4, <2>2
  <2> QED  BY <1>5, <2>1, <2>2 DEF ReachedIn
<1> QED  BY <1>1, <1>2, <1>3, <1>4, <1>5

\* A pointer stays sound while messages are posted and deleted.
LEMMA SoundStays ==
  ASSUME NEW ms, NEW ns, Chained(ms), Grown(ms, ns), NEW p, Sound(ms, p)
  PROVE  Sound(ns, p) /\ ReachedIn(ns, p) = ReachedIn(ms, p)
<1>1. /\ Linked(ms) /\ Linked(ns) /\ Len(ms) \in Nat /\ Len(ns) \in Nat /\ Len(ms) <= Len(ns)
      /\ DOMAIN ms = 1..Len(ms) /\ DOMAIN ns = 1..Len(ns)
  BY DEF Grown, Linked
<1>2. ASSUME NEW m, IsSegment(ms, m)  PROVE IsSegment(ns, m) /\ ns[m].to = ms[m].to
  BY <1>1, <1>2 DEF IsSegment, Grown
<1>3. ASSUME NEW m, IsBase(ms, m)  PROVE IsBase(ns, m)
  BY <1>1, <1>3 DEF IsBase, Grown
<1>4. ASSUME NEW b, GoodRef(ms, b)  PROVE GoodRef(ns, b)
  BY <1>2, <1>3, <1>4 DEF GoodRef
<1>5. IF p.last = 0 THEN p.toSeq = 0 ELSE IsSegment(ns, p.last) /\ ns[p.last].to = p.toSeq
  BY <1>2 DEF Sound
<1>6. WalkIn(ns, p.last, p.prunedUpTo) = WalkIn(ms, p.last, p.prunedUpTo)
  BY ReachedAreMessages, WalkStays
<1>7. Anchored(ns, p)
  <2>1. ASSUME NEW b \in Bases(p), ~Stops(ns, b.segment, p.prunedUpTo)
        PROVE  ~Stops(ms, b.segment, p.prunedUpTo)
    <3>1. b.segment # 0 => ns[b.segment].to = ms[b.segment].to
      BY <1>2 DEF Sound, GoodRef
    <3> QED  BY <2>1, <3>1 DEF Stops
  <2> QED  BY <1>6, <2>1 DEF Sound, Anchored
<1>8. Sound(ns, p)
  BY <1>4, <1>5, <1>7 DEF Sound
<1> QED  BY <1>6, <1>8 DEF ReachedIn

-----------------------------------------------------------------------------
(* What a snapshot posts                                                   *)

\* One more message at the end: everything before it stays.
LEMMA AppendGrows ==
  ASSUME NEW ms, Linked(ms), NEW x \in MessageType, x.prev \in 0..Len(ms)
  PROVE  /\ Grown(ms, Append(ms, x)) /\ Len(Append(ms, x)) = Len(ms) + 1
         /\ \A m \in 1..Len(ms) : Append(ms, x)[m] = ms[m]
         /\ Append(ms, x)[Len(ms) + 1] = x
<1>1. /\ ms \in Seq(MessageType) /\ Len(ms) \in Nat /\ DOMAIN ms = 1..Len(ms)
      /\ Append(ms, x) \in Seq(MessageType) /\ Len(Append(ms, x)) = Len(ms) + 1
      /\ \A m \in 1..Len(ms) : Append(ms, x)[m] = ms[m]
      /\ Append(ms, x)[Len(ms) + 1] = x
  BY DEF Linked
<1>2. ASSUME NEW m \in DOMAIN Append(ms, x)  PROVE Append(ms, x)[m].prev < m
  <2>1. m \in 1..Len(ms) \/ m = Len(ms) + 1
    BY <1>1
  <2> QED  BY <1>1, <2>1 DEF Linked
<1>3. Linked(Append(ms, x))
  BY <1>1, <1>2 DEF Linked
<1> QED  BY <1>1, <1>3 DEF Grown

\* A chain stays a chain when a message is appended that begins at 0, or that
\* follows a segment of it, or is the first.
LEMMA AppendChained ==
  ASSUME NEW ms, Chained(ms), NEW x \in MessageType, x.prev \in 0..Len(ms),
         x.from <= x.to, x.to <= MaxHead,
         IF x.from = 0 THEN x.prev = 0
         ELSE IF x.prev = 0 THEN x.from = 1
         ELSE IsSegment(ms, x.prev) /\ ms[x.prev].to + 1 = x.from
  PROVE  Chained(Append(ms, x))
<1> DEFINE ns == Append(ms, x)
<1>1. /\ Linked(ms) /\ Grown(ms, ns) /\ Linked(ns) /\ Len(ns) = Len(ms) + 1 /\ Len(ms) \in Nat
      /\ \A m \in 1..Len(ms) : ns[m] = ms[m]
      /\ ns[Len(ms) + 1] = x /\ DOMAIN ns = 1..(Len(ms) + 1) /\ DOMAIN ms = 1..Len(ms)
  BY AppendGrows DEF Chained, Linked, Grown
<1>2. ASSUME NEW m, IsSegment(ms, m)  PROVE IsSegment(ns, m) /\ ns[m] = ms[m]
  BY <1>1, <1>2 DEF IsSegment
<1> HIDE DEF ns
<1>3. ASSUME NEW m \in DOMAIN ns
      PROVE  /\ ns[m].from <= ns[m].to /\ ns[m].to <= MaxHead
             /\ IF ns[m].from = 0 THEN ns[m].prev = 0 ELSE Follows(ns, m)
  <2>1. CASE m = Len(ms) + 1
    BY <1>1, <1>2, <2>1 DEF Follows
  <2>2. CASE m \in 1..Len(ms)
    <3>1. ns[m] = ms[m] /\ m \in DOMAIN ms
      BY <1>1, <2>2
    <3>2. ms[m].from # 0 => Follows(ms, m)
      BY <3>1 DEF Chained
    <3>3. ms[m].from # 0 => Follows(ns, m)
      BY <1>2, <3>1, <3>2 DEF Follows
    <3> QED  BY <3>1, <3>3 DEF Chained
  <2> QED  BY <1>1, <2>1, <2>2
<1>4. Chained(ns)
  BY <1>1, <1>3 DEF Chained
<1> QED  BY <1>4 DEF ns

\* What writeSnapshot posts, and the pointer that it writes (TickWrites).
Posted(ms, cur, at) ==
  IF at > cur.toSeq THEN Append(ms, Segment(cur.toSeq + 1, at, cur.last)) ELSE ms
LastOf(ms, cur, at) == IF at > cur.toSeq THEN Len(Posted(ms, cur, at)) ELSE cur.last
NewRef(ms, cur, at, today) ==
  [head |-> at, part |-> Len(Posted(ms, cur, at)) + 1, day |-> today, segment |-> LastOf(ms, cur, at)]
Written(ms, cur, at, based) ==
  IF based THEN Append(Posted(ms, cur, at), Base(at)) ELSE Posted(ms, cur, at)
NextPointer(ms, cur, at, based, today, list) ==
  [cur EXCEPT !.toSeq = IF at > cur.toSeq THEN at ELSE @, !.last = LastOf(ms, cur, at),
              !.base = IF based THEN NewRef(ms, cur, at, today) ELSE @,
              !.history = @ \cup (IF based /\ cur.base # None THEN {cur.base} ELSE {}),
              !.revision = list]

\* Messages appended to a chain, all of them there.
Appended(ms, ns) ==
  /\ Chained(ns) /\ Grown(ms, ns) /\ Len(ns) \in Nat
  /\ \A m \in 1..Len(ms) : ns[m] = ms[m]
  /\ \A m \in (Len(ms) + 1)..Len(ns) : ns[m].live

\* The chain that goes on from a pointer, up to a position.
GoesOn(ms, cur, at, ns, last) ==
  /\ last \in Nat /\ (last # 0 => IsSegment(ns, last))
  /\ at <= cur.toSeq => ns = ms /\ last = cur.last
  /\ at > cur.toSeq => /\ last = Len(ms) + 1 /\ last # 0 /\ Len(ns) = Len(ms) + 1
                       /\ ns[last].to = at /\ ns[last].prev = cur.last

\* The segment goes on from the chain that the pointer names.
LEMMA PostedIsChained ==
  ASSUME NEW ms, Chained(ms), NEW cur, Sound(ms, cur), NEW at \in Nat, at <= MaxHead
  PROVE  /\ Appended(ms, Posted(ms, cur, at))
         /\ GoesOn(ms, cur, at, Posted(ms, cur, at), LastOf(ms, cur, at))
<1> DEFINE x == Segment(cur.toSeq + 1, at, cur.last)
           ns == Posted(ms, cur, at)
           last == LastOf(ms, cur, at)
<1>1. /\ Linked(ms) /\ Len(ms) \in Nat /\ DOMAIN ms = 1..Len(ms) /\ cur.last \in 0..Len(ms) /\ cur.toSeq \in Nat
      /\ (cur.last = 0 \/ IsSegment(ms, cur.last)) /\ MaxHead \in Nat
  BY ReachedAreMessages, ConstantsAreTyped
<1>2. CASE at <= cur.toSeq
  <2>1. ~(at > cur.toSeq)
    BY <1>1, <1>2
  <2>2. ns = ms /\ last = cur.last
    BY <2>1 DEF Posted, LastOf
  <2>3. Grown(ms, ms) /\ (Len(ms) + 1)..Len(ms) = {}
    BY <1>1 DEF Grown
  <2>4. Appended(ms, ms)
    BY <1>1, <2>3 DEF Appended
  <2>5. GoesOn(ms, cur, at, ms, cur.last)
    <3>1. cur.last \in Nat
      BY <1>1
    <3> QED  BY <1>1, <2>1, <3>1 DEF GoesOn
  <2> QED  BY <2>2, <2>4, <2>5
<1>3. CASE at > cur.toSeq
  <2>1. x = [from |-> cur.toSeq + 1, to |-> at, prev |-> cur.last, live |-> TRUE]
    BY DEF Segment
  <2>2. x.from = cur.toSeq + 1 /\ x.to = at /\ x.prev = cur.last /\ x.live
    BY <2>1
  <2>3. x \in MessageType
    <3>1. cur.toSeq + 1 \in Nat /\ cur.last \in Nat
      BY <1>1
    <3> HIDE DEF x
    <3> QED  BY <2>1, <3>1 DEF MessageType
  <2> HIDE DEF x
  <2>4. x.prev \in 0..Len(ms) /\ x.from <= x.to /\ x.to <= MaxHead /\ x.from # 0
    BY <1>1, <1>3, <2>2
  <2>5. IF x.prev = 0 THEN x.from = 1 ELSE IsSegment(ms, x.prev) /\ ms[x.prev].to + 1 = x.from
    BY <1>1, <2>2 DEF Sound
  <2>6. ns = Append(ms, x) /\ last = Len(ns)
    BY <1>3 DEF Posted, LastOf, x
  <2> HIDE DEF ns, last
  <2>7. /\ Grown(ms, ns) /\ Len(ns) = Len(ms) + 1
        /\ \A m \in 1..Len(ms) : ns[m] = ms[m]
        /\ ns[Len(ms) + 1] = x
    BY <1>1, <2>3, <2>4, <2>6, AppendGrows
  <2>8. Chained(ns)
    BY <2>3, <2>4, <2>5, <2>6, AppendChained
  <2>9. \A m \in (Len(ms) + 1)..Len(ns) : m = Len(ms) + 1
    BY <1>1, <2>7
  <2>10. Appended(ms, ns)
    BY <1>1, <2>2, <2>7, <2>8, <2>9 DEF Appended
  <2>11. DOMAIN ns = 1..(Len(ms) + 1)
    BY <2>7, <2>8 DEF Chained, Linked
  <2>12. IsSegment(ns, last)
    BY <1>1, <2>4, <2>6, <2>7, <2>11 DEF IsSegment
  <2>13. GoesOn(ms, cur, at, ns, last)
    <3>1. ~(at <= cur.toSeq) /\ last = Len(ms) + 1 /\ last \in Nat /\ last # 0
      BY <1>1, <1>3, <2>6, <2>7
    <3>2. ns[last].to = at /\ ns[last].prev = cur.last
      BY <2>2, <2>7, <3>1
    <3> QED  BY <2>7, <2>12, <3>1, <3>2 DEF GoesOn
  <2> QED  BY <2>10, <2>13 DEF ns, last
<1> QED  BY <1>1, <1>2, <1>3

\* All that a snapshot posts is new and there, and follows what was there.
LEMMA WrittenIsChained ==
  ASSUME NEW ms, Chained(ms), NEW cur, Sound(ms, cur), NEW at \in Nat, at <= MaxHead, NEW based \in BOOLEAN
  PROVE  /\ Appended(ms, Written(ms, cur, at, based))
         /\ Grown(Posted(ms, cur, at), Written(ms, cur, at, based))
         /\ based => IsBase(Written(ms, cur, at, based), Len(Posted(ms, cur, at)) + 1)
<1> DEFINE ps == Posted(ms, cur, at)
           ns == Written(ms, cur, at, based)
           x == Base(at)
<1>1. /\ Chained(ps) /\ Grown(ms, ps) /\ Len(ps) \in Nat /\ Linked(ps) /\ DOMAIN ps = 1..Len(ps)
      /\ \A m \in 1..Len(ms) : ps[m] = ms[m]
      /\ \A m \in (Len(ms) + 1)..Len(ps) : ps[m].live
      /\ Appended(ms, ps)
  BY PostedIsChained DEF Chained, Linked, Appended
<1>2. Len(ms) \in Nat /\ Len(ms) <= Len(ps) /\ MaxHead \in Nat
  BY <1>1, ConstantsAreTyped DEF Grown, Chained, Linked
<1>3. CASE ~based
  <2>1. ns = ps
    BY <1>3 DEF Written
  <2> HIDE DEF ps, ns
  <2>2. Grown(ps, ps)
    BY <1>1 DEF Grown
  <2> QED  BY <1>1, <1>3, <2>1, <2>2 DEF ps, ns
<1>4. CASE based
  <2>1. x = [from |-> 0, to |-> at, prev |-> 0, live |-> TRUE]
    BY DEF Base
  <2>2. x.from = 0 /\ x.prev = 0 /\ x.live /\ x.to = at
    BY <2>1
  <2>3. x \in MessageType
    BY <2>1 DEF MessageType
  <2>4. ns = Append(ps, x)
    BY <1>4 DEF Written
  <2> HIDE DEF x, ps, ns
  <2>5. x.prev \in 0..Len(ps) /\ x.from <= x.to /\ x.to <= MaxHead
    BY <1>1, <2>2
  <2>6. /\ Grown(ps, ns) /\ Len(ns) = Len(ps) + 1
        /\ \A m \in 1..Len(ps) : ns[m] = ps[m]
        /\ ns[Len(ps) + 1] = x
    BY <1>1, <2>3, <2>4, <2>5, AppendGrows
  <2>7. Chained(ns)
    BY <1>1, <2>2, <2>3, <2>4, <2>5, AppendChained
  <2>8. DOMAIN ns = 1..(Len(ps) + 1) /\ Linked(ns)
    BY <2>6, <2>7 DEF Chained, Linked
  <2>9. IsBase(ns, Len(ps) + 1)
    BY <1>1, <2>2, <2>6, <2>8 DEF IsBase
  <2>10. \A m \in 1..Len(ms) : ns[m] = ms[m]
    BY <1>1, <1>2, <2>6
  <2>11. ASSUME NEW m \in (Len(ms) + 1)..Len(ns)  PROVE ns[m].live
    <3>1. m = Len(ps) + 1 \/ (m \in (Len(ms) + 1)..Len(ps) /\ m \in 1..Len(ps))
      BY <1>1, <1>2, <2>6
    <3> QED  BY <1>1, <2>2, <2>6, <3>1
  <2>12. Grown(ms, ns) /\ Len(ns) \in Nat
    BY <1>1, <1>2, <2>6, <2>8, <2>10 DEF Grown
  <2>13. Appended(ms, ns)
    BY <2>7, <2>10, <2>11, <2>12 DEF Appended
  <2> QED  BY <2>6, <2>9, <2>13 DEF ns, ps
<1> QED  BY <1>3, <1>4

\* The pointer that a snapshot writes, field by field.
LEMMA NextPointerIs ==
  ASSUME NEW ms, Chained(ms), NEW cur, Sound(ms, cur), NEW at \in Nat, at <= MaxHead,
         NEW today \in 0..MaxDay, NEW list \in Nat, NEW based \in BOOLEAN
  PROVE  LET next == NextPointer(ms, cur, at, based, today, list)
             ref == NewRef(ms, cur, at, today)
         IN  /\ next \in Pointer /\ next # None /\ ref \in Ref /\ ref # None
             /\ next.toSeq = (IF at > cur.toSeq THEN at ELSE cur.toSeq) /\ next.last = LastOf(ms, cur, at)
             /\ next.prunedUpTo = cur.prunedUpTo
             /\ based => /\ next.base = ref /\ next.history = Bases(cur) /\ Bases(next) = {ref} \cup Bases(cur)
             /\ ~based => next.base = cur.base /\ next.history = cur.history /\ Bases(next) = Bases(cur)
<1> DEFINE next == NextPointer(ms, cur, at, based, today, list)
           ref == NewRef(ms, cur, at, today)
           seq == IF at > cur.toSeq THEN at ELSE cur.toSeq
           base == IF based THEN ref ELSE cur.base
           kept == IF based /\ cur.base # None THEN {cur.base} ELSE {}
           last == LastOf(ms, cur, at)
<1>1. cur \in Pointer
  BY DEF Sound
<1>2. /\ cur.toSeq \in Nat /\ cur.base \in Ref \cup {None} /\ cur.history \in SUBSET Ref
      /\ cur.last \in Nat /\ cur.prunedUpTo \in Nat
  BY <1>1 DEF Pointer
<1>3. last \in Nat /\ Len(Posted(ms, cur, at)) \in Nat /\ today \in Nat
  BY PostedIsChained, ConstantsAreTyped DEF GoesOn, Appended
<1>4. ref = [head |-> at, part |-> Len(Posted(ms, cur, at)) + 1, day |-> today, segment |-> last]
  BY DEF NewRef
<1>5. ref \in Ref
  <2>1. Len(Posted(ms, cur, at)) + 1 \in Nat
    BY <1>3
  <2> HIDE DEF ref, last
  <2> QED  BY <1>3, <1>4, <2>1 DEF Ref
<1>6. next = [cur EXCEPT !.toSeq = seq, !.last = last, !.base = base, !.history = @ \cup kept, !.revision = list]
  BY DEF NextPointer
<1> HIDE DEF next, ref, last
<1>7. seq \in Nat /\ base \in Ref \cup {None} /\ kept \in SUBSET Ref
  BY <1>2, <1>5
<1> HIDE DEF seq, base, kept
<1>8. /\ next.toSeq = seq /\ next.last = last /\ next.base = base /\ next.history = cur.history \cup kept
      /\ next.prunedUpTo = cur.prunedUpTo
  BY <1>1, <1>6 DEF Pointer
<1>9. next \in Pointer
  BY <1>1, <1>2, <1>3, <1>6, <1>7 DEF Pointer
<1>10. next # None /\ ref # None
  BY <1>5, <1>9, NoneIsNoRecord
<1>11. based => next.base = ref /\ next.history = Bases(cur) /\ Bases(next) = {ref} \cup Bases(cur)
  BY <1>8, <1>10 DEF base, kept, Bases
<1>12. ~based => next.base = cur.base /\ next.history = cur.history /\ Bases(next) = Bases(cur)
  BY <1>8 DEF base, kept, Bases
<1> QED  BY <1>5, <1>8, <1>9, <1>10, <1>11, <1>12 DEF next, ref, seq, last

\* It is sound, and reaches what was reached and what has just been posted.
LEMMA NextIsSound ==
  ASSUME NEW ms, Chained(ms), NEW cur, Sound(ms, cur), NEW at \in Nat, at <= MaxHead,
         NEW today \in 0..MaxDay, NEW list \in Nat, NEW based \in BOOLEAN,
         based => HeadOf(cur.base) < at
  PROVE  LET next == NextPointer(ms, cur, at, based, today, list)
             ns == Written(ms, cur, at, based)
         IN  /\ Sound(ns, next)
             /\ ReachedIn(ns, next) \subseteq ReachedIn(ms, cur) \cup (Len(ms) + 1)..Len(ns)
<1> DEFINE next == NextPointer(ms, cur, at, based, today, list)
           ns == Written(ms, cur, at, based)
           ps == Posted(ms, cur, at)
           ref == NewRef(ms, cur, at, today)
           last == LastOf(ms, cur, at)
<1>1. /\ next \in Pointer /\ next # None /\ ref \in Ref /\ ref # None
      /\ next.toSeq = (IF at > cur.toSeq THEN at ELSE cur.toSeq) /\ next.last = last
      /\ next.prunedUpTo = cur.prunedUpTo
      /\ based => /\ next.base = ref /\ next.history = Bases(cur) /\ Bases(next) = {ref} \cup Bases(cur)
      /\ ~based => next.base = cur.base /\ next.history = cur.history /\ Bases(next) = Bases(cur)
  BY NextPointerIs
<1>2. /\ Linked(ms) /\ Len(ms) \in Nat /\ DOMAIN ms = 1..Len(ms) /\ cur.last \in 0..Len(ms)
      /\ cur.prunedUpTo \in Nat /\ cur.toSeq \in Nat /\ (cur.last = 0 \/ IsSegment(ms, cur.last))
      /\ \A b \in Bases(cur) : b \in Ref /\ b.head \in Nat /\ b.part \in Nat /\ b.part \in 1..Len(ms)
      /\ ReachedIn(ms, cur) \subseteq 1..Len(ms)
  BY ReachedAreMessages
<1>3. Appended(ms, ps) /\ GoesOn(ms, cur, at, ps, last)
  BY PostedIsChained
<1>4. Appended(ms, ns) /\ Grown(ps, ns) /\ (based => IsBase(ns, Len(ps) + 1))
  BY WrittenIsChained
<1>5. ref.head = at /\ ref.part = Len(ps) + 1 /\ ref.day = today /\ ref.segment = last
  BY DEF NewRef
<1> HIDE DEF next, ns, ps, ref, last
<1>6. /\ Chained(ps) /\ Chained(ns) /\ Linked(ns) /\ Linked(ps) /\ Len(ps) \in Nat /\ Len(ns) \in Nat
      /\ Len(ms) <= Len(ps) /\ Len(ps) <= Len(ns)
      /\ DOMAIN ps = 1..Len(ps) /\ DOMAIN ns = 1..Len(ns) /\ MaxHead \in Nat /\ MaxDay \in Nat
  BY <1>3, <1>4, ConstantsAreTyped DEF Appended, Grown, Chained, Linked
<1>7. Sound(ns, cur) /\ ReachedIn(ns, cur) = ReachedIn(ms, cur)
  BY <1>4, SoundStays DEF Appended
<1>8. last # 0 => IsSegment(ns, last) /\ ns[last].to = ps[last].to
  <2>1. ASSUME last # 0  PROVE IsSegment(ns, last) /\ ns[last].to = ps[last].to
    <3>1. last \in 1..Len(ps) /\ ps[last].from # 0
      BY <1>3, <1>6, <2>1 DEF GoesOn, IsSegment
    <3>2. ns[last].from = ps[last].from /\ ns[last].to = ps[last].to
      BY <1>4, <3>1 DEF Grown
    <3>3. last \in DOMAIN ns
      BY <1>6, <3>1
    <3> QED  BY <3>1, <3>2, <3>3 DEF IsSegment
  <2> QED  BY <2>1
<1>9. IF next.last = 0 THEN next.toSeq = 0 ELSE IsSegment(ns, next.last) /\ ns[next.last].to = next.toSeq
  <2>1. CASE at <= cur.toSeq
    <3>1. ~(at > cur.toSeq)
      BY <1>2, <2>1
    <3>2. next.toSeq = cur.toSeq /\ next.last = cur.last
      BY <1>1, <1>3, <2>1, <3>1 DEF GoesOn
    <3> QED  BY <1>7, <3>2 DEF Sound
  <2>2. CASE at > cur.toSeq
    BY <1>1, <1>3, <1>8, <2>2 DEF GoesOn
  <2> QED  BY <1>2, <2>1, <2>2
<1>10. cur.toSeq <= next.toSeq /\ at <= next.toSeq /\ next.toSeq <= MaxHead /\ next.toSeq \in Nat
  <2>1. cur.toSeq <= MaxHead
    BY DEF Sound
  <2> QED  BY <1>1, <1>2, <1>6, <2>1
<1>11. \A b \in Bases(cur) : GoodRef(ns, b) /\ cur.prunedUpTo <= b.head /\ b.head <= next.toSeq
  <2>1. \A b \in Bases(cur) : GoodRef(ns, b) /\ cur.prunedUpTo <= b.head /\ b.head <= cur.toSeq
    BY <1>7 DEF Sound
  <2> QED  BY <1>2, <1>10, <2>1
<1>12. ASSUME based  PROVE \A b \in Bases(cur) : b.head < at
  <2>1. CASE cur.base = None
    <3>1. Bases(cur) = {}
      BY <2>1 DEF Bases, Sound
    <3> QED  BY <3>1
  <2>2. CASE cur.base # None
    <3>1. cur.base.head < at /\ cur.base \in Bases(cur)
      BY <1>12, <2>2 DEF HeadOf, Bases
    <3>2. ASSUME NEW b \in Bases(cur)  PROVE b.head < at
      <4>1. b = cur.base \/ b.head < cur.base.head
        BY DEF Bases, Sound
      <4> QED  BY <1>2, <3>1, <4>1
    <3> QED  BY <3>2
  <2> QED  BY <2>1, <2>2
<1>13. ASSUME based  PROVE GoodRef(ns, ref) /\ cur.prunedUpTo <= at
  <2>1. IsBase(ns, ref.part) /\ ref.head <= MaxHead /\ ref.day <= MaxDay
    BY <1>4, <1>5, <1>6, <1>13
  <2>2. GoodRef(ns, ref)
    BY <1>1, <1>5, <1>8, <2>1 DEF GoodRef
  <2>3. cur.prunedUpTo <= at
    <3>1. CASE cur.base = None
      <4>1. cur.prunedUpTo = 0
        BY <3>1 DEF Sound
      <4> QED  BY <4>1
    <3>2. CASE cur.base # None
      <4>1. cur.base \in Bases(cur)
        BY <3>2 DEF Bases
      <4>2. cur.base.head < at /\ cur.prunedUpTo <= cur.base.head /\ cur.base.head \in Nat
        BY <1>2, <1>11, <1>12, <1>13, <4>1
      <4> QED  BY <1>2, <4>2
    <3> QED  BY <3>1, <3>2
  <2> QED  BY <2>2, <2>3
<1>14. \A b \in Bases(next) : GoodRef(ns, b) /\ next.prunedUpTo <= b.head /\ b.head <= next.toSeq
  <2>1. CASE ~based
    BY <1>1, <1>11, <2>1
  <2>2. CASE based
    <3>1. GoodRef(ns, ref) /\ next.prunedUpTo <= ref.head /\ ref.head <= next.toSeq
      BY <1>1, <1>5, <1>10, <1>13, <2>2
    <3> QED  BY <1>1, <1>11, <2>2, <3>1
  <2> QED  BY <2>1, <2>2
<1>15. \A b, c \in Bases(next) : b.part = c.part => b = c
  <2>1. \A b, c \in Bases(cur) : b.part = c.part => b = c
    BY DEF Sound
  <2>2. \A b \in Bases(cur) : b.part # ref.part
    BY <1>2, <1>5, <1>6
  <2>3. CASE ~based
    BY <1>1, <2>1, <2>3
  <2>4. CASE based
    BY <1>1, <2>1, <2>2, <2>4
  <2> QED  BY <2>3, <2>4
<1>16. \A b \in next.history : b.head < next.base.head
  <2>1. CASE ~based
    BY <1>1, <2>1 DEF Sound
  <2>2. CASE based
    BY <1>1, <1>5, <1>12, <2>2
  <2> QED  BY <2>1, <2>2
<1>17. next.base = None => next.history = {} /\ next.prunedUpTo = 0
  <2>1. CASE ~based
    BY <1>1, <2>1 DEF Sound
  <2>2. CASE based
    BY <1>1, <2>2
  <2> QED  BY <2>1, <2>2
<1>18. \A x : x \in WalkIn(ns, cur.last, cur.prunedUpTo) => x \in WalkIn(ns, last, cur.prunedUpTo)
  <2>1. CASE at <= cur.toSeq
    BY <1>3, <2>1 DEF GoesOn
  <2>2. CASE at > cur.toSeq
    <3>1. ps[last].prev = cur.last /\ ps[last].to = at /\ last = Len(ms) + 1 /\ Len(ps) = Len(ms) + 1
      <4>1. ~(at <= cur.toSeq)
        BY <1>2, <2>2
      <4> QED  BY <1>3, <2>2 DEF GoesOn
    <3>2. last \in 1..Len(ps) /\ last \in 0..Len(ns) /\ last # 0
      BY <1>2, <1>6, <3>1
    <3>3. ns[last].prev = cur.last /\ ns[last].to = at
      BY <1>4, <3>1, <3>2 DEF Grown
    <3>4. cur.prunedUpTo <= cur.toSeq
      <4>1. CASE cur.base = None
        <5>1. cur.prunedUpTo = 0
          BY <4>1 DEF Sound
        <5> QED  BY <1>2, <5>1
      <4>2. CASE cur.base # None
        <5>1. cur.base \in Bases(cur)
          BY <4>2 DEF Bases
        <5>2. cur.prunedUpTo <= cur.base.head /\ cur.base.head <= cur.toSeq /\ cur.base.head \in Nat
          BY <1>2, <5>1 DEF Sound
        <5> QED  BY <1>2, <5>2
      <4> QED  BY <4>1, <4>2
    <3>5. ~Stops(ns, last, cur.prunedUpTo)
      BY <1>2, <2>2, <3>2, <3>3, <3>4 DEF Stops
    <3> QED  BY <1>2, <1>6, <3>2, <3>3, <3>5, WalkStep
  <2> QED  BY <1>2, <2>1, <2>2
<1>19. Anchored(ns, next)
  <2>1. ASSUME NEW b \in Bases(cur), ~Stops(ns, b.segment, cur.prunedUpTo)
        PROVE  b.segment \in WalkIn(ns, last, cur.prunedUpTo)
    BY <1>7, <1>18, <2>1 DEF Sound, Anchored
  <2>2. ASSUME based, ~Stops(ns, ref.segment, cur.prunedUpTo)
        PROVE  ref.segment \in WalkIn(ns, last, cur.prunedUpTo)
    <3>1. last \in 0..Len(ns)
      <4>1. last # 0 => last \in 1..Len(ns)
        BY <1>6, <1>8 DEF IsSegment
      <4> QED  BY <1>6, <4>1
    <3> QED  BY <1>2, <1>5, <1>6, <2>2, <3>1, WalkGoesOn
  <2>3. CASE ~based
    BY <1>1, <2>1, <2>3 DEF Anchored
  <2>4. CASE based
    BY <1>1, <2>1, <2>2, <2>4 DEF Anchored
  <2> QED  BY <2>3, <2>4
<1>20. Sound(ns, next)
  BY <1>1, <1>9, <1>10, <1>14, <1>15, <1>16, <1>17, <1>19 DEF Sound
<1>21. WalkIn(ns, last, cur.prunedUpTo) \subseteq ReachedIn(ms, cur) \cup (Len(ms) + 1)..Len(ns)
  <2> DEFINE W == WalkIn(ns, cur.last, cur.prunedUpTo)
  <2>1. W \subseteq ReachedIn(ms, cur)
    <3>1. W = WalkIn(ms, cur.last, cur.prunedUpTo)
      BY <1>2, <1>4, WalkStays DEF Appended
    <3> QED  BY <3>1 DEF ReachedIn
  <2>2. CASE at <= cur.toSeq
    <3>1. last = cur.last
      BY <1>3, <2>2 DEF GoesOn
    <3> QED  BY <2>1, <3>1
  <2>3. CASE at > cur.toSeq
    <3>1. ps[last].prev = cur.last /\ last = Len(ms) + 1 /\ Len(ps) = Len(ms) + 1
      <4>1. ~(at <= cur.toSeq)
        BY <1>2, <2>3
      <4> QED  BY <1>3, <2>3 DEF GoesOn
    <3>2. last \in 1..Len(ps) /\ last \in 0..Len(ns) /\ last \in (Len(ms) + 1)..Len(ns)
      BY <1>2, <1>6, <3>1
    <3>3. ns[last].prev = cur.last
      BY <1>4, <3>1, <3>2 DEF Grown
    <3>4. WalkIn(ns, last, cur.prunedUpTo) \subseteq {last} \cup W
      BY <1>2, <1>6, <3>2, <3>3, WalkStep
    <3> HIDE DEF W
    <3> QED  BY <2>1, <3>2, <3>4
  <2> QED  BY <1>2, <2>2, <2>3
<1>22. {b.part : b \in Bases(next)} \subseteq ReachedIn(ms, cur) \cup (Len(ms) + 1)..Len(ns)
  <2>1. \A b \in Bases(cur) : b.part \in ReachedIn(ms, cur)
    BY DEF ReachedIn
  <2>2. CASE ~based
    BY <1>1, <2>1, <2>2
  <2>3. CASE based
    <3>1. ref.part \in DOMAIN ns
      BY <1>4, <1>5, <2>3 DEF IsBase
    <3>2. ref.part \in (Len(ms) + 1)..Len(ns)
      BY <1>2, <1>5, <1>6, <3>1
    <3> QED  BY <1>1, <2>1, <2>3, <3>2
  <2> QED  BY <2>2, <2>3
<1>23. ReachedIn(ns, next) \subseteq ReachedIn(ms, cur) \cup (Len(ms) + 1)..Len(ns)
  BY <1>1, <1>21, <1>22 DEF ReachedIn
<1> QED  BY <1>20, <1>23 DEF next, ns

-----------------------------------------------------------------------------
(* What a prune keeps                                                      *)

\* Bases of which there is a newest and an oldest.
LEMMA SomeNewest ==
  ASSUME NEW S, S # {}, \A b \in S : b.head \in 0..MaxHead
  PROVE  /\ Newest(S) \in S /\ \A c \in S : c.head <= Newest(S).head
         /\ First(S) \in S /\ \A c \in S : First(S).head <= c.head
<1> DEFINE T == {b.head : b \in S}
           U == {MaxHead - b.head : b \in S}
<1>1. MaxHead \in Nat
  BY ConstantsAreTyped
<1>2. \E b \in S : \A c \in S : b.head <= c.head
  <2>1. T \in SUBSET (0..MaxHead) /\ T # {}
    OBVIOUS
  <2>2. PICK i \in T : \A j \in T : i <= j
    <3> HIDE DEF T
    <3> QED  BY <1>1, <2>1, LeastOf
  <2> QED  BY <2>2
<1>3. \E b \in S : \A c \in S : c.head <= b.head
  <2>1. U \in SUBSET (0..MaxHead) /\ U # {}
    <3>1. ASSUME NEW b \in S  PROVE MaxHead - b.head \in 0..MaxHead
      BY <1>1
    <3> QED  BY <3>1
  <2>2. PICK i \in U : \A j \in U : i <= j
    <3> HIDE DEF U
    <3> QED  BY <1>1, <2>1, LeastOf
  <2>3. PICK b \in S : i = MaxHead - b.head
    OBVIOUS
  <2>4. ASSUME NEW c \in S  PROVE c.head <= b.head
    <3>1. MaxHead - c.head \in U /\ c.head \in Int /\ b.head \in Int
      OBVIOUS
    <3>2. i <= MaxHead - c.head
      BY <2>2, <3>1
    <3> QED  BY <1>1, <2>3, <3>1, <3>2
  <2> QED  BY <2>4
<1> QED  BY <1>2, <1>3 DEF Newest, First

\* The groups that are the most recent are groups of members, and the group of
\* the newest is one of them.
LEMMA RecentDays ==
  ASSUME NEW S, NEW n \in Nat \ {0}, \A b \in S : b.head \in 0..MaxHead
  PROVE  LET dayOf(b) == b.day
         IN  /\ \A g \in Recent(S, dayOf, n) : g \subseteq S /\ g # {}
             /\ \A b \in S : (\A c \in S \ {b} : c.head < b.head)
                               => {c \in S : c.day = b.day} \in Recent(S, dayOf, n)
<1> DEFINE dayOf(b) == b.day
           of(g) == {b \in S : b.day = g}
           groups == {b.day : b \in S}
           later(g) == {h \in groups : Newest(of(h)).head > Newest(of(g)).head}
<1>1. Recent(S, dayOf, n) = {of(g) : g \in {h \in groups : Cardinality(later(h)) < n}}
  BY DEF Recent
<1>2. \A g \in Recent(S, dayOf, n) : g \subseteq S /\ g # {}
  BY <1>1
<1>3. ASSUME NEW b \in S, \A c \in S \ {b} : c.head < b.head
      PROVE  of(b.day) \in Recent(S, dayOf, n)
  <2>1. \A g \in groups : of(g) # {} /\ \A c \in of(g) : c.head \in 0..MaxHead
    OBVIOUS
  <2>2. Newest(of(b.day)) \in of(b.day) /\ b.head <= Newest(of(b.day)).head
    <3>1. b \in of(b.day) /\ b.day \in groups
      OBVIOUS
    <3> HIDE DEF of, groups
    <3> QED  BY <2>1, <3>1, SomeNewest
  <2>3. Newest(of(b.day)).head >= b.head /\ b.head \in Int /\ Newest(of(b.day)).head \in Int
    <3>1. Newest(of(b.day)) \in S
      BY <2>2
    <3> QED  BY <2>2, <3>1
  <2>4. ASSUME NEW h \in groups  PROVE ~(Newest(of(h)).head > Newest(of(b.day)).head)
    <3>1. Newest(of(h)) \in of(h)
      <4> HIDE DEF of, groups
      <4> QED  BY <2>1, SomeNewest
    <3>2. Newest(of(h)) \in S
      BY <3>1
    <3>3. Newest(of(h)).head <= b.head /\ Newest(of(h)).head \in Int
      BY <1>3, <3>2
    <3> QED  BY <2>3, <3>3
  <2>5. later(b.day) = {}
    <3> HIDE DEF of, groups
    <3> QED  BY <2>4
  <2>6. Cardinality(later(b.day)) < n
    <3> HIDE DEF later
    <3> QED  BY <2>5, FS_EmptySet
  <2> HIDE DEF later, of
  <2> QED  BY <1>1, <2>6
<1> QED  BY <1>2, <1>3

\* What is retained are bases, the newest among them.
LEMMA RetainedAreBases ==
  ASSUME NEW S, \A b \in S : b.head \in 0..MaxHead
  PROVE  /\ Retained(S) \subseteq S
         /\ \A b \in S : (\A c \in S \ {b} : c.head < b.head) => b \in Retained(S)
<1> DEFINE dayOf(b) == b.day
           weekOf(b) == Week(b.day)
           days == Recent(S, dayOf, DailyBases)
           daily == {Newest(g) : g \in days}
           before == {b \in S : \A c \in daily : b.day < c.day}
           weeks == Recent(before, weekOf, WeeklyBases)
           weekly == {First(g) : g \in weeks}
<1>1. Retained(S) = daily \cup weekly
  BY DEF Retained
<1>2. \A g \in days : g \subseteq S /\ g # {}
  BY RecentDays, ConstantsAreTyped
<1>3. \A b \in S : (\A c \in S \ {b} : c.head < b.head) => {c \in S : c.day = b.day} \in days
  BY RecentDays, ConstantsAreTyped
<1>4. \A g \in weeks : g \subseteq before /\ g # {}
  <2> HIDE DEF before
  <2>1. weeks = {{b \in before : weekOf(b) = g} :
                  g \in {h \in {weekOf(b) : b \in before} :
                          Cardinality({k \in {weekOf(b) : b \in before} :
                            Newest({b \in before : weekOf(b) = k}).head > Newest({b \in before : weekOf(b) = h}).head})
                          < WeeklyBases}}
    BY DEF Recent
  <2> QED  BY <2>1
<1>5. before \subseteq S
  OBVIOUS
<1> HIDE DEF days, weeks, before
<1>6. \A g \in days : Newest(g) \in g /\ \A c \in g : c.head <= Newest(g).head
  <2>1. ASSUME NEW g \in days  PROVE g # {} /\ \A b \in g : b.head \in 0..MaxHead
    BY <1>2
  <2> QED  BY <2>1, SomeNewest
<1>7. \A g \in weeks : First(g) \in g
  <2>1. ASSUME NEW g \in weeks  PROVE g # {} /\ \A b \in g : b.head \in 0..MaxHead
    BY <1>4, <1>5
  <2> QED  BY <2>1, SomeNewest
<1>8. Retained(S) \subseteq S
  BY <1>1, <1>2, <1>4, <1>5, <1>6, <1>7
<1>9. ASSUME NEW b \in S, \A c \in S \ {b} : c.head < b.head  PROVE b \in Retained(S)
  <2> DEFINE g == {c \in S : c.day = b.day}
  <2>1. g \in days
    BY <1>3, <1>9
  <2>2. b \in g /\ g \subseteq S
    OBVIOUS
  <2> HIDE DEF g
  <2>3. Newest(g) \in g /\ b.head <= Newest(g).head
    BY <1>6, <2>1, <2>2
  <2>4. Newest(g) = b
    <3>1. SUFFICES ASSUME Newest(g) # b  PROVE FALSE
      OBVIOUS
    <3>2. Newest(g) \in S \ {b}
      BY <2>2, <2>3, <3>1
    <3>3. Newest(g).head < b.head /\ b.head \in Int /\ Newest(g).head \in Int
      BY <1>9, <3>2
    <3> QED  BY <2>3, <3>3
  <2> QED  BY <1>1, <2>1, <2>4
<1> QED  BY <1>8, <1>9

\* The segments up to the oldest kept base, of any messages.
OldSegmentsIn(ms, p, keep) ==
  IF keep = {} THEN {}
  ELSE {m \in WalkIn(ms, First(keep).segment, p.prunedUpTo) : ms[m].to <= First(keep).head}

\* The messages that a prune deletes and the pointer that it writes (TickPrunes).
DroppedIn(ms, p, keep) == {b.part : b \in Bases(p) \ keep} \cup OldSegmentsIn(ms, p, keep)
PrunedPointer(ms, p, keep, list) ==
  [p EXCEPT !.history = keep \ {p.base}, !.revision = list,
            !.prunedUpTo = IF OldSegmentsIn(ms, p, keep) = {} THEN @ ELSE Max({@, First(keep).head})]

\* A higher floor leaves what lies above it.
LEMMA FloorCuts ==
  ASSUME NEW ms, Chained(ms), NEW low \in Nat, NEW high \in Nat, low <= high,
         NEW last, last = 0 \/ IsSegment(ms, last),
         NEW m \in WalkIn(ms, last, low), ~Stops(ms, m, high)
  PROVE  m \in WalkIn(ms, last, high)
<1> DEFINE L == WalkIn(ms, last, low)
           H == WalkIn(ms, last, high)
           S == {x \in L : ~Stops(ms, x, high) => x \in H}
<1>1. Linked(ms) /\ Len(ms) \in Nat /\ last \in 0..Len(ms) /\ DOMAIN ms = 1..Len(ms)
  BY DEF Chained, Linked, IsSegment
<1>2. WalkClosed(ms, L, low) /\ WalkClosed(ms, H, high)
  BY <1>1, WalkGoesOn
<1>3. (~Stops(ms, last, low) => last \in L) /\ (~Stops(ms, last, high) => last \in H)
  BY <1>1, WalkGoesOn
<1>4. \A x \in L : IsSegment(ms, x) /\ x \in 1..Len(ms)
  BY WalkOfSegments
<1> HIDE DEF L, H
<1>5. ASSUME NEW x \in S, ~Stops(ms, ms[x].prev, low)  PROVE ms[x].prev \in S
  <2>1. x \in L /\ ms[x].prev \in L
    BY <1>2, <1>5 DEF WalkClosed
  <2>2. ASSUME ~Stops(ms, ms[x].prev, high)  PROVE ms[x].prev \in H
    <3>1. x \in 1..Len(ms) /\ ms[x].from # 0 /\ ms[x].prev # 0
      BY <1>4, <2>1, <2>2 DEF IsSegment, Stops
    <3>2. ms[x].from <= ms[x].to /\ ms[ms[x].prev].to + 1 = ms[x].from /\ ms[x].prev \in 1..Len(ms)
      BY <1>1, <3>1 DEF Chained, Follows, IsSegment
    <3>3. ms[x].from \in Nat /\ ms[x].to \in Nat /\ ms[ms[x].prev].to \in Nat
      BY <1>1, <3>1, <3>2, LinksAreMessages
    <3>4. ~Stops(ms, x, high)
      BY <2>2, <3>1, <3>2, <3>3 DEF Stops
    <3>5. x \in H
      BY <1>5, <3>4
    <3> QED  BY <1>2, <2>2, <3>5 DEF WalkClosed
  <2> QED  BY <2>1, <2>2
<1>6. WalkClosed(ms, S, low)
  <2> HIDE DEF S
  <2> QED  BY <1>5 DEF WalkClosed
<1>7. ~Stops(ms, last, low) => last \in S
  BY <1>3
<1>8. L \subseteq S
  <2> HIDE DEF S
  <2> QED  BY <1>1, <1>6, <1>7, WalkIsIn DEF L
<1> QED  BY <1>8 DEF L, H

\* A prune's pointer is sound and reaches less, and what is deleted is what it
\* does not reach any more.
LEMMA PrunedIsSound ==
  ASSUME NEW ms, Chained(ms), NEW cur, Sound(ms, cur), NEW list \in Nat, NEW keep, keep = Retained(Bases(cur))
  PROVE  /\ Sound(ms, PrunedPointer(ms, cur, keep, list))
         /\ ReachedIn(ms, PrunedPointer(ms, cur, keep, list)) \subseteq ReachedIn(ms, cur)
         /\ DroppedIn(ms, cur, keep) \subseteq ReachedIn(ms, cur)
         /\ DroppedIn(ms, cur, keep) \cap ReachedIn(ms, PrunedPointer(ms, cur, keep, list)) = {}
<1> DEFINE next == PrunedPointer(ms, cur, keep, list)
           old == OldSegmentsIn(ms, cur, keep)
           floor == IF old = {} THEN cur.prunedUpTo ELSE Max({cur.prunedUpTo, First(keep).head})
<1>1. /\ Linked(ms) /\ Len(ms) \in Nat /\ DOMAIN ms = 1..Len(ms) /\ cur.last \in 0..Len(ms)
      /\ cur.prunedUpTo \in Nat /\ cur.toSeq \in Nat /\ (cur.last = 0 \/ IsSegment(ms, cur.last))
      /\ \A b \in Bases(cur) : b \in Ref /\ b.head \in Nat /\ b.part \in Nat /\ b.part \in 1..Len(ms)
  BY ReachedAreMessages
<1>2. cur \in Pointer /\ MaxHead \in Nat
  BY ConstantsAreTyped DEF Sound
<1>3. \A b \in Bases(cur) : GoodRef(ms, b) /\ cur.prunedUpTo <= b.head /\ b.head <= cur.toSeq /\ b.head \in 0..MaxHead
  BY <1>1, <1>2 DEF Sound, GoodRef
<1>4. /\ keep \subseteq Bases(cur)
      /\ \A b \in Bases(cur) : (\A c \in Bases(cur) \ {b} : c.head < b.head) => b \in keep
  BY <1>3, RetainedAreBases
<1>5. cur.base # None => cur.base \in keep
  <2>1. ASSUME cur.base # None  PROVE cur.base \in keep
    <3>1. cur.base \in Bases(cur) /\ \A c \in Bases(cur) \ {cur.base} : c \in cur.history
      BY <2>1 DEF Bases
    <3>2. \A c \in Bases(cur) \ {cur.base} : c.head < cur.base.head
      BY <3>1 DEF Sound
    <3> QED  BY <1>4, <3>1, <3>2
  <2> QED  BY <2>1
<1>6. cur.base = None => keep = {}
  <2>1. ASSUME cur.base = None  PROVE keep = {}
    <3>1. Bases(cur) = {}
      BY <2>1 DEF Bases, Sound
    <3> QED  BY <1>4, <3>1
  <2> QED  BY <2>1
<1>7. keep # {} => First(keep) \in keep /\ \A c \in keep : First(keep).head <= c.head
  <2>1. ASSUME keep # {}  PROVE First(keep) \in keep /\ \A c \in keep : First(keep).head <= c.head
    <3>1. \A b \in keep : b.head \in 0..MaxHead
      BY <1>3, <1>4
    <3> QED  BY <2>1, <3>1, SomeNewest
  <2> QED  BY <2>1
<1>8. old # {} => keep # {} /\ floor = First(keep).head
  <2>1. ASSUME old # {}  PROVE keep # {} /\ floor = First(keep).head
    <3>1. keep # {}
      BY <2>1 DEF OldSegmentsIn
    <3>2. First(keep).head \in Nat /\ cur.prunedUpTo <= First(keep).head
      BY <1>1, <1>3, <1>4, <1>7, <3>1
    <3>3. Max({cur.prunedUpTo, First(keep).head}) = First(keep).head
      BY <1>1, <3>2 DEF Max
    <3> HIDE DEF old
    <3> QED  BY <2>1, <3>1, <3>3
  <2> QED  BY <2>1
<1>9. floor \in Nat /\ cur.prunedUpTo <= floor /\ \A b \in keep : floor <= b.head
  <2>1. CASE old = {}
    BY <1>1, <1>3, <1>4, <2>1
  <2>2. CASE old # {}
    <3>1. First(keep) \in Bases(cur) /\ floor = First(keep).head
      BY <1>4, <1>7, <1>8, <2>2
    <3>2. floor \in Nat /\ cur.prunedUpTo <= floor
      BY <1>1, <1>3, <3>1
    <3> QED  BY <1>7, <1>8, <2>2, <3>1, <3>2
  <2> QED  BY <2>1, <2>2
<1>10. next = [cur EXCEPT !.history = keep \ {cur.base}, !.revision = list, !.prunedUpTo = floor]
  BY DEF PrunedPointer
<1> HIDE DEF next, floor, old
<1>11. /\ next.toSeq = cur.toSeq /\ next.last = cur.last /\ next.base = cur.base
       /\ next.history = keep \ {cur.base} /\ next.prunedUpTo = floor
  BY <1>2, <1>10 DEF Pointer
<1>12. next \in Pointer
  <2>1. keep \ {cur.base} \in SUBSET Ref
    BY <1>1, <1>4
  <2> QED  BY <1>2, <1>9, <1>10, <2>1 DEF Pointer
<1>13. Bases(next) = keep
  <2>1. CASE cur.base = None
    BY <1>6, <1>11, <2>1 DEF Bases
  <2>2. CASE cur.base # None
    BY <1>5, <1>11, <2>2 DEF Bases
  <2> QED  BY <2>1, <2>2
<1>14. ASSUME NEW m, ~Stops(ms, m, floor), m = 0 \/ m \in 1..Len(ms)  PROVE ~Stops(ms, m, cur.prunedUpTo)
  <2>1. m \in 1..Len(ms)
    BY <1>14 DEF Stops
  <2>2. ms[m].to \in Nat
    BY <1>1, <2>1, LinksAreMessages
  <2> QED  BY <1>1, <1>9, <1>14, <2>2 DEF Stops
<1>15. Anchored(ms, next)
  <2>1. ASSUME NEW b \in Bases(next), ~Stops(ms, b.segment, floor)
        PROVE  b.segment \in WalkIn(ms, cur.last, floor)
    <3>1. b \in Bases(cur)
      BY <1>4, <1>13
    <3>2. b.segment = 0 \/ b.segment \in 1..Len(ms)
      BY <1>1, <1>3, <3>1 DEF GoodRef, IsSegment
    <3>3. b.segment \in WalkIn(ms, cur.last, cur.prunedUpTo)
      BY <1>14, <2>1, <3>1, <3>2 DEF Sound, Anchored
    <3> QED  BY <1>1, <1>9, <2>1, <3>3, FloorCuts
  <2> QED  BY <1>11, <2>1 DEF Anchored
<1>16. Sound(ms, next)
  <2>1. \A b \in Bases(next) : GoodRef(ms, b) /\ next.prunedUpTo <= b.head /\ b.head <= next.toSeq
    BY <1>3, <1>4, <1>9, <1>11, <1>13
  <2>2. \A b, c \in Bases(next) : b.part = c.part => b = c
    BY <1>4, <1>13 DEF Sound
  <2>3. \A b \in next.history : b.head < next.base.head
    <3>1. ASSUME NEW b \in next.history  PROVE b.head < next.base.head
      <4>1. b \in Bases(cur) /\ b # cur.base
        BY <1>4, <1>11
      <4>2. b \in cur.history
        BY <4>1 DEF Bases
      <4> QED  BY <1>11, <4>2 DEF Sound
    <3> QED  BY <3>1
  <2>4. next.base = None => next.history = {} /\ next.prunedUpTo = 0
    <3>1. ASSUME next.base = None  PROVE next.history = {} /\ next.prunedUpTo = 0
      <4>1. cur.base = None /\ cur.prunedUpTo = 0
        BY <1>11, <3>1 DEF Sound
      <4>2. keep = {} /\ old = {}
        BY <1>6, <1>8, <4>1
      <4> QED  BY <1>11, <4>1, <4>2 DEF floor
    <3> QED  BY <3>1
  <2>5. IF next.last = 0 THEN next.toSeq = 0 ELSE IsSegment(ms, next.last) /\ ms[next.last].to = next.toSeq
    BY <1>11 DEF Sound
  <2> QED  BY <1>11, <1>12, <1>15, <2>1, <2>2, <2>3, <2>4, <2>5 DEF Sound
<1>17. WalkIn(ms, cur.last, floor) \subseteq WalkIn(ms, cur.last, cur.prunedUpTo)
  BY <1>1, <1>9, HigherFloor
<1>18. ReachedIn(ms, next) \subseteq ReachedIn(ms, cur)
  BY <1>4, <1>11, <1>13, <1>17 DEF ReachedIn
<1>19. old \subseteq WalkIn(ms, cur.last, cur.prunedUpTo)
  <2> DEFINE W == WalkIn(ms, cur.last, cur.prunedUpTo)
             b == First(keep)
  <2>1. CASE keep = {}
    BY <2>1 DEF old, OldSegmentsIn
  <2>2. CASE keep # {}
    <3>1. b \in Bases(cur)
      BY <1>4, <1>7, <2>2
    <3>2. ~Stops(ms, b.segment, cur.prunedUpTo) => b.segment \in W
      BY <3>1 DEF Sound, Anchored
    <3>3. b.segment \in 0..Len(ms)
      <4>1. b.segment # 0 => b.segment \in 1..Len(ms)
        BY <1>1, <1>3, <3>1 DEF GoodRef, IsSegment
      <4> QED  BY <1>1, <4>1
    <3>4. WalkClosed(ms, W, cur.prunedUpTo)
      BY <1>1, WalkGoesOn
    <3>5. WalkIn(ms, b.segment, cur.prunedUpTo) \subseteq W
      <4> HIDE DEF W, b
      <4> QED  BY <1>1, <3>2, <3>3, <3>4, WalkIsIn
    <3>6. old \subseteq WalkIn(ms, b.segment, cur.prunedUpTo)
      BY <2>2 DEF old, OldSegmentsIn
    <3> QED  BY <3>5, <3>6
  <2> QED  BY <2>1, <2>2
<1>20. DroppedIn(ms, cur, keep) \subseteq ReachedIn(ms, cur)
  BY <1>19 DEF DroppedIn, ReachedIn, old
<1>21. ASSUME NEW m \in DroppedIn(ms, cur, keep), m \in ReachedIn(ms, next)  PROVE FALSE
  <2>1. \A x \in WalkIn(ms, cur.last, floor) : IsSegment(ms, x) /\ floor < ms[x].to
    BY <1>1, <1>9, WalkOfSegments
  <2>2. \A x \in WalkIn(ms, cur.last, cur.prunedUpTo) : IsSegment(ms, x)
    BY <1>1, WalkOfSegments
  <2>3. \A b \in Bases(cur) : ~IsSegment(ms, b.part)
    BY <1>3 DEF GoodRef, IsBase, IsSegment
  <2>4. m \in WalkIn(ms, cur.last, floor) \/ m \in {b.part : b \in keep}
    BY <1>11, <1>13, <1>21 DEF ReachedIn
  <2>5. CASE m \in old
    <3>1. m \in WalkIn(ms, cur.last, floor)
      BY <1>4, <1>19, <2>2, <2>3, <2>4, <2>5
    <3>2. ms[m].to <= floor
      BY <1>8, <2>5 DEF old, OldSegmentsIn
    <3>3. floor < ms[m].to /\ m \in 1..Len(ms)
      BY <1>1, <2>1, <3>1 DEF IsSegment
    <3>4. ms[m].to \in Nat
      BY <1>1, <3>3, LinksAreMessages
    <3> QED  BY <1>9, <3>2, <3>3, <3>4
  <2>6. CASE m \in {b.part : b \in Bases(cur) \ keep}
    <3>1. PICK b \in Bases(cur) \ keep : m = b.part
      BY <2>6
    <3>2. PICK c \in keep : m = c.part
      BY <2>1, <2>3, <2>4, <3>1
    <3> QED  BY <1>4, <3>1, <3>2 DEF Sound
  <2> QED  BY <1>21, <2>5, <2>6 DEF DroppedIn, old
<1> QED  BY <1>16, <1>18, <1>20, <1>21 DEF next

-----------------------------------------------------------------------------
(* What a move of the chain posts                                          *)

\* The place of a message among those that are posted again.
Rank(T, m) == Cardinality({n \in T : n <= m})

\* The numbers of a finite set are counted one by one.
LEMMA RanksCount ==
  ASSUME NEW N \in Nat, NEW T \in SUBSET (1..N)
  PROVE  /\ Cardinality(T) \in Nat
         /\ \A m \in T : Rank(T, m) \in 1..Cardinality(T)
         /\ \A m, n \in T : m < n => Rank(T, m) < Rank(T, n)
         /\ \A i \in 1..Cardinality(T) : \E m \in T : Rank(T, m) = i
<1> DEFINE C == Cardinality(T)
           Upto(m) == {n \in T : n <= m}
<1>1. IsFiniteSet(T) /\ \A m \in T : m \in Nat
  <2>1. IsFiniteSet(1..N)
    BY FS_Interval
  <2>2. IsFiniteSet(T)
    BY <2>1, FS_Subset
  <2> QED  BY <2>2
<1>2. C \in Nat
  BY <1>1, FS_CardinalityType
<1>3. \A m \in T : /\ IsFiniteSet(Upto(m)) /\ Cardinality(Upto(m)) \in Nat /\ Cardinality(Upto(m)) <= C
  <2>1. ASSUME NEW m \in T  PROVE IsFiniteSet(Upto(m)) /\ Cardinality(Upto(m)) <= C
    <3>1. Upto(m) \subseteq T
      OBVIOUS
    <3> HIDE DEF Upto
    <3> QED  BY <1>1, <3>1, FS_Subset
  <2> QED  BY <2>1, FS_CardinalityType
<1>4. ASSUME NEW m \in T, NEW n \in T, m < n  PROVE Rank(T, m) < Rank(T, n)
  <2>1. Upto(m) \subseteq Upto(n)
    <3>1. ASSUME NEW x \in T, x <= m  PROVE x <= n
      BY <1>1, <1>4, <3>1
    <3> QED  BY <3>1
  <2>2. n \in Upto(n) /\ n \notin Upto(m)
    BY <1>1, <1>4
  <2>3. Cardinality(Upto(m)) <= Cardinality(Upto(n)) /\ Cardinality(Upto(m)) # Cardinality(Upto(n))
    <3> HIDE DEF Upto
    <3> QED  BY <1>3, <2>1, <2>2, FS_Subset
  <2> QED  BY <1>3, <2>3 DEF Rank
<1>5. ASSUME NEW m \in T  PROVE Rank(T, m) \in 1..C
  <2>1. m \in Upto(m)
    BY <1>1
  <2>2. Cardinality(Upto(m)) # 0
    <3> HIDE DEF Upto
    <3> QED  BY <1>3, <2>1, FS_EmptySet
  <2> QED  BY <1>2, <1>3, <2>2 DEF Rank
<1>6. ASSUME NEW i \in 1..C  PROVE \E m \in T : Rank(T, m) = i
  <2> DEFINE R == {m \in T : i <= Rank(T, m)}
  <2>1. R # {}
    <3>1. T # {}
      BY <1>2, FS_EmptySet
    <3>2. PICK m \in T : \A n \in T : n <= m
      <4>1. T \in SUBSET (0..N)
        OBVIOUS
      <4> QED  BY <3>1, <4>1, GreatestOf
    <3>3. Upto(m) = T
      BY <3>2
    <3>4. Rank(T, m) = C
      BY <3>3 DEF Rank
    <3>5. m \in R
      BY <1>2, <3>4
    <3> QED  BY <3>5
  <2>2. PICK m \in R : \A n \in R : m <= n
    <3>1. R \in SUBSET (0..N)
      <4>1. ASSUME NEW n \in R  PROVE n \in 0..N
        OBVIOUS
      <4> QED  BY <4>1
    <3> HIDE DEF R
    <3> QED  BY <2>1, <3>1, LeastOf
  <2>3. CASE Rank(T, m) = i
    BY <2>3
  <2>4. CASE Rank(T, m) # i
    <3> DEFINE B == {n \in T : n < m}
    <3>1. Rank(T, m) \in Nat /\ i < Rank(T, m) /\ m \in T
      BY <1>5, <2>4
    <3>2. Upto(m) = B \cup {m} /\ m \notin B
      <4>1. m \in T /\ m \in Nat
        BY <1>1
      <4>2. ASSUME NEW n \in T  PROVE n <= m <=> n < m \/ n = m
        BY <1>1, <4>1
      <4>3. m <= m /\ ~(m < m)
        BY <4>1
      <4>4. \A n : n \in Upto(m) <=> n \in B \cup {m}
        BY <4>1, <4>2, <4>3
      <4>5. m \notin B
        BY <4>3
      <4> HIDE DEF Upto, B
      <4> QED  BY <4>4, <4>5
    <3>3. IsFiniteSet(B) /\ Cardinality(B) \in Nat /\ Rank(T, m) = Cardinality(B) + 1
      <4>1. IsFiniteSet(B)
        BY <1>1, FS_Subset
      <4>2. Cardinality(B \cup {m}) = Cardinality(B) + 1
        <5> HIDE DEF B
        <5> QED  BY <3>2, <4>1, FS_AddElement
      <4> QED  BY <3>2, <4>1, <4>2, FS_CardinalityType DEF Rank
    <3>4. i <= Cardinality(B) /\ Cardinality(B) # 0
      BY <3>1, <3>3
    <3>5. B # {}
      <4> HIDE DEF B
      <4> QED  BY <3>4, FS_EmptySet
    <3>6. PICK k \in B : \A n \in B : n <= k
      <4>1. B \in SUBSET (0..N)
        <5>1. ASSUME NEW n \in B  PROVE n \in 0..N
          OBVIOUS
        <5> QED  BY <5>1
      <4> HIDE DEF B
      <4> QED  BY <3>5, <4>1, GreatestOf
    <3>7. Upto(k) = B
      <4>1. k < m /\ k \in T /\ k \in Nat /\ m \in Nat
        BY <1>1
      <4>2. ASSUME NEW n \in T, n <= k  PROVE n < m
        BY <1>1, <4>1, <4>2
      <4> QED  BY <3>6, <4>1, <4>2
    <3>8. k \in R /\ k < m /\ k \in Nat /\ m \in Nat
      <4>1. Rank(T, k) = Cardinality(B)
        BY <3>7 DEF Rank
      <4> QED  BY <1>1, <3>4, <4>1
    <3> QED  BY <2>2, <3>8
  <2> QED  BY <2>3, <2>4
<1> QED  BY <1>2, <1>4, <1>5, <1>6

\* The numbers after the move, the copies, and the pointer that names them.
NewNumber(ms, T) ==
  [m \in {0} \cup DOMAIN ms |-> IF m \in T THEN Len(ms) + Cardinality({n \in T : n <= m}) ELSE m]
CopyAt(ms, T, k) ==
  LET m == CHOOSE n \in T : NewNumber(ms, T)[n] = k
  IN  [ms[m] EXCEPT !.prev = NewNumber(ms, T)[@]]
Copies(ms, T) == ms \o [i \in 1..Cardinality(T) |-> CopyAt(ms, T, Len(ms) + i)]
MovedRef(new, b) == [b EXCEPT !.part = new[@], !.segment = new[@]]
MovedPointer(p, new, list) ==
  [p EXCEPT !.base = IF @ = None THEN None ELSE MovedRef(new, @),
            !.history = {MovedRef(new, b) : b \in @},
            !.last = new[@], !.revision = list]

\* A number that is a message's, or none's, is new or stays.
Renumbers(ms, T, ns, new) ==
  /\ Len(ns) \in Nat /\ Len(ms) <= Len(ns)
  /\ ns \in Seq(MessageType)
  /\ \A m \in 1..Len(ms) : ns[m] = ms[m]
  /\ \A m \in 0..Len(ms) : m \notin T => new[m] = m
  /\ \A m \in T : /\ new[m] \in (Len(ms) + 1)..Len(ns)
                  /\ ns[new[m]].from = ms[m].from /\ ns[new[m]].to = ms[m].to
                  /\ ns[new[m]].live = ms[m].live /\ ns[new[m]].prev = new[ms[m].prev]
  /\ \A k \in (Len(ms) + 1)..Len(ns) : \E m \in T : k = new[m]
  /\ \A m, n \in T : m < n => new[m] < new[n]

\* The copies are the messages, renumbered in their order.
LEMMA CopiesRenumber ==
  ASSUME NEW ms, Linked(ms), NEW T \in SUBSET (1..Len(ms))
  PROVE  Renumbers(ms, T, Copies(ms, T), NewNumber(ms, T))
<1> DEFINE N == Len(ms)
           C == Cardinality(T)
           new == NewNumber(ms, T)
           tail == [i \in 1..C |-> CopyAt(ms, T, N + i)]
           ns == Copies(ms, T)
<1>1. ms \in Seq(MessageType) /\ N \in Nat /\ DOMAIN ms = 1..N
  BY DEF Linked
<1>2. /\ C \in Nat /\ \A m \in T : Rank(T, m) \in 1..C
      /\ \A m, n \in T : m < n => Rank(T, m) < Rank(T, n)
      /\ \A i \in 1..C : \E m \in T : Rank(T, m) = i
  BY <1>1, RanksCount
<1>3. \A m \in T : new[m] = N + Rank(T, m) /\ m \in 1..N
  BY <1>1 DEF NewNumber, Rank
<1>4. \A m \in 0..N : m \notin T => new[m] = m
  BY <1>1 DEF NewNumber
<1>5. \A m \in 0..N : new[m] \in Nat
  BY <1>1, <1>2, <1>3, <1>4
<1>6. ASSUME NEW m \in T, NEW n \in T, m < n  PROVE new[m] < new[n]
  <2>1. Rank(T, m) < Rank(T, n) /\ Rank(T, m) \in Nat /\ Rank(T, n) \in Nat
    BY <1>2, <1>6
  <2> QED  BY <1>1, <1>3, <2>1
<1>7. ASSUME NEW m \in T  PROVE CopyAt(ms, T, new[m]) = [ms[m] EXCEPT !.prev = new[@]]
  <2>1. ASSUME NEW n \in T, new[n] = new[m]  PROVE n = m
    <3>1. m \in Nat /\ n \in Nat /\ new[m] \in Nat /\ new[n] \in Nat
      BY <1>1, <1>3, <1>5
    <3>2. ~(m < n) /\ ~(n < m)
      BY <1>6, <2>1, <3>1
    <3> QED  BY <3>1, <3>2
  <2>2. (CHOOSE n \in T : new[n] = new[m]) = m
    BY <2>1
  <2> QED  BY <2>2 DEF CopyAt
<1>8. ASSUME NEW m \in T
      PROVE  /\ CopyAt(ms, T, new[m]) \in MessageType
             /\ CopyAt(ms, T, new[m]).from = ms[m].from /\ CopyAt(ms, T, new[m]).to = ms[m].to
             /\ CopyAt(ms, T, new[m]).live = ms[m].live /\ CopyAt(ms, T, new[m]).prev = new[ms[m].prev]
  <2>1. ms[m] \in MessageType /\ ms[m].prev \in 0..N
    BY <1>3, LinksAreMessages
  <2>2. new[ms[m].prev] \in Nat
    BY <1>5, <2>1
  <2> HIDE DEF new
  <2> QED  BY <1>7, <2>1, <2>2 DEF MessageType
<1>9. tail \in Seq(MessageType) /\ Len(tail) = C
  <2>1. ASSUME NEW i \in 1..C  PROVE CopyAt(ms, T, N + i) \in MessageType
    <3>1. PICK m \in T : Rank(T, m) = i
      BY <1>2
    <3>2. N + i = new[m]
      BY <1>3, <3>1
    <3> QED  BY <1>8, <3>2
  <2>2. tail \in [1..C -> MessageType]
    BY <2>1
  <2> QED  BY <1>2, <2>2
<1>10. /\ ns = ms \o tail /\ ns \in Seq(MessageType) /\ Len(ns) = N + C
       /\ \A m \in 1..N : ns[m] = ms[m]
       /\ \A i \in 1..C : ns[N + i] = CopyAt(ms, T, N + i)
  <2>1. ns = ms \o tail
    BY DEF Copies
  <2>2. \A i \in 1..C : tail[i] = CopyAt(ms, T, N + i)
    OBVIOUS
  <2> HIDE DEF tail, ns
  <2>3. ns \in Seq(MessageType) /\ Len(ns) = N + C
    BY <1>1, <1>9, <2>1, ConcatProperties
  <2>4. \A m \in 1..N : ns[m] = ms[m]
    BY <1>1, <1>2, <1>9, <2>1, ConcatProperties
  <2>5. \A i \in 1..C : ns[N + i] = tail[i]
    <3>1. ASSUME NEW i \in 1..C  PROVE ns[N + i] = tail[i]
      <4>1. N + i \in 1..(N + C) /\ ~(N + i <= N) /\ (N + i) - N = i
        BY <1>1, <1>2
      <4> QED  BY <1>1, <1>9, <2>1, <4>1, ConcatProperties
    <3> QED  BY <3>1
  <2> QED  BY <2>1, <2>2, <2>3, <2>4, <2>5
<1>11. ASSUME NEW m \in T
       PROVE  new[m] \in (N + 1)..Len(ns) /\ ns[new[m]] = CopyAt(ms, T, new[m])
  <2>1. new[m] = N + Rank(T, m) /\ Rank(T, m) \in 1..C
    BY <1>2, <1>3
  <2>2. new[m] \in (N + 1)..Len(ns)
    BY <1>1, <1>2, <1>10, <2>1
  <2>3. ns[N + Rank(T, m)] = CopyAt(ms, T, N + Rank(T, m))
    BY <1>10, <2>1
  <2> QED  BY <2>1, <2>2, <2>3
<1>12. ASSUME NEW k \in (N + 1)..Len(ns)  PROVE \E m \in T : k = new[m]
  <2>1. k - N \in 1..C
    BY <1>1, <1>2, <1>10
  <2>2. PICK m \in T : Rank(T, m) = k - N
    BY <1>2, <2>1
  <2>3. k = new[m]
    BY <1>1, <1>3, <2>2
  <2> QED  BY <2>3
<1> HIDE DEF new, ns, C, tail
<1>13. Len(ns) \in Nat /\ N <= Len(ns)
  BY <1>1, <1>2, <1>10
<1>14. Renumbers(ms, T, ns, new)
  BY <1>4, <1>6, <1>8, <1>10, <1>11, <1>12, <1>13 DEF Renumbers
<1> QED  BY <1>14 DEF new, ns

\* A renumbered chain: segments and bases are what they were.
ChainMoves(ms, T, ns, new) ==
  /\ Chained(ns) /\ Grown(ms, ns)
  /\ \A m \in 0..Len(ms) : new[m] \in 0..Len(ns) /\ (new[m] = 0 => m = 0) /\ new[0] = 0
  /\ \A m, n \in T : new[m] = new[n] => m = n
  /\ \A m : IsSegment(ms, m) => IsSegment(ns, new[m]) /\ ns[new[m]].to = ms[m].to
  /\ \A m : IsBase(ms, m) => IsBase(ns, new[m])

\* The copies are chained as the messages are.
LEMMA CopiesAreChained ==
  ASSUME NEW ms, Chained(ms), NEW T \in SUBSET (1..Len(ms)), NEW ns, NEW new, Renumbers(ms, T, ns, new)
  PROVE  ChainMoves(ms, T, ns, new)
<1> DEFINE N == Len(ms)
<1>1. /\ Linked(ms) /\ ms \in Seq(MessageType) /\ N \in Nat /\ DOMAIN ms = 1..N
      /\ Len(ns) \in Nat /\ N <= Len(ns) /\ ns \in Seq(MessageType) /\ DOMAIN ns = 1..Len(ns)
      /\ \A m \in T : m \in 1..N
  BY DEF Chained, Linked, Renumbers
<1>2. \A m \in 1..N : ns[m] = ms[m]
  BY DEF Renumbers
<1>3. \A m \in 0..N : m \notin T => new[m] = m
  BY DEF Renumbers
<1>4. \A m \in T : /\ new[m] \in (N + 1)..Len(ns)
                   /\ ns[new[m]].from = ms[m].from /\ ns[new[m]].to = ms[m].to
                   /\ ns[new[m]].live = ms[m].live /\ ns[new[m]].prev = new[ms[m].prev]
  BY DEF Renumbers
<1>5. ASSUME NEW m \in 0..N  PROVE new[m] \in 0..Len(ns) /\ (new[m] = 0 => m = 0)
  <2>1. CASE m \in T
    BY <1>1, <1>4, <2>1
  <2>2. CASE m \notin T
    BY <1>1, <1>3, <2>2
  <2> QED  BY <2>1, <2>2
<1>6. new[0] = 0
  <2>1. 0 \in 0..N /\ 0 \notin T
    BY <1>1
  <2> QED  BY <1>3, <2>1
<1>7. ASSUME NEW m \in T  PROVE new[ms[m].prev] < new[m]
  <2>1. m \in 1..N /\ ms[m].prev \in 0..(m - 1) /\ ms[m].prev \in 0..N
    BY <1>1, LinksAreMessages
  <2>2. CASE ms[m].prev \in T
    <3>1. ms[m].prev < m
      BY <2>1
    <3> QED  BY <2>2, <3>1 DEF Renumbers
  <2>3. CASE ms[m].prev \notin T
    <3>1. new[ms[m].prev] = ms[m].prev
      BY <1>3, <2>1, <2>3
    <3> QED  BY <1>1, <1>4, <2>1, <3>1
  <2> QED  BY <2>2, <2>3
<1>8. ASSUME NEW m \in T, NEW n \in T, new[m] = new[n]  PROVE m = n
  <2>1. m \in Nat /\ n \in Nat /\ new[m] \in Nat /\ new[n] \in Nat
    BY <1>1, <1>5
  <2>2. ~(m < n) /\ ~(n < m)
    <3>1. m < n => new[m] < new[n]
      BY DEF Renumbers
    <3>2. n < m => new[n] < new[m]
      BY DEF Renumbers
    <3> QED  BY <1>8, <2>1, <3>1, <3>2
  <2> QED  BY <2>1, <2>2
<1>9. ASSUME NEW m \in 1..N
      PROVE  /\ new[m] \in DOMAIN ns /\ ns[new[m]].from = ms[m].from /\ ns[new[m]].to = ms[m].to
  <2>1. new[m] \in DOMAIN ns
    <3>1. m \in 0..N
      BY <1>1
    <3>2. new[m] \in 0..Len(ns) /\ new[m] # 0
      BY <1>5, <3>1
    <3> QED  BY <1>1, <3>2
  <2>2. CASE m \in T
    BY <1>4, <2>1, <2>2
  <2>3. CASE m \notin T
    <3>1. new[m] = m
      BY <1>1, <1>3, <2>3
    <3> QED  BY <1>2, <2>1, <3>1
  <2> QED  BY <2>2, <2>3
<1>10. \A m : IsSegment(ms, m) => IsSegment(ns, new[m]) /\ ns[new[m]].to = ms[m].to
  BY <1>1, <1>9 DEF IsSegment
<1>11. \A m : IsBase(ms, m) => IsBase(ns, new[m])
  BY <1>1, <1>9 DEF IsBase
<1>12. ASSUME NEW k \in DOMAIN ns
       PROVE  /\ ns[k].prev < k /\ ns[k].from <= ns[k].to /\ ns[k].to <= MaxHead
              /\ IF ns[k].from = 0 THEN ns[k].prev = 0 ELSE Follows(ns, k)
  <2>1. CASE k \in 1..N
    <3>1. ns[k] = ms[k] /\ k \in DOMAIN ms
      BY <1>1, <1>2, <2>1
    <3>2. /\ ms[k].prev < k /\ ms[k].from <= ms[k].to /\ ms[k].to <= MaxHead
          /\ IF ms[k].from = 0 THEN ms[k].prev = 0 ELSE Follows(ms, k)
      BY <3>1 DEF Chained, Linked
    <3>3. \A m : IsSegment(ms, m) => IsSegment(ns, m) /\ ns[m].to = ms[m].to
      BY <1>1, <1>2 DEF IsSegment
    <3>4. ms[k].from # 0 => Follows(ns, k)
      BY <3>1, <3>2, <3>3 DEF Follows
    <3> QED  BY <3>1, <3>2, <3>4
  <2>2. CASE k \in (N + 1)..Len(ns)
    <3>1. PICK m \in T : k = new[m]
      BY <2>2 DEF Renumbers
    <3>2. ns[k].from = ms[m].from /\ ns[k].to = ms[m].to /\ ns[k].prev = new[ms[m].prev] /\ m \in DOMAIN ms
      BY <1>1, <1>4, <3>1
    <3>3. /\ ms[m].from <= ms[m].to /\ ms[m].to <= MaxHead
          /\ IF ms[m].from = 0 THEN ms[m].prev = 0 ELSE Follows(ms, m)
      BY <3>2 DEF Chained
    <3>4. ns[k].prev < k
      BY <1>7, <3>1, <3>2
    <3>5. ms[m].from = 0 => ns[k].prev = 0
      BY <1>6, <3>2, <3>3
    <3>6. ms[m].from # 0 => Follows(ns, k)
      <4>1. ASSUME ms[m].from # 0  PROVE Follows(ns, k)
        <5>1. Follows(ms, m)
          BY <3>3, <4>1
        <5>2. CASE ms[m].prev = 0
          BY <1>6, <3>2, <5>1, <5>2 DEF Follows
        <5>3. CASE ms[m].prev # 0
          <6>1. IsSegment(ms, ms[m].prev) /\ ms[ms[m].prev].to + 1 = ms[m].from
            BY <5>1, <5>3 DEF Follows
          <6>2. IsSegment(ns, ns[k].prev) /\ ns[ns[k].prev].to = ms[ms[m].prev].to
            BY <1>10, <3>2, <6>1
          <6>3. ns[k].prev # 0
            BY <1>1, <6>2 DEF IsSegment
          <6> QED  BY <3>2, <6>1, <6>2, <6>3 DEF Follows
        <5> QED  BY <5>2, <5>3
      <4> QED  BY <4>1
    <3> QED  BY <3>2, <3>3, <3>4, <3>5, <3>6
  <2>3. k \in 1..N \/ k \in (N + 1)..Len(ns)
    BY <1>1
  <2> QED  BY <2>1, <2>2, <2>3
<1>13. Chained(ns) /\ Linked(ns)
  BY <1>1, <1>12 DEF Chained, Linked
<1>14. Grown(ms, ns)
  BY <1>1, <1>2, <1>13 DEF Grown
<1> QED  BY <1>5, <1>6, <1>8, <1>10, <1>11, <1>13, <1>14 DEF ChainMoves

\* The pointer q is p, renumbered.
IsMoved(p, q, new) ==
  /\ q \in Pointer /\ q # None
  /\ q.toSeq = p.toSeq /\ q.last = new[p.last] /\ q.prunedUpTo = p.prunedUpTo
  /\ q.base = (IF p.base = None THEN None ELSE MovedRef(new, p.base))
  /\ q.history = {MovedRef(new, b) : b \in p.history}
  /\ Bases(q) = {MovedRef(new, b) : b \in Bases(p)}
  /\ \A b \in Bases(p) : /\ MovedRef(new, b) \in Ref /\ MovedRef(new, b) # None
                         /\ MovedRef(new, b).head = b.head /\ MovedRef(new, b).day = b.day
                         /\ MovedRef(new, b).part = new[b.part] /\ MovedRef(new, b).segment = new[b.segment]

\* The pointer that a move writes, field by field.
LEMMA MovedPointerIs ==
  ASSUME NEW p \in Pointer, NEW N \in Nat, NEW new, \A m \in 0..N : new[m] \in Nat,
         p.last \in 0..N, \A b \in Bases(p) : b.part \in 0..N /\ b.segment \in 0..N, NEW list \in Nat
  PROVE  IsMoved(p, MovedPointer(p, new, list), new)
<1> DEFINE base == IF p.base = None THEN None ELSE MovedRef(new, p.base)
           history == {MovedRef(new, b) : b \in p.history}
           q == MovedPointer(p, new, list)
<1>1. \A b \in Bases(p) : b \in Ref
  BY DEF Bases, Pointer
<1>2. ASSUME NEW b \in Bases(p)
      PROVE  /\ MovedRef(new, b) \in Ref /\ MovedRef(new, b) # None
             /\ MovedRef(new, b).head = b.head /\ MovedRef(new, b).day = b.day
             /\ MovedRef(new, b).part = new[b.part] /\ MovedRef(new, b).segment = new[b.segment]
  <2>1. b \in Ref /\ new[b.part] \in Nat /\ new[b.segment] \in Nat
    BY <1>1
  <2>2. MovedRef(new, b) = [b EXCEPT !.part = new[b.part], !.segment = new[b.segment]]
    BY DEF MovedRef
  <2>3. MovedRef(new, b) \in Ref
    BY <2>1, <2>2 DEF Ref
  <2> QED  BY <2>1, <2>2, <2>3, NoneIsNoRecord DEF Ref
<1>3. base \in Ref \cup {None} /\ history \in SUBSET Ref
  BY <1>2 DEF Bases
<1>4. q = [p EXCEPT !.base = base, !.history = history, !.last = new[p.last], !.revision = list]
  BY DEF MovedPointer
<1>5. new[p.last] \in Nat
  OBVIOUS
<1> HIDE DEF q
<1>6. q \in Pointer
  <2> HIDE DEF base, history
  <2> QED  BY <1>3, <1>4, <1>5 DEF Pointer
<1>7. q.toSeq = p.toSeq /\ q.last = new[p.last] /\ q.prunedUpTo = p.prunedUpTo /\ q.base = base /\ q.history = history
  <2> HIDE DEF base, history
  <2> QED  BY <1>4 DEF Pointer
<1>8. Bases(q) = {MovedRef(new, b) : b \in Bases(p)}
  <2>1. CASE p.base = None
    BY <1>7, <2>1 DEF Bases
  <2>2. CASE p.base # None
    <3>1. base # None /\ p.base \in Bases(p)
      BY <1>2, <2>2 DEF Bases
    <3> QED  BY <1>7, <2>2, <3>1 DEF Bases
  <2> QED  BY <2>1, <2>2
<1> QED  BY <1>2, <1>6, <1>7, <1>8, NoneIsNoRecord DEF q, IsMoved

\* The moved pointer is sound and reaches copies only.
LEMMA MovedIsSound ==
  ASSUME NEW ms, Chained(ms), NEW p, Sound(ms, p), NEW ns, NEW new,
         Renumbers(ms, ReachedIn(ms, p), ns, new), NEW list \in Nat
  PROVE  /\ Chained(ns) /\ Grown(ms, ns)
         /\ Sound(ns, MovedPointer(p, new, list))
         /\ ReachedIn(ns, MovedPointer(p, new, list)) \subseteq (Len(ms) + 1)..Len(ns)
         /\ \A k \in (Len(ms) + 1)..Len(ns) : \E m \in ReachedIn(ms, p) : ns[k].live = ms[m].live
<1> DEFINE N == Len(ms)
           T == ReachedIn(ms, p)
           q == MovedPointer(p, new, list)
           W == WalkIn(ms, p.last, p.prunedUpTo)
           V == WalkIn(ns, q.last, q.prunedUpTo)
<1>1. /\ Linked(ms) /\ N \in Nat /\ DOMAIN ms = 1..N
      /\ p.last \in 0..N /\ p.prunedUpTo \in Nat /\ p.toSeq \in Nat
      /\ (p.last = 0 \/ IsSegment(ms, p.last))
      /\ \A b \in Bases(p) : b \in Ref /\ b.head \in Nat /\ b.part \in Nat /\ b.part \in 1..N
      /\ T \subseteq 1..N
  BY ReachedAreMessages
<1>2. /\ Chained(ns) /\ Grown(ms, ns)
      /\ \A m \in 0..N : new[m] \in 0..Len(ns) /\ (new[m] = 0 => m = 0) /\ new[0] = 0
      /\ \A m, n \in T : new[m] = new[n] => m = n
      /\ \A m : IsSegment(ms, m) => IsSegment(ns, new[m]) /\ ns[new[m]].to = ms[m].to
      /\ \A m : IsBase(ms, m) => IsBase(ns, new[m])
  <2>1. T \in SUBSET (1..N) /\ Renumbers(ms, T, ns, new)
    BY <1>1
  <2>2. ChainMoves(ms, T, ns, new)
    <3> HIDE DEF T
    <3> QED  BY <2>1, CopiesAreChained
  <2> HIDE DEF T
  <2> QED  BY <2>2 DEF ChainMoves
<1>3. \A b \in Bases(p) : GoodRef(ms, b) /\ p.prunedUpTo <= b.head /\ b.head <= p.toSeq
  BY DEF Sound
<1>4. \A b \in Bases(p) : b.part \in 0..N /\ b.segment \in 0..N
  <2>1. ASSUME NEW b \in Bases(p)  PROVE b.part \in 0..N /\ b.segment \in 0..N
    <3>1. b.segment # 0 => b.segment \in 1..N
      BY <1>1, <1>3 DEF GoodRef, IsSegment
    <3> QED  BY <1>1, <3>1
  <2> QED  BY <2>1
<1>5. Linked(ns) /\ Len(ns) \in Nat /\ DOMAIN ns = 1..Len(ns) /\ p \in Pointer /\ \A m \in 0..N : new[m] \in Nat
  <2>1. Linked(ns) /\ Len(ns) \in Nat /\ DOMAIN ns = 1..Len(ns) /\ p \in Pointer
    BY <1>2 DEF Chained, Linked, Sound
  <2> QED  BY <1>2, <2>1
<1>6. /\ q \in Pointer /\ q # None
      /\ q.toSeq = p.toSeq /\ q.last = new[p.last] /\ q.prunedUpTo = p.prunedUpTo
      /\ q.base = (IF p.base = None THEN None ELSE MovedRef(new, p.base))
      /\ q.history = {MovedRef(new, b) : b \in p.history}
      /\ Bases(q) = {MovedRef(new, b) : b \in Bases(p)}
      /\ \A b \in Bases(p) : /\ MovedRef(new, b) \in Ref /\ MovedRef(new, b) # None
                             /\ MovedRef(new, b).head = b.head /\ MovedRef(new, b).day = b.day
                             /\ MovedRef(new, b).part = new[b.part] /\ MovedRef(new, b).segment = new[b.segment]
  <2>1. IsMoved(p, q, new)
    BY <1>1, <1>4, <1>5, MovedPointerIs
  <2> HIDE DEF q
  <2> QED  BY <2>1 DEF IsMoved
<1> HIDE DEF q
<1>7. /\ W \subseteq T /\ \A b \in Bases(p) : b.part \in T
      /\ WalkClosed(ms, W, p.prunedUpTo) /\ (~Stops(ms, p.last, p.prunedUpTo) => p.last \in W)
      /\ \A x \in W : IsSegment(ms, x) /\ x \in 1..N /\ ~Stops(ms, x, p.prunedUpTo)
  <2>1. W \subseteq T /\ \A b \in Bases(p) : b.part \in T
    BY DEF ReachedIn
  <2>2. WalkClosed(ms, W, p.prunedUpTo) /\ (~Stops(ms, p.last, p.prunedUpTo) => p.last \in W)
    BY <1>1, WalkGoesOn
  <2>3. \A x \in W : IsSegment(ms, x)
    BY <1>1, WalkOfSegments
  <2>4. \A x \in W : x \in 1..N /\ ~Stops(ms, x, p.prunedUpTo)
    BY <1>1, WalkVisits
  <2> QED  BY <2>1, <2>2, <2>3, <2>4
<1> HIDE DEF T, W
<1>8. ASSUME NEW m, m = 0 \/ IsSegment(ms, m)
      PROVE  /\ Stops(ns, new[m], p.prunedUpTo) <=> Stops(ms, m, p.prunedUpTo)
             /\ new[m] = 0 <=> m = 0
  <2>1. m \in 0..N
    BY <1>1, <1>8 DEF IsSegment
  <2>2. new[m] = 0 <=> m = 0
    BY <1>2, <2>1
  <2>3. m # 0 => ns[new[m]].to = ms[m].to
    BY <1>2, <1>8
  <2> QED  BY <2>2, <2>3 DEF Stops
<1>9. ASSUME NEW x \in W  PROVE ms[x].prev = 0 \/ IsSegment(ms, ms[x].prev)
  BY <1>7 DEF Chained, Follows, IsSegment
<1>10. V \subseteq {new[x] : x \in W}
  <2> DEFINE S == {new[x] : x \in W}
  <2>1. ~Stops(ns, q.last, q.prunedUpTo) => q.last \in S
    BY <1>1, <1>6, <1>7, <1>8
  <2>2. ASSUME NEW y \in S, ~Stops(ns, ns[y].prev, q.prunedUpTo)  PROVE ns[y].prev \in S
    <3>1. PICK x \in W : y = new[x]
      OBVIOUS
    <3>2. ns[y].prev = new[ms[x].prev]
      BY <1>7, <3>1 DEF Renumbers, T
    <3>3. ~Stops(ms, ms[x].prev, p.prunedUpTo)
      BY <1>6, <1>8, <1>9, <2>2, <3>2
    <3>4. ms[x].prev \in W
      BY <1>7, <3>3 DEF WalkClosed
    <3> QED  BY <3>2, <3>4
  <2>3. WalkClosed(ns, S, q.prunedUpTo)
    <3> HIDE DEF S
    <3> QED  BY <2>2 DEF WalkClosed
  <2>4. q.last \in 0..Len(ns) /\ q.prunedUpTo \in Nat
    BY <1>1, <1>2, <1>6
  <2>5. V \subseteq S
    <3> HIDE DEF S
    <3> QED  BY <1>5, <2>1, <2>3, <2>4, WalkIsIn
  <2> QED  BY <2>5
<1>11. \A x \in W : new[x] \in V
  <2> DEFINE S == {x \in W : new[x] \in V}
  <2>1. q.last \in 0..Len(ns) /\ q.prunedUpTo \in Nat
    BY <1>1, <1>2, <1>6
  <2>2. WalkClosed(ns, V, q.prunedUpTo) /\ (~Stops(ns, q.last, q.prunedUpTo) => q.last \in V)
    BY <1>5, <2>1, WalkGoesOn
  <2> HIDE DEF V
  <2>3. ~Stops(ms, p.last, p.prunedUpTo) => p.last \in S
    BY <1>1, <1>6, <1>7, <1>8, <2>2
  <2>4. ASSUME NEW x \in S, ~Stops(ms, ms[x].prev, p.prunedUpTo)  PROVE ms[x].prev \in S
    <3>1. x \in W /\ new[x] \in V /\ ms[x].prev \in W
      BY <1>7, <2>4 DEF WalkClosed
    <3>2. ns[new[x]].prev = new[ms[x].prev]
      BY <1>7, <3>1 DEF Renumbers, T
    <3>3. ~Stops(ns, ns[new[x]].prev, q.prunedUpTo)
      BY <1>6, <1>8, <1>9, <2>4, <3>1, <3>2
    <3>4. new[ms[x].prev] \in V
      BY <2>2, <3>1, <3>2, <3>3 DEF WalkClosed
    <3> QED  BY <3>1, <3>4
  <2>5. WalkClosed(ms, S, p.prunedUpTo)
    <3> HIDE DEF S
    <3> QED  BY <2>4 DEF WalkClosed
  <2>6. W \subseteq S
    <3> HIDE DEF S
    <3> QED  BY <1>1, <2>3, <2>5, WalkIsIn DEF W
  <2> QED  BY <2>6
<1> HIDE DEF V
<1>12. Anchored(ns, q)
  <2>1. ASSUME NEW b \in Bases(p), ~Stops(ns, new[b.segment], p.prunedUpTo)
        PROVE  new[b.segment] \in V
    <3>1. b.segment = 0 \/ IsSegment(ms, b.segment)
      BY <1>3 DEF GoodRef
    <3>2. ~Stops(ms, b.segment, p.prunedUpTo)
      BY <1>8, <2>1, <3>1
    <3>3. b.segment \in W
      BY <3>2 DEF Sound, Anchored, W
    <3> QED  BY <1>11, <3>3
  <2>2. ASSUME NEW c \in Bases(q), ~Stops(ns, c.segment, q.prunedUpTo)  PROVE c.segment \in V
    <3>1. PICK b \in Bases(p) : c = MovedRef(new, b)
      BY <1>6
    <3>2. c.segment = new[b.segment]
      BY <1>6, <3>1
    <3> QED  BY <1>6, <2>1, <2>2, <3>2
  <2> QED  BY <2>2 DEF Anchored, V
<1>13. IF q.last = 0 THEN q.toSeq = 0 ELSE IsSegment(ns, q.last) /\ ns[q.last].to = q.toSeq
  <2>1. q.last = 0 <=> p.last = 0
    BY <1>1, <1>6, <1>8
  <2> QED  BY <1>2, <1>6, <2>1 DEF Sound
<1>14. \A c \in Bases(q) : GoodRef(ns, c) /\ q.prunedUpTo <= c.head /\ c.head <= q.toSeq
  <2>1. ASSUME NEW c \in Bases(q)  PROVE GoodRef(ns, c) /\ q.prunedUpTo <= c.head /\ c.head <= q.toSeq
    <3>1. PICK b \in Bases(p) : c = MovedRef(new, b)
      BY <1>6
    <3>2. /\ c \in Ref /\ c.head = b.head /\ c.day = b.day
          /\ c.part = new[b.part] /\ c.segment = new[b.segment]
      BY <1>6, <3>1
    <3>3. c.segment # 0 => IsSegment(ns, c.segment)
      BY <1>2, <1>3, <1>8, <3>2 DEF GoodRef
    <3>4. IsBase(ns, c.part)
      BY <1>2, <1>3, <3>2 DEF GoodRef
    <3> QED  BY <1>3, <1>6, <3>2, <3>3, <3>4 DEF GoodRef
  <2> QED  BY <2>1
<1>15. \A c, d \in Bases(q) : c.part = d.part => c = d
  <2>1. ASSUME NEW c \in Bases(q), NEW d \in Bases(q), c.part = d.part  PROVE c = d
    <3>1. PICK b \in Bases(p) : c = MovedRef(new, b)
      BY <1>6
    <3>2. PICK a \in Bases(p) : d = MovedRef(new, a)
      BY <1>6
    <3>3. new[b.part] = new[a.part]
      BY <1>6, <2>1, <3>1, <3>2
    <3>4. b.part = a.part
      BY <1>2, <1>7, <3>3
    <3>5. b = a
      BY <3>4 DEF Sound
    <3> QED  BY <3>1, <3>2, <3>5
  <2> QED  BY <2>1
<1>16. \A c \in q.history : c.head < q.base.head
  <2>1. ASSUME NEW c \in q.history  PROVE c.head < q.base.head
    <3>1. PICK b \in p.history : c = MovedRef(new, b)
      BY <1>6, <2>1
    <3>2. p.base # None /\ b \in Bases(p) /\ p.base \in Bases(p) /\ b.head < p.base.head
      BY <3>1 DEF Sound, Bases
    <3> QED  BY <1>6, <3>1, <3>2
  <2> QED  BY <2>1
<1>17. q.base = None => q.history = {} /\ q.prunedUpTo = 0
  <2>1. ASSUME q.base = None  PROVE q.history = {} /\ q.prunedUpTo = 0
    <3>1. p.base = None
      <4>1. SUFFICES ASSUME p.base # None  PROVE FALSE
        OBVIOUS
      <4>2. p.base \in Bases(p)
        BY <4>1 DEF Bases
      <4> QED  BY <1>6, <2>1, <4>1, <4>2
    <3> QED  BY <1>6, <3>1 DEF Sound
  <2> QED  BY <2>1
<1>18. Sound(ns, q)
  <2>1. q.toSeq <= MaxHead
    BY <1>6 DEF Sound
  <2> QED  BY <1>6, <1>12, <1>13, <1>14, <1>15, <1>16, <1>17, <2>1 DEF Sound
<1>19. ReachedIn(ns, q) \subseteq (N + 1)..Len(ns)
  <2>1. \A m \in T : new[m] \in (N + 1)..Len(ns)
    BY DEF Renumbers, T
  <2>2. V \subseteq (N + 1)..Len(ns)
    BY <1>7, <1>10, <2>1
  <2>3. \A c \in Bases(q) : c.part \in (N + 1)..Len(ns)
    <3>1. ASSUME NEW c \in Bases(q)  PROVE c.part \in (N + 1)..Len(ns)
      <4>1. PICK b \in Bases(p) : c = MovedRef(new, b)
        BY <1>6
      <4>2. c.part = new[b.part]
        BY <1>6, <4>1
      <4> QED  BY <1>7, <2>1, <4>2
    <3> QED  BY <3>1
  <2> QED  BY <2>2, <2>3 DEF ReachedIn, V
<1>20. ASSUME NEW k \in (N + 1)..Len(ns)  PROVE \E m \in T : ns[k].live = ms[m].live
  <2>1. PICK m \in T : k = new[m]
    BY DEF Renumbers, T
  <2>2. ns[k].live = ms[m].live
    BY <2>1 DEF Renumbers, T
  <2> QED  BY <2>2
<1> QED  BY <1>2, <1>18, <1>19, <1>20 DEF q, T

-----------------------------------------------------------------------------
(* The invariant of everything                                             *)

OpType == [kind : {"write", "refresh", "prune"}, at : {"check", "land", "prune", "remove"},
           from : Pointer, next : Pointer, drop : SUBSET Nat]
DeviceType == [seen : Nat, slot : Nat, known : Pointer \cup {None}, op : OpType \cup {None}]
MoverType == [by : Device, from : Nat, to : Nat, read : Pointer \cup {None}]

\* A write under way: both pointers are sound, and what it is going to delete is
\* what the new one does not reach any more.
GoodOp(ms, op) ==
  /\ op \in OpType /\ Sound(ms, op.from) /\ Sound(ms, op.next)
  /\ op.drop \subseteq ReachedIn(ms, op.from)
  /\ op.drop \cap ReachedIn(ms, op.next) = {}

\* A device, of messages, with so many slots and entries.
GoodDevice(ms, places, head, x) ==
  /\ x \in DeviceType /\ x.seen <= head /\ x.slot <= places
  /\ x.known # None => Sound(ms, x.known)
  /\ x.op # None => x.slot # 0 /\ GoodOp(ms, x.op)

GoodSlots(ms, ss) ==
  /\ ss \in Seq(Pointer \cup {None})
  /\ \A i \in DOMAIN ss : ss[i] # None => Sound(ms, ss[i])

WorldInv == log \in Seq(0..MaxDay) /\ Len(log) <= MaxHead /\ day \in 0..MaxDay

DeviceInv ==
  /\ device \in [Device -> DeviceType]
  /\ \A d \in Device : GoodDevice(messages, Len(slots), Len(log), device[d])

\* The vault's pointer is there; a move leads from it to another, and a drain
\* is of another.
VaultInv ==
  /\ vault \in [pointer : Nat, revision : Nat]
  /\ vault.pointer \in DOMAIN slots /\ slots[vault.pointer] # None
MoveInv ==
  /\ mover \in MoverType \cup {None}
  /\ mover # None =>
       /\ drain = None /\ mover.from = vault.pointer
       /\ mover.to \in DOMAIN slots /\ mover.to # vault.pointer /\ slots[mover.to] # None
DrainInv ==
  /\ drain \in Drain \cup {None}
  /\ drain # None =>
       /\ drain.slot \in DOMAIN slots /\ drain.slot # vault.pointer
       /\ drain.todo # None => drain.todo \subseteq DOMAIN messages

\* Nothing is gone before something has been deleted.
AllThere == ~removed => \A m \in DOMAIN messages : messages[m].live

IInv ==
  /\ WorldInv /\ Chained(messages) /\ GoodSlots(messages, slots) /\ DeviceInv
  /\ VaultInv /\ MoveInv /\ DrainInv /\ AllThere

\* A device stays good while messages, slots and entries come.
LEMMA DeviceStays ==
  ASSUME NEW ms, NEW ns, Chained(ms), Grown(ms, ns), NEW n \in Nat, NEW k \in Nat, n <= k,
         NEW h \in Nat, NEW g \in Nat, h <= g, NEW x, GoodDevice(ms, n, h, x)
  PROVE  GoodDevice(ns, k, g, x)
<1>1. x \in DeviceType /\ x.seen <= h /\ x.slot <= n
  BY DEF GoodDevice
<1>2. x.seen <= g /\ x.slot <= k
  <2>1. x.seen \in Nat /\ x.slot \in Nat
    BY <1>1 DEF DeviceType
  <2> QED  BY <1>1, <2>1
<1>3. x.known # None => Sound(ns, x.known)
  BY SoundStays DEF GoodDevice
<1>4. ASSUME x.op # None  PROVE x.slot # 0 /\ GoodOp(ns, x.op)
  <2>1. x.slot # 0 /\ GoodOp(ms, x.op)
    BY <1>4 DEF GoodDevice
  <2>2. /\ Sound(ns, x.op.from) /\ ReachedIn(ns, x.op.from) = ReachedIn(ms, x.op.from)
        /\ Sound(ns, x.op.next) /\ ReachedIn(ns, x.op.next) = ReachedIn(ms, x.op.next)
    BY <2>1, SoundStays DEF GoodOp
  <2> QED  BY <2>1, <2>2 DEF GoodOp
<1> QED  BY <1>1, <1>2, <1>3, <1>4 DEF GoodDevice

\* So do the slots.
LEMMA SlotsStay ==
  ASSUME NEW ms, NEW ns, Chained(ms), Grown(ms, ns), NEW ss, GoodSlots(ms, ss)
  PROVE  GoodSlots(ns, ss)
  BY SoundStays DEF GoodSlots

\* A slot is rewritten or deleted.
SetsSlot(ss, i, p, ts) == ts = [ss EXCEPT ![i] = p]

\* The slots after that, one by one.
LEMMA SlotIsSet ==
  ASSUME NEW ms, NEW ss, GoodSlots(ms, ss), NEW i \in DOMAIN ss, NEW p, p = None \/ Sound(ms, p),
         NEW ts, SetsSlot(ss, i, p, ts)
  PROVE  /\ GoodSlots(ms, ts) /\ DOMAIN ts = DOMAIN ss /\ Len(ts) = Len(ss)
         /\ \A j \in DOMAIN ss : ts[j] = IF j = i THEN p ELSE ss[j]
<1>1. p \in Pointer \cup {None}
  BY DEF Sound
<1>2. ss \in Seq(Pointer \cup {None})
  BY DEF GoodSlots
<1>3. ts \in Seq(Pointer \cup {None}) /\ DOMAIN ts = DOMAIN ss /\ Len(ts) = Len(ss)
  BY <1>1, <1>2 DEF SetsSlot
<1>4. \A j \in DOMAIN ss : ts[j] = IF j = i THEN p ELSE ss[j]
  BY <1>2 DEF SetsSlot
<1>5. ASSUME NEW j \in DOMAIN ts, ts[j] # None  PROVE Sound(ms, ts[j])
  <2>1. CASE j = i
    BY <1>3, <1>4, <1>5, <2>1
  <2>2. CASE j # i
    BY <1>3, <1>4, <1>5, <2>2 DEF GoodSlots
  <2> QED  BY <2>1, <2>2
<1> QED  BY <1>3, <1>4, <1>5 DEF GoodSlots

\* Nothing comes, or only messages go.
LEMMA SameGrows ==
  ASSUME NEW ms, Chained(ms)
  PROVE  Grown(ms, ms)
  BY DEF Grown, Chained, Linked

\* Messages that go leave the chain as it was.
LEMMA WithoutGrows ==
  ASSUME Chained(messages), NEW gone, messages' = Without(gone)
  PROVE  /\ Chained(messages') /\ Grown(messages, messages') /\ DOMAIN messages' = DOMAIN messages
         /\ \A m \in DOMAIN messages : messages'[m].live = (messages[m].live /\ m \notin gone)
<1>1. /\ Linked(messages) /\ messages \in Seq(MessageType) /\ Len(messages) \in Nat
      /\ DOMAIN messages = 1..Len(messages)
  BY DEF Chained, Linked
<1>2. messages' = [m \in DOMAIN messages |-> [messages[m] EXCEPT !.live = messages[m].live /\ m \notin gone]]
  BY DEF Without
<1>3. ASSUME NEW m \in DOMAIN messages
      PROVE  /\ messages'[m] \in MessageType
             /\ messages'[m].from = messages[m].from /\ messages'[m].to = messages[m].to
             /\ messages'[m].prev = messages[m].prev
             /\ messages'[m].live = (messages[m].live /\ m \notin gone)
  <2>1. messages[m] \in MessageType
    BY <1>1
  <2>2. messages'[m] = [messages[m] EXCEPT !.live = messages[m].live /\ m \notin gone]
    BY <1>2
  <2> DEFINE b == messages[m].live /\ m \notin gone
  <2>3. b \in BOOLEAN
    OBVIOUS
  <2>4. messages'[m] = [messages[m] EXCEPT !.live = b]
    BY <2>2
  <2> HIDE DEF b
  <2>5. /\ messages'[m] \in MessageType
        /\ messages'[m].from = messages[m].from /\ messages'[m].to = messages[m].to
        /\ messages'[m].prev = messages[m].prev /\ messages'[m].live = b
    BY <2>1, <2>3, <2>4 DEF MessageType
  <2> QED  BY <2>5 DEF b
<1>4. DOMAIN messages' = DOMAIN messages /\ messages' \in Seq(MessageType) /\ Len(messages') = Len(messages)
  <2>1. DOMAIN messages' = 1..Len(messages)
    BY <1>1, <1>2
  <2>2. messages' \in [1..Len(messages) -> MessageType]
    BY <1>1, <1>2, <1>3
  <2> QED  BY <1>1, <2>1, <2>2
<1>5. Linked(messages')
  BY <1>1, <1>3, <1>4 DEF Linked
<1>6. Grown(messages, messages')
  BY <1>1, <1>3, <1>4, <1>5 DEF Grown
<1>7. \A m : IsSegment(messages, m) => IsSegment(messages', m) /\ messages'[m].to = messages[m].to
  BY <1>3, <1>4 DEF IsSegment
<1>8. Chained(messages')
  <2>1. ASSUME NEW m \in DOMAIN messages'
        PROVE  /\ messages'[m].from <= messages'[m].to /\ messages'[m].to <= MaxHead
               /\ IF messages'[m].from = 0 THEN messages'[m].prev = 0 ELSE Follows(messages', m)
    <3>1. m \in DOMAIN messages
      BY <1>4
    <3>2. /\ messages[m].from <= messages[m].to /\ messages[m].to <= MaxHead
          /\ IF messages[m].from = 0 THEN messages[m].prev = 0 ELSE Follows(messages, m)
      BY <3>1 DEF Chained
    <3>3. messages[m].from # 0 => Follows(messages', m)
      BY <1>3, <1>7, <3>1, <3>2 DEF Follows
    <3> QED  BY <1>3, <3>1, <3>2, <3>3
  <2> QED  BY <1>5, <2>1 DEF Chained
<1> QED  BY <1>3, <1>4, <1>6, <1>8

\* The devices after a step of one of them.
LEMMA DevicesAfter ==
  ASSUME IInv, Chained(messages'), Grown(messages, messages'),
         Len(slots') \in Nat, Len(slots) <= Len(slots'), Len(log') \in Nat, Len(log) <= Len(log'),
         NEW d \in Device, NEW x, device' = [device EXCEPT ![d] = x],
         GoodDevice(messages', Len(slots'), Len(log'), x)
  PROVE  DeviceInv'
<1>1. /\ Len(slots) \in Nat /\ Len(log) \in Nat /\ Chained(messages) /\ device \in [Device -> DeviceType]
      /\ \A e \in Device : GoodDevice(messages, Len(slots), Len(log), device[e])
  BY DEF IInv, DeviceInv, GoodSlots, WorldInv
<1>2. x \in DeviceType
  BY DEF GoodDevice
<1>3. device' \in [Device -> DeviceType]
  BY <1>1, <1>2
<1>4. ASSUME NEW e \in Device  PROVE GoodDevice(messages', Len(slots'), Len(log'), device'[e])
  <2>1. CASE e = d
    BY <1>1, <2>1
  <2>2. CASE e # d
    <3>1. device'[e] = device[e]
      BY <1>1, <2>2
    <3>2. GoodDevice(messages', Len(slots'), Len(log'), device[e])
      BY <1>1, DeviceStays
    <3> QED  BY <3>1, <3>2
  <2> QED  BY <2>1, <2>2
<1> QED  BY <1>3, <1>4 DEF DeviceInv

\* The devices when none of them moves.
LEMMA DevicesRest ==
  ASSUME IInv, Chained(messages'), Grown(messages, messages'),
         Len(slots') \in Nat, Len(slots) <= Len(slots'), Len(log') \in Nat, Len(log) <= Len(log'),
         device' = device
  PROVE  DeviceInv'
<1>1. /\ Len(slots) \in Nat /\ Len(log) \in Nat /\ Chained(messages) /\ device \in [Device -> DeviceType]
      /\ \A e \in Device : GoodDevice(messages, Len(slots), Len(log), device[e])
  BY DEF IInv, DeviceInv, GoodSlots, WorldInv
<1>2. \A e \in Device : GoodDevice(messages', Len(slots'), Len(log'), device[e])
  BY <1>1, DeviceStays
<1> QED  BY <1>1, <1>2 DEF DeviceInv

-----------------------------------------------------------------------------
(* Each step keeps it                                                      *)

\* What a device knows and where it reads.
LEMMA DeviceFacts ==
  ASSUME IInv, NEW d \in Device
  PROVE  /\ device \in [Device -> DeviceType] /\ device[d] \in DeviceType
         /\ GoodDevice(messages, Len(slots), Len(log), device[d])
         /\ device[d].seen \in Nat /\ device[d].seen <= Len(log) /\ device[d].seen <= MaxHead
         /\ Place(d) \in DOMAIN slots /\ Place(d) \in Nat /\ Place(d) # 0 /\ Place(d) <= Len(slots)
         /\ Read(d) # None => Sound(messages, Read(d))
         /\ Read(d) # None => Sound(messages, Known(d))
         /\ device[d].op # None => GoodOp(messages, device[d].op) /\ Place(d) = device[d].slot
         /\ Now \in Nat /\ Len(slots) \in Nat /\ Len(log) \in Nat /\ MaxHead \in Nat
         /\ DOMAIN slots = 1..Len(slots)
<1>1. /\ device \in [Device -> DeviceType] /\ GoodDevice(messages, Len(slots), Len(log), device[d])
      /\ Len(slots) \in Nat /\ DOMAIN slots = 1..Len(slots) /\ Len(log) \in Nat /\ Len(log) <= MaxHead /\ MaxHead \in Nat
      /\ GoodSlots(messages, slots)
  BY ConstantsAreTyped DEF IInv, DeviceInv, GoodSlots, WorldInv
<1>2. device[d] \in DeviceType /\ device[d].seen <= Len(log) /\ device[d].slot <= Len(slots)
  BY <1>1 DEF GoodDevice
<1>3. device[d].seen \in Nat /\ device[d].slot \in Nat
  BY <1>2 DEF DeviceType
<1>4. vault.pointer \in DOMAIN slots /\ Now \in Nat
  BY DEF IInv, VaultInv, Now
<1>5. Place(d) \in DOMAIN slots
  BY <1>1, <1>2, <1>3, <1>4 DEF Place
<1>6. Read(d) # None => Sound(messages, Read(d))
  BY <1>1, <1>5 DEF Read, GoodSlots
<1>7. Read(d) # None => Sound(messages, Known(d))
  BY <1>1, <1>6 DEF Known, GoodDevice
<1>8. device[d].op # None => GoodOp(messages, device[d].op) /\ Place(d) = device[d].slot
  BY <1>1 DEF GoodDevice, Place
<1>9. device[d].seen <= MaxHead /\ Place(d) \in Nat /\ Place(d) # 0 /\ Place(d) <= Len(slots)
  BY <1>1, <1>2, <1>3, <1>5
<1> QED  BY <1>1, <1>2, <1>3, <1>4, <1>5, <1>6, <1>7, <1>8, <1>9

\* A device that idles with a pointer that is sound, or with none, is good.
LEMMA IdleIsGood ==
  ASSUME IInv, NEW d \in Device, NEW ms, Chained(ms), Grown(messages, ms), NEW p, p = None \/ Sound(ms, p)
  PROVE  GoodDevice(ms, Len(slots), Len(log),
                    [device[d] EXCEPT !.slot = Place(d), !.known = p, !.op = None])
<1> DEFINE x == [device[d] EXCEPT !.slot = Place(d), !.known = p, !.op = None]
<1>1. /\ device[d] \in DeviceType /\ Place(d) \in Nat /\ Place(d) <= Len(slots)
      /\ device[d].seen <= Len(log)
  BY DeviceFacts
<1>2. p \in Pointer \cup {None}
  BY DEF Sound
<1>3. x \in DeviceType /\ x.seen = device[d].seen /\ x.slot = Place(d) /\ x.known = p /\ x.op = None
  BY <1>1, <1>2 DEF DeviceType
<1> HIDE DEF x
<1>4. GoodDevice(ms, Len(slots), Len(log), x)
  BY <1>1, <1>3 DEF GoodDevice
<1> QED  BY <1>4 DEF x

\* So is a device with a good write under way.
LEMMA RunIsGood ==
  ASSUME IInv, NEW d \in Device, NEW ms, Chained(ms), Grown(messages, ms), Read(d) # None,
         NEW op, GoodOp(ms, op)
  PROVE  GoodDevice(ms, Len(slots), Len(log),
                    [device[d] EXCEPT !.slot = Place(d), !.known = Known(d), !.op = op])
<1> DEFINE x == [device[d] EXCEPT !.slot = Place(d), !.known = Known(d), !.op = op]
<1>1. /\ device[d] \in DeviceType /\ Place(d) \in Nat /\ Place(d) <= Len(slots) /\ Place(d) # 0
      /\ device[d].seen <= Len(log) /\ Sound(messages, Known(d)) /\ Chained(messages)
  BY DeviceFacts DEF IInv
<1>2. Sound(ms, Known(d))
  BY <1>1, SoundStays
<1>3. Known(d) \in Pointer \cup {None} /\ op \in OpType \cup {None}
  BY <1>2 DEF Sound, GoodOp
<1>4. x \in DeviceType /\ x.seen = device[d].seen /\ x.slot = Place(d) /\ x.known = Known(d) /\ x.op = op
  BY <1>1, <1>3 DEF DeviceType
<1> HIDE DEF x
<1>5. GoodDevice(ms, Len(slots), Len(log), x)
  BY <1>1, <1>2, <1>4 DEF GoodDevice
<1> QED  BY <1>5 DEF x

\* The same write, at another place of its course.
LEMMA OpAt ==
  ASSUME NEW ms, NEW op, GoodOp(ms, op), NEW a \in {"check", "land", "prune", "remove"},
         NEW q, Sound(ms, q), ReachedIn(ms, q) = ReachedIn(ms, op.next),
         NEW drop \in SUBSET op.drop
  PROVE  GoodOp(ms, [op EXCEPT !.at = a, !.next = q, !.drop = drop])
<1> DEFINE x == [op EXCEPT !.at = a, !.next = q, !.drop = drop]
<1>1. op \in OpType /\ q \in Pointer /\ drop \in SUBSET Nat
  BY DEF GoodOp, OpType, Sound
<1>2. x \in OpType /\ x.from = op.from /\ x.next = q /\ x.drop = drop
  BY <1>1 DEF OpType
<1> HIDE DEF x
<1>3. GoodOp(ms, x)
  BY <1>2 DEF GoodOp
<1> QED  BY <1>3 DEF x

\* A new write: what it deletes is not what its pointer reaches.
LEMMA NewOpIsGood ==
  ASSUME NEW ms, NEW kind \in {"write", "refresh", "prune"}, NEW from, Sound(ms, from),
         NEW next, Sound(ms, next), NEW drop, drop \in SUBSET Nat,
         drop \subseteq ReachedIn(ms, from), drop \cap ReachedIn(ms, next) = {}
  PROVE  GoodOp(ms, Op(kind, from, next, drop))
<1> DEFINE x == Op(kind, from, next, drop)
<1>1. from \in Pointer /\ next \in Pointer
  BY DEF Sound
<1>2. x \in OpType /\ x.from = from /\ x.next = next /\ x.drop = drop
  BY <1>1 DEF Op, OpType
<1> HIDE DEF x
<1>3. GoodOp(ms, x)
  BY <1>2 DEF GoodOp
<1> QED  BY <1>3 DEF x

\* A pointer with another backend list reaches the same.
LEMMA ListedIsSound ==
  ASSUME NEW ms, NEW p, Sound(ms, p), NEW list \in Nat
  PROVE  /\ Sound(ms, [p EXCEPT !.revision = list])
         /\ ReachedIn(ms, [p EXCEPT !.revision = list]) = ReachedIn(ms, p)
<1> DEFINE q == [p EXCEPT !.revision = list]
<1>1. p \in Pointer
  BY DEF Sound
<1>2. /\ q \in Pointer /\ q.toSeq = p.toSeq /\ q.base = p.base /\ q.history = p.history
      /\ q.last = p.last /\ q.prunedUpTo = p.prunedUpTo
  BY <1>1 DEF Pointer
<1> HIDE DEF q
<1>3. Bases(q) = Bases(p)
  BY <1>2 DEF Bases
<1>4. Sound(ms, q) /\ ReachedIn(ms, q) = ReachedIn(ms, p)
  BY <1>2, <1>3 DEF Sound, Anchored, ReachedIn
<1> QED  BY <1>4 DEF q

\* A new scheduler has no location and no pointer yet.
LEMMA FreshIsGood ==
  ASSUME NEW ms, NEW n \in Nat, NEW h \in Nat, NEW seen \in Nat, seen <= h
  PROVE  GoodDevice(ms, n, h, Fresh(seen))
<1> DEFINE x == Fresh(seen)
<1>1. x \in DeviceType /\ x.seen = seen /\ x.slot = 0 /\ x.known = None /\ x.op = None
  BY DEF Fresh, DeviceType
<1> HIDE DEF x
<1>2. GoodDevice(ms, n, h, x)
  BY <1>1 DEF GoodDevice
<1> QED  BY <1>2 DEF x

\* Nothing has been posted.
LEMMA InitIInv == Init => IInv
<1> SUFFICES ASSUME Init  PROVE IInv
  OBVIOUS
<1> USE DEF Init
<1>1. {MaxHead, MaxDay} \subseteq Nat
  BY ConstantsAreTyped
<1>2. WorldInv
  BY <1>1 DEF WorldInv
<1>3. Chained(messages)
  BY DEF Chained, Linked
<1>4. EmptyPointer \in Pointer /\ EmptyPointer # None
  <2>1. EmptyPointer \in Pointer
    BY DEF EmptyPointer, Pointer
  <2> QED  BY <2>1, NoneIsNoRecord
<1>5. Sound(messages, EmptyPointer)
  <2>1. Bases(EmptyPointer) = {}
    BY DEF EmptyPointer, Bases
  <2>2. /\ EmptyPointer.toSeq = 0 /\ EmptyPointer.last = 0 /\ EmptyPointer.prunedUpTo = 0
        /\ EmptyPointer.history = {} /\ EmptyPointer.base = None
    BY DEF EmptyPointer
  <2> QED  BY <1>1, <1>4, <2>1, <2>2 DEF Sound, Anchored
<1>6. GoodSlots(messages, slots)
  BY <1>4, <1>5 DEF GoodSlots
<1>7. \A d \in Device : device[d] = Fresh(0) /\ Len(slots) = 1 /\ Len(log) = 0
  OBVIOUS
<1>8. DeviceInv
  <2>1. \A d \in Device : GoodDevice(messages, Len(slots), Len(log), device[d])
    BY <1>7, FreshIsGood
  <2>2. device \in [Device -> DeviceType]
    BY <1>7, <2>1 DEF GoodDevice
  <2> QED  BY <2>1, <2>2 DEF DeviceInv
<1>9. VaultInv
  BY <1>4 DEF VaultInv
<1>10. MoveInv /\ DrainInv /\ AllThere
  BY DEF MoveInv, DrainInv, AllThere
<1> QED  BY <1>2, <1>3, <1>6, <1>8, <1>9, <1>10 DEF IInv

\* The log, the clock, the list and the readers move on; nothing is posted.
LEMMA WorldKeeps ==
  ASSUME IInv, LogEntry \/ NextDay \/ ChangeBackends \/ \E d \in Device : Pull(d) \/ Reopen(d) \/ Fails(d)
  PROVE  IInv'
<1>1. /\ WorldInv /\ Chained(messages) /\ GoodSlots(messages, slots) /\ DeviceInv
      /\ VaultInv /\ MoveInv /\ DrainInv /\ AllThere
      /\ Grown(messages, messages) /\ Len(slots) \in Nat /\ Len(log) \in Nat /\ MaxHead \in Nat /\ MaxDay \in Nat
  BY SameGrows, ConstantsAreTyped DEF IInv, GoodSlots, WorldInv
<1>2. CASE LogEntry
  <2>1. Len(log') = Len(log) + 1 /\ log' \in Seq(0..MaxDay) /\ Len(log) < MaxHead
    BY <1>1, <1>2 DEF LogEntry, WorldInv, HeadSeq
  <2>2. WorldInv'
    BY <1>1, <1>2, <2>1 DEF LogEntry, WorldInv
  <2>3. DeviceInv'
    BY <1>1, <1>2, <2>1, DevicesRest DEF LogEntry, discord
  <2> QED  BY <1>1, <1>2, <2>2, <2>3 DEF LogEntry, discord, IInv, VaultInv, MoveInv, DrainInv, AllThere
<1>3. CASE NextDay
  <2>1. WorldInv'
    BY <1>1, <1>3 DEF NextDay, WorldInv
  <2>2. DeviceInv'
    BY <1>1, <1>3 DEF NextDay, discord, DeviceInv
  <2> QED  BY <1>1, <1>3, <2>1, <2>2 DEF NextDay, discord, IInv, VaultInv, MoveInv, DrainInv, AllThere
<1>4. CASE ChangeBackends
  <2>1. vault' \in [pointer : Nat, revision : Nat] /\ vault'.pointer = vault.pointer
    BY <1>1, <1>4 DEF ChangeBackends, VaultInv
  <2>2. VaultInv' /\ MoveInv' /\ DrainInv'
    BY <1>1, <1>4, <2>1 DEF ChangeBackends, discord, VaultInv, MoveInv, DrainInv
  <2>3. DeviceInv'
    BY <1>1, <1>4 DEF ChangeBackends, discord, world, DeviceInv
  <2> QED  BY <1>1, <1>4, <2>2, <2>3 DEF ChangeBackends, discord, world, IInv, WorldInv, AllThere
<1>5. ASSUME NEW d \in Device, Pull(d) \/ Reopen(d) \/ Fails(d)  PROVE IInv'
  <2>1. /\ device \in [Device -> DeviceType] /\ device[d] \in DeviceType
        /\ GoodDevice(messages, Len(slots), Len(log), device[d])
        /\ device[d].seen \in Nat /\ device[d].seen <= Len(log)
    BY DeviceFacts
  <2>2. /\ messages' = messages /\ slots' = slots /\ log' = log /\ day' = day /\ vault' = vault
        /\ drain' = drain /\ removed' = removed
    BY <1>5 DEF Pull, Reopen, Fails, world, discord
  <2>3. MoveInv'
    BY <1>1, <1>5, <2>2 DEF Pull, Reopen, Fails, MoveInv
  <2>4. \E x : device' = [device EXCEPT ![d] = x] /\ GoodDevice(messages, Len(slots), Len(log), x)
    <3>1. CASE Pull(d)
      <4> DEFINE x == [device[d] EXCEPT !.seen = HeadSeq]
      <4>1. device' = [device EXCEPT ![d] = x]
        BY <3>1 DEF Pull
      <4>2. x \in DeviceType /\ x.seen = Len(log) /\ x.slot = device[d].slot
            /\ x.known = device[d].known /\ x.op = device[d].op
        BY <1>1, <2>1 DEF DeviceType, HeadSeq
      <4> HIDE DEF x
      <4>3. GoodDevice(messages, Len(slots), Len(log), x)
        BY <1>1, <2>1, <4>2 DEF GoodDevice
      <4> QED  BY <4>1, <4>3
    <3>2. CASE Reopen(d)
      <4>1. device' = [device EXCEPT ![d] = Fresh(device[d].seen)]
        BY <3>2 DEF Reopen
      <4> QED  BY <1>1, <2>1, <4>1, FreshIsGood
    <3>3. CASE Fails(d)
      <4> DEFINE x == [device[d] EXCEPT !.op = None]
      <4>1. device' = [device EXCEPT ![d] = x]
        BY <3>3 DEF Fails
      <4>2. x \in DeviceType /\ x.seen = device[d].seen /\ x.slot = device[d].slot
            /\ x.known = device[d].known /\ x.op = None
        BY <2>1 DEF DeviceType
      <4> HIDE DEF x
      <4>3. GoodDevice(messages, Len(slots), Len(log), x)
        BY <2>1, <4>2 DEF GoodDevice
      <4> QED  BY <4>1, <4>3
    <3> QED  BY <1>5, <3>1, <3>2, <3>3
  <2>5. PICK x : device' = [device EXCEPT ![d] = x] /\ GoodDevice(messages, Len(slots), Len(log), x)
    BY <2>4
  <2>6. DeviceInv'
    <3>1. /\ Chained(messages') /\ Grown(messages, messages') /\ Len(slots') = Len(slots)
          /\ Len(log') = Len(log)
      BY <1>1, <2>2
    <3>2. GoodDevice(messages', Len(slots'), Len(log'), x)
      BY <2>2, <2>5
    <3>3. Len(slots') \in Nat /\ Len(slots) <= Len(slots') /\ Len(log') \in Nat /\ Len(log) <= Len(log')
      BY <1>1, <3>1
    <3> QED  BY <2>5, <3>1, <3>2, <3>3, DevicesAfter
  <2> QED  BY <1>1, <2>2, <2>3, <2>6 DEF IInv, WorldInv, VaultInv, DrainInv, AllThere
<1> QED  BY <1>2, <1>3, <1>4, <1>5

\* What a step of the scheduler leaves alone: the log and who moves the chain.
LEMMA TickFrame ==
  ASSUME IInv, Chained(messages'), Grown(messages, messages'),
         UNCHANGED <<log, day, vault, drain, mover>>, Len(slots') = Len(slots), DOMAIN slots' = DOMAIN slots,
         \A i \in DOMAIN slots : slots'[i] = None <=> slots[i] = None
  PROVE  WorldInv' /\ VaultInv' /\ MoveInv' /\ DrainInv'
<1>1. WorldInv /\ VaultInv /\ MoveInv /\ DrainInv
  BY DEF IInv
<1>2. DOMAIN messages \subseteq DOMAIN messages'
  BY DEF Grown, Linked
<1>3. WorldInv'
  BY <1>1 DEF WorldInv
<1>4. VaultInv'
  BY <1>1 DEF VaultInv
<1>5. MoveInv'
  BY <1>1 DEF MoveInv
<1>6. DrainInv'
  BY <1>1, <1>2 DEF DrainInv
<1> QED  BY <1>3, <1>4, <1>5, <1>6

\* Messages are posted, there.
LEMMA PostsAreThere ==
  ASSUME AllThere, Chained(messages), Appended(messages, messages'), removed' = removed
  PROVE  AllThere'
<1>1. /\ Len(messages) \in Nat /\ Len(messages') \in Nat /\ DOMAIN messages = 1..Len(messages)
      /\ DOMAIN messages' = 1..Len(messages')
      /\ \A m \in 1..Len(messages) : messages'[m] = messages[m]
      /\ \A m \in (Len(messages) + 1)..Len(messages') : messages'[m].live
  BY DEF Chained, Linked, Appended
<1>2. ASSUME ~removed', NEW m \in DOMAIN messages'  PROVE messages'[m].live
  <2>1. m \in 1..Len(messages) \/ m \in (Len(messages) + 1)..Len(messages')
    BY <1>1
  <2> QED  BY <1>1, <1>2, <2>1 DEF AllThere
<1> QED  BY <1>2 DEF AllThere

\* What a tick that writes a snapshot does.
WritesTo(d, kind) ==
  LET cur == Read(d)
      at == device[d].seen
      based == kind = "base" /\ HeadOf(cur.base) < at
      next == NextPointer(messages, cur, at, based, day, Now)
  IN  /\ cur # None /\ messages' = Written(messages, cur, at, based)
      /\ \/ Idle(d, cur) /\ messages' = messages
         \/ Runs(d, Op("write", cur, next, {}))
      /\ UNCHANGED <<world, slots, vault, drain, mover, crossed, removed, anchor>>

\* The tick writes what NextPointer and Written say.
LEMMA TickWritesIs ==
  ASSUME IInv, NEW d \in Device, NEW kind \in {"segment", "base"}, TickWrites(d, kind)
  PROVE  WritesTo(d, kind)
<1> DEFINE cur == Read(d)
           at == device[d].seen
           based == kind = "base" /\ HeadOf(cur.base) < at
           posted == IF at > cur.toSeq THEN Post(Segment(cur.toSeq + 1, at, cur.last)) ELSE messages
           last == IF at > cur.toSeq THEN Len(posted) ELSE cur.last
           base == [head |-> at, part |-> Len(posted) + 1, day |-> day, segment |-> last]
           kept == IF based /\ cur.base # None THEN {cur.base} ELSE {}
           next == [cur EXCEPT !.toSeq = IF at > cur.toSeq THEN at ELSE @, !.last = last,
                               !.base = IF based THEN base ELSE @, !.history = @ \cup kept,
                               !.revision = Now]
<1>1. posted = Posted(messages, cur, at) /\ last = LastOf(messages, cur, at)
  BY DEF Posted, LastOf, Post
<1>2. base = NewRef(messages, cur, at, day)
  BY <1>1 DEF NewRef
<1>3. next = NextPointer(messages, cur, at, based, day, Now)
  BY <1>1, <1>2 DEF NextPointer
<1>4. cur # None /\ messages' = (IF based THEN Append(posted, Base(at)) ELSE posted)
  BY DEF TickWrites
<1>5. messages' = Written(messages, cur, at, based)
  BY <1>1, <1>4 DEF Written
<1>6. IF at > cur.toSeq \/ based THEN Runs(d, Op("write", cur, next, {})) ELSE Idle(d, cur)
  BY DEF TickWrites
<1>7. ~(at > cur.toSeq \/ based) => messages' = messages
  BY <1>4
<1>8. UNCHANGED <<world, slots, vault, drain, mover, crossed, removed, anchor>>
  BY DEF TickWrites
<1> HIDE DEF posted, last, base, kept, next
<1> QED  BY <1>3, <1>4, <1>5, <1>6, <1>7, <1>8 DEF WritesTo

\* A step of one device that leaves it good, and the slots.
LEMMA DeviceStep ==
  ASSUME IInv, Chained(messages'), Grown(messages, messages'), GoodSlots(messages', slots'),
         UNCHANGED <<log, day, vault, drain, mover>>, Len(slots') = Len(slots), DOMAIN slots' = DOMAIN slots,
         \A i \in DOMAIN slots : slots'[i] = None <=> slots[i] = None,
         NEW d \in Device, NEW x, device' = [device EXCEPT ![d] = x],
         GoodDevice(messages', Len(slots), Len(log), x), AllThere'
  PROVE  IInv'
<1>1. WorldInv' /\ VaultInv' /\ MoveInv' /\ DrainInv'
  BY TickFrame
<1>2. Len(slots) \in Nat /\ Len(log) \in Nat
  BY DEF IInv, GoodSlots, WorldInv
<1>3. log' = log /\ GoodDevice(messages', Len(slots'), Len(log'), x)
  OBVIOUS
<1>4. Len(slots') \in Nat /\ Len(slots) <= Len(slots') /\ Len(log') \in Nat /\ Len(log) <= Len(log')
  BY <1>2, <1>3
<1>5. DeviceInv'
  BY <1>3, <1>4, DevicesAfter
<1> QED  BY <1>1, <1>5 DEF IInv

\* Nothing is posted or deleted, and no slot is written.
LEMMA QuietStep ==
  ASSUME IInv, UNCHANGED <<world, discord, vault, drain, mover, removed>>,
         NEW d \in Device, NEW x, device' = [device EXCEPT ![d] = x],
         GoodDevice(messages, Len(slots), Len(log), x)
  PROVE  IInv'
<1>1. messages' = messages /\ slots' = slots /\ UNCHANGED <<log, day, vault, drain, mover>> /\ removed' = removed
  BY DEF world, discord
<1>2. Chained(messages) /\ Grown(messages, messages) /\ GoodSlots(messages, slots) /\ AllThere
  BY SameGrows DEF IInv
<1>3. Chained(messages') /\ Grown(messages, messages') /\ GoodSlots(messages', slots') /\ AllThere'
      /\ GoodDevice(messages', Len(slots), Len(log), x)
  BY <1>1, <1>2 DEF AllThere
<1> QED  BY <1>1, <1>3, DeviceStep

\* A snapshot is posted, and its pointer is about to be written.
LEMMA TickWritesKeeps ==
  ASSUME IInv, NEW d \in Device, NEW kind \in {"segment", "base"}, TickWrites(d, kind)
  PROVE  IInv'
<1> DEFINE cur == Read(d)
           at == device[d].seen
           based == kind = "base" /\ HeadOf(cur.base) < at
           next == NextPointer(messages, cur, at, based, day, Now)
           op == Op("write", cur, next, {})
<1>1. /\ cur # None /\ messages' = Written(messages, cur, at, based)
      /\ \/ Idle(d, cur) /\ messages' = messages
         \/ Runs(d, op)
      /\ UNCHANGED <<log, day, slots, vault, drain, mover, removed>>
  BY TickWritesIs DEF WritesTo, world
<1>2. /\ Chained(messages) /\ Sound(messages, cur) /\ at \in Nat /\ at <= MaxHead /\ day \in 0..MaxDay
      /\ Now \in Nat /\ based \in BOOLEAN /\ (based => HeadOf(cur.base) < at)
      /\ GoodSlots(messages, slots) /\ AllThere
  BY <1>1, DeviceFacts DEF IInv, WorldInv
<1> HIDE DEF at, based, cur
<1>3. Appended(messages, messages')
  BY <1>1, <1>2, WrittenIsChained
<1>4. Chained(messages') /\ Grown(messages, messages')
  BY <1>3 DEF Appended
<1>5. AllThere'
  BY <1>1, <1>2, <1>3, PostsAreThere
<1>6. GoodSlots(messages', slots')
  BY <1>1, <1>2, <1>4, SlotsStay
<1>7. GoodOp(messages', op)
  <2>1. Sound(messages', next)
    BY <1>1, <1>2, NextIsSound
  <2>2. Sound(messages', cur)
    BY <1>2, <1>4, SoundStays
  <2> HIDE DEF next
  <2> QED  BY <2>1, <2>2, NewOpIsGood
<1>8. PICK x : device' = [device EXCEPT ![d] = x] /\ GoodDevice(messages', Len(slots), Len(log), x)
  <2>1. CASE Idle(d, cur)
    <3> DEFINE x == [device[d] EXCEPT !.slot = Place(d), !.known = cur, !.op = None]
    <3>1. device' = [device EXCEPT ![d] = x]
      BY <2>1 DEF Idle
    <3>2. Sound(messages', cur)
      BY <1>2, <1>4, SoundStays
    <3>3. GoodDevice(messages', Len(slots), Len(log), x)
      BY <1>4, <3>2, IdleIsGood
    <3> QED  BY <3>1, <3>3
  <2>2. CASE Runs(d, op)
    <3> HIDE DEF op
    <3> DEFINE x == [device[d] EXCEPT !.slot = Place(d), !.known = Known(d), !.op = op]
    <3>1. device' = [device EXCEPT ![d] = x]
      BY <2>2 DEF Runs
    <3>2. Read(d) # None
      BY <1>1 DEF cur
    <3>3. GoodDevice(messages', Len(slots), Len(log), x)
      BY <1>4, <1>7, <3>2, RunIsGood
    <3> QED  BY <3>1, <3>3
  <2> QED  BY <1>1, <2>1, <2>2
<1>9. Len(slots') = Len(slots) /\ DOMAIN slots' = DOMAIN slots /\ \A i \in DOMAIN slots : slots'[i] = None <=> slots[i] = None
  BY <1>1
<1> QED  BY <1>1, <1>4, <1>5, <1>6, <1>8, <1>9, DeviceStep

\* The list is renewed.
LEMMA TickRefreshesKeeps ==
  ASSUME IInv, NEW d \in Device, TickRefreshes(d)
  PROVE  IInv'
<1> DEFINE next == [Known(d) EXCEPT !.revision = Now]
           op == Op("refresh", Known(d), next, {})
           x == [device[d] EXCEPT !.slot = Place(d), !.known = Known(d), !.op = op]
<1>1. Read(d) # None /\ device' = [device EXCEPT ![d] = x]
      /\ UNCHANGED <<world, discord, vault, drain, mover, removed>>
  BY DEF TickRefreshes, Runs
<1>2. Sound(messages, Known(d)) /\ Now \in Nat /\ Chained(messages) /\ Grown(messages, messages)
  BY <1>1, DeviceFacts, SameGrows DEF IInv
<1>3. Sound(messages, next)
  BY <1>2, ListedIsSound
<1> HIDE DEF next
<1>4. GoodOp(messages, op)
  BY <1>2, <1>3, NewOpIsGood
<1> HIDE DEF op
<1>5. GoodDevice(messages, Len(slots), Len(log), x)
  BY <1>1, <1>2, <1>4, RunIsGood
<1> QED  BY <1>1, <1>5, QuietStep

\* A device that is running, with what it knows and what it does next.
LEMMA RunsOn ==
  ASSUME IInv, NEW d \in Device, device[d].op # None, NEW ms, Chained(ms), Grown(messages, ms),
         NEW p, p = None \/ Sound(ms, p), NEW op, op = None \/ GoodOp(ms, op)
  PROVE  GoodDevice(ms, Len(slots), Len(log), [device[d] EXCEPT !.known = p, !.op = op])
<1> DEFINE x == [device[d] EXCEPT !.known = p, !.op = op]
<1>1. /\ device[d] \in DeviceType /\ device[d].slot <= Len(slots) /\ device[d].slot # 0
      /\ device[d].seen <= Len(log)
  BY DeviceFacts DEF GoodDevice
<1>2. p \in Pointer \cup {None} /\ op \in OpType \cup {None}
  BY DEF Sound, GoodOp
<1>3. x \in DeviceType /\ x.seen = device[d].seen /\ x.slot = device[d].slot /\ x.known = p /\ x.op = op
  BY <1>1, <1>2 DEF DeviceType
<1> HIDE DEF x
<1>4. GoodDevice(ms, Len(slots), Len(log), x)
  BY <1>1, <1>3 DEF GoodDevice
<1> QED  BY <1>4 DEF x

\* A write goes on: the same pointers but for the list, and no more to delete.
LEMMA OpGoesOn ==
  ASSUME NEW ms, NEW op, GoodOp(ms, op), NEW y \in OpType, y.from = op.from, Sound(ms, y.next),
         ReachedIn(ms, y.next) = ReachedIn(ms, op.next), y.drop \subseteq op.drop
  PROVE  GoodOp(ms, y)
BY DEF GoodOp

\* The pointer is compared with the one that is there.
LEMMA ChecksKeeps ==
  ASSUME IInv, NEW d \in Device, Checks(d)
  PROVE  IInv'
<1> DEFINE op == device[d].op
           cur == Read(d)
           y == [op EXCEPT !.at = "land", !.next = WithList(cur, op.next)]
<1>1. /\ op # None /\ cur # None
      /\ IF MayReplace(op.kind, cur, op.next)
         THEN device' = [device EXCEPT ![d].op.at = "land", ![d].op.next = WithList(cur, @)]
         ELSE Idle(d, cur)
      /\ UNCHANGED <<world, discord, vault, drain, mover, removed>>
  BY DEF Checks
<1>2. /\ Sound(messages, cur) /\ GoodOp(messages, op) /\ Chained(messages) /\ Grown(messages, messages)
      /\ device \in [Device -> DeviceType] /\ device[d] \in DeviceType
      /\ GoodDevice(messages, Len(slots), Len(log), device[d])
  BY <1>1, DeviceFacts, SameGrows DEF IInv
<1>3. CASE device' = [device EXCEPT ![d].op.at = "land", ![d].op.next = WithList(cur, @)]
  <2>1. device' = [device EXCEPT ![d] = [device[d] EXCEPT !.known = device[d].known, !.op = y]]
    <3>1. op \in OpType
      BY <1>2 DEF GoodOp
    <3> QED  BY <1>2, <1>3, <3>1 DEF DeviceType, OpType
  <2>2. op \in OpType /\ cur \in Pointer /\ op.next \in Pointer /\ Sound(messages, op.next)
    BY <1>2 DEF GoodOp, Sound
  <2>3. Sound(messages, WithList(cur, op.next)) /\ ReachedIn(messages, WithList(cur, op.next)) = ReachedIn(messages, op.next)
    <3> DEFINE list == IF cur.revision > op.next.revision THEN cur.revision ELSE op.next.revision
    <3>1. list \in Nat
      BY <2>2 DEF Pointer
    <3>2. WithList(cur, op.next) = [op.next EXCEPT !.revision = list]
      BY DEF WithList
    <3> HIDE DEF list, op, cur
    <3> QED  BY <2>2, <3>1, <3>2, ListedIsSound
  <2>4. y \in OpType /\ y.from = op.from /\ y.next = WithList(cur, op.next) /\ y.drop = op.drop
    <3>1. WithList(cur, op.next) \in Pointer
      BY <2>3 DEF Sound
    <3> HIDE DEF op, cur
    <3> QED  BY <2>2, <3>1 DEF OpType
  <2> HIDE DEF y
  <2>5. GoodOp(messages, y)
    BY <1>2, <2>3, <2>4, OpGoesOn
  <2>6. device[d].known = None \/ Sound(messages, device[d].known)
    BY <1>2 DEF GoodDevice
  <2>7. GoodDevice(messages, Len(slots), Len(log), [device[d] EXCEPT !.known = device[d].known, !.op = y])
    BY <1>1, <1>2, <2>5, <2>6, RunsOn
  <2> QED  BY <1>1, <2>1, <2>7, QuietStep
<1>4. CASE Idle(d, cur)
  <2> DEFINE x == [device[d] EXCEPT !.slot = Place(d), !.known = cur, !.op = None]
  <2>1. device' = [device EXCEPT ![d] = x]
    BY <1>4 DEF Idle
  <2>2. GoodDevice(messages, Len(slots), Len(log), x)
    BY <1>2, IdleIsGood
  <2> HIDE DEF x
  <2> QED  BY <1>1, <2>1, <2>2, QuietStep
<1> QED  BY <1>1, <1>3, <1>4

\* The slot is rewritten.
LEMMA LandsKeeps ==
  ASSUME IInv, NEW d \in Device, Lands(d)
  PROVE  IInv'
<1> DEFINE op == device[d].op
           based == op.kind = "write" /\ op.next.base # op.from.base
<1>1. /\ op # None /\ Read(d) # None /\ slots' = [slots EXCEPT ![Place(d)] = op.next]
      /\ IF based THEN device' = [device EXCEPT ![d].known = op.next, ![d].op.at = "prune"]
         ELSE IF op.drop # {} THEN device' = [device EXCEPT ![d].op.at = "remove"]
         ELSE Idle(d, op.next)
      /\ UNCHANGED <<log, day, messages, vault, drain, mover, removed>>
  BY DEF Lands, world
<1>2. /\ GoodOp(messages, op) /\ Chained(messages) /\ Grown(messages, messages)
      /\ device \in [Device -> DeviceType] /\ device[d] \in DeviceType
      /\ GoodDevice(messages, Len(slots), Len(log), device[d])
      /\ GoodSlots(messages, slots) /\ Place(d) \in DOMAIN slots /\ AllThere
  BY <1>1, DeviceFacts, SameGrows DEF IInv
<1>3. op \in OpType /\ op.next \in Pointer /\ Sound(messages, op.next) /\ op.next # None
  BY <1>2, NoneIsNoRecord DEF GoodOp, Sound
<1>4. /\ GoodSlots(messages, slots') /\ DOMAIN slots' = DOMAIN slots /\ Len(slots') = Len(slots)
      /\ \A i \in DOMAIN slots : slots'[i] = IF i = Place(d) THEN op.next ELSE slots[i]
  <2>1. SetsSlot(slots, Place(d), op.next, slots')
    BY <1>1 DEF SetsSlot
  <2> HIDE DEF op
  <2> QED  BY <1>2, <1>3, <2>1, SlotIsSet
<1>5. \A i \in DOMAIN slots : slots'[i] = None <=> slots[i] = None
  <2>1. slots[Place(d)] # None
    BY <1>1 DEF Read
  <2> HIDE DEF op
  <2> QED  BY <1>3, <1>4, <2>1
<1>6. PICK x : device' = [device EXCEPT ![d] = x] /\ GoodDevice(messages, Len(slots), Len(log), x)
  <2>1. CASE device' = [device EXCEPT ![d].known = op.next, ![d].op.at = "prune"]
    <3> DEFINE y == [op EXCEPT !.at = "prune"]
               x == [device[d] EXCEPT !.known = op.next, !.op = y]
    <3>1. device' = [device EXCEPT ![d] = x]
      BY <1>2, <1>3, <2>1 DEF DeviceType, OpType
    <3>2. y \in OpType /\ y.from = op.from /\ y.next = op.next /\ y.drop = op.drop
      <4> HIDE DEF op
      <4> QED  BY <1>3 DEF OpType
    <3> HIDE DEF y
    <3>3. GoodOp(messages, y)
      BY <1>2, <1>3, <3>2, OpGoesOn
    <3>4. GoodDevice(messages, Len(slots), Len(log), x)
      BY <1>1, <1>2, <1>3, <3>3, RunsOn
    <3> QED  BY <3>1, <3>4
  <2>2. CASE device' = [device EXCEPT ![d].op.at = "remove"]
    <3> DEFINE y == [op EXCEPT !.at = "remove"]
               x == [device[d] EXCEPT !.known = device[d].known, !.op = y]
    <3>1. device' = [device EXCEPT ![d] = x]
      BY <1>2, <1>3, <2>2 DEF DeviceType, OpType
    <3>2. y \in OpType /\ y.from = op.from /\ y.next = op.next /\ y.drop = op.drop
      <4> HIDE DEF op
      <4> QED  BY <1>3 DEF OpType
    <3> HIDE DEF y
    <3>3. GoodOp(messages, y)
      BY <1>2, <1>3, <3>2, OpGoesOn
    <3>4. device[d].known = None \/ Sound(messages, device[d].known)
      BY <1>2 DEF GoodDevice
    <3>5. GoodDevice(messages, Len(slots), Len(log), x)
      BY <1>1, <1>2, <3>3, <3>4, RunsOn
    <3> QED  BY <3>1, <3>5
  <2>3. CASE Idle(d, op.next)
    <3> DEFINE x == [device[d] EXCEPT !.slot = Place(d), !.known = op.next, !.op = None]
    <3>1. device' = [device EXCEPT ![d] = x]
      BY <2>3 DEF Idle
    <3>2. GoodDevice(messages, Len(slots), Len(log), x)
      BY <1>2, <1>3, IdleIsGood
    <3> QED  BY <3>1, <3>2
  <2> QED  BY <1>1, <2>1, <2>2, <2>3
<1>7. Chained(messages') /\ Grown(messages, messages') /\ GoodSlots(messages', slots') /\ AllThere'
      /\ GoodDevice(messages', Len(slots), Len(log), x)
  BY <1>1, <1>2, <1>4, <1>6 DEF AllThere
<1> QED  BY <1>1, <1>4, <1>5, <1>6, <1>7, DeviceStep

\* What is deleted in a prune, and the pointer that it writes.
LEMMA TickPrunesIs ==
  ASSUME NEW d \in Device, TickPrunes(d)
  PROVE  LET cur == Read(d)
             keep == Retained(Bases(cur))
             drop == DroppedIn(messages, cur, keep)
         IN  /\ cur # None /\ device[d].op # None /\ device[d].op.at = "prune"
             /\ \/ Idle(d, cur)
                \/ Runs(d, Op("prune", cur, PrunedPointer(messages, cur, keep, Now), drop))
             /\ UNCHANGED <<world, discord, vault, drain, mover, crossed, removed, anchor>>
<1> DEFINE cur == Read(d)
           keep == Retained(Bases(cur))
           segments == OldSegments(cur, keep)
           drop == {b.part : b \in Bases(cur) \ keep} \cup segments
           next == [cur EXCEPT !.history = keep \ {cur.base}, !.revision = Now,
                               !.prunedUpTo = IF segments = {} THEN @ ELSE Max({@, First(keep).head})]
<1>1. segments = OldSegmentsIn(messages, cur, keep)
  BY DEF OldSegments, OldSegmentsIn, Walk, WalkIn
<1>2. drop = DroppedIn(messages, cur, keep)
  BY <1>1 DEF DroppedIn
<1>3. next = PrunedPointer(messages, cur, keep, Now)
  BY <1>1 DEF PrunedPointer
<1>4. /\ cur # None /\ device[d].op # None /\ device[d].op.at = "prune"
      /\ Idle(d, cur) \/ Runs(d, Op("prune", cur, next, drop))
      /\ UNCHANGED <<world, discord, vault, drain, mover, crossed, removed, anchor>>
  BY DEF TickPrunes
<1> HIDE DEF segments, drop, next
<1> QED  BY <1>2, <1>3, <1>4

\* Old bases and segments leave the pointer.
LEMMA TickPrunesKeeps ==
  ASSUME IInv, NEW d \in Device, TickPrunes(d)
  PROVE  IInv'
<1> DEFINE cur == Read(d)
           keep == Retained(Bases(cur))
           drop == DroppedIn(messages, cur, keep)
           next == PrunedPointer(messages, cur, keep, Now)
           op == Op("prune", cur, next, drop)
<1>1. /\ cur # None /\ (Idle(d, cur) \/ Runs(d, op))
      /\ UNCHANGED <<world, discord, vault, drain, mover, removed>>
  BY TickPrunesIs
<1>2. Sound(messages, cur) /\ Now \in Nat /\ Chained(messages) /\ Grown(messages, messages) /\ Read(d) # None
  BY TickPrunesIs, DeviceFacts, SameGrows DEF IInv
<1> HIDE DEF cur
<1>3. /\ Sound(messages, next) /\ drop \subseteq ReachedIn(messages, cur)
      /\ drop \cap ReachedIn(messages, next) = {}
  BY <1>2, PrunedIsSound
<1>4. drop \in SUBSET Nat
  BY <1>2, <1>3, ReachedAreMessages
<1> HIDE DEF next, drop
<1>5. GoodOp(messages, op)
  BY <1>2, <1>3, <1>4, NewOpIsGood
<1> HIDE DEF op
<1>6. CASE Runs(d, op)
  <2> DEFINE x == [device[d] EXCEPT !.slot = Place(d), !.known = Known(d), !.op = op]
  <2>1. device' = [device EXCEPT ![d] = x]
    BY <1>6 DEF Runs
  <2>2. GoodDevice(messages, Len(slots), Len(log), x)
    BY <1>2, <1>5, RunIsGood
  <2> HIDE DEF x
  <2> QED  BY <1>1, <2>1, <2>2, QuietStep
<1>7. CASE Idle(d, cur)
  <2> DEFINE x == [device[d] EXCEPT !.slot = Place(d), !.known = cur, !.op = None]
  <2>1. device' = [device EXCEPT ![d] = x]
    BY <1>7 DEF Idle
  <2>2. GoodDevice(messages, Len(slots), Len(log), x)
    BY <1>2, IdleIsGood
  <2> HIDE DEF x
  <2> QED  BY <1>1, <2>1, <2>2, QuietStep
<1> QED  BY <1>1, <1>6, <1>7

\* One of the old messages is deleted.
LEMMA RemovesKeeps ==
  ASSUME IInv, NEW d \in Device, Removes(d)
  PROVE  IInv'
<1> DEFINE op == device[d].op
<1>1. PICK m \in op.drop :
        /\ messages' = Without({m})
        /\ IF op.drop = {m} THEN Idle(d, Read(d))
           ELSE device' = [device EXCEPT ![d].op.drop = op.drop \ {m}]
  BY DEF Removes
<1>2. op # None /\ removed' = TRUE /\ UNCHANGED <<log, day, slots, vault, drain, mover>>
  BY DEF Removes, world
<1>3. /\ GoodOp(messages, op) /\ Chained(messages) /\ device[d] \in DeviceType /\ GoodSlots(messages, slots)
      /\ device \in [Device -> DeviceType]
      /\ GoodDevice(messages, Len(slots), Len(log), device[d])
      /\ (Read(d) # None => Sound(messages, Read(d)))
  BY <1>2, DeviceFacts DEF IInv
<1>4. Chained(messages') /\ Grown(messages, messages')
  BY <1>1, <1>3, WithoutGrows
<1>5. /\ Read(d) # None => Sound(messages', Read(d))
      /\ device[d].known # None => Sound(messages', device[d].known)
  BY <1>3, <1>4, SoundStays DEF GoodDevice
<1>6. GoodOp(messages', op)
  <2>1. Sound(messages, op.from) /\ Sound(messages, op.next)
    BY <1>3 DEF GoodOp
  <2>2. /\ Sound(messages', op.from) /\ ReachedIn(messages', op.from) = ReachedIn(messages, op.from)
        /\ Sound(messages', op.next) /\ ReachedIn(messages', op.next) = ReachedIn(messages, op.next)
    BY <1>3, <1>4, <2>1, SoundStays
  <2> QED  BY <1>3, <2>2 DEF GoodOp
<1>7. PICK x : device' = [device EXCEPT ![d] = x] /\ GoodDevice(messages', Len(slots), Len(log), x)
  <2>1. CASE Idle(d, Read(d))
    <3> DEFINE x == [device[d] EXCEPT !.slot = Place(d), !.known = Read(d), !.op = None]
    <3>1. device' = [device EXCEPT ![d] = x]
      BY <2>1 DEF Idle
    <3>2. GoodDevice(messages', Len(slots), Len(log), x)
      BY <1>4, <1>5, IdleIsGood
    <3> QED  BY <3>1, <3>2
  <2>2. CASE device' = [device EXCEPT ![d].op.drop = op.drop \ {m}]
    <3> DEFINE y == [op EXCEPT !.drop = op.drop \ {m}]
               x == [device[d] EXCEPT !.known = device[d].known, !.op = y]
    <3>1. op \in OpType
      BY <1>3 DEF GoodOp
    <3>2. device' = [device EXCEPT ![d] = x]
      BY <1>3, <2>2, <3>1 DEF DeviceType, OpType
    <3>3. y \in OpType /\ y.from = op.from /\ y.next = op.next /\ y.drop = op.drop \ {m}
      <4> HIDE DEF op
      <4> QED  BY <3>1 DEF OpType
    <3> HIDE DEF y
    <3>4. GoodOp(messages', y)
      BY <1>6, <3>3, OpGoesOn DEF GoodOp
    <3>5. GoodDevice(messages', Len(slots), Len(log), x)
      BY <1>2, <1>4, <1>5, <3>4, RunsOn
    <3> QED  BY <3>2, <3>5
  <2> QED  BY <1>1, <2>1, <2>2
<1>8. GoodSlots(messages', slots')
  BY <1>2, <1>3, <1>4, SlotsStay
<1>9. AllThere'
  BY <1>2 DEF AllThere
<1>10. Len(slots') = Len(slots) /\ DOMAIN slots' = DOMAIN slots /\ \A i \in DOMAIN slots : slots'[i] = None <=> slots[i] = None
  BY <1>2
<1> QED  BY <1>2, <1>4, <1>7, <1>8, <1>9, <1>10, DeviceStep

-----------------------------------------------------------------------------
(* The chain is moved and the old one deleted                              *)

\* What a move posts, and the pointer that names the copies.
LEMMA RehomeIs ==
  ASSUME NEW d \in Device, Rehome(d)
  PROVE  LET p == slots[vault.pointer]
             T == ReachedIn(messages, p)
             new == NewNumber(messages, T)
         IN  /\ mover = None /\ drain = None /\ p # None
             /\ \A m \in T : messages[m].live
             /\ messages' = Copies(messages, T)
             /\ slots' = Append(slots, MovedPointer(p, new, Now))
             /\ mover' = [by |-> d, from |-> vault.pointer, to |-> Len(slots) + 1, read |-> p]
             /\ UNCHANGED <<log, day, vault, drain, device, crossed, removed>>
<1> DEFINE p == slots[vault.pointer]
           T == Reached(p)
           new == [m \in {0} \cup DOMAIN messages |->
                     IF m \in T THEN Len(messages) + Cardinality({n \in T : n <= m}) ELSE m]
           copy(k) == LET m == CHOOSE n \in T : new[n] = k
                      IN  [messages[m] EXCEPT !.prev = new[@]]
           moved(b) == [b EXCEPT !.part = new[@], !.segment = new[@]]
           q == [p EXCEPT !.base = IF @ = None THEN None ELSE moved(@),
                          !.history = {moved(b) : b \in @},
                          !.last = new[@], !.revision = Now]
<1>1. T = ReachedIn(messages, p)
  BY DEF Reached, ChainSegments, ReachedIn, Walk, WalkIn
<1>2. new = NewNumber(messages, T)
  BY DEF NewNumber
<1>3. messages \o [i \in 1..Cardinality(T) |-> copy(Len(messages) + i)] = Copies(messages, T)
  BY DEF Copies, CopyAt, NewNumber
<1>4. q = MovedPointer(p, NewNumber(messages, T), Now)
  BY DEF MovedPointer, MovedRef, NewNumber
<1>5. /\ mover = None /\ drain = None /\ p # None
      /\ \A m \in T : Live(m)
      /\ messages' = messages \o [i \in 1..Cardinality(T) |-> copy(Len(messages) + i)]
      /\ slots' = Append(slots, q)
      /\ mover' = [by |-> d, from |-> vault.pointer, to |-> Len(slots) + 1, read |-> p]
      /\ UNCHANGED <<log, day, vault, drain, device, crossed, removed>>
  BY DEF Rehome, world
<1>6. messages' = Copies(messages, T) /\ slots' = Append(slots, MovedPointer(p, NewNumber(messages, T), Now))
  BY <1>3, <1>4, <1>5
<1> HIDE DEF T, new, copy, q
<1> QED  BY <1>1, <1>5, <1>6 DEF Live

\* The copies, and the pointer that names them, are sound.
LEMMA RehomeIsSound ==
  ASSUME IInv, NEW d \in Device, Rehome(d)
  PROVE  LET p == slots[vault.pointer]
             T == ReachedIn(messages, p)
         IN  \E q :
               /\ slots' = Append(slots, q) /\ Sound(messages', q) /\ Sound(messages, p)
               /\ Chained(messages') /\ Grown(messages, messages')
               /\ ReachedIn(messages', q) \subseteq (Len(messages) + 1)..Len(messages')
               /\ \A m \in 1..Len(messages) : messages'[m] = messages[m]
               /\ \A m \in (Len(messages) + 1)..Len(messages') : messages'[m].live
<1> DEFINE p == slots[vault.pointer]
           T == ReachedIn(messages, p)
           new == NewNumber(messages, T)
           q == MovedPointer(p, new, Now)
<1>1. /\ p # None /\ \A m \in T : messages[m].live
      /\ messages' = Copies(messages, T) /\ slots' = Append(slots, q)
  BY RehomeIs
<1>2. /\ Chained(messages) /\ GoodSlots(messages, slots) /\ vault.pointer \in DOMAIN slots /\ Now \in Nat
  BY DEF IInv, VaultInv, Now
<1>3. Sound(messages, p)
  BY <1>1, <1>2 DEF GoodSlots
<1> HIDE DEF p
<1>4. Linked(messages) /\ T \in SUBSET (1..Len(messages))
  BY <1>2, <1>3, ReachedAreMessages
<1>5. Renumbers(messages, T, messages', new)
  <2> HIDE DEF T
  <2> QED  BY <1>1, <1>4, CopiesRenumber
<1> HIDE DEF new
<1>6. /\ Chained(messages') /\ Grown(messages, messages')
      /\ Sound(messages', q)
      /\ ReachedIn(messages', q) \subseteq (Len(messages) + 1)..Len(messages')
      /\ \A k \in (Len(messages) + 1)..Len(messages') : \E m \in T : messages'[k].live = messages[m].live
  BY <1>2, <1>3, <1>5, MovedIsSound
<1>7. \A m \in 1..Len(messages) : messages'[m] = messages[m]
  BY <1>5 DEF Renumbers
<1> HIDE DEF T, q
<1>8. \A m \in (Len(messages) + 1)..Len(messages') : messages'[m].live
  BY <1>1, <1>6
<1> QED  BY <1>1, <1>3, <1>6, <1>7, <1>8 DEF p

\* The chain is posted again.
LEMMA RehomeKeeps ==
  ASSUME IInv, NEW d \in Device, Rehome(d)
  PROVE  IInv'
<1> DEFINE p == slots[vault.pointer]
<1>1. PICK q : /\ slots' = Append(slots, q) /\ Sound(messages', q)
               /\ Chained(messages') /\ Grown(messages, messages')
               /\ \A m \in 1..Len(messages) : messages'[m] = messages[m]
               /\ \A m \in (Len(messages) + 1)..Len(messages') : messages'[m].live
  BY RehomeIsSound
<1>2. /\ mover = None /\ drain = None /\ p # None
      /\ mover' = [by |-> d, from |-> vault.pointer, to |-> Len(slots) + 1, read |-> p]
      /\ UNCHANGED <<log, day, vault, drain, device, removed>>
  BY RehomeIs
<1>3. /\ WorldInv /\ Chained(messages) /\ GoodSlots(messages, slots) /\ VaultInv /\ AllThere
      /\ Len(slots) \in Nat /\ Len(log) \in Nat /\ DOMAIN slots = 1..Len(slots)
  BY DEF IInv, WorldInv, GoodSlots
<1>4. q \in Pointer /\ q # None
  BY <1>1, NoneIsNoRecord DEF Sound
<1>5. slots \in Seq(Pointer \cup {None})
  BY <1>3 DEF GoodSlots
<1>6. /\ slots' \in Seq(Pointer \cup {None}) /\ Len(slots') = Len(slots) + 1 /\ DOMAIN slots' = 1..(Len(slots) + 1)
      /\ \A i \in DOMAIN slots : slots'[i] = slots[i]
      /\ slots'[Len(slots) + 1] = q
  BY <1>1, <1>4, <1>5
<1>7. GoodSlots(messages, slots) => \A i \in DOMAIN slots : slots[i] # None => Sound(messages', slots[i])
  BY <1>1, <1>3, SlotsStay DEF GoodSlots
<1>8. GoodSlots(messages', slots')
  <2>1. ASSUME NEW i \in DOMAIN slots', slots'[i] # None  PROVE Sound(messages', slots'[i])
    <3>1. i \in DOMAIN slots \/ i = Len(slots) + 1
      BY <1>3, <1>6
    <3> QED  BY <1>1, <1>3, <1>6, <1>7, <2>1, <3>1
  <2> QED  BY <1>6, <2>1 DEF GoodSlots
<1>9. DeviceInv'
  <2>1. Len(slots') \in Nat /\ Len(slots) <= Len(slots') /\ Len(log') \in Nat /\ Len(log) <= Len(log')
    BY <1>2, <1>3, <1>6
  <2> QED  BY <1>1, <1>2, <2>1, DevicesRest
<1>10. WorldInv' /\ DrainInv'
  BY <1>2, <1>3 DEF WorldInv, DrainInv
<1>11. VaultInv'
  BY <1>2, <1>3, <1>6 DEF VaultInv
<1>12. MoveInv'
  <2>1. p \in Pointer \cup {None} /\ vault.pointer \in Nat /\ vault.pointer \in DOMAIN slots
    BY <1>3, <1>5 DEF VaultInv
  <2> HIDE DEF p
  <2>2. mover' \in MoverType
    BY <1>2, <1>3, <2>1 DEF MoverType
  <2>3. /\ mover'.from = vault.pointer /\ mover'.to = Len(slots) + 1 /\ vault' = vault /\ drain' = None
    BY <1>2
  <2>4. mover'.to \in DOMAIN slots' /\ mover'.to # vault.pointer /\ slots'[mover'.to] # None
    BY <1>3, <1>4, <1>6, <2>1, <2>3
  <2> QED  BY <2>2, <2>3, <2>4 DEF MoveInv
<1>13. AllThere'
  <2>1. DOMAIN messages' = 1..Len(messages') /\ Len(messages') \in Nat /\ Len(messages) \in Nat
        /\ DOMAIN messages = 1..Len(messages)
    BY <1>1, <1>3 DEF Chained, Linked
  <2>2. ASSUME ~removed', NEW m \in DOMAIN messages'  PROVE messages'[m].live
    <3>1. m \in 1..Len(messages) \/ m \in (Len(messages) + 1)..Len(messages')
      BY <2>1
    <3> QED  BY <1>1, <1>2, <1>3, <2>1, <2>2, <3>1 DEF AllThere
  <2> QED  BY <2>2 DEF AllThere
<1> QED  BY <1>1, <1>8, <1>9, <1>10, <1>11, <1>12, <1>13 DEF IInv

\* The vault names the new pointer.
LEMMA SwitchPointerKeeps ==
  ASSUME IInv, NEW d \in Device, SwitchPointer(d)
  PROVE  IInv'
<1>1. /\ WorldInv /\ Chained(messages) /\ GoodSlots(messages, slots) /\ DeviceInv
      /\ VaultInv /\ MoveInv /\ AllThere
  BY DEF IInv
<1>2. /\ mover # None
      /\ vault' = [pointer |-> mover.to, revision |-> vault.revision + 1]
      /\ drain' = [slot |-> mover.from, toSeq |-> HeadSeq, at |-> day, todo |-> None]
      /\ mover' = None /\ UNCHANGED <<log, day, messages, slots, device, removed>>
  BY DEF SwitchPointer, world, discord
<1>3. /\ mover \in MoverType /\ mover.from = vault.pointer /\ mover.to \in DOMAIN slots
      /\ mover.to # vault.pointer /\ slots[mover.to] # None
      /\ vault.pointer \in DOMAIN slots /\ vault.pointer \in Nat /\ vault.revision \in Nat
      /\ mover.to \in Nat /\ HeadSeq \in Nat /\ day \in Nat
  <2>1. /\ mover \in MoverType /\ mover.from = vault.pointer /\ mover.to \in DOMAIN slots
        /\ mover.to # vault.pointer /\ slots[mover.to] # None
    BY <1>1, <1>2 DEF MoveInv
  <2>2. vault.pointer \in DOMAIN slots /\ vault.pointer \in Nat /\ vault.revision \in Nat
    BY <1>1 DEF VaultInv
  <2>3. mover.to \in Nat
    BY <2>1 DEF MoverType
  <2>4. HeadSeq \in Nat /\ day \in Nat
    BY <1>1, ConstantsAreTyped DEF WorldInv, HeadSeq
  <2> QED  BY <2>1, <2>2, <2>3, <2>4
<1>4. VaultInv'
  BY <1>2, <1>3 DEF VaultInv
<1>5. DrainInv'
  <2>1. drain' \in Drain
    BY <1>2, <1>3 DEF Drain
  <2>2. drain'.slot \in DOMAIN slots' /\ drain'.slot # vault'.pointer /\ drain'.todo = None
    BY <1>2, <1>3
  <2> QED  BY <2>1, <2>2 DEF DrainInv
<1>6. WorldInv' /\ Chained(messages') /\ GoodSlots(messages', slots') /\ DeviceInv' /\ MoveInv' /\ AllThere'
  BY <1>1, <1>2 DEF WorldInv, DeviceInv, MoveInv, AllThere
<1> QED  BY <1>4, <1>5, <1>6 DEF IInv

\* What a step of the drain leaves alone.
LEMMA DrainStep ==
  ASSUME IInv, drain # None, Chained(messages'), Grown(messages, messages'), GoodSlots(messages', slots'),
         UNCHANGED <<log, day, device, mover>>, Len(slots') = Len(slots), DOMAIN slots' = DOMAIN slots,
         vault' \in [pointer : Nat, revision : Nat], vault'.pointer = vault.pointer,
         \A i \in DOMAIN slots : i # drain.slot => slots'[i] = slots[i], DrainInv', AllThere'
  PROVE  IInv'
<1>1. /\ WorldInv /\ VaultInv /\ MoveInv /\ DrainInv /\ Len(slots) \in Nat /\ Len(log) \in Nat
  BY DEF IInv, WorldInv, GoodSlots
<1>2. mover = None
  BY <1>1 DEF MoveInv
<1>3. VaultInv'
  BY <1>1 DEF VaultInv, DrainInv
<1>4. WorldInv' /\ MoveInv'
  BY <1>1, <1>2 DEF WorldInv, MoveInv
<1>5. Len(slots') \in Nat /\ Len(slots) <= Len(slots') /\ Len(log') \in Nat /\ Len(log) <= Len(log')
  BY <1>1
<1>6. DeviceInv'
  BY <1>5, DevicesRest
<1> QED  BY <1>3, <1>4, <1>6 DEF IInv

\* The old chain is listed, deleted, or left for later, and the slot deleted.
LEMMA DrainKeeps ==
  ASSUME IInv, DrainLists \/ DrainDeletes \/ DrainFinishes \/ DrainFails
  PROVE  IInv'
<1>1. /\ drain # None /\ UNCHANGED <<log, day, device, mover>>
      /\ (vault' = vault \/ vault' = [vault EXCEPT !.revision = vault.revision + 1])
  BY DEF DrainLists, DrainDeletes, DrainFinishes, DrainFails, world
<1>2. /\ Chained(messages) /\ GoodSlots(messages, slots) /\ VaultInv /\ DrainInv /\ AllThere
      /\ Grown(messages, messages) /\ drain \in Drain
      /\ drain.slot \in DOMAIN slots /\ drain.slot # vault.pointer
      /\ (drain.todo # None => drain.todo \subseteq DOMAIN messages)
  BY <1>1, SameGrows DEF IInv, DrainInv
<1>3. vault' \in [pointer : Nat, revision : Nat] /\ vault'.pointer = vault.pointer
  BY <1>1, <1>2 DEF VaultInv
<1>4. CASE DrainLists
  <2> DEFINE old == slots[drain.slot]
             todo == IF old = None THEN {} ELSE Reached(old)
  <2>1. drain' = [drain EXCEPT !.todo = todo] /\ messages' = messages /\ slots' = slots /\ removed' = removed
    BY <1>4 DEF DrainLists, discord
  <2>2. old # None => Sound(messages, old)
    BY <1>2 DEF GoodSlots
  <2>3. todo \subseteq DOMAIN messages /\ todo \subseteq Nat
    <3>1. old # None => Reached(old) = ReachedIn(messages, old)
      BY DEF Reached, ChainSegments, ReachedIn, Walk, WalkIn
    <3> HIDE DEF old
    <3>2. CASE old # None
      <4>1. ReachedIn(messages, old) \subseteq DOMAIN messages /\ DOMAIN messages = 1..Len(messages)
        BY <1>2, <2>2, <3>2, ReachedAreMessages
      <4> QED  BY <3>1, <3>2, <4>1
    <3> QED  BY <3>2
  <2> HIDE DEF todo
  <2>4. drain' \in Drain /\ drain'.slot = drain.slot /\ drain'.todo = todo
    BY <1>2, <2>1, <2>3 DEF Drain
  <2>5. DrainInv'
    BY <1>2, <1>3, <2>1, <2>3, <2>4 DEF DrainInv
  <2>6. Chained(messages') /\ Grown(messages, messages') /\ GoodSlots(messages', slots') /\ AllThere'
        /\ Len(slots') = Len(slots) /\ DOMAIN slots' = DOMAIN slots /\ \A i \in DOMAIN slots : slots'[i] = slots[i]
    BY <1>2, <2>1 DEF AllThere
  <2> QED  BY <1>1, <1>3, <2>5, <2>6, DrainStep
<1>5. CASE DrainDeletes
  <2>1. PICK m \in drain.todo : messages' = Without({m}) /\ drain' = [drain EXCEPT !.todo = drain.todo \ {m}]
    BY <1>5 DEF DrainDeletes
  <2>2. drain.todo # None /\ removed' = TRUE /\ slots' = slots
    BY <1>5 DEF DrainDeletes
  <2>3. Chained(messages') /\ Grown(messages, messages') /\ DOMAIN messages' = DOMAIN messages
    BY <1>2, <2>1, WithoutGrows
  <2>4. drain' \in Drain /\ drain'.slot = drain.slot /\ drain'.todo = drain.todo \ {m}
    BY <1>2, <2>1, <2>2 DEF Drain
  <2>5. DrainInv'
    BY <1>2, <1>3, <2>2, <2>3, <2>4 DEF DrainInv
  <2>6. GoodSlots(messages', slots')
    BY <1>2, <2>2, <2>3, SlotsStay
  <2>7. Len(slots') = Len(slots) /\ DOMAIN slots' = DOMAIN slots /\ AllThere'
        /\ \A i \in DOMAIN slots : slots'[i] = slots[i]
    BY <2>2 DEF AllThere
  <2> QED  BY <1>1, <1>3, <2>3, <2>5, <2>6, <2>7, DrainStep
<1>6. CASE DrainFinishes
  <2>1. SetsSlot(slots, drain.slot, None, slots') /\ drain' = None /\ messages' = messages /\ removed' = removed
    BY <1>6 DEF DrainFinishes, SetsSlot
  <2>2. /\ GoodSlots(messages, slots') /\ DOMAIN slots' = DOMAIN slots /\ Len(slots') = Len(slots)
        /\ \A j \in DOMAIN slots : slots'[j] = IF j = drain.slot THEN None ELSE slots[j]
    BY <1>2, <2>1, SlotIsSet
  <2>3. DrainInv' /\ AllThere' /\ Chained(messages') /\ Grown(messages, messages') /\ GoodSlots(messages', slots')
    BY <1>2, <2>1, <2>2 DEF DrainInv, AllThere
  <2> QED  BY <1>1, <1>3, <2>2, <2>3, DrainStep
<1>7. CASE DrainFails
  <2>1. drain' = [drain EXCEPT !.todo = None] /\ messages' = messages /\ slots' = slots /\ removed' = removed
    BY <1>7 DEF DrainFails, discord
  <2>2. drain' \in Drain /\ drain'.slot = drain.slot /\ drain'.todo = None
    BY <1>2, <2>1 DEF Drain
  <2>3. DrainInv'
    BY <1>2, <1>3, <2>1, <2>2 DEF DrainInv
  <2>4. Chained(messages') /\ Grown(messages, messages') /\ GoodSlots(messages', slots') /\ AllThere'
        /\ Len(slots') = Len(slots) /\ DOMAIN slots' = DOMAIN slots /\ \A i \in DOMAIN slots : slots'[i] = slots[i]
    BY <1>2, <2>1 DEF AllThere
  <2> QED  BY <1>1, <1>3, <2>3, <2>4, DrainStep
<1> QED  BY <1>4, <1>5, <1>6, <1>7

\* Every step keeps the invariant.
LEMMA NextIInv == IInv /\ [Next]_vars => IInv'
<1> SUFFICES ASSUME IInv, [Next]_vars  PROVE IInv'
  OBVIOUS
<1>1. CASE LogEntry \/ NextDay \/ ChangeBackends \/ \E d \in Device : Pull(d) \/ Reopen(d) \/ Fails(d)
  BY <1>1, WorldKeeps
<1>2. ASSUME NEW d \in Device, Tick(d)  PROVE IInv'
  <2>1. CASE \E kind \in {"segment", "base"} : TickWrites(d, kind)
    BY <2>1, TickWritesKeeps
  <2>2. CASE TickRefreshes(d)
    BY <2>2, TickRefreshesKeeps
  <2>3. CASE TickPrunes(d)
    BY <2>3, TickPrunesKeeps
  <2>4. CASE Checks(d)
    BY <2>4, ChecksKeeps
  <2>5. CASE Lands(d)
    BY <2>5, LandsKeeps
  <2>6. CASE Removes(d)
    BY <2>6, RemovesKeeps
  <2>7. CASE Fails(d)
    BY <2>7, WorldKeeps
  <2> QED  BY <1>2, <2>1, <2>2, <2>3, <2>4, <2>5, <2>6, <2>7 DEF Tick
<1>3. CASE Moving
  BY <1>3, RehomeKeeps, SwitchPointerKeeps, DrainKeeps DEF Moving
<1>4. CASE UNCHANGED vars
  BY <1>4 DEF vars, world, discord, IInv, WorldInv, DeviceInv, VaultInv, MoveInv, DrainInv, AllThere
<1> QED  BY <1>1, <1>2, <1>3, <1>4 DEF Next

\* In every state each pointer, kept, known or about to be written, names one
\* whole chain.
THEOREM Invariance == Spec => []IInv
<1> QED  BY InitIInv, NextIInv, PTL DEF Spec

-----------------------------------------------------------------------------
(* What it says of the pointers                                            *)

KeptIn(n) == [head : 0..MaxHead, part : 0..n, day : 0..MaxDay, segment : 0..n]
SlottedIn(n) ==
  [toSeq : 0..MaxHead, base : KeptIn(n) \cup {None}, history : SUBSET KeptIn(n),
   last : 0..n, prunedUpTo : 0..MaxHead, revision : Nat]

\* A pointer that is sound stays within the log, the days and the messages.
LEMMA SoundIsSlotted ==
  ASSUME NEW ms, Chained(ms), NEW p, Sound(ms, p)
  PROVE  p \in SlottedIn(Len(ms))
<1>1. /\ Len(ms) \in Nat /\ DOMAIN ms = 1..Len(ms) /\ p.last \in 0..Len(ms)
      /\ MaxHead \in Nat /\ MaxDay \in Nat /\ p \in Pointer /\ p.toSeq <= MaxHead
  BY ReachedAreMessages, ConstantsAreTyped DEF Sound
<1>2. ASSUME NEW b \in Bases(p)  PROVE b \in KeptIn(Len(ms)) /\ p.prunedUpTo <= MaxHead
  <2>1. /\ b \in Ref /\ b.part \in DOMAIN ms /\ b.head <= MaxHead /\ b.day <= MaxDay
        /\ b.segment # 0 => b.segment \in DOMAIN ms
    BY DEF Sound, GoodRef, IsBase, IsSegment
  <2>2. p.prunedUpTo \in Nat /\ p.prunedUpTo <= b.head
    BY <1>1 DEF Sound, Pointer
  <2>3. b \in KeptIn(Len(ms))
    BY <1>1, <2>1 DEF KeptIn, Ref
  <2> QED  BY <1>1, <2>1, <2>2, <2>3 DEF Ref
<1>3. p.base \in KeptIn(Len(ms)) \cup {None} /\ p.history \in SUBSET KeptIn(Len(ms))
  BY <1>2 DEF Bases
<1>4. p.prunedUpTo \in 0..MaxHead
  <2>1. p.prunedUpTo \in Nat
    BY <1>1 DEF Pointer
  <2>2. CASE p.base = None
    BY <1>1, <2>2 DEF Sound
  <2>3. CASE p.base # None
    <3>1. p.base \in Bases(p)
      BY <2>3 DEF Bases
    <3>2. p.prunedUpTo <= MaxHead
      BY <1>2, <3>1
    <3> QED  BY <1>1, <2>1, <3>2
  <2> QED  BY <2>2, <2>3
<1> QED  BY <1>1, <1>3, <1>4 DEF SlottedIn, Pointer

\* Every variable keeps its type: the numbers that messages, pointers and bases
\* name are of messages that have been posted, and earlier ones.
THEOREM TypesHold == Spec => []TypeOK
<1>1. IInv => TypeOK
  <2> SUFFICES ASSUME IInv  PROVE TypeOK
    OBVIOUS
  <2>1. /\ WorldInv /\ Chained(messages) /\ GoodSlots(messages, slots) /\ DeviceInv /\ VaultInv /\ DrainInv
        /\ MaxHead \in Nat /\ Len(messages) \in Nat
    BY ConstantsAreTyped DEF IInv, Chained, Linked
  <2>2. ASSUME NEW m \in DOMAIN messages
        PROVE  messages[m] \in [from : 0..MaxHead, to : 0..MaxHead, prev : 0..(m - 1), live : BOOLEAN]
    <3>1. /\ m \in 1..Len(messages) /\ Linked(messages) /\ messages[m].from <= messages[m].to
          /\ messages[m].to <= MaxHead
      BY <2>1 DEF Chained, Linked
    <3>2. messages[m] \in MessageType /\ messages[m].prev \in 0..(m - 1)
      BY <3>1, LinksAreMessages
    <3> QED  BY <2>1, <3>1, <3>2 DEF MessageType
  <2>3. \A l \in DOMAIN slots : slots[l] = None \/ slots[l] \in SlottedIn(Len(messages))
    BY <2>1, SoundIsSlotted DEF GoodSlots
  <2>4. /\ vault \in [pointer : DOMAIN slots, revision : Nat] /\ Current # None
        /\ (drain = None \/ (drain \in Drain /\ drain.slot \in DOMAIN slots))
    BY <2>1 DEF VaultInv, DrainInv, Current
  <2>5. ASSUME NEW d \in Device
        PROVE  /\ device[d].seen \in 0..HeadSeq /\ device[d].slot \in {0} \cup DOMAIN slots
               /\ device[d].known = None \/ device[d].known \in SlottedIn(Len(messages))
               /\ device[d].op # None => /\ device[d].op.kind \in {"write", "refresh", "prune"}
                                         /\ device[d].op.at \in {"check", "land", "prune", "remove"}
                                         /\ device[d].op.next \in SlottedIn(Len(messages))
    <3>1. /\ device[d] \in DeviceType /\ device[d].seen <= Len(log) /\ device[d].slot <= Len(slots)
          /\ device[d].known # None => Sound(messages, device[d].known)
          /\ device[d].op # None => GoodOp(messages, device[d].op)
          /\ Len(slots) \in Nat /\ Len(log) \in Nat /\ DOMAIN slots = 1..Len(slots)
      BY <2>1 DEF DeviceInv, GoodDevice, GoodSlots, WorldInv
    <3>2. device[d].seen \in 0..HeadSeq /\ device[d].slot \in {0} \cup DOMAIN slots
      BY <3>1 DEF DeviceType, HeadSeq
    <3>3. device[d].known = None \/ device[d].known \in SlottedIn(Len(messages))
      BY <2>1, <3>1, SoundIsSlotted
    <3>4. ASSUME device[d].op # None
          PROVE  /\ device[d].op \in OpType /\ device[d].op.next \in SlottedIn(Len(messages))
      BY <2>1, <3>1, <3>4, SoundIsSlotted DEF GoodOp
    <3> QED  BY <3>2, <3>3, <3>4 DEF OpType
  <2> QED  BY <2>1, <2>2, <2>3, <2>4, <2>5 DEF TypeOK, WorldInv, KeptIn, SlottedIn
<1> QED  BY <1>1, Invariance, PTL

\* The heads of the bases of a pointer that is sound, of some of which there is
\* a highest and a lowest.
LEMMA HeadsOf ==
  ASSUME NEW ms, NEW p, Sound(ms, p), NEW S \in SUBSET Bases(p), S # {}
  PROVE  /\ Max({b.head : b \in S}) \in Nat
         /\ \E b \in S : b.head = Max({c.head : c \in S})
         /\ \A b \in S : Min({c.head : c \in S}) <= b.head
         /\ \E b \in S : b.head = Min({c.head : c \in S})
<1> DEFINE H == {b.head : b \in S}
<1>1. MaxHead \in Nat /\ H \in SUBSET (0..MaxHead) /\ H # {}
  BY ConstantsAreTyped DEF Sound, GoodRef, Ref
<1>2. (\A b \in S : b.head \in H) /\ \A c \in H : \E b \in S : b.head = c
  OBVIOUS
<1> HIDE DEF H
<1>3. Max(H) \in H
  <2>1. \E i \in H : \A j \in H : i >= j
    BY <1>1, GreatestOf
  <2> QED  BY <2>1 DEF Max
<1>4. Min(H) \in H /\ \A j \in H : Min(H) <= j
  <2>1. \E i \in H : \A j \in H : i <= j
    BY <1>1, LeastOf
  <2> QED  BY <2>1 DEF Min
<1>5. Max(H) \in Nat
  <2>1. \A c \in H : c \in Nat
    BY <1>1
  <2> QED  BY <1>3, <2>1
<1>6. \E b \in S : b.head = Max(H)
  BY <1>2, <1>3
<1>7. \A b \in S : Min(H) <= b.head
  BY <1>2, <1>4
<1>8. \E b \in S : b.head = Min(H)
  BY <1>2, <1>4
<1> QED  BY <1>5, <1>6, <1>7, <1>8 DEF H

\* Where what a pointer reaches is there, every state from the oldest base on
\* comes back.
LEMMA WholeRestores ==
  ASSUME Chained(messages), NEW p, Sound(messages, p), \A m \in ReachedIn(messages, p) : messages[m].live,
         NEW s \in Nat, Oldest(p) <= s
  PROVE  Restores(p, s)
<1> DEFINE below == {b \in Bases(p) : b.head <= s}
           floor == IF below = {} THEN 0 ELSE Max({b.head : b \in below})
           walk == WalkIn(messages, p.last, floor)
<1>1. /\ Linked(messages) /\ p.last \in 0..Len(messages) /\ p.prunedUpTo \in Nat /\ p.toSeq \in Nat
      /\ p.last = 0 \/ IsSegment(messages, p.last)
      /\ \A b \in Bases(p) : b.head \in Nat
  BY ReachedAreMessages
<1>2. below = {} => p.prunedUpTo = 0
  <2>1. Bases(p) # {} => below # {}
    <3>1. ASSUME Bases(p) # {}  PROVE \E b \in Bases(p) : b.head = Oldest(p)
      BY <3>1, HeadsOf DEF Oldest
    <3> QED  BY <3>1
  <2>2. Bases(p) = {} => p.prunedUpTo = 0
    BY DEF Sound, Bases
  <2> QED  BY <2>1, <2>2
<1>3. floor \in Nat /\ p.prunedUpTo <= floor
  <2>1. CASE below = {}
    BY <1>1, <1>2, <2>1
  <2>2. CASE below # {}
    <3>1. floor \in Nat /\ \E b \in below : b.head = floor
      BY <2>2, HeadsOf
    <3>2. \A b \in Bases(p) : p.prunedUpTo <= b.head
      BY DEF Sound
    <3> HIDE DEF floor
    <3> QED  BY <3>1, <3>2
  <2> QED  BY <2>1, <2>2
<1> HIDE DEF floor
<1>4. \A b \in below : b.head = floor => Live(b.part)
  <2>1. \A b \in Bases(p) : b.part \in ReachedIn(messages, p)
    BY DEF ReachedIn
  <2> QED  BY <2>1 DEF Live
<1>5. \A m \in walk : Live(m)
  <2>1. walk \subseteq WalkIn(messages, p.last, p.prunedUpTo)
    BY <1>1, <1>3, HigherFloor
  <2> QED  BY <2>1 DEF ReachedIn, Live
<1>6. ASSUME NEW k \in (floor + 1)..p.toSeq
      PROVE  k \in UNION {messages[m].from..messages[m].to : m \in walk}
  <2>1. p.last # 0
    BY <1>1, <1>3 DEF Sound
  <2>2. IsSegment(messages, p.last) /\ messages[p.last].to = p.toSeq
    BY <1>1, <2>1 DEF Sound
  <2>3. \E m \in walk : k \in messages[m].from..messages[m].to
    BY <1>3, <2>2, WalkCovers
  <2> QED  BY <2>3
<1>7. walk = Walk(p.last, floor)
  BY DEF Walk, WalkIn
<1> HIDE DEF walk
<1> QED  BY <1>2, <1>4, <1>5, <1>6, <1>7 DEF Restores, floor

\* As long as nothing has been deleted, what the account's pointer names brings
\* back its state, whoever wrote it and whatever it was built on.
THEOREM ChainIsWhole == Spec => []CrossingKeepsChain
<1>1. IInv => CrossingKeepsChain
  <2> SUFFICES ASSUME IInv, ~removed  PROVE Restores(Current, Current.toSeq)
    BY DEF CrossingKeepsChain
  <2>1. Chained(messages) /\ Sound(messages, Current)
    BY DEF IInv, VaultInv, GoodSlots, Current
  <2>2. \A m \in ReachedIn(messages, Current) : messages[m].live
    BY <2>1, ReachedAreMessages DEF IInv, AllThere
  <2>3. Current.toSeq \in Nat
    BY <2>1, ReachedAreMessages
  <2>4. Oldest(Current) <= Current.toSeq
    <3>1. CASE Bases(Current) = {}
      BY <2>3, <3>1 DEF Oldest
    <3>2. CASE Bases(Current) # {}
      <4>1. \E b \in Bases(Current) : b.head = Oldest(Current)
        BY <2>1, <3>2, HeadsOf DEF Oldest
      <4> QED  BY <2>1, <4>1 DEF Sound
    <3> QED  BY <3>1, <3>2
  <2> QED  BY <2>1, <2>2, <2>3, <2>4, WholeRestores
<1> QED  BY <1>1, Invariance, PTL

-----------------------------------------------------------------------------
(* Whose messages are whose                                                *)

Disjoint(S, T) == \A m \in S : m \notin T

\* H: what each pointer reaches, B: what each device has posted for the pointer
\* that it is about to write, D: what it is going to delete, R: the devices that
\* are deleting, T: what the drain deletes, x: the slot it drains, gone: what has
\* been deleted. No two pointers share a message. What is deleted is no pointer's
\* and no writer's; only what the drained pointer reaches may be gone.
Tidy(H, B, D, R, T, x, gone) ==
  /\ \A i, j \in DOMAIN H : i # j => Disjoint(H[i], H[j])
  /\ \A d \in Device : Disjoint(B[d], gone) /\ Disjoint(B[d], T)
  /\ \A d \in Device, i \in DOMAIN H : Disjoint(B[d], H[i])
  /\ \A d, e \in Device : Disjoint(B[d], D[e]) /\ (d # e => Disjoint(B[d], B[e]))
  /\ \A d \in R, i \in DOMAIN H : Disjoint(D[d], H[i])
  /\ \A i \in DOMAIN H : i # x => Disjoint(H[i], T) /\ Disjoint(H[i], gone)

\* Pointers reach less, writers give up, and deletions are done; a pointer that
\* is no longer drained reaches nothing.
LEMMA TidyLess ==
  ASSUME NEW H, NEW B, NEW D, NEW R, NEW T, NEW x, NEW gone, Tidy(H, B, D, R, T, x, gone),
         NEW K, NEW C, NEW E, NEW Q, NEW U, NEW y,
         DOMAIN K = DOMAIN H, \A i \in DOMAIN H : K[i] \subseteq H[i],
         \A d \in Device : C[d] \subseteq B[d] /\ E[d] \subseteq D[d],
         Q \subseteq R, R \subseteq Device, U \subseteq T, \A i \in DOMAIN H : i = x /\ i # y => K[i] = {}
  PROVE  Tidy(K, C, E, Q, U, y, gone)
<1>1. \A i, j \in DOMAIN K : i # j => Disjoint(K[i], K[j])
  BY DEF Tidy, Disjoint
<1>2. \A d \in Device : Disjoint(C[d], gone) /\ Disjoint(C[d], U)
  BY DEF Tidy, Disjoint
<1>3. \A d \in Device, i \in DOMAIN K : Disjoint(C[d], K[i])
  BY DEF Tidy, Disjoint
<1>4. \A d, e \in Device : Disjoint(C[d], E[e]) /\ (d # e => Disjoint(C[d], C[e]))
  BY DEF Tidy, Disjoint
<1>5. \A d \in Q, i \in DOMAIN K : Disjoint(E[d], K[i])
  BY DEF Tidy, Disjoint
<1>6. \A i \in DOMAIN K : i # y => Disjoint(K[i], U) /\ Disjoint(K[i], gone)
  BY DEF Tidy, Disjoint
<1> QED  BY <1>1, <1>2, <1>3, <1>4, <1>5, <1>6 DEF Tidy

\* A device sets out to delete some of what a pointer reaches.
LEMMA TidyDrops ==
  ASSUME NEW H, NEW B, NEW D, NEW R, NEW T, NEW x, NEW gone, Tidy(H, B, D, R, T, x, gone),
         NEW d \in Device, NEW i \in DOMAIN H, NEW C, NEW E, NEW Q,
         \A e \in Device : C[e] \subseteq B[e] /\ (e # d => E[e] = D[e]),
         E[d] \subseteq H[i], Q \subseteq R \ {d}, R \subseteq Device
  PROVE  Tidy(H, C, E, Q, T, x, gone)
<1>1. \A e \in Device : Disjoint(C[e], gone) /\ Disjoint(C[e], T)
  BY DEF Tidy, Disjoint
<1>2. \A e \in Device, j \in DOMAIN H : Disjoint(C[e], H[j])
  BY DEF Tidy, Disjoint
<1>3. \A e, f \in Device : Disjoint(C[e], E[f])
  <2> TAKE e, f \in Device
  <2>1. CASE f = d
    BY <2>1 DEF Tidy, Disjoint
  <2>2. CASE f # d
    BY <2>2 DEF Tidy, Disjoint
  <2> QED  BY <2>1, <2>2
<1>4. \A e, f \in Device : e # f => Disjoint(C[e], C[f])
  BY DEF Tidy, Disjoint
<1>5. \A e \in Q, j \in DOMAIN H : Disjoint(E[e], H[j])
  BY DEF Tidy, Disjoint
<1> QED  BY <1>1, <1>2, <1>3, <1>4, <1>5 DEF Tidy

\* The device d posts what nobody has yet: all that there is, is old.
FreshPosts(H, B, D, R, T, gone, d, old, C, E, Q, lost) ==
  /\ \A i \in DOMAIN H : H[i] \subseteq old
  /\ \A e \in Device : B[e] \subseteq old /\ D[e] \subseteq old
  /\ T \subseteq old /\ lost \subseteq gone /\ gone \subseteq old
  /\ \A e \in Device : e # d => C[e] = B[e] /\ E[e] = D[e]
  /\ Disjoint(C[d], old) /\ E[d] = {} /\ Q \subseteq R \ {d} /\ R \subseteq Device

\* Nobody's is then what it posts.
LEMMA TidyPosts ==
  ASSUME NEW H, NEW B, NEW D, NEW R, NEW T, NEW x, NEW gone, Tidy(H, B, D, R, T, x, gone),
         NEW d \in Device, NEW old, NEW C, NEW E, NEW Q, NEW lost,
         FreshPosts(H, B, D, R, T, gone, d, old, C, E, Q, lost)
  PROVE  Tidy(H, C, E, Q, T, x, lost)
<1> USE DEF FreshPosts
<1>1. \A e \in Device : Disjoint(C[e], lost) /\ Disjoint(C[e], T)
  <2> TAKE e \in Device
  <2>1. CASE e = d
    BY <2>1 DEF Tidy, Disjoint
  <2>2. CASE e # d
    BY <2>2 DEF Tidy, Disjoint
  <2> QED  BY <2>1, <2>2
<1>2. \A e \in Device, j \in DOMAIN H : Disjoint(C[e], H[j])
  <2> TAKE e \in Device, j \in DOMAIN H
  <2>1. CASE e = d
    BY <2>1 DEF Tidy, Disjoint
  <2>2. CASE e # d
    BY <2>2 DEF Tidy, Disjoint
  <2> QED  BY <2>1, <2>2
<1>3. \A e, f \in Device : Disjoint(C[e], E[f])
  <2> TAKE e, f \in Device
  <2>1. CASE f = d
    BY <2>1 DEF Disjoint
  <2>2. CASE f # d /\ e = d
    BY <2>2 DEF Disjoint
  <2>3. CASE f # d /\ e # d
    BY <2>3 DEF Tidy
  <2> QED  BY <2>1, <2>2, <2>3
<1>4. \A e, f \in Device : e # f => Disjoint(C[e], C[f])
  <2> TAKE e, f \in Device
  <2>1. CASE f = d
    BY <2>1 DEF Disjoint
  <2>2. CASE f # d /\ e = d
    BY <2>2 DEF Disjoint
  <2>3. CASE f # d /\ e # d
    BY <2>3 DEF Tidy
  <2> QED  BY <2>1, <2>2, <2>3
<1>5. \A e \in Q, j \in DOMAIN H : Disjoint(E[e], H[j])
  BY DEF Tidy
<1>6. \A i \in DOMAIN H : i # x => Disjoint(H[i], T) /\ Disjoint(H[i], lost)
  BY DEF Tidy, Disjoint
<1> QED  BY <1>1, <1>2, <1>3, <1>4, <1>5, <1>6 DEF Tidy

\* The device d replaces the pointer k by one that reaches of its messages, and of
\* those that d has posted, none that d is going to delete.
Replaces(H, B, D, R, d, k, K, C, E, Q) ==
  /\ DOMAIN K = DOMAIN H /\ \A i \in DOMAIN H : i # k => K[i] = H[i]
  /\ K[k] \subseteq H[k] \cup B[d]
  /\ \A e \in Device : e # d => C[e] = B[e] /\ E[e] = D[e]
  /\ C[d] = {} /\ E[d] \subseteq D[d] /\ E[d] \subseteq H[k] /\ Disjoint(E[d], K[k])
  /\ Q \subseteq R \cup {d} /\ R \subseteq Device

\* What the others have is then still theirs.
LEMMA TidyLands ==
  ASSUME NEW H, NEW B, NEW D, NEW R, NEW T, NEW x, NEW gone, Tidy(H, B, D, R, T, x, gone),
         NEW d \in Device, NEW k \in DOMAIN H, NEW K, NEW C, NEW E, NEW Q,
         Replaces(H, B, D, R, d, k, K, C, E, Q)
  PROVE  Tidy(K, C, E, Q, T, x, gone)
<1> USE DEF Replaces
<1>1. \A i, j \in DOMAIN K : i # j => Disjoint(K[i], K[j])
  <2> TAKE i, j \in DOMAIN K
  <2>1. CASE i # k /\ j # k
    BY <2>1 DEF Tidy
  <2>2. CASE i = k /\ j # k
    BY <2>2 DEF Tidy, Disjoint
  <2>3. CASE i # k /\ j = k
    BY <2>3 DEF Tidy, Disjoint
  <2> QED  BY <2>1, <2>2, <2>3
<1>2. \A e \in Device : Disjoint(C[e], gone) /\ Disjoint(C[e], T)
  BY DEF Tidy, Disjoint
<1>3. \A e \in Device, i \in DOMAIN K : Disjoint(C[e], K[i])
  <2> TAKE e \in Device, i \in DOMAIN K
  <2>1. CASE e = d
    BY <2>1 DEF Disjoint
  <2>2. CASE e # d /\ i = k
    BY <2>2 DEF Tidy, Disjoint
  <2>3. CASE e # d /\ i # k
    BY <2>3 DEF Tidy
  <2> QED  BY <2>1, <2>2, <2>3
<1>4. \A e, f \in Device : Disjoint(C[e], E[f]) /\ (e # f => Disjoint(C[e], C[f]))
  BY DEF Tidy, Disjoint
<1>5. \A e \in Q, i \in DOMAIN K : Disjoint(E[e], K[i])
  <2> TAKE e \in Q, i \in DOMAIN K
  <2>1. CASE e = d /\ i = k
    BY <2>1
  <2>2. CASE e = d /\ i # k
    BY <2>2 DEF Tidy, Disjoint
  <2>3. CASE e # d /\ i = k
    BY <2>3 DEF Tidy, Disjoint
  <2>4. CASE e # d /\ i # k
    BY <2>4 DEF Tidy
  <2> QED  BY <2>1, <2>2, <2>3, <2>4
<1>6. \A i \in DOMAIN K : i # x => Disjoint(K[i], T) /\ Disjoint(K[i], gone)
  <2> TAKE i \in DOMAIN K
  <2>1. CASE i = k
    BY <2>1 DEF Tidy, Disjoint
  <2>2. CASE i # k
    BY <2>2 DEF Tidy
  <2> QED  BY <2>1, <2>2
<1> QED  BY <1>1, <1>2, <1>3, <1>4, <1>5, <1>6 DEF Tidy

\* A message is deleted, by a device that is deleting or by the drain.
LEMMA TidyDeletes ==
  ASSUME NEW H, NEW B, NEW D, NEW R, NEW T, NEW x, NEW gone, Tidy(H, B, D, R, T, x, gone),
         NEW m, m \in T \/ \E d \in R : m \in D[d], R \subseteq Device, NEW lost, lost \subseteq gone \cup {m}
  PROVE  Tidy(H, B, D, R, T, x, lost)
<1>1. \A e \in Device : Disjoint(B[e], lost)
  BY DEF Tidy, Disjoint
<1>2. \A i \in DOMAIN H : i # x => Disjoint(H[i], lost)
  BY DEF Tidy, Disjoint
<1> QED  BY <1>1, <1>2 DEF Tidy

\* The drain lists what the drained pointer reaches.
LEMMA TidyLists ==
  ASSUME NEW H, NEW B, NEW D, NEW R, NEW T, NEW x \in DOMAIN H, NEW gone, Tidy(H, B, D, R, T, x, gone)
  PROVE  Tidy(H, B, D, R, H[x], x, gone)
<1>1. \A e \in Device : Disjoint(B[e], H[x])
  BY DEF Tidy
<1>2. \A i \in DOMAIN H : i # x => Disjoint(H[i], H[x])
  BY DEF Tidy
<1> QED  BY <1>1, <1>2 DEF Tidy

\* One more pointer, k, to what nobody has had yet.
Adds(H, B, D, R, T, gone, old, k, K, lost) ==
  /\ k \notin DOMAIN H /\ DOMAIN K = DOMAIN H \cup {k} /\ \A i \in DOMAIN H : K[i] = H[i]
  /\ \A i \in DOMAIN H : H[i] \subseteq old
  /\ \A e \in Device : B[e] \subseteq old /\ D[e] \subseteq old
  /\ T \subseteq old /\ lost \subseteq gone /\ gone \subseteq old /\ Disjoint(K[k], old) /\ R \subseteq Device

\* It shares nothing.
LEMMA TidyCopies ==
  ASSUME NEW H, NEW B, NEW D, NEW R, NEW T, NEW x, NEW gone, Tidy(H, B, D, R, T, x, gone),
         NEW old, NEW k, NEW K, NEW lost, Adds(H, B, D, R, T, gone, old, k, K, lost)
  PROVE  Tidy(K, B, D, R, T, x, lost)
<1> USE DEF Adds
<1>1. \A i, j \in DOMAIN K : i # j => Disjoint(K[i], K[j])
  <2> TAKE i, j \in DOMAIN K
  <2>1. CASE i # k /\ j # k
    BY <2>1 DEF Tidy
  <2>2. CASE i = k /\ j # k
    BY <2>2 DEF Disjoint
  <2>3. CASE i # k /\ j = k
    BY <2>3 DEF Disjoint
  <2> QED  BY <2>1, <2>2, <2>3
<1>2. \A e \in Device : Disjoint(B[e], lost) /\ Disjoint(B[e], T)
  BY DEF Tidy, Disjoint
<1>3. \A e \in Device, i \in DOMAIN K : Disjoint(B[e], K[i])
  <2> TAKE e \in Device, i \in DOMAIN K
  <2>1. CASE i = k
    BY <2>1 DEF Disjoint
  <2>2. CASE i # k
    BY <2>2 DEF Tidy
  <2> QED  BY <2>1, <2>2
<1>4. \A e \in R, i \in DOMAIN K : Disjoint(D[e], K[i])
  <2> TAKE e \in R, i \in DOMAIN K
  <2>1. CASE i = k
    BY <2>1 DEF Disjoint
  <2>2. CASE i # k
    BY <2>2 DEF Tidy
  <2> QED  BY <2>1, <2>2
<1>5. \A i \in DOMAIN K : i # x => Disjoint(K[i], T) /\ Disjoint(K[i], lost)
  <2> TAKE i \in DOMAIN K
  <2>1. CASE i = k
    BY <2>1 DEF Disjoint
  <2>2. CASE i # k
    BY <2>2 DEF Tidy, Disjoint
  <2> QED  BY <2>1, <2>2
<1> QED  BY <1>1, <1>2, <1>3, <1>4, <1>5 DEF Tidy

\* These, in a state.
Held(ms, p) == IF p = None THEN {} ELSE ReachedIn(ms, p)
Holds(ms, ss) == [i \in DOMAIN ss |-> Held(ms, ss[i])]
Pending(op) == op # None /\ op.at \in {"check", "land"}
Brought(ms, op) == IF Pending(op) THEN ReachedIn(ms, op.next) \ ReachedIn(ms, op.from) ELSE {}
Brings(ms, dv) == [d \in Device |-> Brought(ms, dv[d].op)]
Dropped(op) == IF op = None THEN {} ELSE op.drop
Drops(dv) == [d \in Device |-> Dropped(dv[d].op)]
Removing(dv) == {d \in Device : dv[d].op # None /\ dv[d].op.at = "remove"}
ToDrain(dr) == IF dr = None THEN {} ELSE IF dr.todo = None THEN {} ELSE dr.todo
DrainSlot(dr) == IF dr = None THEN 0 ELSE dr.slot
Gone(ms) == {m \in DOMAIN ms : ~ms[m].live}

TidyState(ms, ss, dv, dr) ==
  Tidy(Holds(ms, ss), Brings(ms, dv), Drops(dv), Removing(dv), ToDrain(dr), DrainSlot(dr), Gone(ms))

\* As long as no writer built on a pointer that had changed.
KInv == ~crossed => TidyState(messages, slots, device, drain)

\* What is reached stays the same while messages come and go.
LEMMA HoldsStays ==
  ASSUME NEW ms, NEW ns, Chained(ms), Grown(ms, ns), NEW ss, GoodSlots(ms, ss)
  PROVE  Holds(ns, ss) = Holds(ms, ss)
<1>1. \A i \in DOMAIN ss : Held(ns, ss[i]) = Held(ms, ss[i])
  BY SoundStays DEF Held, GoodSlots
<1> QED  BY <1>1 DEF Holds

\* So is what a write brings.
LEMMA BroughtStays ==
  ASSUME NEW ms, NEW ns, Chained(ms), Grown(ms, ns), NEW op, op = None \/ GoodOp(ms, op)
  PROVE  Brought(ns, op) = Brought(ms, op)
<1>1. CASE op = None
  BY <1>1 DEF Brought, Pending
<1>2. CASE op # None
  <2>1. Sound(ms, op.from) /\ Sound(ms, op.next)
    BY <1>2 DEF GoodOp
  <2>2. ReachedIn(ns, op.from) = ReachedIn(ms, op.from) /\ ReachedIn(ns, op.next) = ReachedIn(ms, op.next)
    BY <2>1, SoundStays
  <2> QED  BY <2>2 DEF Brought
<1> QED  BY <1>1, <1>2

\* The other devices when one of them moves.
LEMMA OthersStay ==
  ASSUME IInv, NEW ms, Grown(messages, ms), NEW dv, NEW D \in SUBSET Device, \A e \in D : dv[e] = device[e]
  PROVE  /\ \A e \in D : /\ Brings(ms, dv)[e] = Brings(messages, device)[e]
                         /\ Drops(dv)[e] = Drops(device)[e]
                         /\ e \in Removing(dv) <=> e \in Removing(device)
         /\ \A d \in Device : /\ Brings(ms, dv)[d] = Brought(ms, dv[d].op)
                              /\ Drops(dv)[d] = Dropped(dv[d].op)
                              /\ d \in Removing(dv) <=> dv[d].op # None /\ dv[d].op.at = "remove"
         /\ Removing(dv) \subseteq Device
<1>1. Chained(messages)
  BY DEF IInv
<1>2. \A e \in D : Brought(ms, device[e].op) = Brought(messages, device[e].op)
  BY <1>1, DeviceFacts, BroughtStays
<1>3. \A d \in Device : /\ Brings(ms, dv)[d] = Brought(ms, dv[d].op)
                        /\ Drops(dv)[d] = Dropped(dv[d].op)
                        /\ d \in Removing(dv) <=> dv[d].op # None /\ dv[d].op.at = "remove"
  BY DEF Brings, Drops, Removing
<1>4. \A d \in Device : /\ Brings(messages, device)[d] = Brought(messages, device[d].op)
                        /\ Drops(device)[d] = Dropped(device[d].op)
                        /\ d \in Removing(device) <=> device[d].op # None /\ device[d].op.at = "remove"
  BY DEF Brings, Drops, Removing
<1>5. Removing(dv) \subseteq Device
  BY DEF Removing
<1> QED  BY <1>2, <1>3, <1>4, <1>5

\* All of it is of messages that have been posted.
LEMMA AllPosted ==
  ASSUME IInv
  PROVE  /\ \A i \in DOMAIN slots : Holds(messages, slots)[i] \subseteq 1..Len(messages)
         /\ \A d \in Device : /\ Brings(messages, device)[d] \subseteq 1..Len(messages)
                              /\ Drops(device)[d] \subseteq 1..Len(messages)
         /\ ToDrain(drain) \subseteq 1..Len(messages) /\ Gone(messages) \subseteq 1..Len(messages)
         /\ DOMAIN messages = 1..Len(messages) /\ Len(messages) \in Nat
<1>1. Chained(messages) /\ GoodSlots(messages, slots) /\ DrainInv
  BY DEF IInv
<1>2. DOMAIN messages = 1..Len(messages) /\ Len(messages) \in Nat
  BY <1>1 DEF Chained, Linked
<1>3. ASSUME NEW i \in DOMAIN slots  PROVE Holds(messages, slots)[i] \subseteq 1..Len(messages)
  <2>1. Holds(messages, slots)[i] = Held(messages, slots[i])
    BY DEF Holds
  <2>2. slots[i] # None => ReachedIn(messages, slots[i]) \subseteq 1..Len(messages)
    BY <1>1, ReachedAreMessages DEF GoodSlots
  <2> QED  BY <2>1, <2>2 DEF Held
<1>4. ASSUME NEW d \in Device
      PROVE  /\ Brings(messages, device)[d] \subseteq 1..Len(messages)
             /\ Drops(device)[d] \subseteq 1..Len(messages)
  <2>1. Brings(messages, device)[d] = Brought(messages, device[d].op) /\ Drops(device)[d] = Dropped(device[d].op)
    BY DEF Brings, Drops
  <2>2. ASSUME device[d].op # None
        PROVE  /\ ReachedIn(messages, device[d].op.next) \subseteq 1..Len(messages)
               /\ device[d].op.drop \subseteq 1..Len(messages)
    <3>1. GoodOp(messages, device[d].op)
      BY <2>2, DeviceFacts
    <3>2. /\ ReachedIn(messages, device[d].op.next) \subseteq 1..Len(messages)
          /\ ReachedIn(messages, device[d].op.from) \subseteq 1..Len(messages)
      BY <1>1, <3>1, ReachedAreMessages DEF GoodOp
    <3> QED  BY <3>1, <3>2 DEF GoodOp
  <2> QED  BY <2>1, <2>2 DEF Brought, Pending, Dropped
<1>5. ToDrain(drain) \subseteq 1..Len(messages)
  BY <1>1, <1>2 DEF DrainInv, ToDrain
<1>6. Gone(messages) \subseteq 1..Len(messages)
  BY <1>2 DEF Gone
<1> QED  BY <1>2, <1>3, <1>4, <1>5, <1>6

\* At first there is nothing.
LEMMA InitKInv == Init => KInv
<1> SUFFICES ASSUME Init  PROVE TidyState(messages, slots, device, drain)
  BY DEF KInv
<1> DEFINE H == Holds(messages, slots)
           B == Brings(messages, device)
           D == Drops(device)
           R == Removing(device)
<1>1. IInv /\ DOMAIN slots = {1}
  BY InitIInv DEF Init
<1>2. 1..Len(messages) = {}
  BY DEF Init
<1>3. DOMAIN H = {1}
  BY <1>1 DEF Holds
<1>4. /\ \A i \in DOMAIN H : H[i] = {}
      /\ \A d \in Device : B[d] = {} /\ D[d] = {}
      /\ ToDrain(drain) = {} /\ Gone(messages) = {}
  BY <1>1, <1>2, <1>3, AllPosted
<1>5. R \subseteq Device
  BY DEF Removing
<1> HIDE DEF H, B, D, R
<1>6. Tidy(H, B, D, R, ToDrain(drain), DrainSlot(drain), Gone(messages))
  BY <1>3, <1>4, <1>5 DEF Tidy, Disjoint
<1> QED  BY <1>6 DEF TidyState, H, B, D, R

\* A step that writes no slot and deletes nothing: one device, at most, brings
\* and drops less.
LEMMA QuietTidy ==
  ASSUME IInv, KInv, UNCHANGED <<messages, slots, drain>>, crossed' = crossed,
         NEW d, \A e \in Device : e # d => device'[e] = device[e],
         d \in Device => /\ Brought(messages, device'[d].op) \subseteq Brought(messages, device[d].op)
                         /\ Dropped(device'[d].op) \subseteq Dropped(device[d].op)
                         /\ d \in Removing(device') => d \in Removing(device)
  PROVE  KInv'
<1> SUFFICES ASSUME ~crossed'  PROVE TidyState(messages, slots, device', drain)
  BY DEF KInv
<1> DEFINE H == Holds(messages, slots)
           C == Brings(messages, device')
           E == Drops(device')
           Q == Removing(device')
           B == Brings(messages, device)
           D == Drops(device)
           R == Removing(device)
<1>1. Tidy(H, B, D, R, ToDrain(drain), DrainSlot(drain), Gone(messages))
  BY DEF KInv, TidyState
<1>2. Grown(messages, messages)
  BY SameGrows DEF IInv
<1>3. \A e \in Device : C[e] \subseteq B[e] /\ E[e] \subseteq D[e]
  <2>1. \A e \in Device \ {d} : C[e] = B[e] /\ E[e] = D[e]
    <3> DEFINE rest == Device \ {d}
    <3>1. rest \in SUBSET Device /\ \A e \in rest : device'[e] = device[e]
      OBVIOUS
    <3> HIDE DEF rest
    <3>2. \A e \in rest : Brings(messages, device')[e] = Brings(messages, device)[e]
                           /\ Drops(device')[e] = Drops(device)[e]
      BY <1>2, <3>1, OthersStay
    <3> QED  BY <3>2 DEF rest
  <2>2. d \in Device => C[d] \subseteq B[d] /\ E[d] \subseteq D[d]
    BY DEF Brings, Drops
  <2> HIDE DEF B, C, D, E
  <2> QED  BY <2>1, <2>2
<1>4. Q \subseteq R /\ R \subseteq Device
  <2>1. \A e \in Device \ {d} : e \in Q => e \in R
    BY <1>2, OthersStay
  <2>2. Q \subseteq Device /\ R \subseteq Device
    BY DEF Removing
  <2> QED  BY <2>1, <2>2
<1> HIDE DEF H, C, E, Q, B, D, R
<1>5. Tidy(H, C, E, Q, ToDrain(drain), DrainSlot(drain), Gone(messages))
  BY <1>1, <1>3, <1>4, TidyLess
<1> QED  BY <1>5 DEF TidyState, H, C, E, Q

\* What a device is after it has moved, and the others.
LEMMA DeviceMoved ==
  ASSUME IInv, NEW d \in Device, NEW x, device' = [device EXCEPT ![d] = x]
  PROVE  device'[d] = x /\ \A e \in Device : e # d => device'[e] = device[e]
<1>1. device \in [Device -> DeviceType]
  BY DeviceFacts
<1> QED  BY <1>1

\* A device that idles has no write, and one that runs has the one it runs.
LEMMA DeviceRuns ==
  ASSUME IInv, NEW d \in Device
  PROVE  /\ \A p : Idle(d, p) => /\ device'[d].op = None
                                 /\ \A e \in Device : e # d => device'[e] = device[e]
         /\ \A op : Runs(d, op) => /\ device'[d].op = op
                                   /\ \A e \in Device : e # d => device'[e] = device[e]
<1>1. device \in [Device -> DeviceType] /\ device[d] \in DeviceType
  BY DeviceFacts
<1>2. ASSUME NEW p, Idle(d, p)
      PROVE  device'[d].op = None /\ \A e \in Device : e # d => device'[e] = device[e]
  <2>1. device' = [device EXCEPT ![d] = [device[d] EXCEPT !.slot = Place(d), !.known = p, !.op = None]]
    BY <1>2 DEF Idle
  <2> QED  BY <1>1, <2>1 DEF DeviceType
<1>3. ASSUME NEW op, Runs(d, op)
      PROVE  device'[d].op = op /\ \A e \in Device : e # d => device'[e] = device[e]
  <2>1. device' = [device EXCEPT ![d] = [device[d] EXCEPT !.slot = Place(d), !.known = Known(d), !.op = op]]
    BY <1>3 DEF Runs
  <2> QED  BY <1>1, <2>1 DEF DeviceType
<1> QED  BY <1>2, <1>3

\* Where the same chain is named, the same is reached.
LEMMA SameChainReaches ==
  ASSUME NEW ms, NEW p, Sound(ms, p), NEW q, Sound(ms, q), SameChain(p, q)
  PROVE  ReachedIn(ms, p) = ReachedIn(ms, q)
<1>1. ReachedIn(ms, [p EXCEPT !.revision = 0]) = ReachedIn(ms, p)
  BY ListedIsSound
<1>2. ReachedIn(ms, [q EXCEPT !.revision = 0]) = ReachedIn(ms, q)
  BY ListedIsSound
<1>3. [p EXCEPT !.revision = 0] = [q EXCEPT !.revision = 0]
  BY DEF SameChain
<1> QED  BY <1>1, <1>2, <1>3

\* A device that has no write any more is quiet.
LEMMA GivesUpTidy ==
  ASSUME IInv, KInv, UNCHANGED <<messages, slots, drain>>, crossed' = crossed,
         NEW d \in Device, \A e \in Device : e # d => device'[e] = device[e],
         device'[d].op = None
  PROVE  KInv'
<1>1. /\ Brought(messages, device'[d].op) = {} /\ Dropped(device'[d].op) = {}
      /\ d \notin Removing(device')
  BY DEF Brought, Pending, Dropped, Removing
<1> QED  BY <1>1, QuietTidy

\* The log, the clock, the list and the readers.
LEMMA WorldTidy ==
  ASSUME IInv, KInv, LogEntry \/ NextDay \/ ChangeBackends \/ \E d \in Device : Pull(d) \/ Reopen(d) \/ Fails(d)
  PROVE  KInv'
<1>1. CASE LogEntry \/ NextDay \/ ChangeBackends
  <2>1. UNCHANGED <<messages, slots, drain>> /\ crossed' = crossed /\ device' = device
    BY <1>1 DEF LogEntry, NextDay, ChangeBackends, discord
  <2>2. \A d \in Device : /\ Brought(messages, device'[d].op) \subseteq Brought(messages, device[d].op)
                          /\ Dropped(device'[d].op) \subseteq Dropped(device[d].op)
                          /\ d \in Removing(device') => d \in Removing(device)
    BY <2>1
  <2> QED  BY <2>1, <2>2, QuietTidy
<1>2. ASSUME NEW d \in Device, Pull(d) \/ Reopen(d) \/ Fails(d)  PROVE KInv'
  <2>1. UNCHANGED <<messages, slots, drain>> /\ crossed' = crossed
    BY <1>2 DEF Pull, Reopen, Fails, discord
  <2>2. device \in [Device -> DeviceType] /\ device[d] \in DeviceType
    BY DeviceFacts
  <2>3. CASE Pull(d)
    <3>1. device'[d].op = device[d].op /\ \A e \in Device : e # d => device'[e] = device[e]
      BY <2>2, <2>3 DEF Pull, DeviceType
    <3>2. d \in Removing(device') => d \in Removing(device)
      BY <3>1 DEF Removing
    <3> QED  BY <2>1, <3>1, <3>2, QuietTidy
  <2>4. CASE Reopen(d)
    <3>1. device'[d].op = None /\ \A e \in Device : e # d => device'[e] = device[e]
      BY <2>2, <2>4 DEF Reopen, Fresh
    <3> QED  BY <2>1, <3>1, GivesUpTidy
  <2>5. CASE Fails(d)
    <3>1. device'[d].op = None /\ \A e \in Device : e # d => device'[e] = device[e]
      BY <2>2, <2>5 DEF Fails, DeviceType
    <3> QED  BY <2>1, <3>1, GivesUpTidy
  <2> QED  BY <1>2, <2>3, <2>4, <2>5
<1> QED  BY <1>1, <1>2

\* A refresh brings nothing.
LEMMA TickRefreshesTidy ==
  ASSUME IInv, KInv, NEW d \in Device, TickRefreshes(d)
  PROVE  KInv'
<1> DEFINE next == [Known(d) EXCEPT !.revision = Now]
           op == Op("refresh", Known(d), next, {})
<1>1. /\ Read(d) # None /\ Runs(d, op)
      /\ UNCHANGED <<messages, slots, drain>> /\ crossed' = crossed
  BY DEF TickRefreshes, discord
<1>2. ReachedIn(messages, next) = ReachedIn(messages, Known(d))
  BY <1>1, DeviceFacts, ListedIsSound
<1> HIDE DEF next
<1>3. op.from = Known(d) /\ op.next = next /\ op.drop = {} /\ op.at = "check"
  BY DEF Op
<1> HIDE DEF op
<1>4. Brought(messages, op) = {} /\ Dropped(op) = {}
  BY <1>2, <1>3 DEF Brought, Dropped
<1>5. device'[d].op = op /\ \A e \in Device : e # d => device'[e] = device[e]
  BY <1>1, DeviceRuns
<1>6. d \notin Removing(device')
  BY <1>3, <1>5 DEF Removing
<1> QED  BY <1>1, <1>4, <1>5, <1>6, QuietTidy

\* A write that has been compared brings what it brought.
LEMMA ChecksTidy ==
  ASSUME IInv, KInv, NEW d \in Device, Checks(d)
  PROVE  KInv'
<1> DEFINE op == device[d].op
           cur == Read(d)
           q == WithList(cur, op.next)
<1>1. /\ op # None /\ op.at = "check" /\ cur # None
      /\ IF MayReplace(op.kind, cur, op.next)
         THEN device' = [device EXCEPT ![d].op.at = "land", ![d].op.next = WithList(cur, @)]
         ELSE Idle(d, cur)
      /\ UNCHANGED <<messages, slots, drain>> /\ crossed' = crossed
  BY DEF Checks, discord
<1>2. /\ Sound(messages, cur) /\ GoodOp(messages, op)
      /\ device \in [Device -> DeviceType] /\ device[d] \in DeviceType
  BY <1>1, DeviceFacts
<1>3. op \in OpType /\ cur \in Pointer /\ op.next \in Pointer /\ Sound(messages, op.next)
  BY <1>2 DEF GoodOp, Sound
<1>4. CASE device' = [device EXCEPT ![d].op.at = "land", ![d].op.next = WithList(cur, @)]
  <2>1. /\ device'[d].op.at = "land" /\ device'[d].op.next = q
        /\ device'[d].op.from = op.from /\ device'[d].op.drop = op.drop
        /\ \A e \in Device : e # d => device'[e] = device[e]
    <3> DEFINE y == [op EXCEPT !.at = "land", !.next = q]
    <3>1. device'[d] = [device[d] EXCEPT !.op = y] /\ \A e \in Device : e # d => device'[e] = device[e]
      BY <1>2, <1>3, <1>4 DEF DeviceType, OpType
    <3>2. y.at = "land" /\ y.next = q /\ y.from = op.from /\ y.drop = op.drop
      <4> HIDE DEF op, cur, q
      <4> QED  BY <1>3 DEF OpType
    <3> HIDE DEF y
    <3>3. device'[d].op = y
      BY <1>2, <3>1 DEF DeviceType
    <3> QED  BY <3>1, <3>2, <3>3
  <2>2. ReachedIn(messages, q) = ReachedIn(messages, op.next)
    <3> DEFINE list == IF cur.revision > op.next.revision THEN cur.revision ELSE op.next.revision
    <3>1. list \in Nat
      BY <1>3 DEF Pointer
    <3>2. q = [op.next EXCEPT !.revision = list]
      BY DEF WithList
    <3> HIDE DEF list, op, cur, q
    <3> QED  BY <1>3, <3>1, <3>2, ListedIsSound
  <2> HIDE DEF q
  <2>3. /\ Brought(messages, device'[d].op) \subseteq Brought(messages, device[d].op)
        /\ Dropped(device'[d].op) \subseteq Dropped(device[d].op)
    BY <1>1, <2>1, <2>2 DEF Brought, Pending, Dropped
  <2>4. d \notin Removing(device')
    BY <2>1 DEF Removing
  <2> QED  BY <1>1, <2>1, <2>3, <2>4, QuietTidy
<1>5. CASE Idle(d, cur)
  BY <1>1, <1>5, DeviceRuns, GivesUpTidy
<1> QED  BY <1>1, <1>4, <1>5

\* The devices when one of them moves, while messages come and go.
LEMMA OneMoves ==
  ASSUME IInv, Grown(messages, messages'), NEW d \in Device,
         \A e \in Device : e # d => device'[e] = device[e]
  PROVE  /\ \A e \in Device : e # d =>
              /\ Brings(messages', device')[e] = Brings(messages, device)[e]
              /\ Drops(device')[e] = Drops(device)[e]
              /\ e \in Removing(device') => e \in Removing(device)
         /\ Brings(messages', device')[d] = Brought(messages', device'[d].op)
         /\ Drops(device')[d] = Dropped(device'[d].op)
         /\ d \in Removing(device') => device'[d].op # None /\ device'[d].op.at = "remove"
         /\ Removing(device) \subseteq Device /\ Removing(device') \subseteq Device
<1> DEFINE rest == Device \ {d}
<1>1. rest \in SUBSET Device /\ \A e \in rest : device'[e] = device[e]
  OBVIOUS
<1>2. \A e \in Device : e # d => e \in rest
  OBVIOUS
<1> HIDE DEF rest
<1>3. \A e \in rest : /\ Brings(messages', device')[e] = Brings(messages, device)[e]
                      /\ Drops(device')[e] = Drops(device)[e]
                      /\ e \in Removing(device') => e \in Removing(device)
  BY <1>1, OthersStay
<1>4. /\ Brings(messages', device')[d] = Brought(messages', device'[d].op)
      /\ Drops(device')[d] = Dropped(device'[d].op)
      /\ d \in Removing(device') => device'[d].op # None /\ device'[d].op.at = "remove"
      /\ Removing(device) \subseteq Device /\ Removing(device') \subseteq Device
  BY DEF Brings, Drops, Removing
<1> QED  BY <1>2, <1>3, <1>4

\* What is posted has not been deleted.
LEMMA PostsAreNotGone ==
  ASSUME Chained(messages), Chained(messages'), Len(messages) <= Len(messages'),
         \A m \in 1..Len(messages) : messages'[m] = messages[m],
         \A m \in (Len(messages) + 1)..Len(messages') : messages'[m].live
  PROVE  Gone(messages') \subseteq Gone(messages)
<1>1. /\ DOMAIN messages' = 1..Len(messages') /\ Len(messages') \in Nat
      /\ DOMAIN messages = 1..Len(messages) /\ Len(messages) \in Nat
  BY DEF Chained, Linked
<1>2. ASSUME NEW m \in DOMAIN messages', ~messages'[m].live  PROVE m \in DOMAIN messages /\ ~messages[m].live
  <2>1. m \in 1..Len(messages) \/ m \in (Len(messages) + 1)..Len(messages')
    BY <1>1
  <2> QED  BY <1>1, <1>2, <2>1
<1> QED  BY <1>2 DEF Gone

\* A snapshot brings what it has just posted.
LEMMA TickWritesTidy ==
  ASSUME IInv, KInv, NEW d \in Device, NEW kind \in {"segment", "base"}, TickWrites(d, kind)
  PROVE  KInv'
<1> DEFINE cur == Read(d)
           at == device[d].seen
           based == kind = "base" /\ HeadOf(cur.base) < at
           next == NextPointer(messages, cur, at, based, day, Now)
           op == Op("write", cur, next, {})
<1>1. /\ cur # None /\ messages' = Written(messages, cur, at, based)
      /\ \/ Idle(d, cur) /\ messages' = messages
         \/ Runs(d, op)
      /\ slots' = slots /\ drain' = drain /\ crossed' = crossed
  BY TickWritesIs DEF WritesTo
<1>2. /\ Chained(messages) /\ Sound(messages, cur) /\ at \in Nat /\ at <= MaxHead /\ day \in 0..MaxDay
      /\ Now \in Nat /\ based \in BOOLEAN /\ (based => HeadOf(cur.base) < at)
      /\ GoodSlots(messages, slots)
  BY <1>1, DeviceFacts DEF IInv, WorldInv
<1>3. CASE Idle(d, cur) /\ messages' = messages
  BY <1>1, <1>3, DeviceRuns, GivesUpTidy
<1>4. CASE Runs(d, op)
  <2> HIDE DEF at, based, cur
  <2>1. Appended(messages, messages')
    BY <1>1, <1>2, WrittenIsChained
  <2>2. Chained(messages') /\ Grown(messages, messages') /\ Len(messages) <= Len(messages')
    BY <2>1 DEF Appended, Grown
  <2>3. ReachedIn(messages', next) \subseteq ReachedIn(messages, cur) \cup (Len(messages) + 1)..Len(messages')
    BY <1>1, <1>2, NextIsSound
  <2>4. ReachedIn(messages', cur) = ReachedIn(messages, cur)
    BY <1>2, <2>2, SoundStays
  <2> HIDE DEF next
  <2>5. op.from = cur /\ op.next = next /\ op.drop = {} /\ op.at = "check"
    BY DEF Op
  <2> HIDE DEF op
  <2>6. device'[d].op = op /\ \A e \in Device : e # d => device'[e] = device[e]
    BY <1>4, DeviceRuns
  <2>7. /\ Brought(messages', op) \subseteq (Len(messages) + 1)..Len(messages')
        /\ Dropped(op) = {}
    BY <2>3, <2>4, <2>5 DEF Brought, Dropped
  <2>8. /\ \A e \in Device : e # d =>
             /\ Brings(messages', device')[e] = Brings(messages, device)[e]
             /\ Drops(device')[e] = Drops(device)[e]
             /\ e \in Removing(device') => e \in Removing(device)
        /\ Brings(messages', device')[d] = Brought(messages', op)
        /\ Drops(device')[d] = {}
        /\ d \notin Removing(device')
        /\ Removing(device) \subseteq Device /\ Removing(device') \subseteq Device
    BY <2>2, <2>5, <2>6, <2>7, OneMoves
  <2>9. Holds(messages', slots') = Holds(messages, slots)
    BY <1>1, <1>2, <2>2, HoldsStays
  <2>10. Gone(messages') \subseteq Gone(messages)
    BY <1>2, <2>1, <2>2, PostsAreNotGone DEF Appended
  <2> DEFINE old == 1..Len(messages)
             H == Holds(messages, slots)
             B == Brings(messages, device)
             D == Drops(device)
             R == Removing(device)
             T == ToDrain(drain)
             C == Brings(messages', device')
             E == Drops(device')
             Q == Removing(device')
             gone == Gone(messages)
             lost == Gone(messages')
  <2>11. /\ \A i \in DOMAIN H : H[i] \subseteq old
         /\ \A e \in Device : B[e] \subseteq old /\ D[e] \subseteq old
         /\ T \subseteq old /\ gone \subseteq old
    <3>1. DOMAIN H = DOMAIN slots
      BY DEF Holds
    <3> QED  BY <3>1, AllPosted
  <2>12. Disjoint(C[d], old)
    <3>1. Len(messages) \in Nat
      BY AllPosted
    <3> QED  BY <2>7, <2>8, <3>1 DEF Disjoint
  <2>13. Q \subseteq R \ {d}
    BY <2>8
  <2> SUFFICES ASSUME ~crossed'  PROVE TidyState(messages', slots', device', drain')
    BY DEF KInv
  <2>14. Tidy(H, B, D, R, T, DrainSlot(drain), gone)
    BY <1>1 DEF KInv, TidyState
  <2> HIDE DEF old, H, B, D, R, T, C, E, Q, gone, lost
  <2>15. /\ \A e \in Device : e # d => C[e] = B[e] /\ E[e] = D[e]
         /\ E[d] = {} /\ lost \subseteq gone /\ R \subseteq Device
    BY <2>8, <2>10 DEF B, C, D, E, R, gone, lost
  <2>16. Tidy(H, C, E, Q, T, DrainSlot(drain), lost)
    <3>1. FreshPosts(H, B, D, R, T, gone, d, old, C, E, Q, lost)
      BY <2>11, <2>12, <2>13, <2>15 DEF FreshPosts
    <3> QED  BY <2>14, <3>1, TidyPosts
  <2> QED  BY <1>1, <2>9, <2>16 DEF TidyState, H, C, E, Q, T, lost
<1> QED  BY <1>1, <1>3, <1>4

\* A prune is going to delete what the pointer reaches, as it has been read.
LEMMA TickPrunesTidy ==
  ASSUME IInv, KInv, NEW d \in Device, TickPrunes(d)
  PROVE  KInv'
<1> DEFINE cur == Read(d)
           keep == Retained(Bases(cur))
           drop == DroppedIn(messages, cur, keep)
           next == PrunedPointer(messages, cur, keep, Now)
           op == Op("prune", cur, next, drop)
<1>1. /\ cur # None /\ (Idle(d, cur) \/ Runs(d, op))
      /\ UNCHANGED <<messages, slots, drain>> /\ crossed' = crossed
  BY TickPrunesIs DEF discord
<1>2. /\ Sound(messages, cur) /\ Now \in Nat /\ Chained(messages) /\ Grown(messages, messages)
      /\ Place(d) \in DOMAIN slots
  BY TickPrunesIs, DeviceFacts, SameGrows DEF IInv
<1>3. CASE Idle(d, cur)
  BY <1>1, <1>3, DeviceRuns, GivesUpTidy
<1>4. CASE Runs(d, op)
  <2>1. cur = slots[Place(d)] /\ cur # None
    BY TickPrunesIs DEF Read
  <2> HIDE DEF cur
  <2>2. /\ ReachedIn(messages, next) \subseteq ReachedIn(messages, cur)
        /\ drop \subseteq ReachedIn(messages, cur)
    BY <1>2, PrunedIsSound
  <2> HIDE DEF next, drop
  <2>3. op.from = cur /\ op.next = next /\ op.drop = drop /\ op.at = "check"
    BY DEF Op
  <2> HIDE DEF op
  <2>4. device'[d].op = op /\ \A e \in Device : e # d => device'[e] = device[e]
    BY <1>4, DeviceRuns
  <2>5. Brought(messages, op) = {} /\ Dropped(op) \subseteq ReachedIn(messages, cur)
    BY <2>2, <2>3 DEF Brought, Dropped
  <2>6. messages' = messages
    BY <1>1
  <2>7. /\ \A e \in Device : e # d =>
             /\ Brings(messages, device')[e] = Brings(messages, device)[e]
             /\ Drops(device')[e] = Drops(device)[e]
             /\ e \in Removing(device') => e \in Removing(device)
        /\ Brings(messages, device')[d] = {}
        /\ Drops(device')[d] = Dropped(op)
        /\ d \notin Removing(device')
        /\ Removing(device) \subseteq Device /\ Removing(device') \subseteq Device
    BY <1>2, <2>3, <2>4, <2>5, <2>6, OneMoves
  <2> DEFINE H == Holds(messages, slots)
             B == Brings(messages, device)
             D == Drops(device)
             R == Removing(device)
             C == Brings(messages, device')
             E == Drops(device')
             Q == Removing(device')
  <2>8. Place(d) \in DOMAIN H /\ H[Place(d)] = ReachedIn(messages, cur)
    BY <1>2, <2>1 DEF Holds, Held
  <2> SUFFICES ASSUME ~crossed'  PROVE TidyState(messages, slots, device', drain)
    BY <1>1 DEF KInv
  <2>9. Tidy(H, B, D, R, ToDrain(drain), DrainSlot(drain), Gone(messages))
    BY <1>1 DEF KInv, TidyState
  <2>10. /\ \A e \in Device : C[e] \subseteq B[e] /\ (e # d => E[e] = D[e])
         /\ E[d] \subseteq H[Place(d)] /\ Q \subseteq R \ {d} /\ R \subseteq Device
    <3> HIDE DEF H
    <3> QED  BY <2>5, <2>7, <2>8
  <2> HIDE DEF H, B, D, R, C, E, Q
  <2>11. Tidy(H, C, E, Q, ToDrain(drain), DrainSlot(drain), Gone(messages))
    BY <2>8, <2>9, <2>10, TidyDrops
  <2> QED  BY <2>11 DEF TidyState, H, C, E, Q
<1> QED  BY <1>1, <1>3, <1>4

\* What lands is what the writer brought and what the pointer reached.
LEMMA LandsTidy ==
  ASSUME IInv, KInv, NEW d \in Device, Lands(d)
  PROVE  KInv'
<1> DEFINE op == device[d].op
           based == op.kind = "write" /\ op.next.base # op.from.base
<1>1. /\ op # None /\ op.at = "land" /\ Read(d) # None /\ SetsSlot(slots, Place(d), op.next, slots')
      /\ crossed' = (crossed \/ ~SameChain(Read(d), op.from))
      /\ IF based THEN device' = [device EXCEPT ![d].known = op.next, ![d].op.at = "prune"]
         ELSE IF op.drop # {} THEN device' = [device EXCEPT ![d].op.at = "remove"]
         ELSE Idle(d, op.next)
      /\ messages' = messages /\ drain' = drain
  BY DEF Lands, SetsSlot
<1>2. /\ GoodOp(messages, op) /\ Chained(messages) /\ Grown(messages, messages)
      /\ device \in [Device -> DeviceType] /\ device[d] \in DeviceType
      /\ GoodSlots(messages, slots) /\ Place(d) \in DOMAIN slots
      /\ Sound(messages, Read(d))
  BY <1>1, DeviceFacts, SameGrows DEF IInv
<1>3. op \in OpType /\ op.next \in Pointer /\ Sound(messages, op.next) /\ op.next # None
      /\ Sound(messages, op.from)
  BY <1>2, NoneIsNoRecord DEF GoodOp, Sound
<1>4. /\ Dropped(device'[d].op) \subseteq op.drop
      /\ Brought(messages, device'[d].op) = {}
      /\ \A e \in Device : e # d => device'[e] = device[e]
  <2>1. CASE device' = [device EXCEPT ![d].known = op.next, ![d].op.at = "prune"]
    <3> DEFINE y == [op EXCEPT !.at = "prune"]
    <3>1. device'[d] = [device[d] EXCEPT !.known = op.next, !.op = y]
          /\ \A e \in Device : e # d => device'[e] = device[e]
      BY <1>2, <1>3, <2>1 DEF DeviceType, OpType
    <3>2. y.at = "prune" /\ y.drop = op.drop
      <4> HIDE DEF op
      <4> QED  BY <1>3 DEF OpType
    <3> HIDE DEF y
    <3>3. device'[d].op = y
      BY <1>2, <3>1 DEF DeviceType
    <3> QED  BY <3>1, <3>2, <3>3 DEF Dropped, Brought, Pending
  <2>2. CASE device' = [device EXCEPT ![d].op.at = "remove"]
    <3> DEFINE y == [op EXCEPT !.at = "remove"]
    <3>1. device'[d] = [device[d] EXCEPT !.op = y] /\ \A e \in Device : e # d => device'[e] = device[e]
      BY <1>2, <1>3, <2>2 DEF DeviceType, OpType
    <3>2. y.at = "remove" /\ y.drop = op.drop
      <4> HIDE DEF op
      <4> QED  BY <1>3 DEF OpType
    <3> HIDE DEF y
    <3>3. device'[d].op = y
      BY <1>2, <3>1 DEF DeviceType
    <3> QED  BY <3>1, <3>2, <3>3 DEF Dropped, Brought, Pending
  <2>3. CASE Idle(d, op.next)
    BY <2>3, DeviceRuns DEF Dropped, Brought, Pending
  <2> QED  BY <1>1, <2>1, <2>2, <2>3
<1>5. DOMAIN slots' = DOMAIN slots /\ \A i \in DOMAIN slots : slots'[i] = IF i = Place(d) THEN op.next ELSE slots[i]
  <2> HIDE DEF op
  <2> QED  BY <1>1, <1>2, <1>3, SlotIsSet
<1> SUFFICES ASSUME ~crossed'  PROVE TidyState(messages, slots', device', drain)
  BY <1>1 DEF KInv
<1>6. ReachedIn(messages, Read(d)) = ReachedIn(messages, op.from)
  BY <1>1, <1>2, <1>3, SameChainReaches
<1> DEFINE H == Holds(messages, slots)
           B == Brings(messages, device)
           D == Drops(device)
           R == Removing(device)
           K == Holds(messages, slots')
           C == Brings(messages, device')
           E == Drops(device')
           Q == Removing(device')
<1>7. Tidy(H, B, D, R, ToDrain(drain), DrainSlot(drain), Gone(messages))
  BY <1>1 DEF KInv, TidyState
<1>8. /\ DOMAIN H = DOMAIN slots /\ DOMAIN K = DOMAIN H
      /\ \A i \in DOMAIN H : i # Place(d) => K[i] = H[i]
      /\ H[Place(d)] = ReachedIn(messages, op.from) /\ K[Place(d)] = ReachedIn(messages, op.next)
  <2>1. DOMAIN H = DOMAIN slots /\ DOMAIN K = DOMAIN H
    BY <1>5 DEF Holds
  <2>2. \A i \in DOMAIN slots : H[i] = Held(messages, slots[i]) /\ K[i] = Held(messages, slots'[i])
    BY <1>5 DEF Holds
  <2> HIDE DEF H, K
  <2>3. \A i \in DOMAIN H : i # Place(d) => K[i] = H[i]
    BY <1>5, <2>1, <2>2
  <2>4. H[Place(d)] = ReachedIn(messages, op.from)
    BY <1>1, <1>2, <1>6, <2>2 DEF Held, Read
  <2>5. K[Place(d)] = ReachedIn(messages, op.next)
    BY <1>2, <1>3, <1>5, <2>2 DEF Held
  <2> QED  BY <2>1, <2>3, <2>4, <2>5
<1>9. B[d] = ReachedIn(messages, op.next) \ ReachedIn(messages, op.from) /\ D[d] = op.drop
  BY <1>1 DEF Brings, Brought, Pending, Drops, Dropped
<1>10. /\ \A e \in Device : e # d => C[e] = B[e] /\ E[e] = D[e] /\ (e \in Q => e \in R)
       /\ C[d] = {} /\ E[d] \subseteq D[d] /\ R \subseteq Device /\ Q \subseteq Device
  <2>1. Grown(messages, messages')
    BY <1>1, <1>2
  <2>2. /\ \A e \in Device : e # d =>
             /\ Brings(messages', device')[e] = Brings(messages, device)[e]
             /\ Drops(device')[e] = Drops(device)[e]
             /\ e \in Removing(device') => e \in Removing(device)
        /\ Brings(messages', device')[d] = Brought(messages', device'[d].op)
        /\ Drops(device')[d] = Dropped(device'[d].op)
        /\ Removing(device) \subseteq Device /\ Removing(device') \subseteq Device
    BY <1>4, <2>1, OneMoves
  <2> QED  BY <1>1, <1>4, <1>9, <2>2
<1>11. op.drop \subseteq ReachedIn(messages, op.from) /\ op.drop \cap ReachedIn(messages, op.next) = {}
  BY <1>2 DEF GoodOp
<1> HIDE DEF H, B, D, R, K, C, E, Q, op
<1>12. Replaces(H, B, D, R, d, Place(d), K, C, E, Q)
  <2>1. K[Place(d)] \subseteq H[Place(d)] \cup B[d]
    BY <1>8, <1>9
  <2>2. E[d] \subseteq H[Place(d)] /\ Disjoint(E[d], K[Place(d)])
    BY <1>8, <1>9, <1>10, <1>11 DEF Disjoint
  <2>3. Q \subseteq R \cup {d}
    BY <1>10
  <2> QED  BY <1>8, <1>10, <2>1, <2>2, <2>3 DEF Replaces
<1>13. Tidy(K, C, E, Q, ToDrain(drain), DrainSlot(drain), Gone(messages))
  BY <1>2, <1>7, <1>8, <1>12, TidyLands
<1> QED  BY <1>13 DEF TidyState, K, C, E, Q

\* What is gone after a message has been deleted.
LEMMA GoneAfter ==
  ASSUME Chained(messages), NEW m, messages' = Without({m})
  PROVE  Gone(messages') \subseteq Gone(messages) \cup {m}
BY WithoutGrows DEF Gone

\* What a prune deletes is no pointer's any more.
LEMMA RemovesTidy ==
  ASSUME IInv, KInv, NEW d \in Device, Removes(d)
  PROVE  KInv'
<1> DEFINE op == device[d].op
<1>1. PICK m \in op.drop :
        /\ messages' = Without({m})
        /\ IF op.drop = {m} THEN Idle(d, Read(d))
           ELSE device' = [device EXCEPT ![d].op.drop = op.drop \ {m}]
  BY DEF Removes
<1>2. op # None /\ op.at = "remove" /\ slots' = slots /\ drain' = drain /\ crossed' = crossed
  BY DEF Removes
<1>3. /\ GoodOp(messages, op) /\ Chained(messages) /\ device[d] \in DeviceType /\ GoodSlots(messages, slots)
      /\ device \in [Device -> DeviceType]
  BY <1>2, DeviceFacts DEF IInv
<1>4. Chained(messages') /\ Grown(messages, messages') /\ Gone(messages') \subseteq Gone(messages) \cup {m}
  BY <1>1, <1>3, WithoutGrows, GoneAfter
<1>5. /\ Dropped(device'[d].op) \subseteq op.drop /\ Brought(messages', device'[d].op) = {}
      /\ \A e \in Device : e # d => device'[e] = device[e]
  <2>1. CASE Idle(d, Read(d))
    BY <2>1, DeviceRuns DEF Dropped, Brought, Pending
  <2>2. CASE device' = [device EXCEPT ![d].op.drop = op.drop \ {m}]
    <3> DEFINE y == [op EXCEPT !.drop = op.drop \ {m}]
    <3>1. op \in OpType
      BY <1>3 DEF GoodOp
    <3>2. device'[d] = [device[d] EXCEPT !.op = y] /\ \A e \in Device : e # d => device'[e] = device[e]
      BY <1>3, <2>2, <3>1 DEF DeviceType, OpType
    <3>3. y.at = "remove" /\ y.drop = op.drop \ {m}
      <4> HIDE DEF op
      <4> QED  BY <1>2, <3>1 DEF OpType
    <3> HIDE DEF y
    <3>4. device'[d].op = y
      BY <1>3, <3>2 DEF DeviceType
    <3> QED  BY <3>2, <3>3, <3>4 DEF Dropped, Brought, Pending
  <2> QED  BY <1>1, <2>1, <2>2
<1> SUFFICES ASSUME ~crossed'  PROVE TidyState(messages', slots', device', drain')
  BY DEF KInv
<1> DEFINE H == Holds(messages, slots)
           B == Brings(messages, device)
           D == Drops(device)
           R == Removing(device)
           C == Brings(messages', device')
           E == Drops(device')
           Q == Removing(device')
           lost == Gone(messages')
<1>6. Tidy(H, B, D, R, ToDrain(drain), DrainSlot(drain), Gone(messages))
  BY <1>2 DEF KInv, TidyState
<1>7. Holds(messages', slots') = H
  BY <1>2, <1>3, <1>4, HoldsStays
<1>8. D[d] = op.drop /\ d \in R
  BY <1>2 DEF Drops, Dropped, Removing
<1>9. /\ \A e \in Device : e # d => C[e] = B[e] /\ E[e] = D[e] /\ (e \in Q => e \in R)
      /\ C[d] = {} /\ E[d] \subseteq D[d] /\ R \subseteq Device /\ Q \subseteq Device
  <2>1. /\ \A e \in Device : e # d =>
             /\ Brings(messages', device')[e] = Brings(messages, device)[e]
             /\ Drops(device')[e] = Drops(device)[e]
             /\ e \in Removing(device') => e \in Removing(device)
        /\ Brings(messages', device')[d] = Brought(messages', device'[d].op)
        /\ Drops(device')[d] = Dropped(device'[d].op)
        /\ Removing(device) \subseteq Device /\ Removing(device') \subseteq Device
    BY <1>4, <1>5, OneMoves
  <2> QED  BY <1>5, <1>8, <2>1
<1> HIDE DEF H, B, D, R, C, E, Q, lost, op
<1>10. lost \subseteq Gone(messages) \cup {m} /\ \E e \in R : m \in D[e]
  BY <1>1, <1>4, <1>8 DEF lost
<1>11. Tidy(H, B, D, R, ToDrain(drain), DrainSlot(drain), lost)
  BY <1>6, <1>9, <1>10, TidyDeletes
<1>12. /\ \A e \in Device : C[e] \subseteq B[e] /\ E[e] \subseteq D[e]
       /\ Q \subseteq R /\ R \subseteq Device
  BY <1>8, <1>9
<1>13. Tidy(H, C, E, Q, ToDrain(drain), DrainSlot(drain), lost)
  BY <1>11, <1>12, TidyLess
<1> QED  BY <1>2, <1>7, <1>13 DEF TidyState, C, E, Q, lost

\* Uploads, and edits and deletions of one message, take nothing from what the
\* devices that do not move bring.
LEMMA AllRest ==
  ASSUME IInv, NEW ms, Grown(messages, ms), NEW dv, \A e \in Device : dv[e] = device[e]
  PROVE  Brings(ms, dv) = Brings(messages, device)
<1>1. \A e \in Device : Brought(ms, device[e].op) = Brought(messages, device[e].op)
  BY DeviceFacts, BroughtStays DEF IInv
<1>2. \A e \in Device : Brought(ms, dv[e].op) = Brought(messages, device[e].op)
  BY <1>1
<1> QED  BY <1>2 DEF Brings

\* The copies are nobody's but the new pointer's.
LEMMA RehomeTidy ==
  ASSUME IInv, KInv, NEW d \in Device, Rehome(d)
  PROVE  KInv'
<1>1. PICK q : /\ slots' = Append(slots, q) /\ Sound(messages', q)
               /\ Chained(messages') /\ Grown(messages, messages')
               /\ ReachedIn(messages', q) \subseteq (Len(messages) + 1)..Len(messages')
               /\ \A m \in 1..Len(messages) : messages'[m] = messages[m]
               /\ \A m \in (Len(messages) + 1)..Len(messages') : messages'[m].live
  BY RehomeIsSound
<1>2. drain' = drain /\ device' = device /\ crossed' = crossed
  BY RehomeIs
<1>3. /\ Chained(messages) /\ GoodSlots(messages, slots)
      /\ Len(slots) \in Nat /\ DOMAIN slots = 1..Len(slots) /\ slots \in Seq(Pointer \cup {None})
  BY DEF IInv, GoodSlots
<1>4. q \in Pointer /\ q # None
  BY <1>1, NoneIsNoRecord DEF Sound
<1>5. /\ DOMAIN slots' = DOMAIN slots \cup {Len(slots) + 1}
      /\ \A i \in DOMAIN slots : slots'[i] = slots[i]
      /\ slots'[Len(slots) + 1] = q
  BY <1>1, <1>3, <1>4
<1> SUFFICES ASSUME ~crossed'  PROVE TidyState(messages', slots', device', drain')
  BY DEF KInv
<1> DEFINE old == 1..Len(messages)
           k == Len(slots) + 1
           H == Holds(messages, slots)
           K == Holds(messages', slots')
           B == Brings(messages, device)
           D == Drops(device)
           R == Removing(device)
           T == ToDrain(drain)
           gone == Gone(messages)
           lost == Gone(messages')
<1>6. Tidy(H, B, D, R, T, DrainSlot(drain), gone)
  BY <1>2 DEF KInv, TidyState
<1>7. lost \subseteq gone
  <2>1. Len(messages) <= Len(messages')
    BY <1>1 DEF Grown
  <2> QED  BY <1>1, <1>3, <2>1, PostsAreNotGone
<1>8. /\ DOMAIN H = DOMAIN slots /\ DOMAIN K = DOMAIN slots \cup {k}
      /\ \A i \in DOMAIN slots : K[i] = H[i]
      /\ K[k] = ReachedIn(messages', q)
  <2>1. DOMAIN H = DOMAIN slots /\ DOMAIN K = DOMAIN slots \cup {k}
    BY <1>5 DEF Holds
  <2>2. \A i \in DOMAIN slots' : K[i] = Held(messages', slots'[i])
    BY DEF Holds
  <2>3. \A i \in DOMAIN slots : Held(messages', slots[i]) = H[i]
    <3>1. \A i \in DOMAIN slots : Held(messages', slots[i]) = Holds(messages', slots)[i]
      BY DEF Holds
    <3>2. Holds(messages', slots) = H
      BY <1>1, <1>3, HoldsStays
    <3> QED  BY <3>1, <3>2
  <2> HIDE DEF H, K
  <2>4. \A i \in DOMAIN slots : K[i] = H[i]
    BY <1>5, <2>2, <2>3
  <2>5. K[k] = ReachedIn(messages', q)
    BY <1>4, <1>5, <2>2 DEF Held
  <2> QED  BY <2>1, <2>4, <2>5
<1>9. /\ \A i \in DOMAIN slots : H[i] \subseteq old
      /\ \A e \in Device : B[e] \subseteq old /\ D[e] \subseteq old
      /\ T \subseteq old /\ gone \subseteq old /\ Len(messages) \in Nat
  BY AllPosted
<1>10. R \subseteq Device
  BY DEF Removing
<1>11. /\ \A e \in Device : Brings(messages', device')[e] = B[e]
       /\ Drops(device') = D /\ Removing(device') = R
  <2>1. \A e \in Device : device'[e] = device[e]
    BY <1>2
  <2>2. Brings(messages', device') = Brings(messages, device)
    BY <1>1, <2>1, AllRest
  <2> QED  BY <1>2, <2>2
<1>12. Brings(messages', device') = B
  BY <1>11 DEF Brings
<1>13. k \notin DOMAIN slots
  BY <1>3
<1> HIDE DEF H, K, B, D, R, T, gone, lost
<1>14. Disjoint(K[k], old)
  BY <1>1, <1>8, <1>9 DEF Disjoint
<1> HIDE DEF k, old
<1>15. Adds(H, B, D, R, T, gone, old, k, K, lost)
  BY <1>7, <1>8, <1>9, <1>10, <1>13, <1>14 DEF Adds
<1>16. Tidy(K, B, D, R, T, DrainSlot(drain), lost)
  BY <1>6, <1>15, TidyCopies
<1>17. Drops(device') = D /\ Removing(device') = R
  BY <1>11
<1> QED  BY <1>2, <1>12, <1>16, <1>17 DEF TidyState, K, T, lost

\* The old pointer may lose its messages from here on.
LEMMA SwitchPointerTidy ==
  ASSUME IInv, KInv, NEW d \in Device, SwitchPointer(d)
  PROVE  KInv'
<1>1. /\ drain' = [slot |-> mover.from, toSeq |-> HeadSeq, at |-> day, todo |-> None]
      /\ messages' = messages /\ slots' = slots /\ device' = device
      /\ crossed' = (crossed \/ slots[mover.from] # mover.read)
      /\ mover # None
  BY DEF SwitchPointer, discord
<1>2. drain = None
  BY <1>1 DEF IInv, MoveInv
<1> SUFFICES ASSUME ~crossed'  PROVE TidyState(messages, slots, device, drain')
  BY <1>1 DEF KInv
<1> DEFINE H == Holds(messages, slots)
           B == Brings(messages, device)
           D == Drops(device)
           R == Removing(device)
           gone == Gone(messages)
           y == DrainSlot(drain')
<1>3. Tidy(H, B, D, R, ToDrain(drain), DrainSlot(drain), gone)
  BY <1>1 DEF KInv, TidyState
<1>4. ToDrain(drain') = {}
  BY <1>1 DEF ToDrain
<1>5. DrainSlot(drain) = 0 /\ 0 \notin DOMAIN H
  BY <1>2 DEF DrainSlot, Holds, IInv, GoodSlots
<1>6. R \subseteq Device
  BY DEF Removing
<1> HIDE DEF H, B, D, R, gone, y
<1>7. Tidy(H, B, D, R, {}, y, gone)
  BY <1>3, <1>5, <1>6, TidyLess
<1> QED  BY <1>4, <1>7 DEF TidyState, H, B, D, R, gone, y

\* The drain lists and deletes what the drained pointer reaches.
LEMMA DrainTidy ==
  ASSUME IInv, KInv, DrainLists \/ DrainDeletes \/ DrainFinishes \/ DrainFails
  PROVE  KInv'
<1>1. drain # None /\ device' = device /\ crossed' = crossed
  BY DEF DrainLists, DrainDeletes, DrainFinishes, DrainFails
<1>2. /\ Chained(messages) /\ GoodSlots(messages, slots) /\ drain \in Drain
      /\ drain.slot \in DOMAIN slots
  BY <1>1 DEF IInv, DrainInv
<1> SUFFICES ASSUME ~crossed'  PROVE TidyState(messages', slots', device', drain')
  BY DEF KInv
<1> DEFINE H == Holds(messages, slots)
           B == Brings(messages, device)
           D == Drops(device)
           R == Removing(device)
           T == ToDrain(drain)
           x == DrainSlot(drain)
           gone == Gone(messages)
<1>3. Tidy(H, B, D, R, T, x, gone)
  BY <1>1 DEF KInv, TidyState
<1>4. R \subseteq Device /\ DOMAIN H = DOMAIN slots /\ x = drain.slot
  BY <1>1 DEF Removing, Holds, DrainSlot
<1>5. CASE DrainLists
  <2> DEFINE listed == slots[drain.slot]
             todo == IF listed = None THEN {} ELSE Reached(listed)
  <2>1. drain' = [drain EXCEPT !.todo = todo] /\ messages' = messages /\ slots' = slots
    BY <1>5 DEF DrainLists, discord
  <2>2. todo = H[x]
    <3>1. Reached(listed) = ReachedIn(messages, listed)
      BY DEF Reached, ChainSegments, ReachedIn, Walk, WalkIn
    <3>2. H[x] = Held(messages, listed)
      BY <1>2, <1>4 DEF Holds
    <3> HIDE DEF H, x, listed
    <3> QED  BY <3>1, <3>2 DEF Held
  <2> HIDE DEF todo
  <2>3. drain'.slot = drain.slot /\ drain'.todo = todo
    BY <1>2, <2>1 DEF Drain
  <2>4. drain' # None
    <3>1. T = {} /\ todo \subseteq Nat
      <4>1. \A i \in DOMAIN slots : H[i] \subseteq 1..Len(messages)
        BY AllPosted
      <4>2. todo \subseteq 1..Len(messages)
        BY <1>2, <1>4, <2>2, <4>1
      <4> QED  BY <1>5, <4>2 DEF ToDrain, DrainLists
    <3>2. drain' \in Drain
      BY <1>2, <2>1, <3>1 DEF Drain
    <3> QED  BY <3>2, NoneIsNoRecord
  <2>5. DrainSlot(drain') = x /\ ToDrain(drain') \in {{}, H[x]}
    BY <1>4, <2>2, <2>3, <2>4 DEF DrainSlot, ToDrain
  <2> HIDE DEF H, B, D, R, T, x, gone
  <2>6. Tidy(H, B, D, R, H[x], x, gone)
    BY <1>2, <1>3, <1>4, TidyLists
  <2>7. Tidy(H, B, D, R, {}, x, gone)
    BY <1>3, <1>4, TidyLess
  <2>8. Tidy(H, B, D, R, ToDrain(drain'), x, gone)
    BY <2>5, <2>6, <2>7
  <2> QED  BY <1>1, <2>1, <2>5, <2>8 DEF TidyState, H, B, D, R, gone
<1>6. CASE DrainDeletes
  <2>1. PICK m \in drain.todo : messages' = Without({m}) /\ drain' = [drain EXCEPT !.todo = drain.todo \ {m}]
    BY <1>6 DEF DrainDeletes
  <2>2. drain.todo # None /\ slots' = slots
    BY <1>6 DEF DrainDeletes
  <2>3. Chained(messages') /\ Grown(messages, messages') /\ Gone(messages') \subseteq Gone(messages) \cup {m}
    BY <1>2, <2>1, WithoutGrows, GoneAfter
  <2>4. drain'.slot = drain.slot /\ drain'.todo = drain.todo \ {m} /\ drain' \in Drain
    BY <1>2, <2>1, <2>2 DEF Drain
  <2>5. DrainSlot(drain') = x /\ ToDrain(drain') \subseteq T /\ m \in T
    <3>1. drain' # None
      BY <2>4, NoneIsNoRecord
    <3> QED  BY <1>1, <1>4, <2>1, <2>2, <2>4, <3>1 DEF DrainSlot, ToDrain
  <2>6. Holds(messages', slots') = H
    BY <1>2, <2>2, <2>3, HoldsStays
  <2>7. Brings(messages', device') = B
    <3>1. \A e \in Device : device'[e] = device[e]
      BY <1>1
    <3> QED  BY <2>3, <3>1, AllRest
  <2> DEFINE lost == Gone(messages')
  <2>8. lost \subseteq gone \cup {m}
    BY <2>3
  <2> HIDE DEF H, B, D, R, T, x, gone, lost
  <2>9. Tidy(H, B, D, R, T, x, lost)
    BY <1>3, <1>4, <2>5, <2>8, TidyDeletes
  <2>10. Tidy(H, B, D, R, ToDrain(drain'), x, lost)
    BY <1>4, <2>5, <2>9, TidyLess
  <2> QED  BY <1>1, <2>5, <2>6, <2>7, <2>10 DEF TidyState, D, R, lost
<1>7. CASE DrainFinishes
  <2>1. SetsSlot(slots, drain.slot, None, slots') /\ drain' = None /\ messages' = messages
    BY <1>7 DEF DrainFinishes, SetsSlot
  <2>2. DOMAIN slots' = DOMAIN slots /\ \A j \in DOMAIN slots : slots'[j] = IF j = drain.slot THEN None ELSE slots[j]
    BY <1>2, <2>1, SlotIsSet
  <2> DEFINE K == Holds(messages, slots')
  <2>3. /\ DOMAIN K = DOMAIN H
        /\ \A i \in DOMAIN H : K[i] \subseteq H[i] /\ (i = x => K[i] = {})
    <3>1. DOMAIN K = DOMAIN H
      BY <1>4, <2>2 DEF Holds
    <3>2. \A i \in DOMAIN slots : H[i] = Held(messages, slots[i]) /\ K[i] = Held(messages, slots'[i])
      BY <2>2 DEF Holds
    <3> HIDE DEF H, K, x
    <3>3. ASSUME NEW i \in DOMAIN slots  PROVE K[i] \subseteq H[i] /\ (i = x => K[i] = {})
      <4>1. CASE i = x
        BY <1>4, <2>2, <3>2, <4>1 DEF Held
      <4>2. CASE i # x
        BY <1>4, <2>2, <3>2, <4>2
      <4> QED  BY <4>1, <4>2
    <3> QED  BY <1>4, <3>1, <3>3
  <2>4. DrainSlot(drain') = 0 /\ ToDrain(drain') = {}
    BY <2>1 DEF DrainSlot, ToDrain
  <2> HIDE DEF H, B, D, R, T, x, gone, K
  <2>5. Tidy(K, B, D, R, {}, 0, gone)
    BY <1>3, <1>4, <2>3, TidyLess
  <2> QED  BY <1>1, <2>1, <2>4, <2>5 DEF TidyState, B, D, R, gone, K
<1>8. CASE DrainFails
  <2>1. drain' = [drain EXCEPT !.todo = None] /\ messages' = messages /\ slots' = slots
    BY <1>8 DEF DrainFails, discord
  <2>2. drain' \in Drain /\ drain'.slot = drain.slot /\ drain'.todo = None
    BY <1>2, <2>1 DEF Drain
  <2>3. DrainSlot(drain') = x /\ ToDrain(drain') = {}
    BY <1>4, <2>2, NoneIsNoRecord DEF DrainSlot, ToDrain
  <2> HIDE DEF H, B, D, R, T, x, gone
  <2>4. Tidy(H, B, D, R, {}, x, gone)
    BY <1>3, <1>4, TidyLess
  <2> QED  BY <1>1, <2>1, <2>3, <2>4 DEF TidyState, H, B, D, R, gone
<1> QED  BY <1>5, <1>6, <1>7, <1>8

\* Every step keeps the messages of each apart.
LEMMA NextKInv == IInv /\ KInv /\ [Next]_vars => KInv'
<1> SUFFICES ASSUME IInv, KInv, [Next]_vars  PROVE KInv'
  OBVIOUS
<1>1. CASE LogEntry \/ NextDay \/ ChangeBackends \/ \E d \in Device : Pull(d) \/ Reopen(d) \/ Fails(d)
  BY <1>1, WorldTidy
<1>2. ASSUME NEW d \in Device, Tick(d)  PROVE KInv'
  <2>1. CASE \E kind \in {"segment", "base"} : TickWrites(d, kind)
    BY <2>1, TickWritesTidy
  <2>2. CASE TickRefreshes(d)
    BY <2>2, TickRefreshesTidy
  <2>3. CASE TickPrunes(d)
    BY <2>3, TickPrunesTidy
  <2>4. CASE Checks(d)
    BY <2>4, ChecksTidy
  <2>5. CASE Lands(d)
    BY <2>5, LandsTidy
  <2>6. CASE Removes(d)
    BY <2>6, RemovesTidy
  <2>7. CASE Fails(d)
    BY <2>7, WorldTidy
  <2> QED  BY <1>2, <2>1, <2>2, <2>3, <2>4, <2>5, <2>6, <2>7 DEF Tick
<1>3. CASE Moving
  BY <1>3, RehomeTidy, SwitchPointerTidy, DrainTidy DEF Moving
<1>4. CASE UNCHANGED vars
  BY <1>4 DEF vars, world, discord, KInv
<1> QED  BY <1>1, <1>2, <1>3, <1>4 DEF Next

\* As long as no writer built on a pointer that had changed, no two pointers share
\* a message and nothing is deleted, or about to be, that the account's pointer or
\* a writer of it needs.
THEOREM MessagesAreApart == Spec => []KInv
<1>1. Init => IInv /\ KInv
  BY InitIInv, InitKInv
<1>2. IInv /\ KInv /\ [Next]_vars => (IInv /\ KInv)'
  BY NextIInv, NextKInv
<1> QED  BY <1>1, <1>2, PTL DEF Spec

\* Every state since the oldest kept base comes back from the account's pointer,
\* through prunes, moves, drains and calls that fail halfway.
THEOREM SinceOldest == Spec => []RestoresSinceOldest
<1>1. IInv /\ KInv => RestoresSinceOldest
  <2> SUFFICES ASSUME IInv, KInv, ~crossed, NEW s \in Oldest(Current)..Current.toSeq
               PROVE  Restores(Current, s)
    BY DEF RestoresSinceOldest
  <2>1. Chained(messages) /\ Sound(messages, Current) /\ vault.pointer \in DOMAIN slots /\ Current # None
    BY DEF IInv, VaultInv, GoodSlots, Current
  <2>2. vault.pointer # DrainSlot(drain)
    <3>1. CASE drain = None
      BY <2>1, <3>1 DEF DrainSlot, IInv, GoodSlots
    <3>2. CASE drain # None
      BY <3>2 DEF DrainSlot, IInv, DrainInv
    <3> QED  BY <3>1, <3>2
  <2> DEFINE H == Holds(messages, slots)
  <2>3. vault.pointer \in DOMAIN H /\ H[vault.pointer] = ReachedIn(messages, Current)
    BY <2>1 DEF Holds, Held, Current
  <2>4. \A i \in DOMAIN H : i # DrainSlot(drain) => Disjoint(H[i], Gone(messages))
    BY DEF KInv, TidyState, Tidy
  <2> HIDE DEF H
  <2>5. Disjoint(ReachedIn(messages, Current), Gone(messages))
    BY <2>2, <2>3, <2>4
  <2>6. ReachedIn(messages, Current) \subseteq DOMAIN messages
    BY <2>1, ReachedAreMessages
  <2>7. \A m \in ReachedIn(messages, Current) : messages[m].live
    BY <2>5, <2>6 DEF Disjoint, Gone
  <2>8. Oldest(Current) \in Nat /\ s \in Nat /\ Oldest(Current) <= s
    <3>1. Oldest(Current) \in Nat
      <4>1. CASE Bases(Current) = {}
        BY <4>1 DEF Oldest
      <4>2. CASE Bases(Current) # {}
        <5>1. \E b \in Bases(Current) : b.head = Oldest(Current)
          BY <2>1, <4>2, HeadsOf DEF Oldest
        <5> QED  BY <2>1, <5>1, ReachedAreMessages
      <4> QED  BY <4>1, <4>2
    <3>2. Current.toSeq \in Nat
      BY <2>1, ReachedAreMessages
    <3> QED  BY <3>1, <3>2
  <2> QED  BY <2>1, <2>7, <2>8, WholeRestores
<1>2. Init => IInv /\ KInv
  BY InitIInv, InitKInv
<1>3. IInv /\ KInv /\ [Next]_vars => (IInv /\ KInv)'
  BY NextIInv, NextKInv
<1> QED  BY <1>1, <1>2, <1>3, PTL DEF Spec

-----------------------------------------------------------------------------
(* What retention keeps of the past                                        *)

\* The numbers of a set above one.
Above(T, g) == {h \in T : h > g}

\* The quotient lies below, by less than one.
LEMMA QuotientIs ==
  ASSUME NEW x \in Int, NEW n \in Nat \ {0}
  PROVE  x \div n \in Int /\ n * (x \div n) <= x /\ x < n * (x \div n) + n
  OBVIOUS

\* A multiple that is greater is greater by one at least.
LEMMA MultiplesApart ==
  ASSUME NEW n \in Nat \ {0}, NEW p \in Int, NEW q \in Int, q + 1 <= p
  PROVE  n * q + n <= n * p
  OBVIOUS

\* Weeks follow the days.
LEMMA WeekGrows ==
  ASSUME NEW x \in Int, NEW y \in Int, x <= y
  PROVE  Week(x) \in Int /\ Week(y) \in Int /\ Week(x) <= Week(y)
<1> DEFINE p == (x + 3) \div DaysPerWeek
           q == (y + 3) \div DaysPerWeek
<1>1. DaysPerWeek \in Nat \ {0} /\ x + 3 \in Int /\ y + 3 \in Int
  BY ConstantsAreTyped
<1>2. /\ p \in Int /\ DaysPerWeek * p <= x + 3
      /\ q \in Int /\ y + 3 < DaysPerWeek * q + DaysPerWeek
  BY <1>1, QuotientIs
<1> HIDE DEF p, q
<1>3. p <= q
  <2>1. SUFFICES ASSUME q + 1 <= p  PROVE FALSE
    BY <1>2
  <2>2. DaysPerWeek * q + DaysPerWeek <= DaysPerWeek * p
    BY <1>1, <1>2, <2>1, MultiplesApart
  <2> DEFINE u == DaysPerWeek * q + DaysPerWeek
             v == DaysPerWeek * p
  <2>3. u \in Int /\ v \in Int /\ u <= v /\ v <= x + 3 /\ y + 3 < u
    BY <1>1, <1>2, <2>2
  <2> HIDE DEF u, v
  <2> QED  BY <2>3
<1> QED  BY <1>2, <1>3 DEF Week, p, q

\* A day has a week that is a number.
LEMMA WeekIsNumber ==
  ASSUME NEW x \in Nat
  PROVE  Week(x) \in Nat
<1>1. Week(0) \in Int /\ Week(x) \in Int /\ Week(0) <= Week(x)
  BY WeekGrows
<1>2. 0 <= Week(0)
  <2> DEFINE p == (0 + 3) \div DaysPerWeek
  <2>1. DaysPerWeek \in Nat \ {0} /\ 0 + 3 \in Int /\ 0 + 3 = 3
    BY ConstantsAreTyped
  <2>2. p \in Int /\ 0 + 3 < DaysPerWeek * p + DaysPerWeek
    BY <2>1, QuotientIs
  <2> HIDE DEF p
  <2>3. 0 <= p
    <3>1. SUFFICES ASSUME p + 1 <= 0  PROVE FALSE
      BY <2>2
    <3>2. DaysPerWeek * p + DaysPerWeek <= DaysPerWeek * 0
      BY <2>1, <2>2, <3>1, MultiplesApart
    <3> DEFINE u == DaysPerWeek * p + DaysPerWeek
    <3>3. u \in Int /\ u <= 0 /\ 0 + 3 < u
      BY <2>1, <2>2, <3>2
    <3> HIDE DEF u
    <3> QED  BY <3>3
  <2> QED  BY <2>3 DEF Week, p
<1> QED  BY <1>1, <1>2

\* A set of numbers with n above one of them has a member with fewer above it and
\* so far from the top that n fit.
LEMMA LeastOfTheLast ==
  ASSUME NEW N \in Nat, NEW T \in SUBSET (0..N), NEW n \in Nat \ {0}, NEW g \in T,
         ~(Cardinality(Above(T, g)) < n)
  PROVE  /\ g + n <= N
         /\ \E m \in T : Cardinality(Above(T, m)) < n /\ m + n <= N + 1
<1>1. \A h \in T : /\ h \in Nat /\ h <= N /\ IsFiniteSet(Above(T, h)) /\ Cardinality(Above(T, h)) \in Nat
                   /\ Cardinality(Above(T, h)) <= N - h
  <2>1. ASSUME NEW h \in T
        PROVE  /\ h \in Nat /\ h <= N /\ IsFiniteSet(Above(T, h)) /\ Cardinality(Above(T, h)) \in Nat
               /\ Cardinality(Above(T, h)) <= N - h
    <3>1. h \in Nat /\ h <= N /\ h + 1 \in Int /\ N \in Int
      OBVIOUS
    <3>2. IsFiniteSet((h + 1)..N) /\ Cardinality((h + 1)..N) = IF h + 1 > N THEN 0 ELSE N - (h + 1) + 1
      BY <3>1, FS_Interval
    <3>3. Above(T, h) \in SUBSET ((h + 1)..N)
      <4>1. ASSUME NEW x \in Above(T, h)  PROVE x \in (h + 1)..N
        <5>1. x \in T /\ x > h
          BY DEF Above
        <5>2. x \in 0..N
          BY <5>1
        <5> QED  BY <3>1, <5>1, <5>2
      <4> QED  BY <4>1
    <3>4. IsFiniteSet(Above(T, h)) /\ Cardinality(Above(T, h)) <= Cardinality((h + 1)..N)
      BY <3>2, <3>3, FS_Subset
    <3>5. Cardinality(Above(T, h)) \in Nat
      BY <3>4, FS_CardinalityType
    <3>6. Cardinality((h + 1)..N) = N - h
      BY <3>1, <3>2
    <3> QED  BY <3>1, <3>4, <3>5, <3>6
  <2> QED  BY <2>1
<1>2. g + n <= N
  BY <1>1
<1> DEFINE Full == {h \in T : ~(Cardinality(Above(T, h)) < n)}
<1>3. PICK w \in Full : \A h \in Full : h <= w
  <2>1. Full \in SUBSET (0..N) /\ Full # {}
    OBVIOUS
  <2> HIDE DEF Full
  <2> QED  BY <2>1, GreatestOf
<1>4. w \in T /\ ~(Cardinality(Above(T, w)) < n) /\ w \in Nat /\ w <= N
  BY <1>1
<1>5. Above(T, w) \in SUBSET (0..N) /\ Above(T, w) # {}
  <2>1. Above(T, w) # {}
    <3>1. SUFFICES ASSUME Above(T, w) = {}  PROVE FALSE
      OBVIOUS
    <3>2. Cardinality(Above(T, w)) = 0
      BY <3>1, FS_EmptySet
    <3> QED  BY <1>4, <3>2
  <2> QED  BY <2>1 DEF Above
<1>6. PICK m \in Above(T, w) : \A h \in Above(T, w) : m <= h
  BY <1>5, LeastOf
<1>7. m \in T /\ m \in Nat /\ m > w /\ m <= N
  BY <1>1, <1>6 DEF Above
<1>8. Cardinality(Above(T, m)) < n
  BY <1>3, <1>4, <1>7
<1>9. m + n <= N + 1
  <2>1. Above(T, w) \in SUBSET (m..N)
    <3>1. ASSUME NEW h \in Above(T, w)  PROVE h \in m..N
      BY <1>1, <1>6, <1>7 DEF Above
    <3> QED  BY <3>1
  <2>2. IsFiniteSet(m..N) /\ Cardinality(m..N) = IF m > N THEN 0 ELSE N - m + 1
    <3>1. m \in Int /\ N \in Int
      BY <1>7
    <3> QED  BY <3>1, FS_Interval
  <2>3. Cardinality(Above(T, w)) <= Cardinality(m..N) /\ Cardinality(Above(T, w)) \in Nat
    BY <1>1, <1>4, <2>1, <2>2, FS_Subset
  <2>4. Cardinality(m..N) = N - m + 1
    BY <1>7, <2>2
  <2> QED  BY <1>4, <1>7, <2>3, <2>4
<1> QED  BY <1>2, <1>7, <1>8, <1>9

\* With the number, what lies above it grows less.
LEMMA LessAbove ==
  ASSUME NEW N \in Nat, NEW T \in SUBSET (0..N), NEW g \in T, NEW h \in T, g <= h
  PROVE  /\ Cardinality(Above(T, g)) \in Nat /\ Cardinality(Above(T, h)) \in Nat
         /\ Cardinality(Above(T, h)) <= Cardinality(Above(T, g))
<1>1. IsFiniteSet(0..N)
  BY FS_Interval
<1>2. Above(T, g) \in SUBSET (0..N) /\ Above(T, h) \in SUBSET Above(T, g)
  <2>1. g \in Nat /\ h \in Nat
    OBVIOUS
  <2>2. ASSUME NEW x \in T, x > h  PROVE x > g
    <3>1. x \in Nat
      OBVIOUS
    <3> QED  BY <2>1, <2>2, <3>1
  <2>3. Above(T, h) \subseteq Above(T, g)
    BY <2>2 DEF Above
  <2>4. Above(T, g) \subseteq 0..N
    BY DEF Above
  <2> QED  BY <2>3, <2>4
<1>3. IsFiniteSet(Above(T, g))
  BY <1>1, <1>2, FS_Subset
<1>4. IsFiniteSet(Above(T, h)) /\ Cardinality(Above(T, h)) <= Cardinality(Above(T, g))
  BY <1>2, <1>3, FS_Subset
<1> QED  BY <1>3, <1>4, FS_CardinalityType

\* Bases, the later of them not of an earlier day.
InOrder(S) ==
  /\ \A b \in S : b.head \in 0..MaxHead /\ b.day \in Nat
  /\ \A b, c \in S : b.head <= c.head => b.day <= c.day

DaysOf(S) == {b.day : b \in S}
WeeksOf(S) == {Week(b.day) : b \in S}
OfDay(S, g) == {b \in S : b.day = g}
OfWeek(S, g) == {b \in S : Week(b.day) = g}

\* Two groups of bases, numbered in the order of the bases.
NumberedInOrder(G, H, g, h) ==
  /\ G # {} /\ H # {} /\ \A b \in G \cup H : b.head \in 0..MaxHead
  /\ \A b \in G, c \in H : (b.head <= c.head => g <= h) /\ (c.head <= b.head => h <= g)
  /\ g = h => G = H

\* The group with the newer base has the higher number.
LEMMA NewerGroup ==
  ASSUME NEW G, NEW H, NEW g \in Nat, NEW h \in Nat, NumberedInOrder(G, H, g, h)
  PROVE  Newest(H).head > Newest(G).head <=> h > g
<1>1. G # {} /\ H # {} /\ \A b \in G \cup H : b.head \in 0..MaxHead
  BY DEF NumberedInOrder
<1>2. Newest(G) \in G
  <2>1. G # {} /\ \A b \in G : b.head \in 0..MaxHead
    BY <1>1
  <2> QED  BY <2>1, SomeNewest
<1>3. Newest(H) \in H
  <2>1. H # {} /\ \A b \in H : b.head \in 0..MaxHead
    BY <1>1
  <2> QED  BY <2>1, SomeNewest
<1>4. /\ Newest(G).head \in Int /\ Newest(H).head \in Int
      /\ Newest(G).head <= Newest(H).head => g <= h
      /\ Newest(H).head <= Newest(G).head => h <= g
      /\ g = h => Newest(G).head = Newest(H).head
  BY <1>1, <1>2, <1>3 DEF NumberedInOrder
<1> DEFINE x == Newest(G).head
           y == Newest(H).head
<1>5. x \in Int /\ y \in Int /\ (x <= y => g <= h) /\ (y <= x => h <= g) /\ (g = h => x = y)
  BY <1>4
<1> HIDE DEF x, y
<1>6. y > x <=> h > g
  BY <1>5
<1> QED  BY <1>6 DEF x, y

\* The recent days are those with few days above them.
LEMMA RecentDaysAre ==
  ASSUME NEW S, InOrder(S), NEW n
  PROVE  LET dayOf(b) == b.day
         IN  Recent(S, dayOf, n) = {OfDay(S, g) : g \in {h \in DaysOf(S) : Cardinality(Above(DaysOf(S), h)) < n}}
<1> DEFINE dayOf(b) == b.day
           later(g) == {h \in DaysOf(S) : Newest(OfDay(S, h)).head > Newest(OfDay(S, g)).head}
<1>1. Recent(S, dayOf, n) = {OfDay(S, g) : g \in {h \in DaysOf(S) : Cardinality(later(h)) < n}}
  BY DEF Recent, DaysOf, OfDay
<1>2. ASSUME NEW g \in DaysOf(S), NEW h \in DaysOf(S)
      PROVE  Newest(OfDay(S, h)).head > Newest(OfDay(S, g)).head <=> h > g
  <2>1. g \in Nat /\ h \in Nat
    BY DEF DaysOf, InOrder
  <2>2. NumberedInOrder(OfDay(S, g), OfDay(S, h), g, h)
    <3>1. OfDay(S, g) # {} /\ OfDay(S, h) # {}
      BY DEF DaysOf, OfDay
    <3>2. \A b \in OfDay(S, g) \cup OfDay(S, h) : b \in S /\ b.head \in 0..MaxHead
      BY DEF OfDay, InOrder
    <3>3. ASSUME NEW b \in OfDay(S, g), NEW c \in OfDay(S, h)
          PROVE  (b.head <= c.head => g <= h) /\ (c.head <= b.head => h <= g)
      <4>1. b \in S /\ c \in S /\ b.day = g /\ c.day = h
        BY DEF OfDay
      <4> QED  BY <4>1 DEF InOrder
    <3> QED  BY <3>1, <3>2, <3>3 DEF NumberedInOrder
  <2> QED  BY <2>1, <2>2, NewerGroup
<1>3. ASSUME NEW g \in DaysOf(S)  PROVE later(g) = Above(DaysOf(S), g)
  BY <1>2 DEF Above
<1> HIDE DEF later
<1>4. {h \in DaysOf(S) : Cardinality(later(h)) < n} = {h \in DaysOf(S) : Cardinality(Above(DaysOf(S), h)) < n}
  BY <1>3
<1> QED  BY <1>1, <1>4

\* So are the recent weeks.
LEMMA RecentWeeksAre ==
  ASSUME NEW S, InOrder(S), NEW n
  PROVE  LET weekOf(b) == Week(b.day)
         IN  Recent(S, weekOf, n) = {OfWeek(S, g) : g \in {h \in WeeksOf(S) : Cardinality(Above(WeeksOf(S), h)) < n}}
<1> DEFINE weekOf(b) == Week(b.day)
           later(g) == {h \in WeeksOf(S) : Newest(OfWeek(S, h)).head > Newest(OfWeek(S, g)).head}
<1>1. Recent(S, weekOf, n) = {OfWeek(S, g) : g \in {h \in WeeksOf(S) : Cardinality(later(h)) < n}}
  BY DEF Recent, WeeksOf, OfWeek
<1>2. ASSUME NEW g \in WeeksOf(S), NEW h \in WeeksOf(S)
      PROVE  Newest(OfWeek(S, h)).head > Newest(OfWeek(S, g)).head <=> h > g
  <2>1. g \in Nat /\ h \in Nat
    BY WeekIsNumber DEF WeeksOf, InOrder
  <2>2. NumberedInOrder(OfWeek(S, g), OfWeek(S, h), g, h)
    <3>1. OfWeek(S, g) # {} /\ OfWeek(S, h) # {}
      BY DEF WeeksOf, OfWeek
    <3>2. \A b \in OfWeek(S, g) \cup OfWeek(S, h) : b \in S /\ b.head \in 0..MaxHead
      BY DEF OfWeek, InOrder
    <3>3. ASSUME NEW b \in OfWeek(S, g), NEW c \in OfWeek(S, h)
          PROVE  (b.head <= c.head => g <= h) /\ (c.head <= b.head => h <= g)
      <4>1. b \in S /\ c \in S /\ Week(b.day) = g /\ Week(c.day) = h
        BY DEF OfWeek
      <4>2. /\ b.day \in Int /\ c.day \in Int
            /\ b.head <= c.head => b.day <= c.day
            /\ c.head <= b.head => c.day <= b.day
        BY <4>1 DEF InOrder
      <4>3. (b.day <= c.day => g <= h) /\ (c.day <= b.day => h <= g)
        BY <4>1, <4>2, WeekGrows
      <4> QED  BY <4>2, <4>3
    <3> QED  BY <3>1, <3>2, <3>3 DEF NumberedInOrder
  <2> QED  BY <2>1, <2>2, NewerGroup
<1>3. ASSUME NEW g \in WeeksOf(S)  PROVE later(g) = Above(WeeksOf(S), g)
  BY <1>2 DEF Above
<1> HIDE DEF later
<1>4. {h \in WeeksOf(S) : Cardinality(later(h)) < n} = {h \in WeeksOf(S) : Cardinality(Above(WeeksOf(S), h)) < n}
  BY <1>3
<1> QED  BY <1>1, <1>4

\* Before them, the daily bases.
DailyOf(S) == {Newest(OfDay(S, g)) : g \in {h \in DaysOf(S) : Cardinality(Above(DaysOf(S), h)) < DailyBases}}
BeforeOf(S) == {b \in S : \A c \in DailyOf(S) : b.day < c.day}
WeeklyOf(S) ==
  {First(OfWeek(BeforeOf(S), g)) :
     g \in {h \in WeeksOf(BeforeOf(S)) : Cardinality(Above(WeeksOf(BeforeOf(S)), h)) < WeeklyBases}}

\* What is retained, of bases in order.
LEMMA RetainedAre ==
  ASSUME NEW S, InOrder(S)
  PROVE  Retained(S) = DailyOf(S) \cup WeeklyOf(S)
<1> DEFINE dayOf(b) == b.day
           weekOf(b) == Week(b.day)
           daily == {Newest(g) : g \in Recent(S, dayOf, DailyBases)}
           before == {b \in S : \A c \in daily : b.day < c.day}
           weekly == {First(g) : g \in Recent(before, weekOf, WeeklyBases)}
<1>1. Retained(S) = daily \cup weekly
  BY DEF Retained
<1>2. daily = DailyOf(S)
  <2>1. Recent(S, dayOf, DailyBases)
          = {OfDay(S, g) : g \in {h \in DaysOf(S) : Cardinality(Above(DaysOf(S), h)) < DailyBases}}
    BY RecentDaysAre
  <2> QED  BY <2>1 DEF DailyOf
<1> HIDE DEF daily
<1>3. before = BeforeOf(S)
  BY <1>2 DEF BeforeOf
<1>4. InOrder(BeforeOf(S))
  BY DEF InOrder, BeforeOf
<1>5. Recent(BeforeOf(S), weekOf, WeeklyBases)
        = {OfWeek(BeforeOf(S), g) :
             g \in {h \in WeeksOf(BeforeOf(S)) : Cardinality(Above(WeeksOf(BeforeOf(S)), h)) < WeeklyBases}}
  BY <1>4, RecentWeeksAre
<1>6. weekly = WeeklyOf(S)
  <2>1. weekly = {First(g) : g \in Recent(BeforeOf(S), weekOf, WeeklyBases)}
    BY <1>3
  <2> QED  BY <1>5, <2>1 DEF WeeklyOf
<1> QED  BY <1>1, <1>2, <1>6

\* The first week that retention promises on a day.
Promised(today) == Week(today - DailyBases) - WeeklyBases + 1

\* The newest of a day is of that day, and the oldest of a week is of that week.
LEMMA OneOfItsGroup ==
  ASSUME NEW S, InOrder(S), NEW b \in S
  PROVE  /\ Newest(OfDay(S, b.day)) \in S /\ Newest(OfDay(S, b.day)).day = b.day
         /\ First(OfWeek(S, Week(b.day))) \in S /\ First(OfWeek(S, Week(b.day))).head <= b.head
         /\ Week(First(OfWeek(S, Week(b.day))).day) = Week(b.day)
<1>1. OfDay(S, b.day) # {} /\ \A c \in OfDay(S, b.day) : c \in S /\ c.day = b.day /\ c.head \in 0..MaxHead
  BY DEF OfDay, InOrder
<1>2. /\ b \in OfWeek(S, Week(b.day))
      /\ \A c \in OfWeek(S, Week(b.day)) : c \in S /\ Week(c.day) = Week(b.day) /\ c.head \in 0..MaxHead
  BY DEF OfWeek, InOrder
<1>3. Newest(OfDay(S, b.day)) \in OfDay(S, b.day)
  BY <1>1, SomeNewest
<1> DEFINE week == OfWeek(S, Week(b.day))
<1>4. First(week) \in week /\ First(week).head <= b.head
  <2>1. week # {} /\ b \in week /\ \A c \in week : c.head \in 0..MaxHead
    BY <1>2
  <2> HIDE DEF week
  <2> QED  BY <2>1, SomeNewest
<1> QED  BY <1>1, <1>2, <1>3, <1>4

\* A base whose day is not among the daily ones is before all of them, by as many
\* days as there are.
LEMMA BeforeTheDaily ==
  ASSUME NEW S, InOrder(S), NEW today \in Nat, \A c \in S : c.day <= today,
         NEW b \in S, ~(Cardinality(Above(DaysOf(S), b.day)) < DailyBases)
  PROVE  b \in BeforeOf(S) /\ b.day + DailyBases <= today
<1>1. DailyBases \in Nat \ {0} /\ \A c \in S : c.day \in Nat
  BY ConstantsAreTyped DEF InOrder
<1>2. DaysOf(S) \in SUBSET (0..today) /\ b.day \in DaysOf(S)
  <2>1. ASSUME NEW c \in S  PROVE c.day \in 0..today
    BY <1>1
  <2> QED  BY <2>1 DEF DaysOf
<1>3. b.day + DailyBases <= today
  BY <1>1, <1>2, LeastOfTheLast
<1>4. ASSUME NEW c \in DailyOf(S)  PROVE b.day < c.day
  <2>1. PICK g \in DaysOf(S) : c = Newest(OfDay(S, g)) /\ Cardinality(Above(DaysOf(S), g)) < DailyBases
    BY DEF DailyOf
  <2>2. PICK a \in S : g = a.day
    BY DEF DaysOf
  <2>3. c.day = g
    BY <2>1, <2>2, OneOfItsGroup
  <2>4. g \in Nat /\ b.day \in Nat
    BY <1>1, <2>2
  <2>5. SUFFICES ASSUME g <= b.day  PROVE FALSE
    BY <2>3, <2>4
  <2>6. /\ Cardinality(Above(DaysOf(S), b.day)) <= Cardinality(Above(DaysOf(S), g))
        /\ Cardinality(Above(DaysOf(S), b.day)) \in Nat /\ Cardinality(Above(DaysOf(S), g)) \in Nat
    BY <1>2, <2>5, LessAbove
  <2> QED  BY <1>1, <2>1, <2>6
<1> QED  BY <1>3, <1>4 DEF BeforeOf

\* Of every base, a prune keeps one that is not later, or one that reaches the
\* promised weeks.
LEMMA RetainedReachBack ==
  ASSUME NEW S, InOrder(S), NEW today \in Nat, \A c \in S : c.day <= today, NEW b \in S
  PROVE  \/ \E c \in Retained(S) : c.day <= b.day
         \/ \E c \in Retained(S) : Week(c.day) <= Promised(today)
<1>1. /\ DailyBases \in Nat \ {0} /\ WeeklyBases \in Nat \ {0}
      /\ Retained(S) = DailyOf(S) \cup WeeklyOf(S)
      /\ \A c \in S : c.day \in Nat
  BY ConstantsAreTyped, RetainedAre DEF InOrder
<1>2. CASE Cardinality(Above(DaysOf(S), b.day)) < DailyBases
  <2>1. b.day \in DaysOf(S)
    BY DEF DaysOf
  <2>2. Newest(OfDay(S, b.day)) \in Retained(S)
    BY <1>1, <1>2, <2>1 DEF DailyOf
  <2>3. Newest(OfDay(S, b.day)).day <= b.day
    BY <1>1, OneOfItsGroup
  <2> QED  BY <2>2, <2>3
<1>3. CASE ~(Cardinality(Above(DaysOf(S), b.day)) < DailyBases)
  <2> DEFINE B == BeforeOf(S)
             W == WeeksOf(B)
             top == Week(today - DailyBases)
  <2>1. b \in B /\ InOrder(B) /\ B \subseteq S
    BY <1>3, BeforeTheDaily DEF InOrder, BeforeOf
  <2>2. ASSUME NEW c \in B  PROVE c.day + DailyBases <= today
    <3>1. c \in S /\ \A e \in DailyOf(S) : c.day < e.day
      BY DEF BeforeOf
    <3>2. c.day \in DaysOf(S) /\ c.day \in Nat
      BY <1>1, <3>1 DEF DaysOf
    <3>3. ~(Cardinality(Above(DaysOf(S), c.day)) < DailyBases)
      <4>1. SUFFICES ASSUME Cardinality(Above(DaysOf(S), c.day)) < DailyBases  PROVE FALSE
        OBVIOUS
      <4>2. Newest(OfDay(S, c.day)) \in DailyOf(S)
        BY <3>2, <4>1 DEF DailyOf
      <4>3. Newest(OfDay(S, c.day)).day = c.day
        BY <3>1, OneOfItsGroup
      <4>4. c.day < c.day
        BY <3>1, <4>2, <4>3
      <4> QED  BY <3>2, <4>4
    <3> QED  BY <3>1, <3>3, BeforeTheDaily
  <2>3. today - DailyBases \in Nat /\ top \in Nat
    <3>1. b.day \in Nat /\ b.day + DailyBases <= today
      BY <1>1, <2>1, <2>2
    <3>2. today - DailyBases \in Nat
      BY <1>1, <3>1
    <3> QED  BY <3>2, WeekIsNumber
  <2>4. W \in SUBSET (0..top) /\ Week(b.day) \in W
    <3>1. ASSUME NEW c \in B  PROVE Week(c.day) \in 0..top
      <4>1. c.day \in Nat /\ c.day <= today - DailyBases
        BY <1>1, <2>1, <2>2
      <4>2. Week(c.day) \in Nat /\ Week(c.day) <= top
        BY <2>3, <4>1, WeekIsNumber, WeekGrows
      <4> QED  BY <2>3, <4>2
    <3> HIDE DEF B, top
    <3> QED  BY <2>1, <3>1 DEF WeeksOf
  <2>5. ASSUME NEW c \in B, Cardinality(Above(W, Week(c.day))) < WeeklyBases
        PROVE  /\ First(OfWeek(B, Week(c.day))) \in Retained(S)
               /\ First(OfWeek(B, Week(c.day))).day <= c.day
               /\ Week(First(OfWeek(B, Week(c.day))).day) = Week(c.day)
    <3>1. Week(c.day) \in W
      BY DEF WeeksOf
    <3>2. First(OfWeek(B, Week(c.day))) \in WeeklyOf(S)
      BY <2>5, <3>1 DEF WeeklyOf
    <3> HIDE DEF B
    <3>3. /\ First(OfWeek(B, Week(c.day))) \in B /\ First(OfWeek(B, Week(c.day))).head <= c.head
          /\ Week(First(OfWeek(B, Week(c.day))).day) = Week(c.day)
      BY <2>1, OneOfItsGroup
    <3>4. First(OfWeek(B, Week(c.day))).day <= c.day
      BY <2>1, <3>3 DEF InOrder
    <3> QED  BY <1>1, <3>2, <3>3, <3>4
  <2> HIDE DEF B
  <2>6. CASE Cardinality(Above(W, Week(b.day))) < WeeklyBases
    BY <2>1, <2>5, <2>6
  <2>7. CASE ~(Cardinality(Above(W, Week(b.day))) < WeeklyBases)
    <3>1. PICK m \in W : Cardinality(Above(W, m)) < WeeklyBases /\ m + WeeklyBases <= top + 1
      <4> HIDE DEF W, top
      <4> QED  BY <1>1, <2>3, <2>4, <2>7, LeastOfTheLast
    <3>2. PICK c \in B : m = Week(c.day)
      BY DEF WeeksOf
    <3>3. First(OfWeek(B, m)) \in Retained(S) /\ Week(First(OfWeek(B, m)).day) = m
      BY <2>5, <3>1, <3>2
    <3>4. m <= Promised(today)
      <4>1. m \in Int /\ top \in Int
        BY <2>3, <2>4
      <4>2. Promised(today) = top - WeeklyBases + 1
        BY DEF Promised
      <4> HIDE DEF top
      <4> QED  BY <1>1, <3>1, <4>1, <4>2
    <3> QED  BY <3>3, <3>4
  <2> QED  BY <2>6, <2>7
<1> QED  BY <1>2, <1>3

-----------------------------------------------------------------------------
(* How far back the pointers reach                                         *)

\* A base holds entries that were made by its day, which has come, and a later
\* base is not of an earlier day.
Dated(lg, today, p) ==
  /\ \A b \in Bases(p) : /\ b \in Ref /\ b.head <= Len(lg) /\ b.day <= today
                         /\ \A s \in 1..b.head : lg[s] <= b.day
  /\ \A b, c \in Bases(p) : b.head <= c.head => b.day <= c.day

\* The bases of a pointer reach back to a day, or to the promised weeks.
ReachesBack(today, p, x) == \E b \in Bases(p) : b.day <= x \/ Week(b.day) <= Promised(today)

\* A pointer reaches back as far as the one before, or to the promised weeks.
AsFarBack(today, p, q) ==
  \/ \E c \in Bases(q) : Week(c.day) <= Promised(today)
  \/ \A b \in Bases(p) : \E c \in Bases(q) : c.day <= b.day

\* What a device knows and writes, whether or not the write is going to land.
GoodDates(lg, today, x) ==
  /\ x.known # None => Dated(lg, today, x.known)
  /\ x.op # None => /\ Dated(lg, today, x.op.from) /\ Dated(lg, today, x.op.next)
                    /\ AsFarBack(today, x.op.from, x.op.next)

LogDates(lg, today) == \A s \in DOMAIN lg : lg[s] <= today

DatesInv ==
  /\ LogDates(log, day)
  /\ \A i \in DOMAIN slots : slots[i] # None => Dated(log, day, slots[i])
  /\ \A d \in Device : GoodDates(log, day, device[d])

\* Nobody writes the new pointer before the vault names it.
CopyInv ==
  mover # None =>
    /\ \A d \in Device : device[d].slot # mover.to
    /\ mover.read # None /\ AsFarBack(day, mover.read, slots[mover.to])

AnchorInv ==
  /\ anchor \in Nat \cup {None}
  /\ ~crossed /\ anchor # None => ReachesBack(day, Current, anchor)

\* All of it.
WInv == DatesInv /\ CopyInv /\ AnchorInv

\* The promised weeks move on with the days.
LEMMA PromisedGrows ==
  ASSUME NEW x \in Nat, NEW y \in Nat, x <= y
  PROVE  Promised(x) \in Int /\ Promised(y) \in Int /\ Promised(x) <= Promised(y)
<1>1. DailyBases \in Nat /\ WeeklyBases \in Nat
  BY ConstantsAreTyped
<1>2. x - DailyBases \in Int /\ y - DailyBases \in Int /\ x - DailyBases <= y - DailyBases
  BY <1>1
<1>3. /\ Week(x - DailyBases) \in Int /\ Week(y - DailyBases) \in Int
      /\ Week(x - DailyBases) <= Week(y - DailyBases)
  BY <1>2, WeekGrows
<1> QED  BY <1>1, <1>3 DEF Promised

\* A longer log, on a later day.
Later(lg, today, lh, then) ==
  /\ Len(lg) \in Nat /\ Len(lh) \in Nat /\ Len(lg) <= Len(lh)
  /\ \A s \in 1..Len(lg) : lh[s] = lg[s]
  /\ today \in Nat /\ then \in Nat /\ today <= then

\* A pointer keeps its dates.
LEMMA DatedLater ==
  ASSUME NEW lg, NEW today, NEW lh, NEW then, Later(lg, today, lh, then), NEW p, Dated(lg, today, p)
  PROVE  Dated(lh, then, p)
<1>1. /\ Len(lg) \in Nat /\ Len(lh) \in Nat /\ Len(lg) <= Len(lh) /\ today \in Nat /\ then \in Nat /\ today <= then
      /\ \A s \in 1..Len(lg) : lh[s] = lg[s]
  BY DEF Later
<1>2. ASSUME NEW b \in Bases(p)
      PROVE  b \in Ref /\ b.head <= Len(lh) /\ b.day <= then /\ \A s \in 1..b.head : lh[s] <= b.day
  <2>1. b \in Ref /\ b.head <= Len(lg) /\ b.day <= today /\ \A s \in 1..b.head : lg[s] <= b.day
    BY DEF Dated
  <2>2. b.head \in Nat /\ b.day \in Nat
    BY <2>1 DEF Ref
  <2>3. ASSUME NEW s \in 1..b.head  PROVE lh[s] <= b.day
    <3>1. s \in 1..Len(lg)
      BY <1>1, <2>1, <2>2
    <3> QED  BY <1>1, <2>1, <3>1
  <2> QED  BY <1>1, <2>1, <2>2, <2>3
<1> QED  BY <1>2 DEF Dated

\* A pointer that reached back as far as another still does.
LEMMA FarLater ==
  ASSUME NEW lg, NEW today, NEW lh, NEW then, Later(lg, today, lh, then),
         NEW p, NEW q \in Pointer, AsFarBack(today, p, q)
  PROVE  AsFarBack(then, p, q)
<1>1. today \in Nat /\ then \in Nat /\ today <= then
  BY DEF Later
<1>2. Promised(today) \in Int /\ Promised(then) \in Int /\ Promised(today) <= Promised(then)
  BY <1>1, PromisedGrows
<1>3. ASSUME NEW c \in Bases(q), Week(c.day) <= Promised(today)  PROVE Week(c.day) <= Promised(then)
  <2>1. c.day \in Nat
    BY DEF Bases, Pointer, Ref
  <2>2. Week(c.day) \in Nat
    BY <2>1, WeekIsNumber
  <2> QED  BY <1>2, <1>3, <2>2
<1> QED  BY <1>3 DEF AsFarBack

\* So does one that reached back to a day.
LEMMA BackLater ==
  ASSUME NEW lg, NEW today, NEW lh, NEW then, Later(lg, today, lh, then),
         NEW p \in Pointer, NEW x, ReachesBack(today, p, x)
  PROVE  ReachesBack(then, p, x)
<1>1. today \in Nat /\ then \in Nat /\ today <= then
  BY DEF Later
<1>2. Promised(today) \in Int /\ Promised(then) \in Int /\ Promised(today) <= Promised(then)
  BY <1>1, PromisedGrows
<1>3. PICK b \in Bases(p) : b.day <= x \/ Week(b.day) <= Promised(today)
  BY DEF ReachesBack
<1>4. b.day \in Nat
  BY DEF Bases, Pointer, Ref
<1>5. Week(b.day) \in Nat
  BY <1>4, WeekIsNumber
<1>6. b.day <= x \/ Week(b.day) <= Promised(then)
  BY <1>2, <1>3, <1>5
<1> QED  BY <1>6 DEF ReachesBack

\* What a pointer that reaches as far back is worth.
LEMMA BackAlong ==
  ASSUME NEW today \in Nat, NEW p \in Pointer, NEW q \in Pointer, NEW x \in Nat,
         ReachesBack(today, p, x), AsFarBack(today, p, q)
  PROVE  ReachesBack(today, q, x)
<1>1. CASE \E c \in Bases(q) : Week(c.day) <= Promised(today)
  BY <1>1 DEF ReachesBack
<1>2. CASE \A b \in Bases(p) : \E c \in Bases(q) : c.day <= b.day
  <2>1. PICK b \in Bases(p) : b.day <= x \/ Week(b.day) <= Promised(today)
    BY DEF ReachesBack
  <2>2. PICK c \in Bases(q) : c.day <= b.day
    BY <1>2
  <2>3. b.day \in Nat /\ c.day \in Nat
    BY DEF Bases, Pointer, Ref
  <2>4. /\ Week(b.day) \in Int /\ Week(c.day) \in Int /\ Week(c.day) <= Week(b.day)
        /\ Promised(today) \in Int
    BY <2>2, <2>3, WeekGrows, PromisedGrows
  <2>5. c.day <= x \/ Week(c.day) <= Promised(today)
    BY <2>1, <2>2, <2>3, <2>4
  <2> QED  BY <2>5 DEF ReachesBack
<1> QED  BY <1>1, <1>2 DEF AsFarBack

\* Pointers that name the same chain name the same bases.
LEMMA SameChainBases ==
  ASSUME NEW p \in Pointer, NEW q \in Pointer, SameChain(p, q)
  PROVE  Bases(p) = Bases(q)
<1>1. [p EXCEPT !.revision = 0] = [q EXCEPT !.revision = 0]
  BY DEF SameChain
<1>2. p.base = q.base /\ p.history = q.history
  <2>1. [p EXCEPT !.revision = 0].base = p.base /\ [p EXCEPT !.revision = 0].history = p.history
    BY DEF Pointer
  <2>2. [q EXCEPT !.revision = 0].base = q.base /\ [q EXCEPT !.revision = 0].history = q.history
    BY DEF Pointer
  <2> QED  BY <1>1, <2>1, <2>2
<1> QED  BY <1>2 DEF Bases

\* A pointer with another list has the same bases.
LEMMA ListedBases ==
  ASSUME NEW p \in Pointer, NEW list
  PROVE  Bases([p EXCEPT !.revision = list]) = Bases(p)
<1> DEFINE q == [p EXCEPT !.revision = list]
<1>1. q.base = p.base /\ q.history = p.history
  BY DEF Pointer
<1> HIDE DEF q
<1>2. Bases(q) = Bases(p)
  BY <1>1 DEF Bases
<1> QED  BY <1>2 DEF q

\* Bases with the heads and days of others are dated as they are.
LEMMA DatedLike ==
  ASSUME NEW lg, NEW today, NEW p, Dated(lg, today, p), NEW q,
         \A c \in Bases(q) : c \in Ref /\ \E b \in Bases(p) : c.head = b.head /\ c.day = b.day
  PROVE  Dated(lg, today, q)
<1>1. ASSUME NEW c \in Bases(q)
      PROVE  c \in Ref /\ c.head <= Len(lg) /\ c.day <= today /\ \A s \in 1..c.head : lg[s] <= c.day
  <2>1. PICK b \in Bases(p) : c.head = b.head /\ c.day = b.day
    OBVIOUS
  <2> QED  BY <2>1 DEF Dated
<1>2. ASSUME NEW c \in Bases(q), NEW e \in Bases(q), c.head <= e.head  PROVE c.day <= e.day
  <2>1. PICK b \in Bases(p) : c.head = b.head /\ c.day = b.day
    OBVIOUS
  <2>2. PICK a \in Bases(p) : e.head = a.head /\ e.day = a.day
    OBVIOUS
  <2> QED  BY <1>2, <2>1, <2>2 DEF Dated
<1> QED  BY <1>1, <1>2 DEF Dated

\* Fewer bases, or as many, are dated as they were.
LEMMA DatedLess ==
  ASSUME NEW lg, NEW today, NEW p, Dated(lg, today, p), NEW q, Bases(q) \subseteq Bases(p)
  PROVE  Dated(lg, today, q)
  BY DEF Dated

\* With no base lost, a pointer reaches back as far.
LEMMA FarWithMore ==
  ASSUME NEW today, NEW p \in Pointer, NEW q, Bases(p) \subseteq Bases(q)
  PROVE  AsFarBack(today, p, q)
<1>1. ASSUME NEW b \in Bases(p)  PROVE b \in Bases(q) /\ b.day <= b.day
  <2>1. b.day \in Nat
    BY DEF Bases, Pointer, Ref
  <2> QED  BY <2>1
<1> QED  BY <1>1 DEF AsFarBack

-----------------------------------------------------------------------------
(* Each step keeps how far they reach                                      *)

\* The types that the steps below rest on.
LEMMA DatesFacts ==
  ASSUME IInv
  PROVE  /\ day \in Nat /\ Len(log) \in Nat /\ DOMAIN log = 1..Len(log) /\ Later(log, day, log, day)
         /\ \A i \in DOMAIN slots : slots[i] # None => slots[i] \in Pointer
         /\ \A d \in Device : device[d].op # None => /\ device[d].op \in OpType
                                                     /\ device[d].op.from \in Pointer
                                                     /\ device[d].op.next \in Pointer
         /\ vault.pointer \in DOMAIN slots /\ Current # None /\ Current \in Pointer
         /\ device \in [Device -> DeviceType]
<1>1. /\ log \in Seq(0..MaxDay) /\ day \in 0..MaxDay
      /\ GoodSlots(messages, slots) /\ device \in [Device -> DeviceType]
      /\ \A d \in Device : GoodDevice(messages, Len(slots), Len(log), device[d])
      /\ vault.pointer \in DOMAIN slots /\ slots[vault.pointer] # None
  BY DEF IInv, WorldInv, DeviceInv, VaultInv
<1>2. day \in Nat /\ Len(log) \in Nat /\ DOMAIN log = 1..Len(log)
  BY <1>1
<1>3. Later(log, day, log, day)
  BY <1>2 DEF Later
<1>4. \A i \in DOMAIN slots : slots[i] # None => slots[i] \in Pointer
  BY <1>1 DEF GoodSlots, Sound
<1>5. ASSUME NEW d \in Device, device[d].op # None
      PROVE  device[d].op \in OpType /\ device[d].op.from \in Pointer /\ device[d].op.next \in Pointer
  BY <1>1, <1>5 DEF GoodDevice, GoodOp, Sound
<1> QED  BY <1>1, <1>2, <1>3, <1>4, <1>5 DEF Current

\* A device's dates hold on.
LEMMA DeviceLater ==
  ASSUME NEW lg, NEW today, NEW lh, NEW then, Later(lg, today, lh, then),
         NEW x, x.op # None => x.op.next \in Pointer, GoodDates(lg, today, x)
  PROVE  GoodDates(lh, then, x)
<1>1. x.known # None => Dated(lh, then, x.known)
  BY DatedLater DEF GoodDates
<1>2. ASSUME x.op # None
      PROVE  Dated(lh, then, x.op.from) /\ Dated(lh, then, x.op.next) /\ AsFarBack(then, x.op.from, x.op.next)
  <2>1. Dated(lg, today, x.op.from) /\ Dated(lg, today, x.op.next) /\ AsFarBack(today, x.op.from, x.op.next)
    BY <1>2 DEF GoodDates
  <2> QED  BY <1>2, <2>1, DatedLater, FarLater
<1> QED  BY <1>1, <1>2 DEF GoodDates

\* A step of one device.
LEMMA OneWrites ==
  ASSUME IInv, WInv, log' = log, day' = day, mover' = mover, DOMAIN slots' = DOMAIN slots,
         NEW d \in Device, \A e \in Device : e # d => device'[e] = device[e],
         GoodDates(log, day, device'[d]), device'[d].slot \in {device[d].slot, Place(d)},
         \A i \in DOMAIN slots : slots'[i] # None => Dated(log, day, slots'[i]),
         mover # None => slots'[mover.to] = slots[mover.to], AnchorInv'
  PROVE  WInv'
<1>1. DatesInv'
  <2>1. LogDates(log', day')
    BY DEF WInv, DatesInv
  <2>2. \A i \in DOMAIN slots' : slots'[i] # None => Dated(log', day', slots'[i])
    OBVIOUS
  <2>3. ASSUME NEW e \in Device  PROVE GoodDates(log', day', device'[e])
    <3>1. CASE e = d
      BY <3>1
    <3>2. CASE e # d
      BY <3>2 DEF WInv, DatesInv
    <3> QED  BY <3>1, <3>2
  <2> QED  BY <2>1, <2>2, <2>3 DEF DatesInv
<1>2. CopyInv'
  <2> SUFFICES ASSUME mover # None
               PROVE  /\ \A e \in Device : device'[e].slot # mover.to
                      /\ mover.read # None /\ AsFarBack(day, mover.read, slots'[mover.to])
    BY DEF CopyInv
  <2>1. /\ \A e \in Device : device[e].slot # mover.to
        /\ mover.read # None /\ AsFarBack(day, mover.read, slots[mover.to])
    BY DEF WInv, CopyInv
  <2>2. vault.pointer # mover.to
    BY DEF IInv, MoveInv
  <2>3. Place(d) # mover.to
    BY <2>1, <2>2 DEF Place
  <2>4. ASSUME NEW e \in Device  PROVE device'[e].slot # mover.to
    <3>1. CASE e = d
      BY <2>1, <2>3, <3>1
    <3>2. CASE e # d
      BY <2>1, <3>2
    <3> QED  BY <3>1, <3>2
  <2> QED  BY <2>1, <2>4
<1> QED  BY <1>1, <1>2 DEF WInv

\* A step of one device that writes no slot.
LEMMA OneIsQuiet ==
  ASSUME IInv, WInv, UNCHANGED <<log, day, slots, vault, mover, crossed, anchor>>,
         NEW d \in Device, \A e \in Device : e # d => device'[e] = device[e],
         GoodDates(log, day, device'[d]), device'[d].slot \in {device[d].slot, Place(d)}
  PROVE  WInv'
<1>1. \A i \in DOMAIN slots : slots'[i] # None => Dated(log, day, slots'[i])
  BY DEF WInv, DatesInv
<1>2. AnchorInv'
  BY DEF WInv, AnchorInv, Current
<1> QED  BY <1>1, <1>2, OneWrites

\* A device that idles and one that runs, field by field.
LEMMA DeviceHas ==
  ASSUME IInv, NEW d \in Device
  PROVE  /\ \A p : Idle(d, p) =>
              /\ device'[d].op = None /\ device'[d].known = p /\ device'[d].slot = Place(d)
              /\ \A e \in Device : e # d => device'[e] = device[e]
         /\ \A op : Runs(d, op) =>
              /\ device'[d].op = op /\ device'[d].known = Known(d) /\ device'[d].slot = Place(d)
              /\ \A e \in Device : e # d => device'[e] = device[e]
<1>1. device \in [Device -> DeviceType] /\ device[d] \in DeviceType
  BY DeviceFacts
<1>2. ASSUME NEW p, Idle(d, p)
      PROVE  /\ device'[d].op = None /\ device'[d].known = p /\ device'[d].slot = Place(d)
             /\ \A e \in Device : e # d => device'[e] = device[e]
  <2>1. device' = [device EXCEPT ![d] = [device[d] EXCEPT !.slot = Place(d), !.known = p, !.op = None]]
    BY <1>2 DEF Idle
  <2> QED  BY <1>1, <2>1 DEF DeviceType
<1>3. ASSUME NEW op, Runs(d, op)
      PROVE  /\ device'[d].op = op /\ device'[d].known = Known(d) /\ device'[d].slot = Place(d)
             /\ \A e \in Device : e # d => device'[e] = device[e]
  <2>1. device' = [device EXCEPT ![d] = [device[d] EXCEPT !.slot = Place(d), !.known = Known(d), !.op = op]]
    BY <1>3 DEF Runs
  <2> QED  BY <1>1, <2>1 DEF DeviceType
<1> QED  BY <1>2, <1>3

\* What a device reads and knows is dated.
LEMMA KnownIsDated ==
  ASSUME IInv, WInv, NEW d \in Device, Read(d) # None
  PROVE  /\ Read(d) \in Pointer /\ Dated(log, day, Read(d))
         /\ Known(d) \in Pointer /\ Dated(log, day, Known(d)) /\ Known(d) # None
<1>1. Sound(messages, Read(d)) /\ Sound(messages, Known(d)) /\ Place(d) \in DOMAIN slots
  BY DeviceFacts
<1>2. Dated(log, day, Read(d))
  BY <1>1 DEF WInv, DatesInv, Read
<1>3. Dated(log, day, Known(d))
  BY <1>2 DEF WInv, DatesInv, GoodDates, Known
<1> QED  BY <1>1, <1>2, <1>3, NoneIsNoRecord DEF Sound

\* A device that gives up.
LEMMA GivesUpKeepsDates ==
  ASSUME IInv, WInv, UNCHANGED <<log, day, slots, vault, mover, crossed, anchor>>,
         NEW d \in Device, Read(d) # None, Idle(d, Read(d))
  PROVE  WInv'
<1>1. /\ device'[d].op = None /\ device'[d].known = Read(d) /\ device'[d].slot = Place(d)
      /\ \A e \in Device : e # d => device'[e] = device[e]
  BY DeviceHas
<1>2. GoodDates(log, day, device'[d])
  BY <1>1, KnownIsDated DEF GoodDates
<1> QED  BY <1>1, <1>2, OneIsQuiet

\* A device that begins a write.
LEMMA BeginsKeepsDates ==
  ASSUME IInv, WInv, UNCHANGED <<log, day, slots, vault, mover, crossed, anchor>>,
         NEW d \in Device, Read(d) # None, NEW kind, NEW from, NEW next, NEW drop,
         Runs(d, Op(kind, from, next, drop)),
         Dated(log, day, from), Dated(log, day, next), AsFarBack(day, from, next)
  PROVE  WInv'
<1> DEFINE op == Op(kind, from, next, drop)
<1>1. op.from = from /\ op.next = next
  BY DEF Op
<1> HIDE DEF op
<1>2. /\ device'[d].op = op /\ device'[d].known = Known(d) /\ device'[d].slot = Place(d)
      /\ \A e \in Device : e # d => device'[e] = device[e]
  BY DeviceHas DEF op
<1>3. GoodDates(log, day, device'[d])
  BY <1>1, <1>2, KnownIsDated DEF GoodDates
<1> QED  BY <1>2, <1>3, OneIsQuiet

\* The log grows and days pass; a scheduler is made anew.
LEMMA WorldKeepsDates ==
  ASSUME IInv, WInv, LogEntry \/ NextDay \/ ChangeBackends \/ \E d \in Device : Pull(d) \/ Reopen(d) \/ Fails(d)
  PROVE  WInv'
<1>1. CASE LogEntry \/ NextDay
  <2>1. /\ slots' = slots /\ vault' = vault /\ device' = device /\ mover' = mover
        /\ crossed' = crossed /\ anchor' = anchor
    BY <1>1 DEF LogEntry, NextDay, discord
  <2>2. Later(log, day, log', day') /\ LogDates(log', day')
    <3>1. /\ day \in Nat /\ log \in Seq(0..MaxDay) /\ Len(log) \in Nat /\ DOMAIN log = 1..Len(log)
          /\ day \in 0..MaxDay /\ \A s \in DOMAIN log : log[s] <= day
      BY DatesFacts DEF IInv, WorldInv, WInv, DatesInv, LogDates
    <3>2. ASSUME NEW s \in DOMAIN log  PROVE log[s] \in Nat
      <4>1. log[s] \in 0..MaxDay
        <5>1. s \in 1..Len(log)
          BY <3>1
        <5> DEFINE days == 0..MaxDay
        <5>2. log \in Seq(days)
          BY <3>1
        <5> HIDE DEF days
        <5>3. log[s] \in days
          BY <5>1, <5>2, ElementOfSeq
        <5> QED  BY <5>3 DEF days
      <4> QED  BY <4>1
    <3>3. CASE LogEntry
      <4>1. log' = Append(log, day) /\ day' = day
        BY <3>3 DEF LogEntry
      <4>2. /\ Len(log') = Len(log) + 1 /\ DOMAIN log' = 1..(Len(log) + 1)
            /\ \A s \in 1..Len(log) : log'[s] = log[s]
            /\ log'[Len(log) + 1] = day
        BY <3>1, <4>1
      <4>3. ASSUME NEW s \in DOMAIN log'  PROVE log'[s] <= day
        <5>1. s \in 1..Len(log) \/ s = Len(log) + 1
          BY <3>1, <4>2
        <5> QED  BY <3>1, <4>2, <5>1
      <4> QED  BY <3>1, <4>1, <4>2, <4>3 DEF Later, LogDates
    <3>4. CASE NextDay
      <4>1. log' = log /\ day' = day + 1
        BY <3>4 DEF NextDay
      <4>2. \A s \in DOMAIN log : log[s] <= day + 1
        BY <3>1, <3>2
      <4> QED  BY <3>1, <4>1, <4>2 DEF Later, LogDates
    <3> QED  BY <1>1, <3>3, <3>4
  <2>3. DatesInv'
    <3>1. \A i \in DOMAIN slots : slots[i] # None => Dated(log', day', slots[i])
      BY <2>2, DatedLater DEF WInv, DatesInv
    <3>2. \A d \in Device : GoodDates(log', day', device[d])
      BY <2>2, DatesFacts, DeviceLater DEF WInv, DatesInv
    <3> QED  BY <2>1, <2>2, <3>1, <3>2 DEF DatesInv
  <2>4. CopyInv'
    <3> SUFFICES ASSUME mover # None
                 PROVE  /\ \A d \in Device : device[d].slot # mover.to
                        /\ mover.read # None /\ AsFarBack(day', mover.read, slots[mover.to])
      BY <2>1 DEF CopyInv
    <3>1. /\ \A d \in Device : device[d].slot # mover.to
          /\ mover.read # None /\ AsFarBack(day, mover.read, slots[mover.to])
      BY DEF WInv, CopyInv
    <3>2. slots[mover.to] \in Pointer
      BY DatesFacts DEF IInv, MoveInv
    <3> QED  BY <2>2, <3>1, <3>2, FarLater
  <2>5. AnchorInv'
    <3>1. ~crossed /\ anchor # None => ReachesBack(day, Current, anchor)
      BY DEF WInv, AnchorInv
    <3>2. Current' = Current /\ Current \in Pointer
      BY <2>1, DatesFacts DEF Current
    <3>3. ~crossed /\ anchor # None => ReachesBack(day', Current, anchor)
      BY <2>2, <3>1, <3>2, BackLater
    <3> QED  BY <2>1, <3>2, <3>3 DEF WInv, AnchorInv
  <2> QED  BY <2>3, <2>4, <2>5 DEF WInv
<1>2. CASE ChangeBackends
  <2>1. /\ UNCHANGED <<log, day, slots, device, mover, crossed, anchor>> /\ vault'.pointer = vault.pointer
    <3>1. vault \in [pointer : Nat, revision : Nat]
      BY DEF IInv, VaultInv
    <3> QED  BY <1>2, <3>1 DEF ChangeBackends, discord, world
  <2>2. DatesInv' /\ CopyInv'
    BY <2>1 DEF WInv, DatesInv, CopyInv
  <2>3. AnchorInv'
    BY <2>1 DEF WInv, AnchorInv, Current
  <2> QED  BY <2>2, <2>3 DEF WInv
<1>3. ASSUME NEW d \in Device, Pull(d) \/ Fails(d)  PROVE WInv'
  <2>1. UNCHANGED <<log, day, slots, vault, mover, crossed, anchor>>
    BY <1>3 DEF Pull, Fails, world, discord
  <2>2. /\ device'[d].known = device[d].known /\ device'[d].slot = device[d].slot
        /\ device'[d].op = None \/ device'[d].op = device[d].op
        /\ \A e \in Device : e # d => device'[e] = device[e]
    <3>1. device \in [Device -> DeviceType] /\ device[d] \in DeviceType
      BY DatesFacts
    <3> QED  BY <1>3, <3>1 DEF Pull, Fails, DeviceType
  <2>3. GoodDates(log, day, device'[d])
    <3>1. GoodDates(log, day, device[d])
      BY DEF WInv, DatesInv
    <3> QED  BY <2>2, <3>1 DEF GoodDates
  <2> QED  BY <2>1, <2>2, <2>3, OneIsQuiet
<1>4. ASSUME NEW d \in Device, Reopen(d)  PROVE WInv'
  <2>1. UNCHANGED <<log, day, slots, vault, crossed, anchor>> /\ (mover' = None \/ mover' = mover)
    BY <1>4 DEF Reopen, world, discord
  <2>2. /\ device'[d].known = None /\ device'[d].slot = 0 /\ device'[d].op = None
        /\ \A e \in Device : e # d => device'[e] = device[e]
    <3>1. device \in [Device -> DeviceType] /\ device[d] \in DeviceType
      BY DatesFacts
    <3> QED  BY <1>4, <3>1 DEF Reopen, Fresh, DeviceType
  <2>3. \A e \in Device : GoodDates(log, day, device'[e])
    BY <2>2 DEF WInv, DatesInv, GoodDates
  <2>4. DatesInv'
    BY <2>1, <2>3 DEF WInv, DatesInv
  <2>5. CopyInv'
    <3> SUFFICES ASSUME mover' = mover, mover # None
                 PROVE  /\ \A e \in Device : device'[e].slot # mover.to
                        /\ mover.read # None /\ AsFarBack(day, mover.read, slots[mover.to])
      BY <2>1 DEF CopyInv
    <3>1. /\ \A e \in Device : device[e].slot # mover.to
          /\ mover.read # None /\ AsFarBack(day, mover.read, slots[mover.to])
      BY DEF WInv, CopyInv
    <3>2. mover.to \in DOMAIN slots /\ 0 \notin DOMAIN slots
      BY DEF IInv, MoveInv, GoodSlots
    <3> QED  BY <2>2, <3>1, <3>2
  <2>6. AnchorInv'
    BY <2>1 DEF WInv, AnchorInv, Current
  <2> QED  BY <2>4, <2>5, <2>6 DEF WInv
<1> QED  BY <1>1, <1>2, <1>3, <1>4

\* What is read and kept up is not written otherwise.
LEMMA RefreshKeepsDates ==
  ASSUME IInv, WInv, NEW d \in Device, TickRefreshes(d)
  PROVE  WInv'
<1> DEFINE next == [Known(d) EXCEPT !.revision = Now]
<1>1. /\ Read(d) # None /\ Runs(d, Op("refresh", Known(d), next, {}))
      /\ UNCHANGED <<log, day, slots, vault, mover, crossed, anchor>>
  BY DEF TickRefreshes, world, discord
<1>2. Known(d) \in Pointer /\ Dated(log, day, Known(d))
  BY <1>1, KnownIsDated
<1>3. Bases(next) = Bases(Known(d))
  BY <1>2, ListedBases
<1> HIDE DEF next
<1>4. Dated(log, day, next) /\ AsFarBack(day, Known(d), next)
  <2>1. Bases(next) \subseteq Bases(Known(d)) /\ Bases(Known(d)) \subseteq Bases(next)
    BY <1>3
  <2> QED  BY <1>2, <2>1, DatedLess, FarWithMore
<1> QED  BY <1>1, <1>2, <1>4, BeginsKeepsDates

\* A base that is written is the newest and of today.
LEMMA WriteKeepsDates ==
  ASSUME IInv, WInv, NEW d \in Device, NEW kind \in {"segment", "base"}, TickWrites(d, kind)
  PROVE  WInv'
<1> DEFINE cur == Read(d)
           at == device[d].seen
           based == kind = "base" /\ HeadOf(cur.base) < at
           next == NextPointer(messages, cur, at, based, day, Now)
           ref == NewRef(messages, cur, at, day)
<1>1. cur # None /\ (Idle(d, cur) \/ Runs(d, Op("write", cur, next, {})))
  BY TickWritesIs DEF WritesTo
<1>2. UNCHANGED <<log, day, slots, vault, mover, crossed, anchor>>
  BY DEF TickWrites, world
<1>3. CASE Idle(d, cur)
  BY <1>1, <1>2, <1>3, GivesUpKeepsDates
<1>4. CASE Runs(d, Op("write", cur, next, {}))
  <2>1. /\ Chained(messages) /\ Sound(messages, cur) /\ at \in Nat /\ at <= MaxHead /\ at <= Len(log)
        /\ day \in 0..MaxDay /\ Now \in Nat /\ based \in BOOLEAN /\ (based => HeadOf(cur.base) < at)
    BY <1>1, DeviceFacts DEF IInv, WorldInv
  <2>2. cur \in Pointer /\ Dated(log, day, cur) /\ day \in Nat
        /\ DOMAIN log = 1..Len(log) /\ Len(log) \in Nat /\ LogDates(log, day)
    BY <1>1, KnownIsDated, DatesFacts DEF WInv, DatesInv
  <2>3. \A b \in Bases(cur) : b \in Ref /\ (based => b.head < at) /\ b.day <= day
    <3>1. ASSUME NEW b \in Bases(cur), based  PROVE b.head < at
      <4>1. cur.base # None
        <5>1. SUFFICES ASSUME cur.base = None  PROVE FALSE
          OBVIOUS
        <5>2. cur.history = {}
          BY <2>1, <5>1 DEF Sound
        <5> QED  BY <5>1, <5>2 DEF Bases
      <4>2. cur.base \in Bases(cur) /\ b \in Bases(cur) /\ \A c \in Bases(cur) : c \in Ref /\ c.head \in Nat
        <5>1. \A c \in Bases(cur) : c \in Ref
          BY <2>2 DEF Dated
        <5>2. \A c \in Bases(cur) : c.head \in Nat
          BY <5>1 DEF Ref
        <5>3. cur.base \in Bases(cur)
          BY <4>1 DEF Bases
        <5> QED  BY <5>1, <5>2, <5>3
      <4>3. cur.base.head < at
        BY <2>1, <3>1, <4>1 DEF HeadOf
      <4>4. b = cur.base \/ b.head < cur.base.head
        BY <2>1, <4>2 DEF Bases, Sound
      <4> HIDE DEF cur, at, based
      <4> QED  BY <2>1, <4>2, <4>3, <4>4
    <3>2. \A b \in Bases(cur) : b \in Ref /\ b.day <= day
      BY <2>2 DEF Dated
    <3> QED  BY <3>1, <3>2
  <2> HIDE DEF cur, at, based
  <2>4. /\ next \in Pointer /\ ref \in Ref
        /\ based => Bases(next) = {ref} \cup Bases(cur)
        /\ ~based => Bases(next) = Bases(cur)
    BY <2>1, NextPointerIs
  <2>5. ref.head = at /\ ref.day = day
    BY DEF NewRef
  <2> HIDE DEF next, ref
  <2>6. Dated(log, day, next)
    <3>1. CASE ~based
      <4>1. Bases(next) \subseteq Bases(cur)
        BY <2>4, <3>1
      <4> QED  BY <2>2, <4>1, DatedLess
    <3>2. CASE based
      <4>1. \A b \in Bases(cur) : /\ b \in Ref /\ b.head <= Len(log) /\ b.day <= day
                                  /\ \A s \in 1..b.head : log[s] <= b.day
        BY <2>2 DEF Dated
      <4>2. ref \in Ref /\ ref.head <= Len(log) /\ ref.day <= day /\ \A s \in 1..ref.head : log[s] <= ref.day
        BY <2>1, <2>2, <2>4, <2>5 DEF LogDates
      <4>3. ASSUME NEW b \in Bases(next), NEW c \in Bases(next), b.head <= c.head  PROVE b.day <= c.day
        <5>1. b \in {ref} \cup Bases(cur) /\ c \in {ref} \cup Bases(cur)
          BY <2>4, <3>2
        <5>2. b.head \in Nat /\ c.head \in Nat /\ b.day \in Nat /\ c.day \in Nat
          BY <2>3, <2>4, <5>1 DEF Ref
        <5>3. CASE c = ref
          BY <2>2, <2>3, <2>5, <5>1, <5>2, <5>3
        <5>4. CASE b = ref /\ c \in Bases(cur)
          <6>1. c.head < at
            BY <2>3, <3>2, <5>4
          <6> QED  BY <2>1, <2>5, <4>3, <5>2, <5>4, <6>1
        <5>5. CASE b \in Bases(cur) /\ c \in Bases(cur)
          BY <2>2, <4>3, <5>5 DEF Dated
        <5> QED  BY <5>1, <5>3, <5>4, <5>5
      <4> QED  BY <2>4, <3>2, <4>1, <4>2, <4>3 DEF Dated
    <3> QED  BY <3>1, <3>2
  <2>7. AsFarBack(day, cur, next)
    <3>1. Bases(cur) \subseteq Bases(next)
      BY <2>4
    <3> QED  BY <2>2, <3>1, FarWithMore
  <2>8. Read(d) # None
    BY <1>1 DEF cur
  <2> QED  BY <1>2, <1>4, <2>2, <2>6, <2>7, <2>8, BeginsKeepsDates
<1> QED  BY <1>1, <1>3, <1>4

\* The bases of the pointer that a prune writes are among those that were there,
\* and what is retained is among them.
LEMMA PrunedBases ==
  ASSUME NEW ms, NEW p \in Pointer, NEW keep \in SUBSET Bases(p), NEW list
  PROVE  Bases(PrunedPointer(ms, p, keep, list)) \subseteq Bases(p) /\ keep \subseteq Bases(PrunedPointer(ms, p, keep, list))
<1> DEFINE q == PrunedPointer(ms, p, keep, list)
<1>1. q.base = p.base /\ q.history = keep \ {p.base}
  <2> DEFINE floor == IF OldSegmentsIn(ms, p, keep) = {} THEN p.prunedUpTo ELSE Max({p.prunedUpTo, First(keep).head})
             history == keep \ {p.base}
  <2>1. q = [p EXCEPT !.history = history, !.revision = list, !.prunedUpTo = floor]
    BY DEF PrunedPointer
  <2> HIDE DEF q, floor, history
  <2>2. q.base = p.base /\ q.history = history
    BY <2>1 DEF Pointer
  <2> QED  BY <2>2 DEF history
<1> HIDE DEF q
<1>2. \A b \in Bases(p) : b # None
  BY NoneIsNoRecord DEF Bases, Pointer
<1>3. Bases(q) \subseteq Bases(p) /\ keep \subseteq Bases(q)
  BY <1>1, <1>2 DEF Bases
<1> QED  BY <1>3 DEF q

\* A prune reaches back as far, or to the weeks that are promised.
LEMMA PruneKeepsDates ==
  ASSUME IInv, WInv, NEW d \in Device, TickPrunes(d)
  PROVE  WInv'
<1> DEFINE cur == Read(d)
           keep == Retained(Bases(cur))
           drop == DroppedIn(messages, cur, keep)
           next == PrunedPointer(messages, cur, keep, Now)
<1>1. /\ cur # None /\ (Idle(d, cur) \/ Runs(d, Op("prune", cur, next, drop)))
      /\ UNCHANGED <<log, day, slots, vault, mover, crossed, anchor>>
  BY TickPrunesIs DEF world, discord
<1>2. CASE Idle(d, cur)
  BY <1>1, <1>2, GivesUpKeepsDates
<1>3. CASE Runs(d, Op("prune", cur, next, drop))
  <2>1. /\ cur \in Pointer /\ Dated(log, day, cur) /\ day \in Nat /\ Len(log) \in Nat /\ Len(log) <= MaxHead
        /\ MaxHead \in Nat
    BY <1>1, KnownIsDated, DatesFacts, ConstantsAreTyped DEF IInv, WorldInv
  <2>2. Read(d) # None
    BY <1>1
  <2> HIDE DEF cur
  <2>3. InOrder(Bases(cur)) /\ \A c \in Bases(cur) : c.day <= day
    <3>1. ASSUME NEW b \in Bases(cur)  PROVE b.head \in 0..MaxHead /\ b.day \in Nat /\ b.day <= day
      <4>1. b \in Ref /\ b.head <= Len(log) /\ b.day <= day
        BY <2>1 DEF Dated
      <4>2. b.head \in Nat /\ b.day \in Nat
        BY <4>1 DEF Ref
      <4> QED  BY <2>1, <4>1, <4>2
    <3> QED  BY <2>1, <3>1 DEF InOrder, Dated
  <2>4. keep \in SUBSET Bases(cur)
    BY <2>3, RetainedAreBases DEF InOrder
  <2>5. \A b \in Bases(cur) : \/ \E c \in keep : c.day <= b.day
                              \/ \E c \in keep : Week(c.day) <= Promised(day)
    BY <2>1, <2>3, RetainedReachBack
  <2> HIDE DEF keep
  <2>6. Bases(next) \subseteq Bases(cur) /\ keep \subseteq Bases(next)
    BY <2>1, <2>4, PrunedBases
  <2> HIDE DEF next, drop
  <2>7. AsFarBack(day, cur, next)
    BY <2>5, <2>6 DEF AsFarBack
  <2>8. Dated(log, day, next)
    BY <2>1, <2>6, DatedLess
  <2> QED  BY <1>1, <1>3, <2>1, <2>2, <2>7, <2>8, BeginsKeepsDates
<1> QED  BY <1>1, <1>2, <1>3

\* The comparison changes the list at most.
LEMMA ChecksKeepsDates ==
  ASSUME IInv, WInv, NEW d \in Device, Checks(d)
  PROVE  WInv'
<1> DEFINE op == device[d].op
           cur == Read(d)
           q == WithList(cur, op.next)
<1>1. /\ op # None /\ cur # None
      /\ IF MayReplace(op.kind, cur, op.next)
         THEN device' = [device EXCEPT ![d].op.at = "land", ![d].op.next = WithList(cur, @)]
         ELSE Idle(d, cur)
      /\ UNCHANGED <<log, day, slots, vault, mover, crossed, anchor>>
  BY DEF Checks, world, discord
<1>2. CASE Idle(d, cur)
  BY <1>1, <1>2, GivesUpKeepsDates
<1>3. CASE device' = [device EXCEPT ![d].op.at = "land", ![d].op.next = WithList(cur, @)]
  <2>1. /\ op \in OpType /\ op.next \in Pointer
        /\ device \in [Device -> DeviceType] /\ device[d] \in DeviceType
        /\ GoodDates(log, day, device[d])
    BY <1>1, DatesFacts DEF WInv, DatesInv
  <2> DEFINE y == [op EXCEPT !.at = "land", !.next = q]
  <2>2. device'[d] = [device[d] EXCEPT !.op = y] /\ \A e \in Device : e # d => device'[e] = device[e]
    BY <1>3, <2>1 DEF DeviceType, OpType
  <2>3. y.next = q /\ y.from = op.from
    <3> HIDE DEF op, cur, q
    <3> QED  BY <2>1 DEF OpType
  <2>4. Bases(q) = Bases(op.next)
    BY <2>1, ListedBases DEF WithList
  <2> HIDE DEF y, q
  <2>5. device'[d].op = y /\ device'[d].known = device[d].known /\ device'[d].slot = device[d].slot
    BY <2>1, <2>2 DEF DeviceType
  <2>6. Dated(log, day, op.from) /\ Dated(log, day, op.next) /\ AsFarBack(day, op.from, op.next)
    BY <1>1, <2>1 DEF GoodDates
  <2>7. Dated(log, day, q) /\ AsFarBack(day, op.from, q)
    BY <2>4, <2>6 DEF Dated, AsFarBack
  <2>8. GoodDates(log, day, device'[d])
    BY <2>1, <2>3, <2>5, <2>6, <2>7 DEF GoodDates
  <2> QED  BY <1>1, <2>2, <2>5, <2>8, OneIsQuiet
<1> QED  BY <1>1, <1>2, <1>3

\* The messages go, the dates stay.
LEMMA RemovesKeepsDates ==
  ASSUME IInv, WInv, NEW d \in Device, Removes(d)
  PROVE  WInv'
<1> DEFINE op == device[d].op
<1>1. PICK m \in op.drop : IF op.drop = {m} THEN Idle(d, Read(d))
                           ELSE device' = [device EXCEPT ![d].op.drop = op.drop \ {m}]
  BY DEF Removes
<1>2. op # None /\ UNCHANGED <<log, day, slots, vault, mover, crossed, anchor>>
  BY DEF Removes, world
<1>3. /\ op \in OpType /\ device \in [Device -> DeviceType] /\ device[d] \in DeviceType
      /\ GoodDates(log, day, device[d]) /\ Place(d) \in DOMAIN slots
  BY <1>2, DatesFacts, DeviceFacts DEF WInv, DatesInv
<1>4. CASE Idle(d, Read(d))
  <2>1. /\ device'[d].op = None /\ device'[d].known = Read(d) /\ device'[d].slot = Place(d)
        /\ \A e \in Device : e # d => device'[e] = device[e]
    BY <1>4, DeviceHas
  <2>2. Read(d) # None => Dated(log, day, Read(d))
    BY <1>3 DEF WInv, DatesInv, Read
  <2>3. GoodDates(log, day, device'[d])
    BY <2>1, <2>2 DEF GoodDates
  <2> QED  BY <1>2, <2>1, <2>3, OneIsQuiet
<1>5. CASE device' = [device EXCEPT ![d].op.drop = op.drop \ {m}]
  <2> DEFINE y == [op EXCEPT !.drop = op.drop \ {m}]
  <2>1. device'[d] = [device[d] EXCEPT !.op = y] /\ \A e \in Device : e # d => device'[e] = device[e]
    BY <1>3, <1>5 DEF DeviceType, OpType
  <2>2. y.from = op.from /\ y.next = op.next
    <3> HIDE DEF op
    <3> QED  BY <1>3 DEF OpType
  <2> HIDE DEF y
  <2>3. device'[d].op = y /\ device'[d].known = device[d].known /\ device'[d].slot = device[d].slot
    BY <1>3, <2>1 DEF DeviceType
  <2>4. GoodDates(log, day, device'[d])
    BY <1>2, <1>3, <2>2, <2>3 DEF GoodDates
  <2> QED  BY <1>2, <2>1, <2>3, <2>4, OneIsQuiet
<1> QED  BY <1>1, <1>4, <1>5

\* A pointer that lands was as dated before, and the account's reaches back as far
\* as the one that it replaces, unless its writers crossed.
LEMMA LandsKeepsDates ==
  ASSUME IInv, WInv, NEW d \in Device, Lands(d)
  PROVE  WInv'
<1> DEFINE op == device[d].op
           based == op.kind = "write" /\ op.next.base # op.from.base
<1>1. /\ op # None /\ Read(d) # None /\ SetsSlot(slots, Place(d), op.next, slots')
      /\ crossed' = (crossed \/ ~SameChain(Read(d), op.from))
      /\ anchor' = IF anchor = None /\ op.next.base # None /\ Place(d) = vault.pointer
                   THEN op.next.base.day ELSE anchor
      /\ IF based THEN device' = [device EXCEPT ![d].known = op.next, ![d].op.at = "prune"]
         ELSE IF op.drop # {} THEN device' = [device EXCEPT ![d].op.at = "remove"]
         ELSE Idle(d, op.next)
      /\ log' = log /\ day' = day /\ vault' = vault /\ mover' = mover
  BY DEF Lands, SetsSlot, world
<1>2. /\ op \in OpType /\ op.from \in Pointer /\ op.next \in Pointer /\ op.next # None
      /\ device \in [Device -> DeviceType] /\ device[d] \in DeviceType
      /\ GoodDates(log, day, device[d]) /\ GoodSlots(messages, slots) /\ Place(d) \in DOMAIN slots
      /\ Read(d) \in Pointer /\ Sound(messages, op.next) /\ day \in Nat
  BY <1>1, DatesFacts, DeviceFacts, NoneIsNoRecord DEF WInv, DatesInv, IInv, GoodOp, Sound
<1>3. Dated(log, day, op.from) /\ Dated(log, day, op.next) /\ AsFarBack(day, op.from, op.next)
  BY <1>1, <1>2 DEF GoodDates
<1>4. /\ GoodDates(log, day, device'[d]) /\ device'[d].slot \in {device[d].slot, Place(d)}
      /\ \A e \in Device : e # d => device'[e] = device[e]
  <2>1. CASE device' = [device EXCEPT ![d].known = op.next, ![d].op.at = "prune"]
    <3> DEFINE y == [op EXCEPT !.at = "prune"]
    <3>1. device'[d] = [device[d] EXCEPT !.known = op.next, !.op = y]
          /\ \A e \in Device : e # d => device'[e] = device[e]
      BY <1>2, <2>1 DEF DeviceType, OpType
    <3>2. y.from = op.from /\ y.next = op.next
      <4> HIDE DEF op
      <4> QED  BY <1>2 DEF OpType
    <3> HIDE DEF y
    <3>3. device'[d].op = y /\ device'[d].known = op.next /\ device'[d].slot = device[d].slot
      BY <1>2, <3>1 DEF DeviceType
    <3> QED  BY <1>3, <3>1, <3>2, <3>3 DEF GoodDates
  <2>2. CASE device' = [device EXCEPT ![d].op.at = "remove"]
    <3> DEFINE y == [op EXCEPT !.at = "remove"]
    <3>1. device'[d] = [device[d] EXCEPT !.op = y] /\ \A e \in Device : e # d => device'[e] = device[e]
      BY <1>2, <2>2 DEF DeviceType, OpType
    <3>2. y.from = op.from /\ y.next = op.next
      <4> HIDE DEF op
      <4> QED  BY <1>2 DEF OpType
    <3> HIDE DEF y
    <3>3. device'[d].op = y /\ device'[d].known = device[d].known /\ device'[d].slot = device[d].slot
      BY <1>2, <3>1 DEF DeviceType
    <3>4. device[d].known # None => Dated(log, day, device[d].known)
      BY <1>2 DEF GoodDates
    <3> QED  BY <1>3, <3>1, <3>2, <3>3, <3>4 DEF GoodDates
  <2>3. CASE Idle(d, op.next)
    <3>1. /\ device'[d].op = None /\ device'[d].known = op.next /\ device'[d].slot = Place(d)
          /\ \A e \in Device : e # d => device'[e] = device[e]
      BY <2>3, DeviceHas
    <3> QED  BY <1>3, <3>1 DEF GoodDates
  <2> QED  BY <1>1, <2>1, <2>2, <2>3
<1> HIDE DEF op
<1>5. DOMAIN slots' = DOMAIN slots /\ \A i \in DOMAIN slots : slots'[i] = IF i = Place(d) THEN op.next ELSE slots[i]
  BY <1>1, <1>2, SlotIsSet
<1>6. \A i \in DOMAIN slots : slots'[i] # None => Dated(log, day, slots'[i])
  BY <1>3, <1>5 DEF WInv, DatesInv
<1>7. mover # None => slots'[mover.to] = slots[mover.to]
  <2>1. SUFFICES ASSUME mover # None  PROVE slots'[mover.to] = slots[mover.to]
    OBVIOUS
  <2>2. mover.to \in DOMAIN slots /\ mover.to # vault.pointer /\ device[d].slot # mover.to
    BY <2>1 DEF WInv, CopyInv, IInv, MoveInv
  <2> QED  BY <1>5, <2>2 DEF Place
<1>8. AnchorInv'
  <2>1. anchor \in Nat \cup {None} /\ (~crossed /\ anchor # None => ReachesBack(day, Current, anchor))
    BY DEF WInv, AnchorInv
  <2>2. Current' = IF Place(d) = vault.pointer THEN op.next ELSE Current
    BY <1>1, <1>5, DatesFacts DEF Current
  <2>3. op.next.base # None => op.next.base \in Bases(op.next) /\ op.next.base.day \in Nat
    BY <1>2 DEF Bases, Pointer, Ref
  <2>4. anchor' \in Nat \cup {None}
    BY <1>1, <2>1, <2>3
  <2>5. ASSUME ~crossed', anchor' # None  PROVE ReachesBack(day, Current', anchor')
    <3>1. ~crossed /\ SameChain(Read(d), op.from)
      BY <1>1, <2>5
    <3>2. CASE Place(d) # vault.pointer
      BY <1>1, <2>1, <2>2, <2>5, <3>1, <3>2
    <3>3. CASE Place(d) = vault.pointer /\ anchor = None
      <4>1. op.next.base # None /\ anchor' = op.next.base.day
        BY <1>1, <2>5, <3>3
      <4>2. op.next.base \in Bases(op.next) /\ op.next.base.day <= anchor'
        BY <2>3, <4>1
      <4> QED  BY <2>2, <3>3, <4>2 DEF ReachesBack
    <3>4. CASE Place(d) = vault.pointer /\ anchor # None
      <4>1. anchor' = anchor /\ anchor \in Nat /\ ReachesBack(day, Current, anchor)
        BY <1>1, <2>1, <3>1, <3>4
      <4>2. Current = Read(d)
        BY <3>4 DEF Current, Read
      <4>3. Bases(op.from) = Bases(Current)
        BY <1>2, <3>1, <4>2, SameChainBases
      <4>4. ReachesBack(day, op.from, anchor)
        BY <4>1, <4>3 DEF ReachesBack
      <4>5. ReachesBack(day, op.next, anchor)
        BY <1>2, <1>3, <4>1, <4>4, BackAlong
      <4> QED  BY <2>2, <3>4, <4>1, <4>5
    <3> QED  BY <3>2, <3>3, <3>4
  <2> QED  BY <1>1, <2>4, <2>5 DEF AnchorInv
<1> QED  BY <1>1, <1>4, <1>5, <1>6, <1>7, <1>8, OneWrites

\* The moved pointer names the bases by their copies.
LEMMA MovedBases ==
  ASSUME NEW ms, Chained(ms), NEW p, Sound(ms, p), NEW ns, NEW new,
         Renumbers(ms, ReachedIn(ms, p), ns, new), NEW list \in Nat
  PROVE  IsMoved(p, MovedPointer(p, new, list), new)
<1> DEFINE N == Len(ms)
           T == ReachedIn(ms, p)
<1>1. /\ N \in Nat /\ p.last \in 0..N /\ T \subseteq 1..N /\ p \in Pointer
      /\ \A b \in Bases(p) : b \in Ref /\ b.part \in Nat /\ b.part \in 1..N /\ GoodRef(ms, b)
      /\ DOMAIN ms = 1..N
  BY ReachedAreMessages DEF Sound
<1>2. \A b \in Bases(p) : b.part \in 0..N /\ b.segment \in 0..N
  <2>1. ASSUME NEW b \in Bases(p)  PROVE b.part \in 0..N /\ b.segment \in 0..N
    <3>1. b.segment # 0 => b.segment \in 1..N
      BY <1>1 DEF GoodRef, IsSegment
    <3> QED  BY <1>1, <3>1
  <2> QED  BY <2>1
<1>3. \A m \in 0..N : new[m] \in Nat
  <2>1. ASSUME NEW m \in 0..N  PROVE new[m] \in Nat
    <3>1. CASE m \in T
      <4>1. new[m] \in (N + 1)..Len(ns) /\ Len(ns) \in Nat
        BY <3>1 DEF Renumbers
      <4> QED  BY <1>1, <4>1
    <3>2. CASE m \notin T
      BY <1>1, <3>2 DEF Renumbers
    <3> QED  BY <3>1, <3>2
  <2> QED  BY <2>1
<1> QED  BY <1>1, <1>2, <1>3, MovedPointerIs

\* The copy reaches back as far as what is copied.
LEMMA RehomeKeepsDates ==
  ASSUME IInv, WInv, NEW d \in Device, Rehome(d)
  PROVE  WInv'
<1> DEFINE p == slots[vault.pointer]
           T == ReachedIn(messages, p)
           new == NewNumber(messages, T)
           q == MovedPointer(p, new, Now)
<1>1. /\ p # None /\ messages' = Copies(messages, T) /\ slots' = Append(slots, q)
      /\ mover' = [by |-> d, from |-> vault.pointer, to |-> Len(slots) + 1, read |-> p]
      /\ UNCHANGED <<log, day, vault, device, crossed>>
  BY RehomeIs
<1>2. anchor' = anchor
  BY DEF Rehome
<1>3. /\ Chained(messages) /\ GoodSlots(messages, slots) /\ Now \in Nat /\ vault.pointer \in DOMAIN slots
      /\ slots \in Seq(Pointer \cup {None}) /\ Len(slots) \in Nat /\ DOMAIN slots = 1..Len(slots)
  BY DEF IInv, VaultInv, Now, GoodSlots
<1>4. Sound(messages, p) /\ p \in Pointer /\ Dated(log, day, p)
  BY <1>1, <1>3 DEF GoodSlots, Sound, WInv, DatesInv
<1> HIDE DEF p
<1>5. Linked(messages) /\ T \in SUBSET (1..Len(messages))
  BY <1>3, <1>4, ReachedAreMessages
<1>6. Renumbers(messages, T, messages', new)
  <2> HIDE DEF T
  <2> QED  BY <1>1, <1>5, CopiesRenumber
<1> HIDE DEF new
<1>7. IsMoved(p, q, new)
  BY <1>3, <1>4, <1>6, MovedBases
<1> HIDE DEF q, T
<1>8. /\ q \in Pointer /\ q # None /\ Bases(q) = {MovedRef(new, b) : b \in Bases(p)}
      /\ \A b \in Bases(p) : /\ MovedRef(new, b) \in Ref
                             /\ MovedRef(new, b).head = b.head /\ MovedRef(new, b).day = b.day
  BY <1>7 DEF IsMoved
<1>9. Dated(log, day, q)
  <2>1. ASSUME NEW c \in Bases(q)  PROVE c \in Ref /\ \E b \in Bases(p) : c.head = b.head /\ c.day = b.day
    <3>1. PICK b \in Bases(p) : c = MovedRef(new, b)
      BY <1>8
    <3> QED  BY <1>8, <3>1
  <2> QED  BY <1>4, <2>1, DatedLike
<1>10. AsFarBack(day, p, q)
  <2>1. ASSUME NEW b \in Bases(p)  PROVE \E c \in Bases(q) : c.day <= b.day
    <3>1. MovedRef(new, b) \in Bases(q) /\ MovedRef(new, b).day = b.day
      BY <1>8
    <3>2. b.day \in Nat
      BY <1>4 DEF Bases, Pointer, Ref
    <3>3. MovedRef(new, b).day <= b.day
      BY <3>1, <3>2
    <3> QED  BY <3>1, <3>3
  <2> QED  BY <2>1 DEF AsFarBack
<1>11. /\ DOMAIN slots' = DOMAIN slots \cup {Len(slots) + 1}
       /\ \A i \in DOMAIN slots : slots'[i] = slots[i]
       /\ slots'[Len(slots) + 1] = q
  BY <1>1, <1>3, <1>8
<1>12. DatesInv'
  <2>1. \A i \in DOMAIN slots' : slots'[i] # None => Dated(log, day, slots'[i])
    BY <1>9, <1>11 DEF WInv, DatesInv
  <2>2. LogDates(log, day) /\ \A e \in Device : GoodDates(log, day, device[e])
    BY DEF WInv, DatesInv
  <2> QED  BY <1>1, <2>1, <2>2 DEF DatesInv
<1>13. CopyInv'
  <2>1. mover'.to = Len(slots) + 1 /\ mover'.read = p
    BY <1>1
  <2>2. ASSUME NEW e \in Device  PROVE device[e].slot # Len(slots) + 1
    <3>1. device[e] \in DeviceType /\ device[e].slot <= Len(slots)
      BY DEF IInv, DeviceInv, GoodDevice
    <3>2. device[e].slot \in Nat
      BY <3>1 DEF DeviceType
    <3> QED  BY <1>3, <3>1, <3>2
  <2> QED  BY <1>1, <1>10, <1>11, <2>1, <2>2 DEF CopyInv
<1>14. AnchorInv'
  <2>1. Current' = Current
    BY <1>1, <1>3, <1>11 DEF Current
  <2> QED  BY <1>1, <1>2, <2>1 DEF WInv, AnchorInv
<1> QED  BY <1>12, <1>13, <1>14 DEF WInv

\* Nor is anything lost when the vault names the copy, unless the chain had changed.
LEMMA SwitchKeepsDates ==
  ASSUME IInv, WInv, NEW d \in Device, SwitchPointer(d)
  PROVE  WInv'
<1>1. /\ mover # None /\ vault' = [pointer |-> mover.to, revision |-> vault.revision + 1]
      /\ mover' = None /\ crossed' = (crossed \/ slots[mover.from] # mover.read)
      /\ UNCHANGED <<log, day, slots, device, anchor>>
  BY DEF SwitchPointer, world, discord
<1>2. /\ mover.from = vault.pointer /\ mover.to \in DOMAIN slots /\ slots[mover.to] # None
      /\ AsFarBack(day, mover.read, slots[mover.to])
  BY <1>1 DEF IInv, MoveInv, WInv, CopyInv
<1>3. slots[mover.to] \in Pointer /\ Current \in Pointer /\ day \in Nat
  BY <1>2, DatesFacts
<1>4. DatesInv' /\ CopyInv'
  BY <1>1 DEF WInv, DatesInv, CopyInv
<1>5. Current' = slots[mover.to]
  BY <1>1 DEF Current
<1>6. ASSUME ~crossed', anchor # None  PROVE ReachesBack(day, Current', anchor)
  <2>1. ReachesBack(day, Current, anchor) /\ anchor \in Nat
    BY <1>1, <1>6 DEF WInv, AnchorInv
  <2>2. mover.read = Current
    BY <1>1, <1>2, <1>6 DEF Current
  <2> QED  BY <1>2, <1>3, <1>5, <2>1, <2>2, BackAlong
<1>7. AnchorInv'
  BY <1>1, <1>6 DEF WInv, AnchorInv
<1> QED  BY <1>4, <1>7 DEF WInv

\* A drain is of another pointer.
LEMMA DrainKeepsDates ==
  ASSUME IInv, WInv, DrainLists \/ DrainDeletes \/ DrainFinishes \/ DrainFails
  PROVE  WInv'
<1>1. drain # None /\ UNCHANGED <<log, day, device, mover, crossed, anchor>>
  BY DEF DrainLists, DrainDeletes, DrainFinishes, DrainFails, world
<1>2. mover = None /\ drain.slot \in DOMAIN slots /\ drain.slot # vault.pointer
  BY <1>1 DEF IInv, MoveInv, DrainInv
<1>3. vault'.pointer = vault.pointer
  <2>1. vault \in [pointer : Nat, revision : Nat]
    BY DEF IInv, VaultInv
  <2> QED  BY <2>1 DEF DrainLists, DrainDeletes, DrainFinishes, DrainFails
<1>4. /\ DOMAIN slots' = DOMAIN slots
      /\ \A i \in DOMAIN slots : slots'[i] = slots[i] \/ (i = drain.slot /\ slots'[i] = None)
  <2>1. slots' = slots \/ slots' = [slots EXCEPT ![drain.slot] = None]
    BY DEF DrainLists, DrainDeletes, DrainFinishes, DrainFails, discord
  <2> QED  BY <2>1
<1>5. DatesInv'
  <2>1. \A i \in DOMAIN slots' : slots'[i] # None => Dated(log, day, slots'[i])
    BY <1>4 DEF WInv, DatesInv
  <2>2. LogDates(log, day) /\ \A e \in Device : GoodDates(log, day, device[e])
    BY DEF WInv, DatesInv
  <2> QED  BY <1>1, <2>1, <2>2 DEF DatesInv
<1>6. CopyInv'
  BY <1>1, <1>2 DEF CopyInv
<1>7. Current' = Current
  BY <1>2, <1>3, <1>4, DatesFacts DEF Current
<1>8. AnchorInv'
  BY <1>1, <1>7 DEF WInv, AnchorInv
<1> QED  BY <1>5, <1>6, <1>8 DEF WInv

\* No base has been written.
LEMMA InitWInv == Init => WInv
<1> SUFFICES ASSUME Init  PROVE WInv
  OBVIOUS
<1>1. /\ log = <<>> /\ day = 0 /\ slots = <<EmptyPointer>> /\ mover = None /\ anchor = None
      /\ device = [d \in Device |-> Fresh(0)]
  BY DEF Init
<1>2. DOMAIN slots = {1} /\ slots[1] = EmptyPointer /\ DOMAIN log = {}
  BY <1>1
<1>3. Bases(EmptyPointer) = {}
  BY DEF Bases, EmptyPointer
<1>4. DatesInv
  <2>1. LogDates(log, day)
    BY <1>2 DEF LogDates
  <2>2. Dated(log, day, EmptyPointer)
    BY <1>3 DEF Dated
  <2>3. \A d \in Device : GoodDates(log, day, device[d])
    BY <1>1 DEF GoodDates, Fresh
  <2> QED  BY <1>2, <2>1, <2>2, <2>3 DEF DatesInv
<1> QED  BY <1>1, <1>4 DEF WInv, CopyInv, AnchorInv

\* Every step keeps it.
LEMMA NextWInv == IInv /\ WInv /\ [Next]_vars => WInv'
<1> SUFFICES ASSUME IInv, WInv, [Next]_vars  PROVE WInv'
  OBVIOUS
<1>1. CASE LogEntry \/ NextDay \/ ChangeBackends \/ \E d \in Device : Pull(d) \/ Reopen(d) \/ Fails(d)
  BY <1>1, WorldKeepsDates
<1>2. ASSUME NEW d \in Device, Tick(d)  PROVE WInv'
  <2>1. CASE \E kind \in {"segment", "base"} : TickWrites(d, kind)
    BY <2>1, WriteKeepsDates
  <2>2. CASE TickRefreshes(d)
    BY <2>2, RefreshKeepsDates
  <2>3. CASE TickPrunes(d)
    BY <2>3, PruneKeepsDates
  <2>4. CASE Checks(d)
    BY <2>4, ChecksKeepsDates
  <2>5. CASE Lands(d)
    BY <2>5, LandsKeepsDates
  <2>6. CASE Removes(d)
    BY <2>6, RemovesKeepsDates
  <2>7. CASE Fails(d)
    BY <2>7, WorldKeepsDates
  <2> QED  BY <1>2, <2>1, <2>2, <2>3, <2>4, <2>5, <2>6, <2>7 DEF Tick
<1>3. CASE Moving
  BY <1>3, RehomeKeepsDates, SwitchKeepsDates, DrainKeepsDates DEF Moving
<1>4. CASE UNCHANGED vars
  BY <1>4 DEF vars, world, discord, WInv, DatesInv, CopyInv, AnchorInv, Current
<1> QED  BY <1>1, <1>2, <1>3, <1>4 DEF Next

\* The promise of retention, for any writers, times of writing and moves: from the
\* day after the first base, the states of the last days, and of the weeks before
\* them, come after the oldest kept base.
THEOREM PromiseIsKept == Spec => []RetentionWindow
<1>1. IInv /\ WInv => RetentionWindow
  <2> SUFFICES ASSUME IInv, WInv, ~crossed, anchor # None, Bases(Current) # {},
                      NEW s \in 1..Current.toSeq, log[s] > anchor,
                      Week(log[s]) > Week(day - DailyBases) - WeeklyBases + 1
               PROVE  Oldest(Current) <= s
    BY DEF RetentionWindow
  <2>1. PICK b \in Bases(Current) : b.day <= anchor \/ Week(b.day) <= Promised(day)
    BY DEF WInv, AnchorInv, ReachesBack
  <2>2. /\ Sound(messages, Current) /\ Dated(log, day, Current) /\ anchor \in Nat /\ day \in Nat
        /\ DOMAIN log = 1..Len(log) /\ Len(log) \in Nat
    BY DatesFacts DEF IInv, GoodSlots, WInv, DatesInv, AnchorInv, Current
  <2>3. /\ b \in Ref /\ b.head <= Len(log) /\ \A t \in 1..b.head : log[t] <= b.day
    BY <2>2 DEF Dated
  <2>4. b.head \in Nat /\ b.day \in Nat /\ s \in Nat /\ 1 <= s
    <3>1. Current.toSeq \in Nat
      BY DatesFacts DEF Pointer
    <3> QED  BY <2>3, <3>1 DEF Ref
  <2>5. b.head < s
    <3>1. SUFFICES ASSUME s <= b.head  PROVE FALSE
      BY <2>4
    <3>2. log[s] <= b.day /\ s \in DOMAIN log
      BY <2>2, <2>3, <2>4, <3>1
    <3>3. log[s] \in Nat
      <4> DEFINE days == 0..MaxDay
      <4>1. log \in Seq(days) /\ s \in 1..Len(log)
        BY <2>2, <3>2 DEF IInv, WorldInv
      <4>2. log[s] \in days
        <5> HIDE DEF days
        <5> QED  BY <4>1, ElementOfSeq
      <4> QED  BY <4>2
    <3>4. Week(log[s]) \in Int /\ Week(b.day) \in Int /\ Week(log[s]) <= Week(b.day) /\ Promised(day) \in Int
      <4>1. Week(log[s]) \in Int /\ Week(b.day) \in Int /\ Week(log[s]) <= Week(b.day)
        BY <2>4, <3>2, <3>3, WeekGrows
      <4>2. day <= day
        BY <2>2
      <4>3. Promised(day) \in Int
        BY <2>2, <4>2, PromisedGrows
      <4> QED  BY <4>1, <4>3
    <3>5. Week(log[s]) > Promised(day)
      BY DEF Promised
    <3> QED  BY <2>1, <2>2, <2>4, <3>2, <3>3, <3>4, <3>5
  <2>6. Oldest(Current) <= b.head /\ Oldest(Current) \in Nat
    <3> DEFINE heads == {c.head : c \in Bases(Current)}
    <3>1. /\ \A c \in Bases(Current) : Min(heads) <= c.head
          /\ \E c \in Bases(Current) : c.head = Min(heads)
      BY <2>2, HeadsOf
    <3>2. Oldest(Current) = Min(heads)
      BY DEF Oldest
    <3> HIDE DEF heads
    <3>3. \A c \in Bases(Current) : c.head \in Nat
      BY <2>2, ReachedAreMessages DEF IInv
    <3> QED  BY <3>1, <3>2, <3>3
  <2> QED  BY <2>4, <2>5, <2>6
<1>2. Init => IInv /\ WInv
  BY InitIInv, InitWInv
<1>3. IInv /\ WInv /\ [Next]_vars => (IInv /\ WInv)'
  BY NextIInv, NextWInv
<1> QED  BY <1>1, <1>2, <1>3, PTL DEF Spec
=============================================================================
