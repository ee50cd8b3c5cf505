------------------------- MODULE DirectBlobsProofs -------------------------
(***************************************************************************)
(* What uploads, moves, cleaners and drains keep between them, for any     *)
(* devices, webhooks, uploads, failures and restarts: current versions and *)
(* those of the kept bases stay readable, and what is recorded as gone is. *)
(*                                                                         *)
(* Two things carry the proof. Every message is one upload's (OwnInv), so  *)
(* a version shares its messages with nothing but its own other copies;    *)
(* and a message no version names since a position is never named again    *)
(* (GoneSince, GoneStays), so it is enough that a message is gone when     *)
(* somebody decides to delete it, however much later he does.              *)
(***************************************************************************)
EXTENDS DirectBlobs, FiniteSetTheorems, WellFoundedInduction, TLAPS

LogMove == [upload : Upload, from : Nat, to : Nat, stale : BOOLEAN]
LogEntry == [moves : SUBSET LogMove, ended : SUBSET Upload, day : Nat]
Drain == [state : {"drain"}, from : Nat, to : Nat, at : Nat]

UploadRun == [id : Upload, piece : Nat, manifest : Nat]
MoveRun ==
  [at : {"none", "files", "copy", "settle", "mark", "paused", "done"}, hook : Hook \cup {None}, from : Nat,
   todo : SUBSET [upload : Upload, from : Nat], moves : SUBSET [upload : Upload, from : Nat, to : Nat],
   drain : {None} \cup Drain]
CleanRun ==
  [at : {"clean", "piece", "manifest", "drains", "drain", "drainPiece", "drainManifest"}, todo : SUBSET Nat,
   upload : Nat, finished : SUBSET Upload, hook : Hook \cup {None}, manifest : Nat]

\* The types of everything, with numbers for positions, days and messages.
LogTypes == log \in Seq(LogEntry)
MessageTypes == messages \in Seq([hook : Hook, piece : Nat])
UploadTypes == upload \in [Device -> UploadRun \cup {None}]
MoverTypes ==
  /\ mover \in [Device -> MoveRun]
  /\ \A d \in Device : mover[d].at # "none" => mover[d].hook \in Hook
  /\ \A d \in Device : mover[d].at = "mark" => mover[d].drain \in Drain
CleanerTypes ==
  /\ cleaner \in [Device -> CleanRun \cup {None}]
  /\ \A d \in Device : cleaner[d] # None /\ cleaner[d].at \in {"drain", "drainPiece", "drainManifest"} =>
       cleaner[d].hook \in Hook
  /\ \A d \in Device : cleaner[d] # None /\ cleaner[d].at \in {"clean", "piece", "manifest"} =>
       cleaner[d].todo \subseteq Upload
  /\ \A d \in Device : cleaner[d] # None /\ cleaner[d].at \in {"piece", "manifest"} =>
       cleaner[d].upload \in Upload
TimeTypes == day \in Nat /\ bases \in SUBSET (0 .. HeadSeq) /\ bases # {}
VaultTypes ==
  /\ vault \in [Hook -> [state : {"active", "retired", "drain", "moved"}, from : Nat, to : Nat, at : Nat]]
  /\ client \in [Device -> [knows : SUBSET Hook, posts : SUBSET Hook]]
RestTypes ==
  /\ live \subseteq Message /\ done \subseteq Upload /\ faults \in Nat
  /\ missed \subseteq {"bases", "manifest", "range"} \X Hook

Typing ==
  /\ LogTypes /\ MessageTypes /\ UploadTypes /\ MoverTypes /\ CleanerTypes
  /\ TimeTypes /\ VaultTypes /\ RestTypes

-----------------------------------------------------------------------------
(* Whose messages they are                                                 *)

Piece(m) == messages[m].piece

\* A manifest comes after its fragment, and a fragment is its own piece.
IsManifest(m) == m \in Message /\ Piece(m) \in 1 .. (m - 1) /\ Piece(Piece(m)) = Piece(m)

\* An upload has been bound or moved to a manifest by entry s.
WasBound(u, f, s) == \E j \in 1 .. s : \E n \in log[j].moves : ~n.stale /\ n.upload = u /\ n.to = f

Owns(u, p) ==
  \/ \E i \in 1 .. HeadSeq : \E n \in log[i].moves : n.upload = u /\ p \in Parts(n.to)
  \/ \E d \in Device : \E n \in mover[d].moves : n.upload = u /\ p \in Parts(n.to)
  \/ \E d \in Device : upload[d] # None /\ upload[d].id = u /\ p \in {upload[d].piece, upload[d].manifest}

OwnInv == \A u, v \in Upload : \A p \in Message : Owns(u, p) /\ Owns(v, p) => u = v

\* A move in the log: what it replaced had been bound, and is not current any more.
Logged(i, n) ==
  /\ IsManifest(n.to)
  /\ n.from = 0 => ~n.stale
  /\ n.from # 0 => /\ WasBound(n.upload, n.from, i - 1) /\ n.from < n.to
                   /\ \A b \in i .. HeadSeq : Current(n.upload, b) # n.from

LogInv ==
  /\ \A i \in 1 .. HeadSeq : \A n \in log[i].moves : Logged(i, n)
  /\ \A u \in Upload : Released(u, HeadSeq) => Bound(u, HeadSeq) # 0

\* A copy under way has a fragment that is the old one's or is named nowhere else.
Inherits(m) == Piece(m.to) = Piece(m.from)
FreshInLog(m) == \A i \in 1 .. HeadSeq : \A n \in log[i].moves : Piece(n.to) # Piece(m.to)
FreshAmong(d, m) == \A e \in Device \ {d} : \A n \in mover[e].moves : Piece(n.to) # Piece(m.to)

Pending(d, m) ==
  /\ IsManifest(m.to) /\ m.from < m.to /\ WasBound(m.upload, m.from, HeadSeq)
  /\ Inherits(m) \/ (FreshInLog(m) /\ FreshAmong(d, m))

PendInv ==
  \A d \in Device :
    /\ \A v \in mover[d].todo : WasBound(v.upload, v.from, HeadSeq)
    /\ \A m \in mover[d].moves : Pending(d, m)

\* An upload under way is of a version not bound yet, and of no other device.
UnderWay(d) ==
  /\ Bound(upload[d].id, HeadSeq) = 0
  /\ \A e \in Device \ {d} : upload[e] # None => upload[e].id # upload[d].id
  /\ upload[d].piece \in Message /\ Piece(upload[d].piece) = upload[d].piece
  /\ upload[d].manifest # 0 => IsManifest(upload[d].manifest) /\ Piece(upload[d].manifest) = upload[d].piece

UploadInv == \A d \in Device : upload[d] # None => UnderWay(d)

Names == OwnInv /\ LogInv /\ PendInv /\ UploadInv

-----------------------------------------------------------------------------
(* Numbers                                                                 *)

\* A non-empty set of numbers up to N has a least one.
LEMMA LeastOf ==
  ASSUME NEW N \in Nat, NEW T \in SUBSET (0 .. N), T # {}
  PROVE  \E i \in T : \A j \in T : i <= j
<1> DEFINE Seg(i) == {j \in T : j <= i}
           Segs == {Seg(i) : i \in T}
<1>1. IsFiniteSet(T)
  <2>1. IsFiniteSet(0 .. N)
    BY FS_Interval
  <2> QED  BY <2>1, FS_Subset
<1>2. IsWellFoundedOn(StrictSubsetOrdering(T), FiniteSubsetsOf(T)) /\ FiniteSubsetsOf(T) = SUBSET T
  BY <1>1, FS_StrictSubsetOrderingWellFounded, FS_FiniteSubsetsOfFinite
<1>3. Segs \subseteq FiniteSubsetsOf(T) /\ Segs # {}
  <2>1. \A i \in T : Seg(i) \in SUBSET T
    OBVIOUS
  <2>2. Segs \subseteq SUBSET T
    <3> HIDE DEF Seg
    <3> QED  BY <2>1
  <2>3. PICK i : i \in T
    OBVIOUS
  <2>4. Seg(i) \in Segs
    BY <2>3
  <2> QED  BY <1>2, <2>2, <2>4
<1>4. PICK x \in Segs : \A y \in Segs : <<y, x>> \notin StrictSubsetOrdering(T)
  <2> HIDE DEF Segs
  <2> QED  BY <1>2, <1>3, WFMin
<1>5. PICK i \in T : x = Seg(i)
  OBVIOUS
<1>6. ASSUME NEW j \in T, j < i  PROVE FALSE
  <2>1. i \in Nat /\ j \in Nat /\ \A k \in T : k \in Nat
    OBVIOUS
  <2>2. Seg(j) \subseteq Seg(i) /\ Seg(j) # Seg(i)
    <3>1. i \in Seg(i) /\ i \notin Seg(j)
      BY <1>6, <2>1
    <3>2. ASSUME NEW k \in Seg(j)  PROVE k \in Seg(i)
      <4>1. k \in T /\ k <= j
        OBVIOUS
      <4> QED  BY <1>6, <2>1, <4>1
    <3> QED  BY <3>1, <3>2
  <2>3. <<Seg(j), Seg(i)>> \in StrictSubsetOrdering(T)
    BY <2>2 DEF StrictSubsetOrdering
  <2> QED  BY <1>4, <1>5, <2>3
<1> QED  BY <1>6

\* And a greatest one.
LEMMA GreatestOf ==
  ASSUME NEW N \in Nat, NEW T \in SUBSET (0 .. N), T # {}
  PROVE  \E i \in T : \A j \in T : j <= i
<1> DEFINE R == {N - i : i \in T}
<1>1. R \in SUBSET (0 .. N) /\ R # {}
  <2>1. \A i \in T : N - i \in 0 .. N
    OBVIOUS
  <2>2. PICK i : i \in T
    OBVIOUS
  <2>3. N - i \in R
    BY <2>2
  <2> QED  BY <2>1, <2>3
<1>2. PICK r \in R : \A s \in R : r <= s
  <2> HIDE DEF R
  <2> QED  BY <1>1, LeastOf
<1>3. PICK i \in T : r = N - i
  OBVIOUS
<1>4. ASSUME NEW j \in T  PROVE j <= i
  <2>1. N - j \in R
    OBVIOUS
  <2>2. r <= N - j
    BY <1>2, <2>1
  <2> QED  BY <1>3, <2>2
<1> QED  BY <1>4

\* Max and Min of such sets are what their names say.
LEMMA MaxIs ==
  ASSUME NEW N \in Nat, NEW T \in SUBSET (0 .. N), T # {}
  PROVE  Max(T) \in T /\ \A j \in T : j <= Max(T)
<1>1. \E i \in T : \A j \in T : i >= j
  <2>1. PICK i \in T : \A j \in T : j <= i
    BY GreatestOf
  <2> QED  BY <2>1
<1> QED  BY <1>1 DEF Max

\* The least element, too.
LEMMA MinIs ==
  ASSUME NEW N \in Nat, NEW T \in SUBSET (0 .. N), T # {}
  PROVE  Min(T) \in T /\ \A j \in T : Min(T) <= j
<1>1. \E i \in T : \A j \in T : i =< j
  BY LeastOf
<1> QED  BY <1>1 DEF Min

-----------------------------------------------------------------------------
(* Where an upload is bound, in a log l                                    *)

BindsIn(l, u, f, s) == \E j \in 1 .. s : \E n \in l[j].moves : ~n.stale /\ n.upload = u /\ n.to = f

BoundIn(l, u, s) ==
  LET moves == UNION {l[i].moves : i \in 1 .. s}
      of == {m.to : m \in {n \in moves : n.upload = u /\ ~n.stale}}
  IN  IF of = {} THEN 0 ELSE Max(of)

\* The greatest manifest the upload was bound to, or 0.
Tops(l, u, s, b) ==
  /\ b \in Nat
  /\ b = 0 \/ BindsIn(l, u, b, s)
  /\ \A f : BindsIn(l, u, f, s) => f \in Nat \ {0} /\ f <= b

\* What Bound computes is the greatest of them.
LEMMA BoundTops ==
  ASSUME NEW l, NEW N \in Nat, NEW u, NEW s \in Nat,
         \A i \in 1 .. s : \A n \in l[i].moves : n.to \in 1 .. N
  PROVE  Tops(l, u, s, BoundIn(l, u, s))
<1> DEFINE moves == UNION {l[i].moves : i \in 1 .. s}
           of == {m.to : m \in {n \in moves : n.upload = u /\ ~n.stale}}
<1>1. ASSUME NEW f \in of  PROVE BindsIn(l, u, f, s) /\ f \in 1 .. N
  <2>1. PICK i \in 1 .. s : \E n \in l[i].moves : n.upload = u /\ ~n.stale /\ n.to = f
    OBVIOUS
  <2> QED  BY <2>1 DEF BindsIn
<1>2. ASSUME NEW f, BindsIn(l, u, f, s)  PROVE f \in of
  <2>1. PICK i \in 1 .. s : \E n \in l[i].moves : ~n.stale /\ n.upload = u /\ n.to = f
    BY <1>2 DEF BindsIn
  <2>2. PICK n \in l[i].moves : ~n.stale /\ n.upload = u /\ n.to = f
    BY <2>1
  <2>3. n \in moves
    OBVIOUS
  <2> QED  BY <2>2, <2>3
<1>3. BoundIn(l, u, s) = IF of = {} THEN 0 ELSE Max(of)
  BY DEF BoundIn
<1>4. of \in SUBSET (0 .. N)
  BY <1>1
<1> HIDE DEF of
<1>5. CASE of = {}
  BY <1>2, <1>3, <1>5 DEF Tops
<1>6. CASE of # {}
  <2>1. Max(of) \in of /\ \A j \in of : j <= Max(of)
    BY <1>4, <1>6, MaxIs
  <2> QED  BY <1>1, <1>2, <1>3, <1>6, <2>1 DEF Tops
<1> QED  BY <1>5, <1>6

\* There is only one such number.
LEMMA TopIsOne ==
  ASSUME NEW l, NEW u, NEW s, NEW b, NEW c, Tops(l, u, s, b), Tops(l, u, s, c)
  PROVE  b = c
BY DEF Tops

\* It depends on the log up to s only.
LEMMA SameBeginning ==
  ASSUME NEW l, NEW k, NEW u, NEW s \in Nat, \A i \in 1 .. s : l[i] = k[i]
  PROVE  BoundIn(l, u, s) = BoundIn(k, u, s) /\ \A f : BindsIn(l, u, f, s) = BindsIn(k, u, f, s)
<1>1. UNION {l[i].moves : i \in 1 .. s} = UNION {k[i].moves : i \in 1 .. s}
  OBVIOUS
<1> QED  BY <1>1 DEF BoundIn, BindsIn

\* One entry more: what it binds is added.
LEMMA BindsOneMore ==
  ASSUME NEW l, NEW u, NEW s \in Nat, NEW f
  PROVE  BindsIn(l, u, f, s + 1) <=>
           BindsIn(l, u, f, s) \/ \E n \in l[s + 1].moves : ~n.stale /\ n.upload = u /\ n.to = f
<1>1. \A j : j \in 1 .. (s + 1) <=> j \in 1 .. s \/ j = s + 1
  OBVIOUS
<1> QED  BY <1>1 DEF BindsIn

\* So the greatest stays, or is one that it binds.
Onward(l, u, s, b, c) ==
  \/ c = b /\ ~\E n \in l[s + 1].moves : ~n.stale /\ n.upload = u
  \/ c > b /\ \E n \in l[s + 1].moves : ~n.stale /\ n.upload = u /\ n.to = c

\* That is what one entry more does.
LEMMA TopOneMore ==
  ASSUME NEW l, NEW u, NEW s \in Nat, NEW b, NEW c,
         Tops(l, u, s, b), Tops(l, u, s + 1, c),
         \A n \in l[s + 1].moves : ~n.stale /\ n.upload = u => n.to > b
  PROVE  Onward(l, u, s, b, c)
<1>1. CASE \E n \in l[s + 1].moves : ~n.stale /\ n.upload = u
  <2>1. PICK n \in l[s + 1].moves : ~n.stale /\ n.upload = u
    BY <1>1
  <2>2. n.to <= c /\ n.to > b /\ n.to \in Nat
    BY <2>1, BindsOneMore DEF Tops
  <2>3. b \in Nat /\ c \in Nat
    BY DEF Tops
  <2>4. c > b
    BY <2>2, <2>3
  <2>5. ~BindsIn(l, u, c, s)
    BY <2>3, <2>4 DEF Tops
  <2> QED  BY <2>3, <2>4, <2>5, BindsOneMore DEF Tops, Onward
<1>2. CASE ~\E n \in l[s + 1].moves : ~n.stale /\ n.upload = u
  <2>1. \A f : BindsIn(l, u, f, s + 1) <=> BindsIn(l, u, f, s)
    BY <1>2, BindsOneMore
  <2> QED  BY <1>2, <2>1 DEF Tops, Onward
<1> QED  BY <1>1, <1>2
-----------------------------------------------------------------------------
(* Types                                                                   *)

\* What the types say of the log and of the messages.
LEMMA LogIs ==
  ASSUME LogTypes
  PROVE  /\ HeadSeq \in Nat /\ HeadSeq = Len(log)
         /\ \A i \in 1 .. HeadSeq : log[i] \in LogEntry
BY DEF LogTypes, HeadSeq

\* The same of the messages.
LEMMA MessagesAre ==
  ASSUME MessageTypes
  PROVE  /\ Len(messages) \in Nat /\ Message = 1 .. Len(messages)
         /\ \A m \in Message : messages[m] \in [hook : Hook, piece : Nat]
<1> DEFINE S == [hook : Hook, piece : Nat]
<1>1. messages \in Seq(S)
  BY DEF MessageTypes
<1> HIDE DEF S
<1>2. /\ Len(messages) \in Nat /\ DOMAIN messages = 1 .. Len(messages)
      /\ \A i \in 1 .. Len(messages) : messages[i] \in S
  BY <1>1
<1> QED  BY <1>2 DEF Message, S

\* An entry appended to the log.
LEMMA Appended ==
  ASSUME LogTypes, NEW e \in LogEntry, log' = Append(log, e)
  PROVE  /\ LogTypes' /\ HeadSeq' = HeadSeq + 1
         /\ \A i \in 1 .. HeadSeq : log'[i] = log[i]
         /\ log'[HeadSeq + 1] = e
<1>1. log \in Seq(LogEntry)
  BY DEF LogTypes
<1>2. Append(log, e) \in Seq(LogEntry) /\ Len(Append(log, e)) = Len(log) + 1
  BY <1>1
<1>3. /\ \A i \in 1 .. Len(log) : Append(log, e)[i] = log[i]
      /\ Append(log, e)[Len(log) + 1] = e
  BY <1>1
<1> QED  BY <1>2, <1>3 DEF LogTypes, HeadSeq

\* The messages after one or two more.
MessagesGrow ==
  /\ MessageTypes' /\ Len(messages') >= Len(messages)
  /\ \A m \in Message : messages'[m] = messages[m]

\* One message posted.
LEMMA PostedOne ==
  ASSUME MessageTypes, NEW x \in [hook : Hook, piece : Nat], messages' = Append(messages, x)
  PROVE  /\ MessagesGrow /\ Len(messages') = Len(messages) + 1
         /\ messages'[Len(messages) + 1] = x
         /\ Message' = Message \cup {Len(messages) + 1}
<1>1. messages \in Seq([hook : Hook, piece : Nat])
  BY DEF MessageTypes
<1>2. Append(messages, x) \in Seq([hook : Hook, piece : Nat]) /\ Len(Append(messages, x)) = Len(messages) + 1
  BY <1>1
<1>3. /\ \A i \in 1 .. Len(messages) : Append(messages, x)[i] = messages[i]
      /\ Append(messages, x)[Len(messages) + 1] = x
  BY <1>1
<1>4. MessageTypes' /\ Len(messages') = Len(messages) + 1
  BY <1>2 DEF MessageTypes
<1>5. Message = 1 .. Len(messages) /\ Message' = 1 .. Len(messages') /\ Len(messages) \in Nat
  BY <1>1, <1>2 DEF Message
<1> QED  BY <1>3, <1>4, <1>5 DEF MessagesGrow

\* One message after others, as a concatenation.
LEMMA OneMore ==
  ASSUME NEW S, NEW s \in Seq(S), NEW x \in S
  PROVE  /\ s \o <<x>> \in Seq(S) /\ Len(s \o <<x>>) = Len(s) + 1
         /\ \A i \in 1 .. Len(s) : (s \o <<x>>)[i] = s[i]
         /\ (s \o <<x>>)[Len(s) + 1] = x
<1>1. <<x>> \in Seq(S) /\ Len(<<x>>) = 1 /\ <<x>>[1] = x
  OBVIOUS
<1>2. /\ s \o <<x>> \in Seq(S) /\ Len(s \o <<x>>) = Len(s) + Len(<<x>>)
      /\ \A i \in 1 .. Len(s) + Len(<<x>>) : (s \o <<x>>)[i] = IF i <= Len(s) THEN s[i] ELSE <<x>>[i - Len(s)]
  BY <1>1
<1> QED  BY <1>1, <1>2

\* Messages posted one after the other.
LEMMA PostedTwo ==
  ASSUME MessageTypes, NEW x \in [hook : Hook, piece : Nat], NEW y \in [hook : Hook, piece : Nat],
         messages' = messages \o <<x>> \o <<y>>
  PROVE  /\ MessagesGrow /\ Len(messages') = Len(messages) + 2
         /\ messages'[Len(messages) + 1] = x /\ messages'[Len(messages) + 2] = y
         /\ Message' = Message \cup {Len(messages) + 1, Len(messages) + 2}
<1> DEFINE S == [hook : Hook, piece : Nat]
           one == messages \o <<x>>
<1>1. messages \in Seq(S) /\ x \in S /\ y \in S
  BY DEF MessageTypes
<1>2. messages' = one \o <<y>>
  OBVIOUS
<1> HIDE DEF S
<1>3. one \in Seq(S) /\ Len(one) = Len(messages) + 1
  BY <1>1, OneMore
<1>4. /\ \A i \in 1 .. Len(messages) : one[i] = messages[i]
      /\ one[Len(messages) + 1] = x
  BY <1>1, OneMore
<1> HIDE DEF one
<1> DEFINE two == one \o <<y>>
<1>5. two \in Seq(S) /\ Len(two) = Len(one) + 1
  BY <1>1, <1>3, OneMore
<1>6. /\ \A i \in 1 .. Len(one) : two[i] = one[i]
      /\ two[Len(one) + 1] = y
  BY <1>1, <1>3, OneMore
<1> HIDE DEF two
<1>7. MessageTypes' /\ Len(messages') = Len(messages) + 2
  BY <1>2, <1>3, <1>5, <1>1 DEF MessageTypes, S, two
<1>8. Message = 1 .. Len(messages) /\ Message' = 1 .. Len(messages') /\ Len(messages) \in Nat
  BY <1>1, <1>2, <1>5 DEF Message, two
<1>9. /\ \A m \in Message : messages'[m] = messages[m]
      /\ messages'[Len(messages) + 1] = x /\ messages'[Len(messages) + 2] = y
  BY <1>2, <1>3, <1>4, <1>6, <1>8 DEF two
<1> QED  BY <1>7, <1>8, <1>9 DEF MessagesGrow

-----------------------------------------------------------------------------
(* What the log says                                                       *)

\* What the log binds and moves to are messages.
LogNamesMessages == \A i \in 1 .. HeadSeq : \A n \in log[i].moves : n.to \in Message
LogOK == LogTypes /\ MessageTypes /\ LogNamesMessages

\* Where an upload is bound.
LEMMA BoundIs ==
  ASSUME LogOK, NEW u, NEW s \in 0 .. HeadSeq
  PROVE  /\ Bound(u, s) = BoundIn(log, u, s) /\ Tops(log, u, s, Bound(u, s))
         /\ Bound(u, s) \in Nat
         /\ Bound(u, s) # 0 => Bound(u, s) \in Message /\ WasBound(u, Bound(u, s), s)
         /\ \A f : WasBound(u, f, s) => f \in Message /\ f <= Bound(u, s)
<1>1. HeadSeq \in Nat /\ Len(messages) \in Nat /\ Message = 1 .. Len(messages)
  BY LogIs, MessagesAre DEF LogOK
<1>2. \A i \in 1 .. s : \A n \in log[i].moves : n.to \in 1 .. Len(messages)
  BY <1>1 DEF LogOK, LogNamesMessages
<1>3. Tops(log, u, s, BoundIn(log, u, s))
  BY <1>1, <1>2, BoundTops
<1>4. Bound(u, s) = BoundIn(log, u, s)
  BY DEF Bound, BoundIn
<1>5. \A f : WasBound(u, f, s) <=> BindsIn(log, u, f, s)
  BY DEF WasBound, BindsIn
<1>6. \A f : WasBound(u, f, s) => f \in Message
  BY <1>1, <1>2 DEF WasBound
<1>7. Bound(u, s) # 0 => WasBound(u, Bound(u, s), s)
  BY <1>3, <1>4, <1>5 DEF Tops
<1> QED  BY <1>3, <1>4, <1>5, <1>6, <1>7 DEF Tops

\* The same of the next log.
LEMMA BoundIsNext ==
  ASSUME LogOK', NEW u, NEW s \in 0 .. HeadSeq'
  PROVE  Bound(u, s)' = BoundIn(log', u, s) /\ Tops(log', u, s, Bound(u, s)')
<1>1. /\ HeadSeq' \in Nat /\ Len(messages') \in Nat /\ Message' = 1 .. Len(messages')
  <2>1. LogTypes' /\ MessageTypes'
    BY DEF LogOK
  <2>2. HeadSeq' \in Nat
    BY <2>1 DEF LogTypes, HeadSeq
  <2> DEFINE S == [hook : Hook, piece : Nat]
  <2>3. messages' \in Seq(S)
    BY <2>1 DEF MessageTypes
  <2> HIDE DEF S
  <2>4. Len(messages') \in Nat /\ DOMAIN messages' = 1 .. Len(messages')
    BY <2>3
  <2> QED  BY <2>2, <2>4 DEF Message
<1>2. \A i \in 1 .. s : \A n \in log'[i].moves : n.to \in 1 .. Len(messages')
  BY <1>1 DEF LogOK, LogNamesMessages
<1>3. Tops(log', u, s, BoundIn(log', u, s))
  BY <1>1, <1>2, BoundTops
<1>4. Bound(u, s)' = BoundIn(log', u, s)
  BY DEF Bound, BoundIn
<1> QED  BY <1>3, <1>4

\* The log is extended.
LogExtends == \A i \in 1 .. HeadSeq : log'[i] = log[i]

\* What was said of a position stays said of it.
LEMMA OldStays ==
  ASSUME HeadSeq \in Nat, LogExtends, NEW u, NEW s \in 0 .. HeadSeq
  PROVE  /\ Bound(u, s)' = Bound(u, s) /\ (Released(u, s)' <=> Released(u, s))
         /\ Current(u, s)' = Current(u, s)
         /\ \A f : WasBound(u, f, s)' <=> WasBound(u, f, s)
<1>1. s \in Nat /\ \A i \in 1 .. s : log'[i] = log[i]
  BY DEF LogExtends
<1>2. BoundIn(log', u, s) = BoundIn(log, u, s) /\ \A f : BindsIn(log', u, f, s) = BindsIn(log, u, f, s)
  BY <1>1, SameBeginning
<1>3. Bound(u, s)' = BoundIn(log', u, s) /\ Bound(u, s) = BoundIn(log, u, s)
  BY DEF Bound, BoundIn
<1>4. Released(u, s)' <=> Released(u, s)
  BY <1>1 DEF Released
<1>5. Current(u, s)' = Current(u, s)
  BY <1>2, <1>3, <1>4 DEF Current
<1>6. \A f : WasBound(u, f, s)' <=> WasBound(u, f, s)
  BY <1>2 DEF WasBound, BindsIn
<1> QED  BY <1>2, <1>3, <1>4, <1>5, <1>6

\* What was bound or released by a position was so by every later one.
LEMMA LaterToo ==
  ASSUME LogOK, NEW u, NEW s \in 0 .. HeadSeq, NEW t \in s .. HeadSeq
  PROVE  /\ \A f : WasBound(u, f, s) => WasBound(u, f, t)
         /\ Released(u, s) => Released(u, t)
         /\ Bound(u, s) <= Bound(u, t)
<1>1. HeadSeq \in Nat
  BY LogIs DEF LogOK
<1>2. \A f : WasBound(u, f, s) => WasBound(u, f, t)
  BY <1>1 DEF WasBound
<1>3. Released(u, s) => Released(u, t)
  BY <1>1 DEF Released
<1>4. t \in 0 .. HeadSeq
  BY <1>1
<1>5. Bound(u, s) <= Bound(u, t)
  <2>1. Bound(u, s) \in Nat /\ Bound(u, t) \in Nat
    BY <1>4, BoundIs
  <2>2. CASE Bound(u, s) = 0
    BY <2>1, <2>2
  <2>3. CASE Bound(u, s) # 0
    BY <1>2, <1>4, <2>3, BoundIs
  <2> QED  BY <2>2, <2>3
<1> QED  BY <1>2, <1>3, <1>5
-----------------------------------------------------------------------------
(* Steps, by what they do to the names of messages                         *)

\* What is said of a message stays said of it.
LEMMA ManifestStays ==
  ASSUME MessageTypes, MessagesGrow, NEW m, IsManifest(m)
  PROVE  /\ m \in Message /\ Piece(m) \in Message /\ m # Piece(m) /\ Parts(m) = {m, Piece(m)}
         /\ IsManifest(m)' /\ Piece(m)' = Piece(m) /\ Parts(m)' = Parts(m)
         /\ messages'[m] = messages[m] /\ messages'[Piece(m)] = messages[Piece(m)]
<1>1. Message = 1 .. Len(messages) /\ Len(messages) \in Nat
  BY MessagesAre
<1>2. m \in Message /\ Piece(m) \in 1 .. (m - 1) /\ Piece(Piece(m)) = Piece(m)
  BY DEF IsManifest
<1>3. Piece(m) \in Message /\ m # Piece(m)
  BY <1>1, <1>2
<1>4. messages'[m] = messages[m] /\ messages'[Piece(m)] = messages[Piece(m)]
  BY <1>2, <1>3 DEF MessagesGrow
<1>5. Piece(m)' = Piece(m) /\ Piece(Piece(m))' = Piece(m)
  BY <1>2, <1>4 DEF Piece
<1>6. m \in Message'
  <2>1. Message' = 1 .. Len(messages') /\ Len(messages') \in Nat
    <3> DEFINE S == [hook : Hook, piece : Nat]
    <3>1. messages' \in Seq(S)
      BY DEF MessagesGrow, MessageTypes
    <3> HIDE DEF S
    <3> QED  BY <3>1 DEF Message
  <2> QED  BY <1>1, <1>2, <2>1 DEF MessagesGrow
<1> QED  BY <1>2, <1>3, <1>4, <1>5, <1>6 DEF IsManifest, Parts, Piece

\* A move that may enter the log: of an upload that ends with it, or of copies that do.
NewMove(n) ==
  \/ \E d \in Device : /\ upload[d] # None /\ upload'[d] = None /\ upload[d].manifest # 0
                       /\ n = Bind(upload[d].id, upload[d].manifest)
  \/ \E d \in Device : \E m \in mover[d].moves :
       /\ mover'[d].moves = {}
       /\ n = [upload |-> m.upload, from |-> m.from, to |-> m.to, stale |-> Stale(m)]

Tellable(e) == (\A n \in e.moves : NewMove(n)) /\ \A u \in e.ended : Current(u, HeadSeq) # 0

\* A step that gives no message a new name: at most the log tells what was pending.
Tells ==
  /\ messages' = messages
  /\ log' = log \/ \E e \in LogEntry : log' = Append(log, e) /\ Tellable(e)
  /\ \A d \in Device :
       /\ mover'[d].moves \subseteq mover[d].moves
       /\ \A v \in mover'[d].todo :
            v \in mover[d].todo \/ (v.from = Current(v.upload, HeadSeq) /\ v.from # 0)
       /\ \/ upload'[d] \in {upload[d], None}
          \/ upload[d] # None /\ upload'[d] = [upload[d] EXCEPT !.manifest = 0]

\* A step that posts for an upload: its fragment, or its manifest.
PostsFor(d, k) ==
  /\ log' = log /\ mover' = mover /\ MessagesGrow /\ k \in Message' \ Message /\ Message' \ Message \subseteq {k}
  /\ \A e \in Device \ {d} : upload'[e] = upload[e]
  /\ \/ /\ upload[d] = None /\ messages'[k].piece = k
        /\ \E u \in Upload \ Begun : upload'[d] = [id |-> u, piece |-> k, manifest |-> 0]
     \/ /\ upload[d] # None /\ messages'[k].piece = upload[d].piece
        /\ upload'[d] = [upload[d] EXCEPT !.manifest = k]

\* A step that copies a version: its new manifest has the old fragment or a new one.
Copies(d, v, k, p) ==
  /\ log' = log /\ upload' = upload /\ MessagesGrow /\ k \in Message' \ Message /\ Message' \ Message \subseteq {k, p}
  /\ v \in mover[d].todo /\ messages'[k].piece = p
  /\ p = Piece(v.from) \/ (p \in Message' \ Message /\ p < k /\ messages'[p].piece = p)
  /\ mover'[d].todo \subseteq mover[d].todo
  /\ mover'[d].moves = mover[d].moves \cup {[upload |-> v.upload, from |-> v.from, to |-> k]}
  /\ \A e \in Device \ {d} : mover'[e] = mover[e]

\* The invariants, with the types they need.
RunsTyped == UploadTypes /\ MoverTypes
Base == LogTypes /\ MessageTypes /\ RunsTyped /\ Names

\* The log names messages only.
LEMMA NamesAreMessages ==
  ASSUME Base
  PROVE  LogOK /\ HeadSeq \in Nat
<1>1. LogNamesMessages
  BY DEF Base, Names, LogInv, Logged, IsManifest, LogNamesMessages
<1> QED  BY <1>1, LogIs DEF Base, LogOK

\* A version under way was bound to what it is copied from.
LEMMA PendingIs ==
  ASSUME Base, NEW d \in Device, NEW m \in mover[d].moves
  PROVE  /\ m.upload \in Upload /\ m.from \in Message /\ m.to \in Message /\ m.from < m.to
         /\ Pending(d, m) /\ IsManifest(m.to)
         /\ WasBound(m.upload, m.from, HeadSeq) /\ m.from <= Bound(m.upload, HeadSeq)
<1>1. mover[d] \in MoveRun
  BY DEF Base, RunsTyped, MoverTypes
<1>2. m.upload \in Upload
  BY <1>1 DEF MoveRun
<1>3. Pending(d, m)
  BY DEF Base, Names, PendInv
<1>4. IsManifest(m.to) /\ m.from < m.to /\ WasBound(m.upload, m.from, HeadSeq) /\ m.to \in Message
  BY <1>3 DEF Pending, IsManifest
<1>5. HeadSeq \in 0 .. HeadSeq /\ LogOK
  BY NamesAreMessages
<1>6. m.from \in Message /\ m.from <= Bound(m.upload, HeadSeq)
  BY <1>4, <1>5, BoundIs
<1> QED  BY <1>2, <1>3, <1>4, <1>6

\* What the log may be told binds further than it was.
LEMMA NewMovesAdvance ==
  ASSUME Base, NEW n, NewMove(n)
  PROVE  /\ n.upload \in Upload /\ n.to \in Message /\ IsManifest(n.to) /\ n.stale \in BOOLEAN
         /\ n.from = 0 => ~n.stale
         /\ n.from # 0 => WasBound(n.upload, n.from, HeadSeq) /\ n.from < n.to
         /\ ~n.stale => n.to > Bound(n.upload, HeadSeq)
         /\ n.stale => Current(n.upload, HeadSeq) # n.from
<1>1. LogOK /\ HeadSeq \in 0 .. HeadSeq
  BY NamesAreMessages
<1>2. Message = 1 .. Len(messages) /\ Len(messages) \in Nat
  BY MessagesAre DEF Base
<1>3. ASSUME NEW d \in Device, upload[d] # None, upload[d].manifest # 0,
             n = Bind(upload[d].id, upload[d].manifest)
      PROVE  /\ n.upload \in Upload /\ n.to \in Message /\ IsManifest(n.to) /\ n.from = 0 /\ n.stale = FALSE
             /\ Bound(n.upload, HeadSeq) = 0
  <2>1. upload[d] \in UploadRun /\ UnderWay(d)
    BY <1>3 DEF Base, RunsTyped, UploadTypes, Names, UploadInv
  <2>2. n.upload = upload[d].id /\ n.to = upload[d].manifest /\ n.from = 0 /\ n.stale = FALSE
    BY <1>3 DEF Bind
  <2>3. IsManifest(upload[d].manifest) /\ Bound(upload[d].id, HeadSeq) = 0
    BY <1>3, <2>1 DEF UnderWay
  <2> QED  BY <2>1, <2>2, <2>3 DEF UploadRun, IsManifest
<1>4. ASSUME NEW d \in Device, NEW m \in mover[d].moves,
             n = [upload |-> m.upload, from |-> m.from, to |-> m.to, stale |-> Stale(m)]
      PROVE  /\ n.upload \in Upload /\ n.to \in Message /\ IsManifest(n.to) /\ n.from \in Message /\ n.stale \in BOOLEAN
             /\ WasBound(n.upload, n.from, HeadSeq) /\ n.from < n.to
             /\ ~n.stale => n.to > Bound(n.upload, HeadSeq)
             /\ n.stale => Current(n.upload, HeadSeq) # n.from
  <2>1. n.upload = m.upload /\ n.from = m.from /\ n.to = m.to /\ n.stale = Stale(m)
    BY <1>4
  <2>2. ~Stale(m) => Bound(m.upload, HeadSeq) = m.from
    <3>1. m.from # 0
      BY <1>2, PendingIs
    <3> QED  BY <3>1 DEF Stale, Current
  <2>3. Stale(m) \in BOOLEAN /\ (Stale(m) <=> Current(m.upload, HeadSeq) # m.from)
    BY DEF Stale
  <2> QED  BY <2>1, <2>2, <2>3, PendingIs
<1>5. CASE \E d \in Device : /\ upload[d] # None /\ upload'[d] = None /\ upload[d].manifest # 0
                             /\ n = Bind(upload[d].id, upload[d].manifest)
  <2>1. PICK d \in Device : /\ upload[d] # None /\ upload[d].manifest # 0
                            /\ n = Bind(upload[d].id, upload[d].manifest)
    BY <1>5
  <2>2. /\ n.upload \in Upload /\ n.to \in Message /\ IsManifest(n.to) /\ n.from = 0 /\ n.stale = FALSE
        /\ Bound(n.upload, HeadSeq) = 0
    BY <1>3, <2>1
  <2>3. n.stale \in BOOLEAN /\ ~n.stale
    BY <2>2
  <2>4. n.to > Bound(n.upload, HeadSeq)
    BY <1>2, <2>2
  <2> QED  BY <2>2, <2>3, <2>4
<1>6. CASE \E d \in Device : \E m \in mover[d].moves :
             /\ mover'[d].moves = {}
             /\ n = [upload |-> m.upload, from |-> m.from, to |-> m.to, stale |-> Stale(m)]
  <2>1. PICK d \in Device : \E m \in mover[d].moves :
          n = [upload |-> m.upload, from |-> m.from, to |-> m.to, stale |-> Stale(m)]
    BY <1>6
  <2>2. PICK m \in mover[d].moves :
          n = [upload |-> m.upload, from |-> m.from, to |-> m.to, stale |-> Stale(m)]
    BY <2>1
  <2> HIDE DEF NewMove
  <2>3. /\ n.upload \in Upload /\ n.to \in Message /\ IsManifest(n.to) /\ n.from \in Message /\ n.stale \in BOOLEAN
        /\ WasBound(n.upload, n.from, HeadSeq) /\ n.from < n.to
        /\ ~n.stale => n.to > Bound(n.upload, HeadSeq)
        /\ n.stale => Current(n.upload, HeadSeq) # n.from
    BY <1>4, <2>2
  <2>4. n.from # 0
    BY <1>2, <2>3
  <2> QED  BY <2>3, <2>4
<1> QED  BY <1>5, <1>6 DEF NewMove
-----------------------------------------------------------------------------
(* Steps that tell                                                         *)

\* What such a step does to the log.
LogGrowth ==
  /\ LogTypes' /\ LogExtends
  /\ HeadSeq' = HeadSeq \/ (HeadSeq' = HeadSeq + 1 /\ Tellable(log'[HeadSeq + 1]))

\* What the steps that tell do to the log and the messages.
LEMMA TellsLog ==
  ASSUME Base, Tells
  PROVE  LogGrowth /\ LogOK' /\ MessagesGrow /\ Message' = Message
<1>1. HeadSeq \in Nat /\ LogTypes /\ MessageTypes
  BY NamesAreMessages DEF Base
<1>2. messages' = messages
  BY DEF Tells
<1>3. MessageTypes' /\ Message' = Message
  BY <1>1, <1>2 DEF MessageTypes, Message
<1>4. MessagesGrow
  BY <1>1, <1>2, <1>3, MessagesAre DEF MessagesGrow
<1>5. LogGrowth
  <2>1. CASE log' = log
    BY <1>1, <2>1 DEF LogGrowth, LogTypes, LogExtends, HeadSeq
  <2>2. ASSUME NEW e \in LogEntry, log' = Append(log, e), Tellable(e)  PROVE LogGrowth
    BY <1>1, <2>2, Appended DEF LogGrowth, LogExtends
  <2> QED  BY <2>1, <2>2 DEF Tells
<1>6. LogNamesMessages'
  <2> SUFFICES ASSUME NEW i \in 1 .. HeadSeq', NEW n \in log'[i].moves  PROVE n.to \in Message
    BY <1>3 DEF LogNamesMessages
  <2>1. CASE i \in 1 .. HeadSeq
    BY <2>1, NamesAreMessages, <1>5 DEF LogGrowth, LogExtends, LogOK, LogNamesMessages
  <2>2. CASE i = HeadSeq + 1 /\ HeadSeq' = HeadSeq + 1
    <3>1. NewMove(n)
      BY <1>1, <1>5, <2>2 DEF LogGrowth, Tellable
    <3> QED  BY <3>1, NewMovesAdvance
  <2> QED  BY <1>1, <1>5, <2>1, <2>2 DEF LogGrowth
<1> QED  BY <1>3, <1>4, <1>5, <1>6 DEF LogGrowth, LogOK

\* Where an upload is bound after such a step: where it was, or further.
HeadMoves(u) ==
  \/ /\ Bound(u, HeadSeq)' = Bound(u, HeadSeq)
  \/ /\ Bound(u, HeadSeq)' > Bound(u, HeadSeq) /\ HeadSeq' = HeadSeq + 1
     /\ \E n \in log'[HeadSeq + 1].moves : ~n.stale /\ n.upload = u /\ n.to = Bound(u, HeadSeq)'

\* The bound of the next state is one of the two.
LEMMA HeadBound ==
  ASSUME Base, Tells, NEW u
  PROVE  /\ HeadMoves(u) /\ Bound(u, HeadSeq) \in Nat /\ Bound(u, HeadSeq)' \in Nat
         /\ Bound(u, HeadSeq)' >= Bound(u, HeadSeq)
         /\ Released(u, HeadSeq) => Released(u, HeadSeq)'
         /\ \A s \in 0 .. HeadSeq : Current(u, s)' = Current(u, s) /\ \A f : WasBound(u, f, s)' <=> WasBound(u, f, s)
<1>1. HeadSeq \in Nat /\ LogOK
  BY NamesAreMessages
<1>2. LogGrowth /\ LogOK'
  BY TellsLog
<1>3. \A s \in 0 .. HeadSeq : /\ Bound(u, s)' = Bound(u, s) /\ Current(u, s)' = Current(u, s)
                              /\ Released(u, s)' <=> Released(u, s)
                              /\ \A f : WasBound(u, f, s)' <=> WasBound(u, f, s)
  BY <1>1, <1>2, OldStays DEF LogGrowth
<1>4. Tops(log, u, HeadSeq, Bound(u, HeadSeq)) /\ Bound(u, HeadSeq) = BoundIn(log, u, HeadSeq)
  BY <1>1, BoundIs
<1>5. CASE HeadSeq' = HeadSeq
  <2>1. Bound(u, HeadSeq)' = Bound(u, HeadSeq) /\ (Released(u, HeadSeq)' <=> Released(u, HeadSeq))
    BY <1>1, <1>3, <1>5
  <2> QED  BY <1>3, <1>4, <2>1 DEF HeadMoves, Tops
<1>6. CASE HeadSeq' = HeadSeq + 1 /\ Tellable(log'[HeadSeq + 1])
  <2> DEFINE s == HeadSeq
             b == Bound(u, HeadSeq)
             c == BoundIn(log', u, s + 1)
  <2>1. Bound(u, HeadSeq)' = c /\ Tops(log', u, s + 1, c)
    <3>1. HeadSeq' \in 0 .. HeadSeq'
      BY <1>1, <1>6
    <3>2. Bound(u, HeadSeq)' = BoundIn(log', u, HeadSeq') /\ Tops(log', u, HeadSeq', Bound(u, HeadSeq)')
      BY <1>2, <3>1, BoundIsNext
    <3> QED  BY <1>6, <3>2
  <2>2. Tops(log', u, s, b)
    <3>1. \A f : BindsIn(log, u, f, s) = BindsIn(log', u, f, s)
      BY <1>1, <1>2, SameBeginning DEF LogGrowth, LogExtends
    <3> QED  BY <1>4, <3>1 DEF Tops
  <2>3. \A n \in log'[s + 1].moves : ~n.stale /\ n.upload = u => n.to > b
    BY <1>6, NewMovesAdvance DEF Tellable
  <2> HIDE DEF c
  <2>4. Onward(log', u, s, b, c)
    BY <1>1, <2>1, <2>2, <2>3, TopOneMore
  <2>5. b \in Nat /\ c \in Nat
    BY <2>1, <2>2 DEF Tops
  <2>6. HeadMoves(u)
    BY <1>6, <2>1, <2>4 DEF HeadMoves, Onward
  <2>7. Released(u, HeadSeq) => Released(u, HeadSeq)'
    BY <1>1, <1>2, <1>6 DEF Released, LogGrowth, LogExtends
  <2>8. c >= b
    BY <2>4, <2>5 DEF Onward
  <2> QED  BY <1>3, <2>1, <2>5, <2>6, <2>7, <2>8
<1> QED  BY <1>2, <1>5, <1>6 DEF LogGrowth

\* What is not current any more never is again.
LEMMA NeverAgain ==
  ASSUME Base, Tells, NEW u, NEW f, WasBound(u, f, HeadSeq), Current(u, HeadSeq) # f
  PROVE  Current(u, HeadSeq)' # f
<1>1. HeadSeq \in 0 .. HeadSeq /\ LogOK
  BY NamesAreMessages
<1>2. f \in Message /\ f <= Bound(u, HeadSeq)
  BY <1>1, BoundIs
<1>3. f \in Nat /\ f # 0
  BY <1>2, MessagesAre DEF Base
<1>4. CASE Released(u, HeadSeq)'
  BY <1>3, <1>4 DEF Current
<1>5. CASE ~Released(u, HeadSeq)'
  <2>1. Bound(u, HeadSeq) # f
    BY <1>5, HeadBound DEF Current
  <2>2. Bound(u, HeadSeq)' # f
    BY <1>2, <1>3, <2>1, HeadBound
  <2> QED  BY <1>5, <2>2 DEF Current
<1> QED  BY <1>4, <1>5
\* A step that tells lets no upload own more.
LEMMA TellsOwns ==
  ASSUME Base, Tells, NEW u \in Upload, NEW p \in Message, Owns(u, p)'
  PROVE  Owns(u, p)
<1>1. HeadSeq \in Nat /\ LogGrowth
  BY NamesAreMessages, TellsLog
<1>2. \A n : Parts(n)' = Parts(n)
  BY DEF Tells, Parts
<1>3. p # 0
  BY MessagesAre DEF Base
<1>4. ASSUME NEW n, NewMove(n), n.upload = u, p \in Parts(n.to)  PROVE Owns(u, p)
  <2>1. ASSUME NEW d \in Device, upload[d] # None, upload[d].manifest # 0,
               n = Bind(upload[d].id, upload[d].manifest)
        PROVE  Owns(u, p)
    <3>1. n.upload = upload[d].id /\ n.to = upload[d].manifest
      BY <2>1 DEF Bind
    <3>2. Piece(upload[d].manifest) = upload[d].piece
      BY <2>1 DEF Base, Names, UploadInv, UnderWay
    <3>3. p \in {upload[d].piece, upload[d].manifest}
      BY <1>4, <3>1, <3>2 DEF Parts, Piece
    <3> QED  BY <1>4, <2>1, <3>1, <3>3 DEF Owns
  <2>2. ASSUME NEW d \in Device, NEW m \in mover[d].moves,
               n = [upload |-> m.upload, from |-> m.from, to |-> m.to, stale |-> Stale(m)]
        PROVE  Owns(u, p)
    <3>1. n.upload = m.upload /\ n.to = m.to
      BY <2>2
    <3> QED  BY <1>4, <3>1 DEF Owns
  <2> QED  BY <1>4, <2>1, <2>2 DEF NewMove
<1>5. CASE \E i \in 1 .. HeadSeq' : \E n \in log'[i].moves : n.upload = u /\ p \in Parts(n.to)
  <2>1. PICK i \in 1 .. HeadSeq' : \E n \in log'[i].moves : n.upload = u /\ p \in Parts(n.to)
    BY <1>5
  <2>2. PICK n \in log'[i].moves : n.upload = u /\ p \in Parts(n.to)
    BY <2>1
  <2>3. CASE i \in 1 .. HeadSeq
    BY <1>1, <2>2, <2>3 DEF Owns, LogGrowth, LogExtends
  <2>4. CASE i = HeadSeq + 1 /\ HeadSeq' = HeadSeq + 1
    <3>1. NewMove(n)
      BY <1>1, <2>4 DEF LogGrowth, Tellable
    <3> QED  BY <1>4, <2>2, <3>1
  <2> QED  BY <1>1, <2>3, <2>4 DEF LogGrowth
<1>6. CASE \E d \in Device : \E n \in mover'[d].moves : n.upload = u /\ p \in Parts(n.to)
  BY <1>6 DEF Tells, Owns
<1>7. CASE \E d \in Device : upload'[d] # None /\ upload'[d].id = u /\ p \in {upload'[d].piece, upload'[d].manifest}
  <2>1. PICK d \in Device : upload'[d] # None /\ upload'[d].id = u /\ p \in {upload'[d].piece, upload'[d].manifest}
    BY <1>7
  <2>2. upload'[d] = upload[d] \/ (upload[d] # None /\ upload'[d] = [upload[d] EXCEPT !.manifest = 0])
    BY <2>1 DEF Tells
  <2>3. CASE upload'[d] = upload[d]
    BY <2>1, <2>3 DEF Owns
  <2>4. CASE upload[d] # None /\ upload'[d] = [upload[d] EXCEPT !.manifest = 0]
    <3>1. upload[d] \in UploadRun
      BY <2>4 DEF Base, RunsTyped, UploadTypes
    <3>2. upload'[d].id = upload[d].id /\ upload'[d].piece = upload[d].piece /\ upload'[d].manifest = 0
      BY <2>4, <3>1 DEF UploadRun
    <3> QED  BY <1>3, <2>1, <2>4, <3>2 DEF Owns
  <2> QED  BY <2>2, <2>3, <2>4
<1>8. \/ \E i \in 1 .. HeadSeq' : \E n \in log'[i].moves : n.upload = u /\ p \in Parts(n.to)
      \/ \E d \in Device : \E n \in mover'[d].moves : n.upload = u /\ p \in Parts(n.to)
      \/ \E d \in Device : upload'[d] # None /\ upload'[d].id = u /\ p \in {upload'[d].piece, upload'[d].manifest}
  BY <1>2 DEF Owns
<1> QED  BY <1>5, <1>6, <1>7, <1>8

\* It keeps what is known of the log.
LEMMA TellsLogInv ==
  ASSUME Base, Tells
  PROVE  LogInv'
<1>1. HeadSeq \in Nat /\ LogGrowth /\ MessagesGrow /\ Message' = Message /\ LogOK'
  BY NamesAreMessages, TellsLog
<1>2. \A m : IsManifest(m)' <=> IsManifest(m)
  BY <1>1 DEF Tells, IsManifest, Piece
<1>3. HeadSeq' \in Nat /\ HeadSeq' >= HeadSeq
  BY <1>1 DEF LogGrowth
<1>4. ASSUME NEW i \in 1 .. HeadSeq, NEW n \in log'[i].moves  PROVE Logged(i, n)'
  <2>1. n \in log[i].moves /\ Logged(i, n)
    BY <1>1, <1>4 DEF LogGrowth, LogExtends, Base, Names, LogInv
  <2>2. IsManifest(n.to)' /\ (n.from = 0 => ~n.stale)
    BY <1>2, <2>1 DEF Logged
  <2>3. ASSUME n.from # 0
        PROVE  /\ WasBound(n.upload, n.from, i - 1)' /\ n.from < n.to
               /\ \A b \in i .. HeadSeq' : Current(n.upload, b)' # n.from
    <3>1. /\ WasBound(n.upload, n.from, i - 1) /\ n.from < n.to
          /\ \A b \in i .. HeadSeq : Current(n.upload, b) # n.from
      BY <2>1, <2>3 DEF Logged
    <3>2. i - 1 \in 0 .. HeadSeq
      BY <1>1
    <3>3. WasBound(n.upload, n.from, HeadSeq)
      BY <1>1, <3>1 DEF WasBound
    <3>4. Current(n.upload, HeadSeq)' # n.from
      BY <1>1, <3>1, <3>3, NeverAgain
    <3>5. ASSUME NEW b \in i .. HeadSeq'  PROVE Current(n.upload, b)' # n.from
      <4>1. CASE b \in 0 .. HeadSeq
        <5>1. Current(n.upload, b)' = Current(n.upload, b)
          BY <4>1, HeadBound
        <5> QED  BY <1>1, <3>1, <4>1, <5>1
      <4>2. CASE b = HeadSeq'
        BY <3>4, <4>2
      <4> QED  BY <1>1, <4>1, <4>2 DEF LogGrowth
    <3>6. WasBound(n.upload, n.from, i - 1)'
      BY <3>1, <3>2, HeadBound
    <3> QED  BY <3>1, <3>5, <3>6
  <2> QED  BY <2>2, <2>3 DEF Logged
<1>5. ASSUME NEW k, k = HeadSeq + 1, HeadSeq' = k, NEW n \in log'[k].moves  PROVE Logged(k, n)'
  <2>1. NewMove(n)
    BY <1>1, <1>5 DEF LogGrowth, Tellable
  <2>2. /\ IsManifest(n.to) /\ n.stale \in BOOLEAN /\ (n.from = 0 => ~n.stale)
        /\ n.from # 0 => WasBound(n.upload, n.from, HeadSeq) /\ n.from < n.to
        /\ ~n.stale => n.to > Bound(n.upload, HeadSeq)
        /\ n.stale => Current(n.upload, HeadSeq) # n.from
    BY <2>1, NewMovesAdvance
  <2>3. IsManifest(n.to)'
    BY <1>2, <2>2
  <2>4. ASSUME n.from # 0
        PROVE  Current(n.upload, k)' # n.from
    <3>1. WasBound(n.upload, n.from, HeadSeq) /\ n.from < n.to
      BY <2>2, <2>4
    <3>2. CASE n.stale
      BY <1>5, <2>2, <3>1, <3>2, NeverAgain
    <3>3. CASE ~n.stale
      <4>1. WasBound(n.upload, n.to, k)'
        BY <1>1, <1>3, <1>5, <3>3 DEF WasBound
      <4>2. k \in 0 .. HeadSeq'
        BY <1>3, <1>5
      <4>3. Tops(log', n.upload, k, Bound(n.upload, k)')
        BY <1>1, <4>2, BoundIsNext
      <4>4. BindsIn(log', n.upload, n.to, k)
        BY <4>1 DEF WasBound, BindsIn
      <4>5. n.to <= Bound(n.upload, k)' /\ Bound(n.upload, k)' \in Nat /\ n.to \in Nat
        BY <4>3, <4>4 DEF Tops
      <4>6. n.from \in Nat \ {0}
        <5>1. HeadSeq \in 0 .. HeadSeq /\ LogOK
          BY NamesAreMessages
        <5>2. n.from \in Message
          BY <3>1, <5>1, BoundIs
        <5> QED  BY <5>2, MessagesAre DEF Base
      <4> QED  BY <3>1, <4>5, <4>6 DEF Current
    <3> QED  BY <2>2, <3>2, <3>3
  <2>5. ASSUME n.from # 0  PROVE WasBound(n.upload, n.from, k - 1)'
    <3>1. WasBound(n.upload, n.from, HeadSeq)
      BY <2>2, <2>5
    <3>2. \A j \in 1 .. HeadSeq : log'[j] = log[j]
      BY <1>1 DEF LogGrowth, LogExtends
    <3> QED  BY <1>1, <1>5, <3>1, <3>2 DEF WasBound
  <2>6. \A b \in k .. HeadSeq' : b = k
    BY <1>3, <1>5
  <2> QED  BY <2>2, <2>3, <2>4, <2>5, <2>6 DEF Logged
<1>6. ASSUME NEW u \in Upload, Released(u, HeadSeq)'  PROVE Bound(u, HeadSeq)' # 0
  <2>1. Bound(u, HeadSeq) # 0
    <3>1. CASE Released(u, HeadSeq)
      BY <3>1 DEF Base, Names, LogInv
    <3>2. CASE ~Released(u, HeadSeq)
      <4>1. PICK i \in 1 .. HeadSeq' : u \in log'[i].ended
        BY <1>6 DEF Released
      <4>2. i = HeadSeq + 1 /\ HeadSeq' = HeadSeq + 1
        BY <1>1, <3>2, <4>1 DEF Released, LogGrowth, LogExtends
      <4>3. Current(u, HeadSeq) # 0
        BY <1>1, <4>1, <4>2 DEF LogGrowth, Tellable
      <4> QED  BY <3>2, <4>3 DEF Current
    <3> QED  BY <3>1, <3>2
  <2> QED  BY <2>1, HeadBound
<1>7. ASSUME NEW i \in 1 .. HeadSeq', NEW n \in log'[i].moves  PROVE Logged(i, n)'
  <2>1. CASE i \in 1 .. HeadSeq
    BY <1>4, <2>1
  <2>2. CASE i = HeadSeq + 1 /\ HeadSeq' = i
    BY <1>5, <2>2
  <2> QED  BY <1>1, <2>1, <2>2 DEF LogGrowth
<1> QED  BY <1>6, <1>7 DEF LogInv
\* It keeps what is known of copies under way.
LEMMA TellsPendInv ==
  ASSUME Base, Tells
  PROVE  PendInv'
<1>1. HeadSeq \in 0 .. HeadSeq /\ LogGrowth /\ MessagesGrow /\ LogOK' /\ LogOK
  BY NamesAreMessages, TellsLog
<1>2. messages' = messages
  BY DEF Tells
<1>3. HeadSeq' \in Nat /\ HeadSeq' >= HeadSeq
  BY <1>1 DEF LogGrowth
<1>4. ASSUME NEW u, NEW f, WasBound(u, f, HeadSeq)  PROVE WasBound(u, f, HeadSeq)'
  <2>1. \A j \in 1 .. HeadSeq : log'[j] = log[j]
    BY <1>1 DEF LogGrowth, LogExtends
  <2> QED  BY <1>1, <1>3, <1>4, <2>1 DEF WasBound
<1>5. ASSUME NEW d \in Device, NEW v \in mover'[d].todo  PROVE WasBound(v.upload, v.from, HeadSeq)'
  <2>1. CASE v \in mover[d].todo
    BY <1>4, <2>1 DEF Base, Names, PendInv
  <2>2. CASE v.from = Current(v.upload, HeadSeq) /\ v.from # 0
    <3>1. v.from = Bound(v.upload, HeadSeq)
      BY <2>2 DEF Current
    <3>2. WasBound(v.upload, v.from, HeadSeq)
      BY <1>1, <2>2, <3>1, BoundIs
    <3> QED  BY <1>4, <3>2
  <2> QED  BY <1>5, <2>1, <2>2 DEF Tells
<1>6. ASSUME NEW d \in Device, NEW m \in mover'[d].moves  PROVE Pending(d, m)'
  <2>1. m \in mover[d].moves
    BY DEF Tells
  <2>2. /\ m.upload \in Upload /\ m.to \in Message /\ Pending(d, m) /\ IsManifest(m.to) /\ m.from < m.to
        /\ WasBound(m.upload, m.from, HeadSeq)
    BY <2>1, PendingIs
  <2>3. IsManifest(m.to)' /\ WasBound(m.upload, m.from, HeadSeq)'
    BY <1>1, <1>4, <2>2, ManifestStays DEF Base
  <2>4. Inherits(m)' <=> Inherits(m)
    BY <1>2 DEF Inherits, Piece
  <2>5. ASSUME FreshInLog(m), FreshAmong(d, m)  PROVE FreshInLog(m)' /\ FreshAmong(d, m)'
    <3>1. FreshAmong(d, m)'
      BY <1>2, <2>5 DEF FreshAmong, Piece, Tells
    <3>2. ASSUME NEW n, NewMove(n)  PROVE Piece(n.to) # Piece(m.to)
      <4>1. ASSUME NEW e \in Device, upload[e] # None, upload[e].manifest # 0,
                   n = Bind(upload[e].id, upload[e].manifest), Piece(n.to) = Piece(m.to)
            PROVE  FALSE
        <5>1. /\ upload[e] \in UploadRun /\ Bound(upload[e].id, HeadSeq) = 0
              /\ Piece(upload[e].manifest) = upload[e].piece /\ upload[e].piece \in Message
          BY <4>1 DEF Base, RunsTyped, UploadTypes, Names, UploadInv, UnderWay
        <5>2. n.to = upload[e].manifest
          BY <4>1 DEF Bind
        <5>3. Owns(upload[e].id, upload[e].piece) /\ Owns(m.upload, upload[e].piece)
          <6>1. upload[e].piece = Piece(m.to)
            BY <4>1, <5>1, <5>2
          <6> QED  BY <2>1, <4>1, <6>1 DEF Owns, Parts, Piece
        <5>4. m.upload = upload[e].id
          BY <2>2, <5>1, <5>3 DEF Base, Names, OwnInv, UploadRun
        <5>5. m.from \in Message /\ m.from <= Bound(m.upload, HeadSeq)
          BY <2>1, PendingIs
        <5> QED  BY <5>1, <5>4, <5>5, MessagesAre DEF Base
      <4>2. ASSUME NEW e \in Device, NEW x \in mover[e].moves, mover'[e].moves = {}, n.to = x.to
            PROVE  Piece(n.to) # Piece(m.to)
        <5>1. e # d
          BY <4>2
        <5> QED  BY <2>5, <4>2, <5>1 DEF FreshAmong
      <4> QED  BY <3>2, <4>1, <4>2 DEF NewMove
    <3>3. ASSUME NEW i \in 1 .. HeadSeq', NEW n \in log'[i].moves  PROVE Piece(n.to) # Piece(m.to)
      <4>1. CASE i \in 1 .. HeadSeq
        BY <1>1, <2>5, <4>1 DEF FreshInLog, LogGrowth, LogExtends
      <4>2. CASE i = HeadSeq + 1 /\ HeadSeq' = HeadSeq + 1
        <5>1. NewMove(n)
          BY <1>1, <4>2 DEF LogGrowth, Tellable
        <5> QED  BY <3>2, <5>1
      <4> QED  BY <1>1, <4>1, <4>2 DEF LogGrowth
    <3>4. FreshInLog(m)'
      BY <1>2, <3>3 DEF FreshInLog, Piece
    <3> QED  BY <3>1, <3>4
  <2> QED  BY <2>2, <2>3, <2>4, <2>5 DEF Pending
<1> QED  BY <1>5, <1>6 DEF PendInv

\* It keeps what is known of uploads under way.
LEMMA TellsUploadInv ==
  ASSUME Base, Tells
  PROVE  UploadInv'
<1>1. LogGrowth /\ MessagesGrow /\ Message' = Message /\ messages' = messages /\ HeadSeq \in Nat
  BY NamesAreMessages, TellsLog DEF Tells
<1> SUFFICES ASSUME NEW d \in Device, upload'[d] # None  PROVE UnderWay(d)'
  BY DEF UploadInv
<1>2. ASSUME NEW e \in Device, upload'[e] # None
      PROVE  /\ upload[e] # None /\ upload[e] \in UploadRun /\ UnderWay(e)
             /\ upload'[e].id = upload[e].id /\ upload'[e].piece = upload[e].piece
             /\ upload'[e].manifest \in {upload[e].manifest, 0}
  <2>1. upload'[e] = upload[e] \/ (upload[e] # None /\ upload'[e] = [upload[e] EXCEPT !.manifest = 0])
    BY <1>2 DEF Tells
  <2>2. upload[e] # None
    BY <1>2, <2>1
  <2>3. upload[e] \in UploadRun /\ UnderWay(e)
    BY <2>2 DEF Base, RunsTyped, UploadTypes, Names, UploadInv
  <2> QED  BY <2>1, <2>2, <2>3 DEF UploadRun
<1> DEFINE u == upload[d].id
<1>3. Bound(u, HeadSeq)' = 0
  <2>1. Bound(u, HeadSeq) = 0
    BY <1>2 DEF UnderWay
  <2>2. ASSUME NEW n, NewMove(n), n.upload = u  PROVE FALSE
    <3>1. ASSUME NEW e \in Device, upload[e] # None, upload'[e] = None,
                 n = Bind(upload[e].id, upload[e].manifest)
          PROVE  FALSE
      <4>1. e # d /\ upload[e].id = upload[d].id
        BY <2>2, <3>1 DEF Bind
      <4> QED  BY <1>2, <3>1, <4>1 DEF UnderWay
    <3>2. ASSUME NEW e \in Device, NEW m \in mover[e].moves, n.upload = m.upload  PROVE FALSE
      <4>1. m.from \in Message /\ m.from <= Bound(m.upload, HeadSeq)
        BY <3>2, PendingIs
      <4> QED  BY <2>1, <2>2, <3>2, <4>1, MessagesAre DEF Base
    <3> QED  BY <2>2, <3>1, <3>2 DEF NewMove
  <2>3. HeadMoves(u)
    BY HeadBound
  <2>4. ASSUME HeadSeq' = HeadSeq + 1, NEW n \in log'[HeadSeq + 1].moves, n.upload = u  PROVE FALSE
    <3>1. NewMove(n)
      BY <1>1, <2>4 DEF LogGrowth, Tellable
    <3> QED  BY <2>2, <2>4, <3>1
  <2> QED  BY <2>1, <2>3, <2>4 DEF HeadMoves
<1>4. \A e \in Device \ {d} : upload'[e] # None => upload'[e].id # upload'[d].id
  <2> SUFFICES ASSUME NEW e \in Device \ {d}, upload'[e] # None  PROVE upload'[e].id # upload'[d].id
    OBVIOUS
  <2>1. upload[e] # None /\ upload'[e].id = upload[e].id
    BY <1>2
  <2>2. UnderWay(d) /\ upload'[d].id = upload[d].id
    BY <1>2
  <2> QED  BY <2>1, <2>2 DEF UnderWay
<1>5. upload[d].piece \in Message' /\ Piece(upload[d].piece)' = upload[d].piece
  BY <1>1, <1>2 DEF UnderWay, Piece
<1>6. upload'[d].manifest # 0 => IsManifest(upload[d].manifest)' /\ Piece(upload[d].manifest)' = upload[d].piece
  <2> SUFFICES ASSUME upload'[d].manifest # 0
               PROVE  IsManifest(upload[d].manifest)' /\ Piece(upload[d].manifest)' = upload[d].piece
    OBVIOUS
  <2>1. IsManifest(upload[d].manifest) /\ Piece(upload[d].manifest) = upload[d].piece
    BY <1>2 DEF UnderWay
  <2>2. upload'[d].manifest = upload[d].manifest
    BY <1>2
  <2> QED  BY <1>1, <2>1, <2>2, ManifestStays DEF Base
<1> QED  BY <1>2, <1>3, <1>4, <1>5, <1>6 DEF UnderWay

\* So it keeps the names.
LEMMA TellsKeeps ==
  ASSUME Base, Tells
  PROVE  Names'
<1>1. Message' = Message
  BY TellsLog
<1>2. OwnInv'
  BY <1>1, TellsOwns DEF Base, Names, OwnInv
<1> QED  BY <1>2, TellsLogInv, TellsPendInv, TellsUploadInv DEF Names

-----------------------------------------------------------------------------
(* Messages that are gone                                                  *)

\* No version has named message p since position s, none is about to, no upload has it.
GoneSince(p, s) ==
  /\ \A b \in s .. HeadSeq : \A u \in Upload : Current(u, b) # 0 => p \notin Parts(Current(u, b))
  /\ \A d \in Device : \A m \in mover[d].moves : ~Stale(m) => p \notin Parts(m.to)
  /\ \A d \in Device : upload[d] # None => p # upload[d].piece /\ p # upload[d].manifest

\* A step that tells brings no message back.
LEMMA TellsGone ==
  ASSUME Base, Tells, NEW p \in Message, NEW s \in 0 .. HeadSeq, GoneSince(p, s)
  PROVE  GoneSince(p, s)'
<1>1. HeadSeq \in Nat /\ LogGrowth /\ messages' = messages /\ LogOK
  BY NamesAreMessages, TellsLog DEF Tells
<1>2. \A n : Parts(n)' = Parts(n)
  BY <1>1 DEF Parts
<1>3. p # 0
  BY MessagesAre DEF Base
<1>4. ASSUME NEW n, NewMove(n), ~n.stale  PROVE p \notin Parts(n.to)
  <2>1. ASSUME NEW d \in Device, upload[d] # None, upload[d].manifest # 0,
               n = Bind(upload[d].id, upload[d].manifest)
        PROVE  p \notin Parts(n.to)
    <3>1. n.to = upload[d].manifest
      BY <2>1 DEF Bind
    <3>2. Piece(upload[d].manifest) = upload[d].piece
      BY <2>1 DEF Base, Names, UploadInv, UnderWay
    <3> QED  BY <2>1, <3>1, <3>2 DEF Parts, Piece, GoneSince
  <2>2. ASSUME NEW d \in Device, NEW m \in mover[d].moves,
               n = [upload |-> m.upload, from |-> m.from, to |-> m.to, stale |-> Stale(m)]
        PROVE  p \notin Parts(n.to)
    <3>1. n.to = m.to /\ ~Stale(m)
      BY <1>4, <2>2
    <3> QED  BY <3>1 DEF GoneSince
  <2> QED  BY <1>4, <2>1, <2>2 DEF NewMove
<1>5. ASSUME NEW b \in s .. HeadSeq', NEW u \in Upload, Current(u, b)' # 0  PROVE p \notin Parts(Current(u, b)')
  <2>1. CASE b \in 0 .. HeadSeq
    <3>1. Current(u, b)' = Current(u, b)
      BY <2>1, HeadBound
    <3> QED  BY <1>1, <1>5, <2>1, <3>1 DEF GoneSince
  <2>2. CASE b = HeadSeq'
    <3>1. Current(u, HeadSeq)' = Bound(u, HeadSeq)' /\ ~Released(u, HeadSeq)'
      BY <1>5, <2>2 DEF Current
    <3>2. CASE Bound(u, HeadSeq)' = Bound(u, HeadSeq)
      <4>1. Current(u, HeadSeq) = Bound(u, HeadSeq)
        BY <3>1, HeadBound DEF Current
      <4> QED  BY <1>1, <1>5, <2>2, <3>1, <3>2, <4>1 DEF GoneSince
    <3>3. ASSUME HeadSeq' = HeadSeq + 1, NEW n \in log'[HeadSeq + 1].moves, ~n.stale, n.to = Bound(u, HeadSeq)'
          PROVE  p \notin Parts(Current(u, b)')
      <4>1. NewMove(n)
        BY <1>1, <3>3 DEF LogGrowth, Tellable
      <4>2. p \notin Parts(n.to)
        BY <1>4, <3>3, <4>1
      <4> QED  BY <2>2, <3>1, <3>3, <4>2
    <3> QED  BY <3>2, <3>3, HeadBound DEF HeadMoves
  <2> QED  BY <1>1, <2>1, <2>2 DEF LogGrowth
<1>6. ASSUME NEW d \in Device, NEW m \in mover'[d].moves, ~Stale(m)'  PROVE p \notin Parts(m.to)
  <2>1. m \in mover[d].moves
    BY DEF Tells
  <2>2. ~Stale(m)
    <3>1. WasBound(m.upload, m.from, HeadSeq) /\ Current(m.upload, HeadSeq)' = m.from
      BY <1>6, <2>1, PendingIs DEF Stale
    <3> QED  BY <3>1, NeverAgain DEF Stale
  <2> QED  BY <2>1, <2>2 DEF GoneSince
<1>7. ASSUME NEW d \in Device, upload'[d] # None  PROVE p # upload'[d].piece /\ p # upload'[d].manifest
  <2>1. upload'[d] = upload[d] \/ (upload[d] # None /\ upload'[d] = [upload[d] EXCEPT !.manifest = 0])
    BY <1>7 DEF Tells
  <2>2. upload[d] # None /\ upload[d] \in UploadRun
    BY <1>7, <2>1 DEF Base, RunsTyped, UploadTypes
  <2>3. upload'[d].piece = upload[d].piece /\ upload'[d].manifest \in {upload[d].manifest, 0}
    BY <2>1, <2>2 DEF UploadRun
  <2> QED  BY <1>3, <2>2, <2>3 DEF GoneSince
<1>8. ASSUME NEW b \in s .. HeadSeq', NEW u \in Upload, Current(u, b)' # 0  PROVE p \notin Parts(Current(u, b))'
  BY <1>2, <1>5, <1>8
<1> QED  BY <1>2, <1>6, <1>7, <1>8 DEF GoneSince
-----------------------------------------------------------------------------
(* Steps that post                                                         *)

\* A step that leaves the log alone leaves what it says.
LEMMA QuietLog ==
  ASSUME Base, log' = log, MessagesGrow
  PROVE  /\ HeadSeq' = HeadSeq /\ HeadSeq \in Nat /\ LogInv' /\ Message \subseteq Message'
         /\ \A u, s : Bound(u, s)' = Bound(u, s) /\ Current(u, s)' = Current(u, s)
         /\ \A u, f, s : WasBound(u, f, s)' <=> WasBound(u, f, s)
         /\ \A i \in 1 .. HeadSeq : \A n \in log[i].moves :
              IsManifest(n.to) /\ Parts(n.to) = {n.to, Piece(n.to)} /\ Parts(n.to) \subseteq Message
              /\ Parts(n.to)' = Parts(n.to) /\ Piece(n.to)' = Piece(n.to)
<1>1. HeadSeq' = HeadSeq /\ HeadSeq \in Nat
  BY NamesAreMessages DEF HeadSeq
<1>2. \A u, s : /\ Bound(u, s)' = Bound(u, s) /\ Released(u, s)' = Released(u, s)
  BY DEF Bound, Released
<1>3. \A u, s : Current(u, s)' = Current(u, s)
  BY <1>2 DEF Current
<1>4. \A u, f, s : WasBound(u, f, s)' <=> WasBound(u, f, s)
  BY DEF WasBound
<1>5. ASSUME NEW i \in 1 .. HeadSeq, NEW n \in log[i].moves
      PROVE  /\ IsManifest(n.to) /\ Parts(n.to) = {n.to, Piece(n.to)} /\ Parts(n.to) \subseteq Message
             /\ Parts(n.to)' = Parts(n.to) /\ Piece(n.to)' = Piece(n.to) /\ Logged(i, n)'
  <2>1. Logged(i, n)
    BY DEF Base, Names, LogInv
  <2>2. IsManifest(n.to)
    BY <2>1 DEF Logged
  <2>3. IsManifest(n.to)'
    BY <2>2, ManifestStays DEF Base
  <2>4. Logged(i, n)'
    BY <1>1, <1>3, <1>4, <2>1, <2>3 DEF Logged
  <2>5. /\ Parts(n.to) = {n.to, Piece(n.to)} /\ n.to \in Message /\ Piece(n.to) \in Message
        /\ Parts(n.to)' = Parts(n.to) /\ Piece(n.to)' = Piece(n.to)
    BY <2>2, ManifestStays DEF Base
  <2> QED  BY <2>2, <2>4, <2>5
<1>6. ASSUME NEW u \in Upload, Released(u, HeadSeq)'  PROVE Bound(u, HeadSeq)' # 0
  BY <1>1, <1>2, <1>6 DEF Base, Names, LogInv
<1>7. LogInv'
  BY <1>1, <1>5, <1>6 DEF LogInv
<1>8. Message \subseteq Message'
  <2> DEFINE S == [hook : Hook, piece : Nat]
  <2>1. messages' \in Seq(S)
    BY DEF MessagesGrow, MessageTypes
  <2> HIDE DEF S
  <2>2. Message' = 1 .. Len(messages') /\ Len(messages') \in Nat
    BY <2>1 DEF Message
  <2> QED  BY <2>2, MessagesAre DEF Base, MessagesGrow
<1> QED  BY <1>1, <1>2, <1>3, <1>4, <1>5, <1>7, <1>8

\* The same of the copies under way.
LEMMA QuietPending ==
  ASSUME Base, MessagesGrow, NEW d \in Device, NEW m \in mover[d].moves
  PROVE  /\ IsManifest(m.to) /\ IsManifest(m.to)' /\ Parts(m.to) = {m.to, Piece(m.to)} /\ Parts(m.to) \subseteq Message
         /\ Parts(m.to)' = Parts(m.to) /\ Piece(m.to)' = Piece(m.to) /\ Piece(m.from)' = Piece(m.from)
<1>1. IsManifest(m.to) /\ m.from \in Message
  BY PendingIs
<1>2. messages'[m.from] = messages[m.from]
  BY <1>1 DEF MessagesGrow
<1>3. /\ Parts(m.to) = {m.to, Piece(m.to)} /\ m.to \in Message /\ Piece(m.to) \in Message
      /\ Parts(m.to)' = Parts(m.to) /\ Piece(m.to)' = Piece(m.to) /\ IsManifest(m.to)'
  BY <1>1, ManifestStays DEF Base
<1> QED  BY <1>1, <1>2, <1>3 DEF Piece

\* An upload under way, too.
LEMMA QuietUpload ==
  ASSUME Base, MessagesGrow, NEW d \in Device, upload[d] # None
  PROVE  /\ upload[d] \in UploadRun /\ UnderWay(d) /\ upload[d].piece \in Message
         /\ messages'[upload[d].piece] = messages[upload[d].piece]
         /\ upload[d].manifest # 0 =>
              /\ upload[d].manifest \in Message /\ IsManifest(upload[d].manifest)
              /\ messages'[upload[d].manifest] = messages[upload[d].manifest]
<1>1. upload[d] \in UploadRun /\ UnderWay(d)
  BY DEF Base, RunsTyped, UploadTypes, Names, UploadInv
<1> QED  BY <1>1 DEF UnderWay, MessagesGrow, IsManifest

\* A step that posts for an upload keeps the names.
LEMMA PostKeeps ==
  ASSUME Base, NEW d \in Device, NEW k, PostsFor(d, k)
  PROVE  Names'
<1>1. /\ HeadSeq' = HeadSeq /\ HeadSeq \in Nat /\ LogInv' /\ Message \subseteq Message'
      /\ \A u, s : Bound(u, s)' = Bound(u, s) /\ Current(u, s)' = Current(u, s)
      /\ \A u, f, s : WasBound(u, f, s)' <=> WasBound(u, f, s)
      /\ \A i \in 1 .. HeadSeq : \A n \in log[i].moves :
           Parts(n.to) \subseteq Message /\ Parts(n.to)' = Parts(n.to) /\ Piece(n.to)' = Piece(n.to)
  BY QuietLog DEF PostsFor
<1>2. log' = log /\ mover' = mover /\ MessagesGrow /\ k \in Message' \ Message
  BY DEF PostsFor
<1>3. \A e \in Device : \A m \in mover[e].moves :
        /\ IsManifest(m.to) /\ IsManifest(m.to)' /\ Parts(m.to) \subseteq Message
        /\ Parts(m.to)' = Parts(m.to) /\ Piece(m.to)' = Piece(m.to) /\ Piece(m.from)' = Piece(m.from)
  BY <1>2, QuietPending
<1>4. 0 \notin Message /\ k # 0 /\ k \in Nat
  <2> DEFINE S == [hook : Hook, piece : Nat]
  <2>1. messages' \in Seq(S)
    BY <1>2 DEF MessagesGrow, MessageTypes
  <2> HIDE DEF S
  <2>2. Message' = 1 .. Len(messages') /\ Len(messages') \in Nat
    BY <2>1 DEF Message
  <2> QED  BY <1>2, <2>2, MessagesAre DEF Base
<1>5. ASSUME NEW v \in Upload, NEW p \in Message', Owns(v, p)'
      PROVE  /\ p \in Message => Owns(v, p)
             /\ p \notin Message => upload'[d] # None /\ v = upload'[d].id
  <2>1. CASE \E i \in 1 .. HeadSeq' : \E n \in log'[i].moves : n.upload = v /\ p \in Parts(n.to)'
    BY <1>1, <1>2, <2>1 DEF Owns
  <2>2. CASE \E e \in Device : \E n \in mover'[e].moves : n.upload = v /\ p \in Parts(n.to)'
    BY <1>2, <1>3, <2>2 DEF Owns
  <2>3. ASSUME NEW e \in Device, upload'[e] # None, upload'[e].id = v,
               p \in {upload'[e].piece, upload'[e].manifest}
        PROVE  /\ p \in Message => Owns(v, p)
               /\ p \notin Message => upload'[d] # None /\ v = upload'[d].id
    <3>1. CASE e # d
      <4>1. upload'[e] = upload[e]
        BY <3>1 DEF PostsFor
      <4>2. p \in Message /\ Owns(v, p)
        <5>1. upload[e] # None
          BY <2>3, <4>1
        <5>2. p # 0
          BY <1>1, <1>4, <2>3, <1>2
             , MessagesAre DEF Base, MessagesGrow, MessageTypes, Message
        <5>3. upload[e].piece \in Message /\ (upload[e].manifest # 0 => upload[e].manifest \in Message)
          BY <1>2, <5>1, QuietUpload
        <5> QED  BY <2>3, <4>1, <5>1, <5>2, <5>3 DEF Owns
      <4> QED  BY <4>2
    <3>2. CASE e = d
      <4>1. v = upload'[d].id /\ upload'[d] # None
        BY <2>3, <3>2
      <4>2. ASSUME p \in Message  PROVE Owns(v, p)
        <5>1. p # k /\ p # 0
          BY <1>2, <1>4, <4>2
        <5>2. ASSUME upload[d] = None, NEW u \in Upload \ Begun,
                     upload'[d] = [id |-> u, piece |-> k, manifest |-> 0]
              PROVE  FALSE
          <6>1. upload'[d].piece = k /\ upload'[d].manifest = 0
            BY <5>2
          <6> QED  BY <2>3, <3>2, <5>1, <6>1
        <5>3. CASE upload[d] # None /\ upload'[d] = [upload[d] EXCEPT !.manifest = k]
          <6>1. upload[d] \in UploadRun
            BY <1>2, <5>3, QuietUpload
          <6>2. upload'[d].piece = upload[d].piece /\ upload'[d].id = upload[d].id /\ upload'[d].manifest = k
            BY <5>3, <6>1 DEF UploadRun
          <6> QED  BY <2>3, <3>2, <5>1, <5>3, <6>2 DEF Owns
        <5> QED  BY <5>2, <5>3 DEF PostsFor
      <4> QED  BY <4>1, <4>2
    <3> QED  BY <3>1, <3>2
  <2>4. \/ \E i \in 1 .. HeadSeq' : \E n \in log'[i].moves : n.upload = v /\ p \in Parts(n.to)'
        \/ \E e \in Device : \E n \in mover'[e].moves : n.upload = v /\ p \in Parts(n.to)'
        \/ \E e \in Device : upload'[e] # None /\ upload'[e].id = v /\ p \in {upload'[e].piece, upload'[e].manifest}
    BY <1>5 DEF Owns
  <2> QED  BY <2>1, <2>2, <2>3, <2>4
<1>6. OwnInv'
  BY <1>5 DEF OwnInv, Base, Names
<1>7. PendInv'
  <2>1. ASSUME NEW e \in Device, NEW v \in mover'[e].todo  PROVE WasBound(v.upload, v.from, HeadSeq)'
    BY <1>1, <1>2 DEF Base, Names, PendInv
  <2>2. ASSUME NEW e \in Device, NEW m \in mover'[e].moves  PROVE Pending(e, m)'
    <3>1. m \in mover[e].moves /\ Pending(e, m)
      BY <1>2 DEF Base, Names, PendInv
    <3>2. FreshInLog(m) => FreshInLog(m)'
      BY <1>1, <1>2, <1>3, <3>1 DEF FreshInLog
    <3>3. FreshAmong(e, m) => FreshAmong(e, m)'
      BY <1>2, <1>3, <3>1 DEF FreshAmong
    <3>4. Inherits(m) => Inherits(m)'
      BY <1>3, <3>1 DEF Inherits
    <3> QED  BY <1>1, <1>3, <3>1, <3>2, <3>3, <3>4 DEF Pending
  <2> QED  BY <2>1, <2>2 DEF PendInv
<1>8. UploadInv'
  <2> SUFFICES ASSUME NEW e \in Device, upload'[e] # None  PROVE UnderWay(e)'
    BY DEF UploadInv
  <2>1. ASSUME NEW a \in Device, a # d, upload'[a] # None
        PROVE  upload'[a] = upload[a] /\ upload[a] # None /\ UnderWay(a)
    BY <1>2, <2>1, QuietUpload DEF PostsFor
  <2>2. ASSUME upload'[d] # None
        PROVE  /\ Bound(upload'[d].id, HeadSeq) = 0
               /\ \A a \in Device \ {d} : upload[a] # None => upload[a].id # upload'[d].id
               /\ upload'[d].piece \in Message' /\ messages'[upload'[d].piece].piece = upload'[d].piece
               /\ upload'[d].manifest # 0 =>
                    /\ upload'[d].manifest = k /\ messages'[k].piece = upload'[d].piece
                    /\ upload'[d].piece \in 1 .. (k - 1)
    <3>1. ASSUME upload[d] = None, messages'[k].piece = k, NEW u \in Upload \ Begun,
                 upload'[d] = [id |-> u, piece |-> k, manifest |-> 0]
          PROVE  /\ Bound(upload'[d].id, HeadSeq) = 0
                 /\ \A a \in Device \ {d} : upload[a] # None => upload[a].id # upload'[d].id
                 /\ upload'[d].piece = k /\ upload'[d].manifest = 0
      <4>1. upload'[d].id = u /\ upload'[d].piece = k /\ upload'[d].manifest = 0
        BY <3>1
      <4> QED  BY <3>1, <4>1 DEF Begun
    <3>2. CASE /\ upload[d] # None /\ messages'[k].piece = upload[d].piece
               /\ upload'[d] = [upload[d] EXCEPT !.manifest = k]
      <4>1. upload[d] \in UploadRun /\ UnderWay(d) /\ messages'[upload[d].piece] = messages[upload[d].piece]
        BY <1>2, <3>2, QuietUpload
      <4>2. upload'[d].id = upload[d].id /\ upload'[d].piece = upload[d].piece /\ upload'[d].manifest = k
        BY <3>2, <4>1 DEF UploadRun
      <4>3. upload[d].piece \in 1 .. (k - 1)
        <5>1. upload[d].piece \in Message /\ Message = 1 .. Len(messages) /\ Len(messages) \in Nat
          BY <4>1, MessagesAre DEF UnderWay, Base
        <5> QED  BY <1>2, <1>4, <5>1
      <4>4. upload[d].piece \in Message' /\ messages'[upload[d].piece].piece = upload[d].piece
        BY <1>1, <4>1 DEF UnderWay, Piece
      <4>5. Bound(upload[d].id, HeadSeq) = 0 /\ \A a \in Device \ {d} : upload[a] # None => upload[a].id # upload[d].id
        BY <4>1 DEF UnderWay
      <4> QED  BY <3>2, <4>2, <4>3, <4>4, <4>5
    <3> QED  BY <1>2, <3>1, <3>2 DEF PostsFor
  <2>3. CASE e = d
    <3>1. upload'[d].manifest # 0 => IsManifest(upload[d].manifest)' /\ Piece(upload[d].manifest)' = upload'[d].piece
      BY <1>2, <2>2, <2>3 DEF IsManifest, Piece
    <3>2. \A a \in Device \ {d} : upload'[a] # None => upload'[a].id # upload'[d].id
      BY <2>1, <2>2, <2>3
    <3> QED  BY <1>1, <2>2, <2>3, <3>1, <3>2 DEF UnderWay, Piece
  <2>4. CASE e # d
    <3>1. upload'[e] = upload[e] /\ upload[e] # None /\ UnderWay(e)
      BY <2>1, <2>4
    <3>2. \A a \in Device \ {e} : upload'[a] # None => upload'[a].id # upload[e].id
      BY <2>1, <2>2, <2>4, <3>1 DEF UnderWay
    <3>3. /\ upload[e].piece \in Message /\ messages'[upload[e].piece] = messages[upload[e].piece]
      BY <1>2, <3>1, QuietUpload
    <3>4. upload[e].manifest # 0 => IsManifest(upload[e].manifest)' /\ Piece(upload[e].manifest)' = upload[e].piece
      BY <1>2, <3>1, ManifestStays DEF Base, UnderWay
    <3> QED  BY <1>1, <3>1, <3>2, <3>3, <3>4 DEF UnderWay, Piece
  <2> QED  BY <2>3, <2>4
<1> QED  BY <1>1, <1>6, <1>7, <1>8 DEF Names

\* What was bound is in the log, as a manifest of its upload.
LEMMA BoundInLog ==
  ASSUME Base, NEW u, NEW f, WasBound(u, f, HeadSeq)
  PROVE  /\ IsManifest(f) /\ f \in Message /\ Piece(f) \in Message /\ Parts(f) = {f, Piece(f)}
         /\ Owns(u, f) /\ Owns(u, Piece(f))
         /\ \E i \in 1 .. HeadSeq : \E n \in log[i].moves : n.upload = u /\ n.to = f
<1>1. PICK i \in 1 .. HeadSeq : \E n \in log[i].moves : n.upload = u /\ n.to = f
  BY DEF WasBound
<1>2. PICK n \in log[i].moves : n.upload = u /\ n.to = f
  BY <1>1
<1>3. IsManifest(f)
  BY <1>2 DEF Base, Names, LogInv, Logged
<1>4. f \in Message /\ Piece(f) \in Message /\ Parts(f) = {f, Piece(f)}
  BY <1>3, MessagesAre DEF Base, IsManifest, Parts, Piece
<1> QED  BY <1>2, <1>3, <1>4 DEF Owns

\* The messages after a step that posts.
LEMMA MessagesNext ==
  ASSUME Base, MessagesGrow
  PROVE  /\ Message = 1 .. Len(messages) /\ Len(messages) \in Nat
         /\ Message' = 1 .. Len(messages') /\ Len(messages') \in Nat /\ Len(messages') >= Len(messages)
<1> DEFINE S == [hook : Hook, piece : Nat]
<1>1. messages' \in Seq(S)
  BY DEF MessagesGrow, MessageTypes
<1> HIDE DEF S
<1> QED  BY <1>1, MessagesAre DEF Base, MessagesGrow, Message

\* A step that copies keeps the names.
LEMMA CopyKeeps ==
  ASSUME Base, NEW d \in Device, NEW v, NEW k, NEW p, Copies(d, v, k, p)
  PROVE  Names'
<1> DEFINE new == [upload |-> v.upload, from |-> v.from, to |-> k]
<1>1. /\ HeadSeq' = HeadSeq /\ HeadSeq \in Nat /\ LogInv' /\ Message \subseteq Message'
      /\ \A u, s : Bound(u, s)' = Bound(u, s) /\ Current(u, s)' = Current(u, s)
      /\ \A u, f, s : WasBound(u, f, s)' <=> WasBound(u, f, s)
      /\ \A i \in 1 .. HeadSeq : \A n \in log[i].moves :
           /\ IsManifest(n.to) /\ Parts(n.to) = {n.to, Piece(n.to)} /\ Parts(n.to) \subseteq Message
           /\ Parts(n.to)' = Parts(n.to) /\ Piece(n.to)' = Piece(n.to)
  BY QuietLog DEF Copies
<1>2. /\ log' = log /\ upload' = upload /\ MessagesGrow /\ k \in Message' \ Message /\ messages'[k].piece = p
      /\ v \in mover[d].todo /\ mover'[d].moves = mover[d].moves \cup {new} /\ mover'[d].todo \subseteq mover[d].todo
      /\ \A e \in Device \ {d} : mover'[e] = mover[e]
  BY DEF Copies
<1>3. \A e \in Device : \A m \in mover[e].moves :
        /\ IsManifest(m.to) /\ IsManifest(m.to)' /\ Parts(m.to) = {m.to, Piece(m.to)} /\ Parts(m.to) \subseteq Message
        /\ Parts(m.to)' = Parts(m.to) /\ Piece(m.to)' = Piece(m.to) /\ Piece(m.from)' = Piece(m.from)
  BY <1>2, QuietPending
<1>4. /\ Message = 1 .. Len(messages) /\ Len(messages) \in Nat
      /\ Message' = 1 .. Len(messages') /\ Len(messages') \in Nat /\ Len(messages') >= Len(messages)
  BY <1>2, MessagesNext
<1>5. WasBound(v.upload, v.from, HeadSeq)
  BY <1>2 DEF Base, Names, PendInv
<1>6. /\ IsManifest(v.from) /\ v.from \in Message /\ Piece(v.from) \in Message
      /\ Owns(v.upload, Piece(v.from))
      /\ messages'[v.from] = messages[v.from] /\ messages'[Piece(v.from)] = messages[Piece(v.from)]
      /\ \E i \in 1 .. HeadSeq : \E n \in log[i].moves : n.upload = v.upload /\ n.to = v.from
  BY <1>2, <1>5, BoundInLog DEF MessagesGrow
<1>7. v.upload \in Upload
  BY <1>2 DEF Base, RunsTyped, MoverTypes, MoveRun
<1>8. p = Piece(v.from) \/ (p \in Message' \ Message /\ p < k /\ messages'[p].piece = p)
  BY DEF Copies
<1>9. Parts(k)' = {k, p} /\ Piece(k)' = p /\ v.from < k /\ p \in 1 .. (k - 1)
  BY <1>2, <1>4, <1>6, <1>8 DEF Parts, Piece
<1>10. IsManifest(k)'
  <2>1. messages'[p].piece = p
    BY <1>6, <1>8 DEF IsManifest, Piece
  <2> QED  BY <1>2, <1>9, <2>1 DEF IsManifest, Piece
<1>11. ASSUME NEW e \in Device, NEW m \in mover'[e].moves
       PROVE  \/ m \in mover[e].moves
              \/ e = d /\ m = new
  BY <1>2
<1>12. ASSUME NEW u \in Upload, NEW q \in Message', Owns(u, q)'
       PROVE  /\ q \in Message => Owns(u, q)
              /\ q \notin Message => u = v.upload
  <2>1. CASE \E i \in 1 .. HeadSeq' : \E n \in log'[i].moves : n.upload = u /\ q \in Parts(n.to)'
    BY <1>1, <1>2, <2>1 DEF Owns
  <2>2. ASSUME NEW e \in Device, NEW n \in mover'[e].moves, n.upload = u, q \in Parts(n.to)'
        PROVE  /\ q \in Message => Owns(u, q)
               /\ q \notin Message => u = v.upload
    <3>1. CASE n \in mover[e].moves
      BY <1>3, <2>2, <3>1 DEF Owns
    <3>2. CASE n = new
      <4>1. u = v.upload /\ q \in {k, p}
        BY <1>9, <2>2, <3>2
      <4>2. q \in Message => q = Piece(v.from)
        BY <1>2, <1>8, <4>1
      <4> QED  BY <1>6, <4>1, <4>2
    <3> QED  BY <1>11, <3>1, <3>2
  <2>3. CASE \E e \in Device : upload'[e] # None /\ upload'[e].id = u /\ q \in {upload'[e].piece, upload'[e].manifest}
    <3>1. PICK e \in Device : upload[e] # None /\ upload[e].id = u /\ q \in {upload[e].piece, upload[e].manifest}
      BY <1>2, <2>3
    <3>2. upload[e].piece \in Message /\ (upload[e].manifest # 0 => upload[e].manifest \in Message)
      BY <1>2, <3>1, QuietUpload
    <3>3. q # 0
      BY <1>4
    <3> QED  BY <3>1, <3>2, <3>3 DEF Owns
  <2>4. \/ \E i \in 1 .. HeadSeq' : \E n \in log'[i].moves : n.upload = u /\ q \in Parts(n.to)'
        \/ \E e \in Device : \E n \in mover'[e].moves : n.upload = u /\ q \in Parts(n.to)'
        \/ \E e \in Device : upload'[e] # None /\ upload'[e].id = u /\ q \in {upload'[e].piece, upload'[e].manifest}
    BY <1>12 DEF Owns
  <2> QED  BY <2>1, <2>2, <2>3, <2>4
<1>13. OwnInv'
  BY <1>12 DEF OwnInv, Base, Names
<1>14. PendInv'
  <2>1. ASSUME NEW e \in Device, NEW w \in mover'[e].todo  PROVE WasBound(w.upload, w.from, HeadSeq)'
    <3>1. w \in mover[e].todo
      BY <1>2
    <3> QED  BY <1>1, <3>1 DEF Base, Names, PendInv
  <2>2. ASSUME NEW e \in Device, NEW m \in mover'[e].moves  PROVE Pending(e, m)'
    <3>1. CASE m \in mover[e].moves
      <4>1. Pending(e, m)
        BY <3>1 DEF Base, Names, PendInv
      <4>2. FreshInLog(m) => FreshInLog(m)'
        BY <1>1, <1>2, <1>3, <3>1 DEF FreshInLog
      <4>3. Inherits(m) => Inherits(m)'
        BY <1>3, <3>1 DEF Inherits
      <4>4. ASSUME FreshInLog(m), FreshAmong(e, m)  PROVE FreshAmong(e, m)'
        <5> SUFFICES ASSUME NEW a \in Device \ {e}, NEW n \in mover'[a].moves  PROVE Piece(n.to)' # Piece(m.to)'
          BY DEF FreshAmong
        <5>1. CASE n \in mover[a].moves
          BY <1>3, <3>1, <4>4, <5>1 DEF FreshAmong
        <5>2. CASE n = new
          <6>1. Piece(n.to)' = p /\ Piece(m.to)' = Piece(m.to) /\ Piece(m.to) \in Message
            BY <1>3, <1>9, <3>1, <5>2
          <6>2. Piece(v.from) # Piece(m.to)
            BY <1>6, <4>4 DEF FreshInLog
          <6> QED  BY <1>8, <6>1, <6>2
        <5> QED  BY <1>11, <5>1, <5>2
      <4> QED  BY <1>1, <1>3, <3>1, <4>1, <4>2, <4>3, <4>4 DEF Pending
    <3>2. CASE e = d /\ m = new
      <4>1. m.upload = v.upload /\ m.from = v.from /\ m.to = k
        BY <3>2
      <4>2. p = Piece(v.from) => Inherits(m)'
        BY <1>6, <1>9, <4>1 DEF Inherits, Piece
      <4>3. ASSUME p \notin Message  PROVE FreshInLog(m)' /\ FreshAmong(e, m)'
        <5>1. FreshInLog(m)'
          BY <1>1, <1>2, <1>9, <4>1, <4>3 DEF FreshInLog
        <5>2. \A a \in Device \ {e} : \A n \in mover'[a].moves : n \in mover[a].moves
          BY <1>2, <3>2
        <5>3. FreshAmong(e, m)'
          BY <1>3, <1>9, <4>1, <4>3, <5>2 DEF FreshAmong
        <5> QED  BY <5>1, <5>3
      <4>4. IsManifest(m.to)' /\ m.from < m.to /\ WasBound(m.upload, m.from, HeadSeq)'
        BY <1>1, <1>5, <1>9, <1>10, <4>1
      <4> QED  BY <1>8, <4>2, <4>3, <4>4 DEF Pending
    <3> QED  BY <1>11, <3>1, <3>2
  <2> QED  BY <2>1, <2>2 DEF PendInv
<1>15. UploadInv'
  <2> SUFFICES ASSUME NEW e \in Device, upload'[e] # None  PROVE UnderWay(e)'
    BY DEF UploadInv
  <2>1. upload'[e] = upload[e] /\ upload[e] # None /\ UnderWay(e)
    BY <1>2, QuietUpload
  <2>2. upload[e].piece \in Message /\ messages'[upload[e].piece] = messages[upload[e].piece]
    BY <1>2, <2>1, QuietUpload
  <2>3. upload[e].manifest # 0 => IsManifest(upload[e].manifest)' /\ Piece(upload[e].manifest)' = upload[e].piece
    BY <1>2, <2>1, ManifestStays DEF Base, UnderWay
  <2> QED  BY <1>1, <1>2, <2>1, <2>2, <2>3 DEF UnderWay, Piece
<1> QED  BY <1>1, <1>13, <1>14, <1>15 DEF Names

\* What a position names keeps its parts when others are posted.
LEMMA CurrentParts ==
  ASSUME Base, log' = log, MessagesGrow, NEW u, NEW b \in 0 .. HeadSeq, Current(u, b) # 0
  PROVE  /\ Current(u, b)' = Current(u, b) /\ Parts(Current(u, b)') = Parts(Current(u, b))
         /\ Parts(Current(u, b))' = Parts(Current(u, b)) /\ IsManifest(Current(u, b))
<1>1. /\ HeadSeq \in Nat /\ Current(u, b)' = Current(u, b)
      /\ \A i \in 1 .. HeadSeq : \A n \in log[i].moves : IsManifest(n.to) /\ Parts(n.to)' = Parts(n.to)
  BY QuietLog
<1>2. Current(u, b) = Bound(u, b)
  BY DEF Current
<1>3. WasBound(u, Bound(u, b), b)
  BY <1>2, NamesAreMessages, BoundIs
<1>4. PICK j \in 1 .. b : \E n \in log[j].moves : n.to = Bound(u, b)
  BY <1>3 DEF WasBound
<1>5. PICK n \in log[j].moves : n.to = Bound(u, b)
  BY <1>4
<1>6. j \in 1 .. HeadSeq
  BY <1>1
<1>7. IsManifest(n.to) /\ Parts(n.to)' = Parts(n.to)
  BY <1>1, <1>6
<1>8. n.to = Current(u, b) /\ Current(u, b)' = n.to
  BY <1>1, <1>2, <1>5
<1>9. Parts(Current(u, b))' = Parts(n.to)'
  BY <1>8 DEF Parts
<1> QED  BY <1>1, <1>7, <1>8, <1>9

\* Posting for an upload brings no message back.
LEMMA PostGone ==
  ASSUME Base, NEW d \in Device, NEW k, PostsFor(d, k),
         NEW p \in Message, NEW s \in 0 .. HeadSeq, GoneSince(p, s)
  PROVE  GoneSince(p, s)'
<1>1. /\ log' = log /\ mover' = mover /\ MessagesGrow /\ k \in Message' \ Message
      /\ \A e \in Device \ {d} : upload'[e] = upload[e]
  BY DEF PostsFor
<1>2. /\ HeadSeq' = HeadSeq /\ HeadSeq \in Nat
      /\ \A u, b : Current(u, b)' = Current(u, b)
  BY <1>1, QuietLog
<1>3. p # k /\ p # 0
  BY <1>1, MessagesNext
<1>4. ASSUME NEW b \in s .. HeadSeq', NEW u \in Upload, Current(u, b)' # 0  PROVE p \notin Parts(Current(u, b))'
  BY <1>1, <1>2, <1>4, CurrentParts DEF GoneSince
<1>5. ASSUME NEW e \in Device, NEW m \in mover'[e].moves, ~Stale(m)'  PROVE p \notin Parts(m.to)'
  <2>1. m \in mover[e].moves /\ ~Stale(m)
    BY <1>1, <1>2, <1>5 DEF Stale
  <2> QED  BY <1>1, <2>1, QuietPending DEF GoneSince
<1>6. ASSUME NEW e \in Device, upload'[e] # None  PROVE p # upload'[e].piece /\ p # upload'[e].manifest
  <2>1. CASE e # d
    BY <1>1, <1>6, <2>1 DEF GoneSince
  <2>2. CASE e = d
    <3>1. ASSUME NEW u, upload'[d] = [id |-> u, piece |-> k, manifest |-> 0]
          PROVE  upload'[d].piece = k /\ upload'[d].manifest = 0
      BY <3>1
    <3>2. ASSUME upload[d] # None, upload'[d] = [upload[d] EXCEPT !.manifest = k]
          PROVE  upload'[d].piece = upload[d].piece /\ upload'[d].manifest = k
      <4>1. upload[d] \in UploadRun
        BY <1>1, <3>2, QuietUpload
      <4> QED  BY <3>2, <4>1 DEF UploadRun
    <3> QED  BY <1>3, <2>2, <3>1, <3>2 DEF PostsFor, GoneSince
  <2> QED  BY <2>1, <2>2
<1> QED  BY <1>4, <1>5, <1>6 DEF GoneSince

\* Neither does copying a version.
LEMMA CopyGone ==
  ASSUME Base, NEW d \in Device, NEW v, NEW k, NEW q, Copies(d, v, k, q),
         NEW p \in Message, NEW s \in 0 .. HeadSeq, GoneSince(p, s)
  PROVE  GoneSince(p, s)'
<1> DEFINE new == [upload |-> v.upload, from |-> v.from, to |-> k]
<1>1. /\ log' = log /\ upload' = upload /\ MessagesGrow /\ k \in Message' \ Message /\ messages'[k].piece = q
      /\ v \in mover[d].todo /\ mover'[d].moves = mover[d].moves \cup {new}
      /\ \A e \in Device \ {d} : mover'[e] = mover[e]
      /\ q = Piece(v.from) \/ q \in Message' \ Message
  BY DEF Copies
<1>2. /\ HeadSeq' = HeadSeq /\ HeadSeq \in Nat
      /\ \A u, b : Current(u, b)' = Current(u, b)
  BY <1>1, QuietLog
<1>3. p # k /\ p # 0
  BY <1>1, MessagesNext
<1>4. ASSUME NEW b \in s .. HeadSeq', NEW u \in Upload, Current(u, b)' # 0  PROVE p \notin Parts(Current(u, b))'
  BY <1>1, <1>2, <1>4, CurrentParts DEF GoneSince
<1>5. ASSUME NEW e \in Device, NEW m \in mover'[e].moves, ~Stale(m)'  PROVE p \notin Parts(m.to)'
  <2>1. CASE m \in mover[e].moves
    <3>1. ~Stale(m)
      BY <1>2, <1>5 DEF Stale
    <3> QED  BY <1>1, <2>1, <3>1, QuietPending DEF GoneSince
  <2>2. CASE m = new
    <3>1. WasBound(v.upload, v.from, HeadSeq) /\ v.upload \in Upload
      BY <1>1 DEF Base, RunsTyped, MoverTypes, MoveRun, Names, PendInv
    <3>2. Current(v.upload, HeadSeq) = v.from
      BY <1>2, <1>5, <2>2 DEF Stale
    <3>3. v.from # 0 /\ Piece(v.from) \in Parts(v.from)
      BY <3>1, BoundInLog, MessagesAre DEF Base
    <3>4. p # Piece(v.from)
      BY <1>2, <3>1, <3>2, <3>3 DEF GoneSince
    <3>5. Parts(m.to)' = {k, q}
      BY <1>1, <2>2 DEF Parts
    <3> QED  BY <1>1, <1>3, <3>4, <3>5
  <2> QED  BY <1>1, <2>1, <2>2
<1>6. ASSUME NEW e \in Device, upload'[e] # None  PROVE p # upload'[e].piece /\ p # upload'[e].manifest
  BY <1>1, <1>6 DEF GoneSince
<1> QED  BY <1>4, <1>5, <1>6 DEF GoneSince
-----------------------------------------------------------------------------
(* The types are kept                                                      *)

\* The least of some numbers.
LEMMA MinOfNats ==
  ASSUME NEW T \in SUBSET Nat, T # {}
  PROVE  Min(T) \in T /\ \A j \in T : Min(T) <= j
<1>1. PICK x \in T : TRUE
  OBVIOUS
<1> DEFINE S == {j \in T : j <= x}
<1>2. S \in SUBSET (0 .. x) /\ S # {} /\ x \in Nat
  <2>1. x \in Nat /\ x <= x
    BY <1>1
  <2>2. x \in S
    BY <2>1
  <2>3. \A j \in S : j \in 0 .. x
    BY <2>1
  <2> QED  BY <2>1, <2>2, <2>3
<1>3. PICK i \in S : \A j \in S : i <= j
  <2> HIDE DEF S
  <2> QED  BY <1>2, LeastOf
<1>4. i \in T /\ \A j \in T : i <= j
  BY <1>2, <1>3
<1> QED  BY <1>4 DEF Min

\* The next copy of a move is one of those to do.
LEMMA NextCopy ==
  ASSUME NEW T \in SUBSET [upload : Upload, from : Nat], T # {}, MaxUploads \in Nat
  PROVE  (CHOOSE v \in T : \A w \in T : v.upload <= w.upload) \in T
<1> DEFINE U == {v.upload : v \in T}
<1>1. \A v \in T : v.upload \in Nat
  BY DEF Upload
<1>2. U \in SUBSET Nat /\ U # {}
  BY <1>1
<1>3. Min(U) \in U /\ \A j \in U : Min(U) <= j
  <2> HIDE DEF U
  <2> QED  BY <1>2, MinOfNats
<1>4. PICK v \in T : v.upload = Min(U)
  BY <1>3
<1>5. \A w \in T : v.upload <= w.upload
  BY <1>3, <1>4
<1> QED  BY <1>5

\* A device's run of a kind is replaced.
LEMMA RunPut ==
  ASSUME NEW S, NEW f \in [Device -> S], NEW d \in Device, NEW r \in S, NEW g, g = [f EXCEPT ![d] = r]
  PROVE  g \in [Device -> S] /\ g[d] = r /\ \A e \in Device \ {d} : g[e] = f[e]
OBVIOUS

\* A move that runs, stops or starts is typed.
LEMMA MoverPut ==
  ASSUME MoverTypes, NEW d \in Device, NEW r \in MoveRun, mover' = [mover EXCEPT ![d] = r],
         r.at # "none" => r.hook \in Hook, r.at = "mark" => r.drain \in Drain
  PROVE  /\ MoverTypes' /\ mover'[d] = r /\ \A e \in Device \ {d} : mover'[e] = mover[e]
<1>1. mover' \in [Device -> MoveRun] /\ mover'[d] = r /\ \A e \in Device \ {d} : mover'[e] = mover[e]
  BY RunPut DEF MoverTypes
<1>2. ASSUME NEW e \in Device
      PROVE  /\ mover'[e].at # "none" => mover'[e].hook \in Hook
             /\ mover'[e].at = "mark" => mover'[e].drain \in Drain
  <2>1. CASE e = d
    BY <1>1, <2>1
  <2>2. CASE e # d
    BY <1>1, <2>2 DEF MoverTypes
  <2> QED  BY <2>1, <2>2
<1> QED  BY <1>1, <1>2 DEF MoverTypes

\* So is a cleaner's run.
LEMMA CleanerPut ==
  ASSUME CleanerTypes, NEW d \in Device, NEW r \in CleanRun \cup {None}, cleaner' = [cleaner EXCEPT ![d] = r],
         r # None /\ r.at \in {"drain", "drainPiece", "drainManifest"} => r.hook \in Hook,
         r # None /\ r.at \in {"clean", "piece", "manifest"} => r.todo \subseteq Upload,
         r # None /\ r.at \in {"piece", "manifest"} => r.upload \in Upload
  PROVE  /\ CleanerTypes' /\ cleaner'[d] = r /\ \A e \in Device \ {d} : cleaner'[e] = cleaner[e]
<1>1. cleaner' \in [Device -> CleanRun \cup {None}] /\ cleaner'[d] = r /\ \A e \in Device \ {d} : cleaner'[e] = cleaner[e]
  <2> DEFINE S == CleanRun \cup {None}
  <2>1. cleaner \in [Device -> S] /\ r \in S
    BY DEF CleanerTypes
  <2> HIDE DEF S
  <2>2. cleaner' \in [Device -> S] /\ cleaner'[d] = r /\ \A e \in Device \ {d} : cleaner'[e] = cleaner[e]
    BY <2>1, RunPut
  <2> QED  BY <2>2 DEF S
<1>2. ASSUME NEW e \in Device, cleaner'[e] # None
      PROVE  /\ cleaner'[e].at \in {"drain", "drainPiece", "drainManifest"} => cleaner'[e].hook \in Hook
             /\ cleaner'[e].at \in {"clean", "piece", "manifest"} => cleaner'[e].todo \subseteq Upload
             /\ cleaner'[e].at \in {"piece", "manifest"} => cleaner'[e].upload \in Upload
  <2>1. CASE e = d
    BY <1>1, <1>2, <2>1
  <2>2. CASE e # d
    BY <1>1, <1>2, <2>2 DEF CleanerTypes
  <2> QED  BY <2>1, <2>2
<1> QED  BY <1>1, <1>2 DEF CleanerTypes
-----------------------------------------------------------------------------
(* Every action is such a step                                             *)

\* A step: it tells, posts for an upload, or copies a version.
Step ==
  \/ Tells
  \/ \E d \in Device : \E k : PostsFor(d, k)
  \/ \E d \in Device : \E v, k, p : Copies(d, v, k, p)

\* The log, the messages and who names them are left alone.
Still == log' = log /\ messages' = messages /\ upload' = upload /\ mover' = mover

\* Then nothing is told.
LEMMA StillTells ==
  ASSUME Still
  PROVE  Tells
BY DEF Still, Tells

\* The types that a step leaves alone.
LEMMA Frames ==
  ASSUME Typing
  PROVE  /\ log' = log => LogTypes' /\ HeadSeq' = HeadSeq
         /\ messages' = messages => MessageTypes' /\ Message' = Message
         /\ upload' = upload => UploadTypes'
         /\ mover' = mover => MoverTypes'
         /\ cleaner' = cleaner => CleanerTypes'
         /\ vault' = vault /\ client' = client => VaultTypes'
         /\ day' = day /\ bases' = bases /\ HeadSeq \in Nat /\ HeadSeq' \in Nat /\ HeadSeq' >= HeadSeq => TimeTypes'
         /\ HeadSeq \in Nat
<1>1. log' = log => LogTypes' /\ HeadSeq' = HeadSeq
  BY DEF Typing, LogTypes, HeadSeq
<1>2. messages' = messages => MessageTypes' /\ Message' = Message
  BY DEF Typing, MessageTypes, Message
<1>3. upload' = upload => UploadTypes'
  BY DEF Typing, UploadTypes
<1>4. mover' = mover => MoverTypes'
  BY DEF Typing, MoverTypes
<1>5. cleaner' = cleaner => CleanerTypes'
  BY DEF Typing, CleanerTypes
<1>6. vault' = vault /\ client' = client => VaultTypes'
  BY DEF Typing, VaultTypes
<1>7. day' = day /\ bases' = bases /\ HeadSeq \in Nat /\ HeadSeq' \in Nat /\ HeadSeq' >= HeadSeq => TimeTypes'
  <2> SUFFICES ASSUME day' = day, bases' = bases, HeadSeq \in Nat, HeadSeq' \in Nat, HeadSeq' >= HeadSeq
               PROVE  TimeTypes'
    OBVIOUS
  <2>1. bases \in SUBSET (0 .. HeadSeq')
    BY DEF Typing, TimeTypes
  <2> QED  BY <2>1 DEF Typing, TimeTypes
<1> QED  BY <1>1, <1>2, <1>3, <1>4, <1>5, <1>6, <1>7, LogIs DEF Typing

\* A release, a day, a base, a restart: types.
LEMMA WorldTyped ==
  ASSUME Typing, Names,
         NextDay \/ (\E at \in 1 .. MaxLog : TakeBase(at)) \/ \E d \in Device : Reopen(d) \/ \E u \in Upload : Release(d, u)
  PROVE  Typing' /\ Step
<1>1. CASE NextDay
  <2>1. Still /\ cleaner' = cleaner /\ vault' = vault /\ client' = client /\ live' = live /\ done' = done
        /\ faults' = faults /\ missed' = missed /\ bases' = bases
    BY <1>1 DEF NextDay, Still, discord, history
  <2>2. TimeTypes'
    BY <1>1, <2>1, Frames DEF NextDay, Typing, TimeTypes, Still
  <2>3. RestTypes'
    BY <2>1, Frames DEF Typing, RestTypes, Still
  <2> QED  BY <2>1, <2>2, <2>3, Frames, StillTells DEF Typing, Still, Step
<1>2. ASSUME NEW at \in 1 .. MaxLog, TakeBase(at)  PROVE Typing' /\ Step
  <2>1. Still /\ cleaner' = cleaner /\ vault' = vault /\ client' = client /\ live' = live /\ done' = done
        /\ faults' = faults /\ missed' = missed /\ day' = day
    BY <1>2 DEF TakeBase, Still, discord, history
  <2>2. TimeTypes'
    <3>1. bases \in SUBSET (0 .. HeadSeq) /\ bases # {} /\ day \in Nat /\ HeadSeq \in Nat
      BY Frames DEF Typing, TimeTypes
    <3>2. Max(bases) \in bases
      BY <3>1, MaxIs
    <3>3. at \in 0 .. HeadSeq /\ \E k \in bases \cup {at} : bases' = {b \in bases : b >= k} \cup {at}
      BY <1>2, <3>1, <3>2 DEF TakeBase
    <3>4. bases' \in SUBSET (0 .. HeadSeq) /\ bases' # {}
      BY <3>1, <3>3
    <3> QED  BY <2>1, <3>1, <3>4, Frames DEF TimeTypes, Still
  <2>3. RestTypes'
    BY <2>1, Frames DEF Typing, RestTypes, Still
  <2> QED  BY <2>1, <2>2, <2>3, Frames, StillTells DEF Typing, Still, Step
<1>3. ASSUME NEW d \in Device, NEW u \in Upload, Release(d, u)  PROVE Typing' /\ Step
  <2> DEFINE e == Entry({}, {u})
  <2>1. /\ messages' = messages /\ upload' = upload /\ mover' = mover /\ cleaner' = cleaner /\ vault' = vault
        /\ client' = client /\ live' = live /\ done' = done /\ faults' = faults /\ missed' = missed
        /\ day' = day /\ bases' = bases /\ log' = Append(log, e) /\ Current(u, HeadSeq) # 0
    BY <1>3 DEF Release, Commits, discord, history
  <2>2. e \in LogEntry /\ e.moves = {} /\ e.ended = {u}
    BY DEF Entry, LogEntry, Typing, TimeTypes
  <2>3. Tellable(e)
    BY <2>1, <2>2 DEF Tellable
  <2> HIDE DEF e
  <2>4. LogTypes' /\ HeadSeq' = HeadSeq + 1
    BY <2>1, <2>2, Appended DEF Typing
  <2>5. Tells
    BY <2>1, <2>2, <2>3 DEF Tells
  <2>6. RestTypes'
    BY <2>1, Frames DEF Typing, RestTypes
  <2> QED  BY <2>1, <2>4, <2>5, <2>6, Frames DEF Typing, Step
<1>4. ASSUME NEW d \in Device, Reopen(d)  PROVE Typing' /\ Step
  <2>1. /\ log' = log /\ messages' = messages /\ day' = day /\ bases' = bases /\ live' = live /\ vault' = vault
        /\ done' = done /\ missed' = missed /\ faults' = faults + 1
    BY <1>4 DEF Reopen, Fault, account, discord, history
  <2>2. /\ UploadTypes'
        /\ \A x \in Device : \/ upload'[x] \in {upload[x], None}
                             \/ (upload[x] # None /\ upload'[x] = [upload[x] EXCEPT !.manifest = 0])
    <3> DEFINE r == IF upload[d] = None THEN None ELSE [upload[d] EXCEPT !.manifest = 0]
               S == UploadRun \cup {None}
    <3>1. upload \in [Device -> S] /\ upload' = [upload EXCEPT ![d] = r]
      BY <1>4 DEF Reopen, Typing, UploadTypes
    <3>2. r \in S
      BY <3>1 DEF UploadRun
    <3> HIDE DEF S
    <3>3. upload' \in [Device -> S] /\ upload'[d] = r /\ \A x \in Device \ {d} : upload'[x] = upload[x]
      <4> HIDE DEF r
      <4> QED  BY <3>1, <3>2, RunPut
    <3>4. \/ r \in {upload[d], None}
          \/ (upload[d] # None /\ r = [upload[d] EXCEPT !.manifest = 0])
      OBVIOUS
    <3> HIDE DEF r
    <3>5. ASSUME NEW x \in Device
          PROVE  \/ upload'[x] \in {upload[x], None}
                 \/ (upload[x] # None /\ upload'[x] = [upload[x] EXCEPT !.manifest = 0])
      BY <3>3, <3>4
    <3> QED  BY <3>3, <3>5 DEF UploadTypes, S
  <2>3. MoverTypes' /\ \A x \in Device : mover'[x].moves \subseteq mover[x].moves /\ mover'[x].todo \subseteq mover[x].todo
    <3> DEFINE r == IF mover[d].at \in {"none", "done"} THEN mover[d] ELSE Paused(d)
    <3>1. mover[d] \in MoveRun /\ mover' = [mover EXCEPT ![d] = r]
      BY <1>4 DEF Reopen, Typing, MoverTypes
    <3>2. CASE mover[d].at \in {"none", "done"}
      BY <3>1, <3>2, MoverPut DEF Typing, MoverTypes
    <3>3. CASE mover[d].at \notin {"none", "done"}
      <4>1. /\ Paused(d).at = "paused" /\ Paused(d).hook = mover[d].hook /\ Paused(d).moves = {} /\ Paused(d).todo = {}
            /\ Paused(d) \in MoveRun
        BY <3>1 DEF Paused, NoMove, MoveRun
      <4>2. mover[d].hook \in Hook
        BY <3>3 DEF Typing, MoverTypes
      <4> QED  BY <3>1, <3>3, <4>1, <4>2, MoverPut DEF Typing
    <3> QED  BY <3>2, <3>3
  <2>4. CleanerTypes'
    BY <1>4, CleanerPut DEF Reopen, Typing
  <2>5. VaultTypes'
    BY <1>4, <2>1 DEF Reopen, Typing, VaultTypes
  <2>6. Tells
    BY <2>1, <2>2, <2>3 DEF Tells
  <2>7. RestTypes'
    BY <2>1, Frames DEF Typing, RestTypes
  <2> QED  BY <2>1, <2>2, <2>3, <2>4, <2>5, <2>6, <2>7, Frames DEF Typing, Step
<1> QED  BY <1>1, <1>2, <1>3, <1>4

\* One message, number k, has been posted.
Posted(h, p, k) ==
  /\ MessagesGrow /\ k \in Message' \ Message /\ Message' \ Message \subseteq {k} /\ messages'[k] = [hook |-> h, piece |-> p]
  /\ MessageTypes' /\ live' \subseteq Message' /\ k \in Nat

\* Uploads: types.
LEMMA UploadTyped ==
  ASSUME Typing, Names, NEW d \in Device, Uploading(d)
  PROVE  Typing' /\ Step
<1> DEFINE k == Len(messages) + 1
<1>1. MessageTypes /\ TimeTypes /\ VaultTypes /\ RestTypes
  BY DEF Typing
<1>2. ASSUME NEW h \in Hook, NEW p \in Nat, Post(d, h, p)
      PROVE  Posted(h, p, k)
  <2> DEFINE x == [hook |-> h, piece |-> p]
  <2>1. messages' = Append(messages, x) /\ live' = live \cup {k}
    BY <1>2 DEF Post
  <2>2. x \in [hook : Hook, piece : Nat]
    OBVIOUS
  <2> HIDE DEF x
  <2>3. MessagesGrow /\ messages'[k] = x /\ Message' = Message \cup {k}
    BY <1>1, <2>1, <2>2, PostedOne
  <2>4. k \in Nat /\ k \notin Message
    BY <1>1, MessagesAre
  <2>5. live' \subseteq Message'
    BY <1>1, <2>1, <2>3 DEF RestTypes
  <2> QED  BY <2>3, <2>4, <2>5 DEF x, MessagesGrow, Posted
<1>3. ASSUME NEW h \in Hook, UploadPiece(d, h)  PROVE Typing' /\ Step
  <2> DEFINE r == [id |-> Min(Upload \ Begun), piece |-> k, manifest |-> 0]
             S == UploadRun \cup {None}
  <2>1. /\ log' = log /\ day' = day /\ bases' = bases /\ vault' = vault /\ client' = client /\ mover' = mover
        /\ cleaner' = cleaner /\ done' = done /\ faults' = faults /\ missed' = missed
        /\ upload[d] = None /\ Upload \ Begun # {} /\ Post(d, h, k) /\ upload' = [upload EXCEPT ![d] = r]
    BY <1>3 DEF UploadPiece, account, history
  <2>2. k \in Nat
    BY <1>1, MessagesAre
  <2>3. MessagesGrow /\ k \in Message' \ Message /\ messages'[k].piece = k /\ MessageTypes' /\ live' \subseteq Message'
        /\ Message' \ Message \subseteq {k}
    <3>1. Posted(h, k, k)
      BY <1>2, <2>1, <2>2
    <3> QED  BY <3>1 DEF Posted
  <2>4. Min(Upload \ Begun) \in Upload \ Begun
    <3>1. MaxUploads \in Nat
      BY ConstantsAreTyped
    <3>2. Upload \ Begun \in SUBSET (0 .. MaxUploads)
      BY <3>1 DEF Upload
    <3> QED  BY <2>1, <3>1, <3>2, MinIs
  <2>5. r \in S
    BY <2>2, <2>4 DEF UploadRun
  <2>6. upload' \in [Device -> S] /\ upload'[d] = r /\ \A e \in Device \ {d} : upload'[e] = upload[e]
    <3>1. upload \in [Device -> S]
      BY DEF Typing, UploadTypes
    <3> HIDE DEF S, r
    <3> QED  BY <2>1, <2>5, <3>1, RunPut
  <2>7. PostsFor(d, k)
    BY <2>1, <2>3, <2>4, <2>6 DEF PostsFor
  <2>8. RestTypes' /\ UploadTypes'
    BY <1>1, <2>1, <2>3, <2>6 DEF RestTypes, UploadTypes
  <2> QED  BY <2>1, <2>3, <2>7, <2>8, Frames DEF Typing, Step
<1>4. ASSUME NEW h \in Hook, UploadManifest(d, h)  PROVE Typing' /\ Step
  <2> DEFINE r == [upload[d] EXCEPT !.manifest = k]
             S == UploadRun \cup {None}
  <2>1. /\ log' = log /\ day' = day /\ bases' = bases /\ vault' = vault /\ client' = client /\ mover' = mover
        /\ cleaner' = cleaner /\ done' = done /\ faults' = faults /\ missed' = missed
        /\ upload[d] # None /\ Post(d, h, upload[d].piece) /\ upload' = [upload EXCEPT ![d] = r]
    BY <1>4 DEF UploadManifest, account, history
  <2>2. k \in Nat
    BY <1>1, MessagesAre
  <2>3. upload[d] \in UploadRun /\ upload[d].piece \in Nat
    BY <2>1 DEF Typing, UploadTypes, UploadRun
  <2>4. /\ MessagesGrow /\ k \in Message' \ Message /\ messages'[k].piece = upload[d].piece /\ MessageTypes'
        /\ live' \subseteq Message' /\ Message' \ Message \subseteq {k}
    <3>1. Posted(h, upload[d].piece, k)
      BY <1>2, <2>1, <2>3
    <3> QED  BY <3>1 DEF Posted
  <2>5. r \in S
    BY <2>2, <2>3 DEF UploadRun
  <2>6. upload' \in [Device -> S] /\ upload'[d] = r /\ \A e \in Device \ {d} : upload'[e] = upload[e]
    <3>1. upload \in [Device -> S]
      BY DEF Typing, UploadTypes
    <3> HIDE DEF S, r
    <3> QED  BY <2>1, <2>5, <3>1, RunPut
  <2>7. PostsFor(d, k)
    BY <2>1, <2>4, <2>6 DEF PostsFor
  <2>8. RestTypes' /\ UploadTypes'
    BY <1>1, <2>1, <2>4, <2>6 DEF RestTypes, UploadTypes
  <2> QED  BY <2>1, <2>4, <2>7, <2>8, Frames DEF Typing, Step
<1>5. ASSUME UploadCommit(d)  PROVE Typing' /\ Step
  <2> DEFINE n == Bind(upload[d].id, upload[d].manifest)
             e == Entry({n}, {})
             S == UploadRun \cup {None}
  <2>1. /\ messages' = messages /\ mover' = mover /\ cleaner' = cleaner /\ vault' = vault
        /\ client' = client /\ live' = live /\ done' = done /\ faults' = faults /\ missed' = missed
        /\ day' = day /\ bases' = bases /\ log' = Append(log, e)
        /\ upload[d] # None /\ upload[d].manifest # 0 /\ upload' = [upload EXCEPT ![d] = None]
    BY <1>5 DEF UploadCommit, Commits, discord, history
  <2>2. upload[d] \in UploadRun
    BY <2>1 DEF Typing, UploadTypes
  <2>3. n \in LogMove
    BY <2>2 DEF Bind, LogMove, UploadRun
  <2>4. upload' \in [Device -> S] /\ upload'[d] = None /\ \A x \in Device \ {d} : upload'[x] = upload[x]
    <3>1. upload \in [Device -> S] /\ None \in S
      BY DEF Typing, UploadTypes
    <3> HIDE DEF S
    <3> QED  BY <2>1, <3>1, RunPut
  <2>5. NewMove(n)
    BY <2>1, <2>4 DEF NewMove
  <2> HIDE DEF n
  <2>6. e \in LogEntry /\ e.moves = {n} /\ e.ended = {}
    BY <1>1, <2>3 DEF Entry, LogEntry, TimeTypes
  <2> HIDE DEF e
  <2>7. Tellable(e)
    BY <2>5, <2>6 DEF Tellable
  <2>8. LogTypes' /\ HeadSeq' = HeadSeq + 1
    BY <2>1, <2>6, Appended DEF Typing
  <2>9. Tells
    <3>1. \A x \in Device : upload'[x] \in {upload[x], None}
      BY <2>4
    <3> QED  BY <2>1, <2>6, <2>7, <3>1 DEF Tells
  <2>10. RestTypes' /\ UploadTypes'
    BY <1>1, <2>1, <2>4, Frames DEF RestTypes, UploadTypes
  <2> QED  BY <2>1, <2>8, <2>9, <2>10, Frames DEF Typing, Step
<1> QED  BY <1>3, <1>4, <1>5 DEF Uploading

\* A move that goes on, with no new copies: types.
MoveGoesOn(d, r) ==
  /\ log' = log /\ messages' = messages /\ upload' = upload
  /\ r \in MoveRun /\ mover' = [mover EXCEPT ![d] = r]
  /\ r.at # "none" => r.hook \in Hook
  /\ r.at = "mark" => r.drain \in Drain
  /\ r.moves \subseteq mover[d].moves
  /\ \A v \in r.todo : v \in mover[d].todo \/ (v.from = Current(v.upload, HeadSeq) /\ v.from # 0)

\* Nothing is told by it.
LEMMA GoesOnTells ==
  ASSUME Typing, NEW d \in Device, NEW r, MoveGoesOn(d, r)
  PROVE  Tells /\ MoverTypes' /\ mover'[d] = r /\ \A e \in Device \ {d} : mover'[e] = mover[e]
<1>1. MoverTypes' /\ mover'[d] = r /\ \A e \in Device \ {d} : mover'[e] = mover[e]
  BY MoverPut DEF MoveGoesOn, Typing
<1>2. ASSUME NEW e \in Device
      PROVE  /\ mover'[e].moves \subseteq mover[e].moves
             /\ \A v \in mover'[e].todo : v \in mover[e].todo \/ (v.from = Current(v.upload, HeadSeq) /\ v.from # 0)
  <2>1. CASE e = d
    BY <1>1, <2>1 DEF MoveGoesOn
  <2>2. CASE e # d
    BY <1>1, <2>2
  <2> QED  BY <2>1, <2>2
<1>3. Tells
  BY <1>2 DEF MoveGoesOn, Tells
<1> QED  BY <1>1, <1>3

\* What a move becomes by each of its steps.
LEMMA MoveSteps ==
  ASSUME Typing, Names, NEW d \in Device
  PROVE  /\ \A h \in Hook : MoveStart(d, h) =>
              MoveGoesOn(d, [NoMove EXCEPT !.at = "files", !.hook = h, !.from = MoveFrom(d, h)])
         /\ MoveFails(d) => MoveGoesOn(d, Paused(d))
         /\ MoveMark(d) => MoveGoesOn(d, [NoMove EXCEPT !.at = "done", !.hook = mover[d].hook])
<1>1. mover[d] \in MoveRun /\ HeadSeq \in Nat
  BY Frames DEF Typing, MoverTypes
<1>2. ASSUME NEW h \in Hook, MoveStart(d, h)
      PROVE  MoveGoesOn(d, [NoMove EXCEPT !.at = "files", !.hook = h, !.from = MoveFrom(d, h)])
  <2> DEFINE r == [NoMove EXCEPT !.at = "files", !.hook = h, !.from = MoveFrom(d, h)]
  <2>1. MoveFrom(d, h) \in Nat
    BY <1>1 DEF MoveFrom, MoveRun
  <2>2. r \in MoveRun /\ r.at = "files" /\ r.hook = h /\ r.moves = {} /\ r.todo = {}
    BY <2>1 DEF MoveRun, NoMove
  <2>3. mover' = [mover EXCEPT ![d] = r] /\ log' = log /\ messages' = messages /\ upload' = upload
    BY <1>2 DEF MoveStart, account, discord
  <2> QED  BY <2>2, <2>3 DEF MoveGoesOn
<1>3. ASSUME MoveFails(d)  PROVE MoveGoesOn(d, Paused(d))
  <2>1. mover' = [mover EXCEPT ![d] = Paused(d)] /\ log' = log /\ messages' = messages /\ upload' = upload
    BY <1>3 DEF MoveFails, account, discord
  <2>2. /\ Paused(d).at = "paused" /\ Paused(d).hook = mover[d].hook /\ Paused(d).moves = {} /\ Paused(d).todo = {}
        /\ Paused(d) \in MoveRun
    BY <1>1 DEF Paused, NoMove, MoveRun
  <2>3. mover[d].hook \in Hook
    BY <1>3 DEF MoveFails, Typing, MoverTypes
  <2> QED  BY <2>1, <2>2, <2>3 DEF MoveGoesOn
<1>4. ASSUME MoveMark(d)  PROVE MoveGoesOn(d, [NoMove EXCEPT !.at = "done", !.hook = mover[d].hook])
  <2> DEFINE r == [NoMove EXCEPT !.at = "done", !.hook = mover[d].hook]
  <2>1. mover' = [mover EXCEPT ![d] = r] /\ log' = log /\ messages' = messages /\ upload' = upload
    BY <1>4 DEF MoveMark, account, discord
  <2>2. mover[d].hook \in Hook
    BY <1>4 DEF MoveMark, Typing, MoverTypes
  <2>3. r \in MoveRun /\ r.at = "done" /\ r.hook = mover[d].hook /\ r.moves = {} /\ r.todo = {}
    BY <2>2 DEF MoveRun, NoMove
  <2> QED  BY <2>1, <2>2, <2>3 DEF MoveGoesOn
<1> QED  BY <1>2, <1>3, <1>4

\* The batch and the check.
LEMMA LookSteps ==
  ASSUME Typing, Names, NEW d \in Device
  PROVE  /\ MoveBatch(d) => \E r : MoveGoesOn(d, r) /\ r.hook = mover[d].hook /\ r.from = mover[d].from
                                   /\ r.moves = mover[d].moves /\ r.at \in {"settle", "copy"} /\ mover[d].at = "files"
         /\ MoveCheck(d) => \/ MoveGoesOn(d, [mover[d] EXCEPT !.at = "paused"]) /\ mover[d].at = "settle"
                            \/ /\ MoveGoesOn(d, [mover[d] EXCEPT !.at = "mark", !.drain = Drained(mover[d].from)])
                               /\ VersionsAt(mover[d].hook) = {} /\ mover[d].at = "settle"
<1>1. mover[d] \in MoveRun /\ HeadSeq \in Nat /\ day \in Nat /\ mover \in [Device -> MoveRun]
  BY Frames DEF Typing, MoverTypes, TimeTypes
<1>2. ASSUME MoveBatch(d)
      PROVE  \E r : MoveGoesOn(d, r) /\ r.hook = mover[d].hook /\ r.from = mover[d].from
                    /\ r.moves = mover[d].moves /\ r.at \in {"settle", "copy"} /\ mover[d].at = "files"
  <2> DEFINE on == VersionsAt(mover[d].hook)
             batch == {u \in on : Cardinality({v \in on : v < u}) < RelocateBatch}
             at == IF batch = {} THEN "settle" ELSE "copy"
             todo == {[upload |-> u, from |-> Current(u, HeadSeq)] : u \in batch}
             r == [mover[d] EXCEPT !.at = at, !.todo = todo]
  <2>1. /\ mover' = [mover EXCEPT ![d].at = at, ![d].todo = todo] /\ mover[d].at = "files"
        /\ log' = log /\ messages' = messages /\ upload' = upload
    BY <1>2 DEF MoveBatch, account, discord
  <2>2. \A u \in batch : u \in Upload /\ Current(u, HeadSeq) # 0
    BY DEF VersionsAt
  <2>3. \A u \in batch : Current(u, HeadSeq) \in Nat
    <3>1. \A u : Bound(u, HeadSeq) \in Nat
      <4>1. LogNamesMessages
        BY DEF Names, LogInv, Logged, IsManifest, LogNamesMessages
      <4> QED  BY <1>1, <4>1, BoundIs DEF LogOK, Typing
    <3> QED  BY <3>1 DEF Current
  <2> HIDE DEF batch
  <2>4. todo \in SUBSET [upload : Upload, from : Nat]
    BY <2>2, <2>3
  <2>5. \A v \in todo : v.from = Current(v.upload, HeadSeq) /\ v.from # 0
    BY <2>2
  <2>6. at \in {"settle", "copy"}
    OBVIOUS
  <2> HIDE DEF todo, at
  <2>7. mover' = [mover EXCEPT ![d] = r]
    BY <1>1, <2>1
  <2>8. r \in MoveRun /\ r.hook = mover[d].hook /\ r.from = mover[d].from /\ r.moves = mover[d].moves /\ r.at = at /\ r.todo = todo
    BY <1>1, <2>4, <2>6 DEF MoveRun
  <2>9. mover[d].hook \in Hook
    BY <2>1 DEF Typing, MoverTypes
  <2> HIDE DEF r
  <2>10. MoveGoesOn(d, r)
    BY <2>1, <2>5, <2>6, <2>7, <2>8, <2>9 DEF MoveGoesOn
  <2> QED  BY <2>1, <2>6, <2>8, <2>10
<1>3. ASSUME MoveCheck(d)
      PROVE  \/ MoveGoesOn(d, [mover[d] EXCEPT !.at = "paused"]) /\ mover[d].at = "settle"
             \/ /\ MoveGoesOn(d, [mover[d] EXCEPT !.at = "mark", !.drain = Drained(mover[d].from)])
                /\ VersionsAt(mover[d].hook) = {} /\ mover[d].at = "settle"
  <2>1. mover[d].at = "settle" /\ log' = log /\ messages' = messages /\ upload' = upload /\ mover[d].hook \in Hook
    BY <1>3 DEF MoveCheck, account, discord, Typing, MoverTypes
  <2>2. CASE VersionsAt(mover[d].hook) # {}
    <3> DEFINE r == [mover[d] EXCEPT !.at = "paused"]
    <3>1. mover' = [mover EXCEPT ![d] = r]
      BY <1>3, <2>2 DEF MoveCheck
    <3>2. r \in MoveRun /\ r.at = "paused" /\ r.hook = mover[d].hook /\ r.moves = mover[d].moves /\ r.todo = mover[d].todo
      BY <1>1 DEF MoveRun
    <3> QED  BY <2>1, <3>1, <3>2 DEF MoveGoesOn
  <2>3. CASE VersionsAt(mover[d].hook) = {}
    <3> DEFINE r == [mover[d] EXCEPT !.at = "mark", !.drain = Drained(mover[d].from)]
    <3>1. mover' = [mover EXCEPT ![d] = r]
      BY <1>3, <2>3 DEF MoveCheck
    <3>2. Drained(mover[d].from) \in Drain
      BY <1>1 DEF Drained, Drain, MoveRun
    <3>3. /\ r \in MoveRun /\ r.at = "mark" /\ r.hook = mover[d].hook /\ r.moves = mover[d].moves /\ r.todo = mover[d].todo
          /\ r.drain = Drained(mover[d].from)
      BY <1>1, <3>2 DEF MoveRun
    <3> QED  BY <2>1, <2>3, <3>1, <3>2, <3>3 DEF MoveGoesOn
  <2> QED  BY <2>2, <2>3
<1> QED  BY <1>2, <1>3

\* The copies that are told.
LEMMA CommitStep ==
  ASSUME Typing, Names, NEW d \in Device, MoveCommit(d)
  PROVE  /\ Tells /\ LogTypes' /\ MoverTypes' /\ HeadSeq' = HeadSeq + 1
         /\ mover'[d] = [mover[d] EXCEPT !.at = "files", !.moves = {}]
         /\ \A e \in Device \ {d} : mover'[e] = mover[e]
<1> DEFINE judged == {[upload |-> m.upload, from |-> m.from, to |-> m.to, stale |-> Stale(m)] : m \in mover[d].moves}
           e == Entry(judged, {})
           r == [mover[d] EXCEPT !.at = "files", !.moves = {}]
<1>1. mover[d] \in MoveRun /\ HeadSeq \in Nat /\ day \in Nat /\ mover \in [Device -> MoveRun]
  BY Frames DEF Typing, MoverTypes, TimeTypes
<1>2. /\ mover' = [mover EXCEPT ![d].at = "files", ![d].moves = {}] /\ log' = Append(log, e)
      /\ messages' = messages /\ upload' = upload /\ mover[d].at = "copy"
  BY DEF MoveCommit, Commits, discord
<1>3. judged \in SUBSET LogMove
  <2> SUFFICES ASSUME NEW m \in mover[d].moves
               PROVE  [upload |-> m.upload, from |-> m.from, to |-> m.to, stale |-> Stale(m)] \in LogMove
    OBVIOUS
  <2>1. m \in [upload : Upload, from : Nat, to : Nat]
    BY <1>1 DEF MoveRun
  <2>2. Stale(m) \in BOOLEAN
    BY DEF Stale
  <2> QED  BY <2>1, <2>2 DEF LogMove
<1>4. mover' = [mover EXCEPT ![d] = r]
  BY <1>1, <1>2
<1>5. r \in MoveRun /\ r.at = "files" /\ r.hook = mover[d].hook /\ r.moves = {} /\ r.todo = mover[d].todo
  BY <1>1 DEF MoveRun
<1>6. mover[d].hook \in Hook
  BY <1>2 DEF Typing, MoverTypes
<1>7. MoverTypes' /\ mover'[d] = r /\ \A x \in Device \ {d} : mover'[x] = mover[x]
  <2> HIDE DEF r
  <2> QED  BY <1>4, <1>5, <1>6, MoverPut DEF Typing
<1>8. \A n \in judged : NewMove(n)
  BY <1>5, <1>7 DEF NewMove
<1> HIDE DEF judged
<1>9. e \in LogEntry /\ e.moves = judged /\ e.ended = {}
  BY <1>1, <1>3 DEF Entry, LogEntry
<1> HIDE DEF e
<1>10. Tellable(e)
  BY <1>8, <1>9 DEF Tellable
<1>11. LogTypes' /\ HeadSeq' = HeadSeq + 1
  BY <1>2, <1>9, Appended DEF Typing
<1>12. \A x \in Device : mover'[x].moves \subseteq mover[x].moves /\ mover'[x].todo \subseteq mover[x].todo
  <2> HIDE DEF r
  <2> QED  BY <1>5, <1>7
<1>13. Tells
  BY <1>2, <1>9, <1>10, <1>12 DEF Tells
<1> QED  BY <1>7, <1>11, <1>13

\* A copy that is made.
LEMMA CopyStep ==
  ASSUME Typing, Names, NEW d \in Device, NEW h \in Hook, NEW g \in Hook, MoveCopy(d, h, g)
  PROVE  /\ MessageTypes' /\ MoverTypes' /\ live' = live \cup (Message' \ Message)
         /\ \E v, k, p : Copies(d, v, k, p)
         /\ mover[d].at = "copy" /\ mover'[d].at = "copy" /\ mover'[d].hook = mover[d].hook
         /\ mover'[d].from = mover[d].from
<1> DEFINE next == CHOOSE v \in mover[d].todo : \A w \in mover[d].todo : v.upload <= w.upload
           old == messages[next.from].piece
           N == Len(messages)
           x == [hook |-> g, piece |-> N + 1]
           copied == IF messages[old].hook = mover[d].hook THEN <<x>> ELSE <<>>
           piece == IF copied = <<>> THEN old ELSE N + 1
           manifest == N + Len(copied) + 1
           moved == [upload |-> next.upload, from |-> next.from, to |-> manifest]
           y == [hook |-> h, piece |-> piece]
           r == [mover[d] EXCEPT !.todo = mover[d].todo \ {next}, !.moves = mover[d].moves \cup {moved}]
<1>1. mover[d] \in MoveRun /\ HeadSeq \in Nat /\ mover \in [Device -> MoveRun] /\ N \in Nat /\ MessageTypes
      /\ Message = 1 .. N
  BY Frames, MessagesAre DEF Typing, MoverTypes
<1>2. /\ mover' = [mover EXCEPT ![d].todo = @ \ {next}, ![d].moves = @ \cup {moved}]
      /\ log' = log /\ upload' = upload /\ mover[d].at = "copy" /\ mover[d].todo # {}
      /\ messages' = messages \o copied \o <<y>>
      /\ live' = live \cup {N + 1, manifest}
  BY DEF MoveCopy, account
<1>3. next \in mover[d].todo
  <2>1. mover[d].todo \in SUBSET [upload : Upload, from : Nat]
    BY <1>1 DEF MoveRun
  <2> QED  BY <1>2, <2>1, NextCopy, ConstantsAreTyped
<1>4. next.upload \in Upload /\ next.from \in Nat /\ WasBound(next.upload, next.from, HeadSeq)
  BY <1>1, <1>3 DEF MoveRun, Names, PendInv
<1> HIDE DEF next
<1>5. Piece(next.from) = old /\ next.from \in Message /\ old \in Message /\ old \in Nat
  <2>1. Base
    BY DEF Base, Typing, RunsTyped
  <2>2. next.from \in Message /\ Piece(next.from) \in Message
    BY <1>4, <2>1, BoundInLog
  <2> QED  BY <1>1, <2>2 DEF Piece
<1>6. /\ MessagesGrow /\ MessageTypes' /\ manifest \in Message' \ Message /\ messages'[manifest].piece = piece
      /\ Message' \ Message = {N + 1, manifest} /\ N + 1 \in {manifest, piece} /\ manifest \in Nat /\ piece \in Nat
      /\ piece = old \/ (piece \in Message' \ Message /\ piece < manifest /\ messages'[piece].piece = piece)
  <2>1. CASE messages[old].hook = mover[d].hook
    <3>1. copied = <<x>>
      BY <2>1
    <3>2. Len(copied) = 1 /\ copied # <<>>
      BY <3>1
    <3>3. manifest = N + 2 /\ piece = N + 1
      BY <1>1, <3>2
    <3>4. x \in [hook : Hook, piece : Nat] /\ y \in [hook : Hook, piece : Nat] /\ x.piece = N + 1 /\ y.piece = N + 1
      BY <1>1, <3>3
    <3>5. messages' = messages \o <<x>> \o <<y>>
      BY <1>2, <3>1
    <3> HIDE DEF x, y
    <3>6. /\ MessagesGrow /\ messages'[N + 1] = x /\ messages'[N + 2] = y /\ Message' = Message \cup {N + 1, N + 2}
      BY <1>1, <3>4, <3>5, PostedTwo
    <3> HIDE DEF copied, piece, manifest
    <3> QED  BY <1>1, <3>3, <3>4, <3>6 DEF MessagesGrow
  <2>2. CASE messages[old].hook # mover[d].hook
    <3>1. copied = <<>>
      BY <2>2
    <3>2. Len(copied) = 0
      BY <3>1
    <3>3. manifest = N + 1 /\ piece = old
      BY <1>1, <3>1, <3>2
    <3>4. y \in [hook : Hook, piece : Nat] /\ y.piece = old
      BY <1>5, <3>3
    <3>5. messages' = messages \o <<y>>
      <4> DEFINE S == [hook : Hook, piece : Nat]
      <4>1. messages \in Seq(S)
        BY <1>1 DEF MessageTypes
      <4> HIDE DEF S
      <4>2. messages \o <<>> = messages
        BY <4>1
      <4> QED  BY <1>2, <3>1, <4>2
    <3>6. messages' = Append(messages, y)
      <4> DEFINE S == [hook : Hook, piece : Nat]
      <4>1. messages \in Seq(S) /\ y \in S
        BY <1>1, <3>4 DEF MessageTypes
      <4> HIDE DEF S, y
      <4>2. messages \o <<y>> = Append(messages, y)
        BY <4>1
      <4> QED  BY <3>5, <4>2
    <3> HIDE DEF y
    <3>7. MessagesGrow /\ messages'[N + 1] = y /\ Message' = Message \cup {N + 1}
      BY <1>1, <3>4, <3>6, PostedOne
    <3> HIDE DEF copied, piece, manifest
    <3> QED  BY <1>1, <1>5, <3>3, <3>4, <3>7 DEF MessagesGrow
  <2> QED  BY <2>1, <2>2
<1> HIDE DEF copied, piece, manifest
<1>7. mover' = [mover EXCEPT ![d] = r]
  <2> HIDE DEF moved
  <2> QED  BY <1>1, <1>2
<1>8. moved \in [upload : Upload, from : Nat, to : Nat]
  BY <1>4, <1>6
<1>9. /\ r \in MoveRun /\ r.at = "copy" /\ r.hook = mover[d].hook /\ r.from = mover[d].from
      /\ r.todo = mover[d].todo \ {next} /\ r.moves = mover[d].moves \cup {moved}
  <2> HIDE DEF moved
  <2> QED  BY <1>1, <1>2, <1>8 DEF MoveRun
<1>10. mover[d].hook \in Hook
  BY <1>2 DEF Typing, MoverTypes
<1>11. MoverTypes' /\ mover'[d] = r /\ \A e \in Device \ {d} : mover'[e] = mover[e]
  <2> HIDE DEF r
  <2> QED  BY <1>7, <1>9, <1>10, MoverPut DEF Typing
<1>12. Copies(d, next, manifest, piece)
  <2> HIDE DEF r
  <2> QED  BY <1>2, <1>3, <1>5, <1>6, <1>9, <1>11 DEF Copies
<1>13. live' = live \cup (Message' \ Message)
  BY <1>2, <1>6
<1> HIDE DEF r
<1> QED  BY <1>2, <1>6, <1>9, <1>11, <1>12, <1>13

\* Moves: types.
LEMMA MoveTyped ==
  ASSUME Typing, Names, NEW d \in Device, Moving(d)
  PROVE  Typing' /\ Step
<1>1. HeadSeq \in Nat /\ day \in Nat /\ RestTypes /\ VaultTypes /\ mover[d] \in MoveRun
  BY Frames DEF Typing, TimeTypes, MoverTypes
<1>2. ASSUME NEW r, MoveGoesOn(d, r), cleaner' = cleaner, day' = day, bases' = bases, VaultTypes', RestTypes'
      PROVE  Typing' /\ Step
  <2>1. Tells /\ MoverTypes'
    BY <1>2, GoesOnTells
  <2>2. log' = log /\ messages' = messages /\ upload' = upload
    BY <1>2 DEF MoveGoesOn
  <2> QED  BY <1>2, <2>1, <2>2, Frames DEF Typing, Step
<1>3. ASSUME NEW h \in Hook, MoveStart(d, h)  PROVE Typing' /\ Step
  <2>1. MoveGoesOn(d, [NoMove EXCEPT !.at = "files", !.hook = h, !.from = MoveFrom(d, h)])
    BY <1>3, MoveSteps
  <2>2. VaultTypes'
    BY <1>1, <1>3 DEF MoveStart, VaultTypes
  <2>3. /\ live' = live /\ done' = done /\ faults' = faults /\ cleaner' = cleaner /\ day' = day /\ bases' = bases
        /\ messages' = messages /\ (missed' = missed \/ missed' = missed \cup {<<"range", h>>})
    BY <1>3 DEF MoveStart, account, discord
  <2>4. RestTypes'
    <3>1. <<"range", h>> \in {"bases", "manifest", "range"} \X Hook
      OBVIOUS
    <3> QED  BY <1>1, <2>3, <3>1, Frames DEF RestTypes
  <2> QED  BY <1>2, <2>1, <2>2, <2>3, <2>4
<1>4. ASSUME MoveFails(d)  PROVE Typing' /\ Step
  <2>1. MoveGoesOn(d, Paused(d))
    BY <1>4, MoveSteps
  <2>2. /\ live' = live /\ done' = done /\ faults' = faults + 1 /\ cleaner' = cleaner /\ day' = day /\ bases' = bases
        /\ messages' = messages /\ missed' = missed /\ vault' = vault /\ client' = client
    BY <1>4 DEF MoveFails, Fault, account, discord, history
  <2>3. RestTypes'
    BY <1>1, <2>2, Frames DEF RestTypes
  <2> QED  BY <1>2, <2>1, <2>2, <2>3, Frames
<1>5. ASSUME MoveMark(d)  PROVE Typing' /\ Step
  <2>1. MoveGoesOn(d, [NoMove EXCEPT !.at = "done", !.hook = mover[d].hook])
    BY <1>5, MoveSteps
  <2>2. /\ live' = live /\ done' = done /\ faults' = faults /\ cleaner' = cleaner /\ day' = day /\ bases' = bases
        /\ messages' = messages /\ missed' = missed /\ client' = client
        /\ vault' = [vault EXCEPT ![mover[d].hook] = IF InVault(mover[d].hook) THEN mover[d].drain ELSE @]
    BY <1>5 DEF MoveMark, account, discord, history
  <2>3. RestTypes'
    BY <1>1, <2>2, Frames DEF RestTypes
  <2>4. mover[d].drain \in Drain /\ mover[d].hook \in Hook
    BY <1>5 DEF MoveMark, Typing, MoverTypes
  <2>5. VaultTypes'
    BY <1>1, <2>2, <2>4 DEF VaultTypes, Drain
  <2> QED  BY <1>2, <2>1, <2>2, <2>3, <2>5
<1>6. ASSUME MoveBatch(d) \/ MoveCheck(d)  PROVE Typing' /\ Step
  <2>1. /\ live' = live /\ done' = done /\ faults' = faults /\ cleaner' = cleaner /\ day' = day /\ bases' = bases
        /\ messages' = messages /\ missed' = missed /\ vault' = vault /\ client' = client
    BY <1>6 DEF MoveBatch, MoveCheck, account, discord, history
  <2>2. PICK r : MoveGoesOn(d, r)
    BY <1>6, LookSteps
  <2>3. RestTypes'
    BY <1>1, <2>1, Frames DEF RestTypes
  <2> QED  BY <1>2, <2>1, <2>2, <2>3, Frames
<1>7. ASSUME MoveCommit(d)  PROVE Typing' /\ Step
  <2>1. /\ live' = live /\ done' = done /\ faults' = faults /\ cleaner' = cleaner /\ day' = day /\ bases' = bases
        /\ messages' = messages /\ missed' = missed /\ vault' = vault /\ client' = client /\ upload' = upload
    BY <1>7 DEF MoveCommit, discord, history
  <2>2. Tells /\ LogTypes' /\ MoverTypes' /\ HeadSeq' = HeadSeq + 1
    BY <1>7, CommitStep
  <2>3. RestTypes'
    BY <1>1, <2>1, Frames DEF RestTypes
  <2> QED  BY <1>1, <2>1, <2>2, <2>3, Frames DEF Typing, Step
<1>8. ASSUME NEW h \in Hook, NEW g \in Hook, MoveCopy(d, h, g)  PROVE Typing' /\ Step
  <2>1. /\ log' = log /\ done' = done /\ faults' = faults /\ cleaner' = cleaner /\ day' = day /\ bases' = bases
        /\ missed' = missed /\ vault' = vault /\ client' = client /\ upload' = upload
    BY <1>8 DEF MoveCopy, account, history
  <2>2. /\ MessageTypes' /\ MoverTypes' /\ live' = live \cup (Message' \ Message)
        /\ \E v, k, p : Copies(d, v, k, p)
    BY <1>8, CopyStep
  <2>3. Message \subseteq Message'
    <3>1. PICK v, k, p : Copies(d, v, k, p)
      BY <2>2
    <3>2. Base
      BY DEF Base, Typing, RunsTyped
    <3> QED  BY <3>1, <3>2, QuietLog DEF Copies
  <2>4. RestTypes'
    BY <1>1, <2>1, <2>2, <2>3 DEF RestTypes
  <2> QED  BY <2>1, <2>2, <2>4, Frames DEF Typing, Step
<1> QED  BY <1>3, <1>4, <1>5, <1>6, <1>7, <1>8 DEF Moving

\* The positions that are kept are of the log, and the days have been.
Positions ==
  /\ \A h \in Hook : vault[h].from <= HeadSeq /\ vault[h].to <= HeadSeq /\ vault[h].at <= day
  /\ \A d \in Device :
       /\ mover[d].from <= HeadSeq
       /\ mover[d].at = "mark" =>
            mover[d].drain.from <= HeadSeq /\ mover[d].drain.to <= HeadSeq /\ mover[d].drain.at <= day

\* A cleaner goes on, and what it looks at stays.
CleanGoesOn(d, r) ==
  /\ Still /\ day' = day /\ bases' = bases /\ client' = client
  /\ cleaner' = [cleaner EXCEPT ![d] = r] /\ r \in CleanRun \cup {None}
  /\ r # None /\ r.at \in {"drain", "drainPiece", "drainManifest"} => r.hook \in Hook
  /\ r # None /\ r.at \in {"clean", "piece", "manifest"} => r.todo \subseteq Upload
  /\ r # None /\ r.at \in {"piece", "manifest"} => r.upload \in Upload

\* Then the rest is typed when what it writes is.
LEMMA CleanGoesOnTyped ==
  ASSUME Typing, NEW d \in Device, NEW r, CleanGoesOn(d, r), VaultTypes',
         live' \subseteq live, done' \subseteq Upload, faults' \in Nat,
         missed' \subseteq {"bases", "manifest", "range"} \X Hook
  PROVE  Typing' /\ Tells /\ cleaner'[d] = r /\ \A e \in Device \ {d} : cleaner'[e] = cleaner[e]
<1>1. CleanerTypes' /\ cleaner'[d] = r /\ \A e \in Device \ {d} : cleaner'[e] = cleaner[e]
  BY CleanerPut DEF CleanGoesOn, Typing
<1>2. RestTypes'
  BY Frames DEF CleanGoesOn, Still, Typing, RestTypes
<1> QED  BY <1>1, <1>2, Frames, StillTells DEF CleanGoesOn, Still, Typing

\* A step of a cleaner or a drain, whole: what the next run is.
CleanRuns(d, r) ==
  /\ Typing' /\ Tells /\ CleanGoesOn(d, r) /\ live' \subseteq live
  /\ cleaner'[d] = r /\ \A e \in Device \ {d} : cleaner'[e] = cleaner[e]

\* The types of what cleaners begin with.
LEMMA CleaningTyped ==
  ASSUME NEW at \in {"clean", "drains", "drain"}, NEW todo \in SUBSET Nat
  PROVE  /\ Cleaning(at, todo) \in CleanRun
         /\ Cleaning(at, todo).at = at /\ Cleaning(at, todo).todo = todo
         /\ Cleaning(at, todo).finished = {} /\ Cleaning(at, todo).hook = None
BY DEF Cleaning, CleanRun

\* The cleaner's steps.
LEMMA CleanSteps ==
  ASSUME Typing, Names, NEW d \in Device
  PROVE  /\ \A unsent \in BOOLEAN : CleanStart(d, unsent) =>
              CleanRuns(d, Cleaning("clean", IF unsent THEN {} ELSE Deletable \ done))
         /\ CleanPiece(d) => CleanRuns(d, [cleaner[d] EXCEPT !.at = "manifest"])
         /\ CleanManifest(d) => CleanRuns(d, Finished(cleaner[d], cleaner[d].upload))
         /\ CleanFails(d) => CleanRuns(d, [cleaner[d] EXCEPT !.at = "clean", !.todo = @ \ {cleaner[d].upload}])
<1> DEFINE c == cleaner[d]
<1>1. /\ c # None => c \in CleanRun
      /\ c # None /\ c.at \in {"clean", "piece", "manifest"} => c.todo \subseteq Upload
      /\ c # None /\ c.at \in {"piece", "manifest"} => c.upload \in Upload
      /\ live \subseteq Message /\ done \subseteq Upload /\ faults \in Nat
      /\ missed \subseteq {"bases", "manifest", "range"} \X Hook
      /\ cleaner \in [Device -> CleanRun \cup {None}]
  BY DEF Typing, CleanerTypes, RestTypes
<1>2. ASSUME NEW unsent \in BOOLEAN, CleanStart(d, unsent)
      PROVE  CleanRuns(d, Cleaning("clean", IF unsent THEN {} ELSE Deletable \ done))
  <2> DEFINE todo == IF unsent THEN {} ELSE Deletable \ done
             r == Cleaning("clean", todo)
  <2>1. /\ Still /\ day' = day /\ bases' = bases /\ client' = client /\ vault' = vault /\ live' = live
        /\ done' = done /\ faults' = faults /\ missed' = missed /\ cleaner' = [cleaner EXCEPT ![d] = r]
    BY <1>2 DEF CleanStart, account, discord, history, Still
  <2>2. todo \subseteq Upload /\ todo \in SUBSET Nat
    BY DEF Deletable, Upload
  <2> HIDE DEF todo
  <2>3. r \in CleanRun /\ r.at = "clean" /\ r.todo = todo
    BY <2>2, CleaningTyped
  <2>4. CleanGoesOn(d, r)
    BY <2>1, <2>2, <2>3 DEF CleanGoesOn
  <2>5. live' \subseteq live /\ done' \subseteq Upload /\ faults' \in Nat /\ VaultTypes'
        /\ missed' \subseteq {"bases", "manifest", "range"} \X Hook
    BY <1>1, <2>1, Frames
  <2> HIDE DEF r
  <2> QED  BY <2>4, <2>5, CleanGoesOnTyped DEF CleanRuns, r, todo
<1>3. ASSUME CleanPiece(d)  PROVE CleanRuns(d, [c EXCEPT !.at = "manifest"])
  <2> DEFINE r == [c EXCEPT !.at = "manifest"]
  <2>1. /\ Still /\ day' = day /\ bases' = bases /\ client' = client /\ vault' = vault /\ live' \subseteq live
        /\ done' = done /\ faults' = faults /\ missed' = missed /\ cleaner' = [cleaner EXCEPT ![d].at = "manifest"]
        /\ c # None /\ c.at = "piece"
    BY <1>3 DEF CleanPiece, account, history, Still, Delete
  <2>2. cleaner' = [cleaner EXCEPT ![d] = r]
    BY <1>1, <2>1
  <2>3. r \in CleanRun /\ r.at = "manifest" /\ r.todo = c.todo /\ r.upload = c.upload
    BY <1>1, <2>1 DEF CleanRun
  <2>4. CleanGoesOn(d, r)
    BY <1>1, <2>1, <2>2, <2>3 DEF CleanGoesOn
  <2>5. live' \subseteq live /\ done' \subseteq Upload /\ faults' \in Nat /\ VaultTypes'
        /\ missed' \subseteq {"bases", "manifest", "range"} \X Hook
    BY <1>1, <2>1, Frames
  <2> HIDE DEF r
  <2> QED  BY <2>4, <2>5, CleanGoesOnTyped DEF CleanRuns, r
<1>4. ASSUME CleanManifest(d)  PROVE CleanRuns(d, Finished(c, c.upload))
  <2> DEFINE r == Finished(c, c.upload)
  <2>1. /\ Still /\ day' = day /\ bases' = bases /\ client' = client /\ vault' = vault /\ live' \subseteq live
        /\ done' = done /\ faults' = faults /\ missed' = missed /\ cleaner' = [cleaner EXCEPT ![d] = r]
        /\ c # None /\ c.at = "manifest"
    BY <1>4 DEF CleanManifest, account, history, Still, Delete
  <2>2. r \in CleanRun /\ r.at = "clean" /\ r.todo \subseteq Upload
    BY <1>1, <2>1 DEF CleanRun, Finished
  <2>3. CleanGoesOn(d, r)
    BY <2>1, <2>2 DEF CleanGoesOn
  <2>4. live' \subseteq live /\ done' \subseteq Upload /\ faults' \in Nat /\ VaultTypes'
        /\ missed' \subseteq {"bases", "manifest", "range"} \X Hook
    BY <1>1, <2>1, Frames
  <2> HIDE DEF r
  <2> QED  BY <2>3, <2>4, CleanGoesOnTyped DEF CleanRuns, r
<1>5. ASSUME CleanFails(d)  PROVE CleanRuns(d, [c EXCEPT !.at = "clean", !.todo = @ \ {c.upload}])
  <2> DEFINE r == [c EXCEPT !.at = "clean", !.todo = @ \ {c.upload}]
  <2>1. /\ Still /\ day' = day /\ bases' = bases /\ client' = client /\ vault' = vault /\ live' = live
        /\ done' = done /\ faults' = faults + 1 /\ missed' = missed /\ cleaner' = [cleaner EXCEPT ![d] = r]
        /\ c # None /\ c.at \in {"piece", "manifest"}
    BY <1>5 DEF CleanFails, Fault, account, discord, history, Still
  <2>2. r \in CleanRun /\ r.at = "clean" /\ r.todo \subseteq Upload
    BY <1>1, <2>1 DEF CleanRun
  <2>3. CleanGoesOn(d, r)
    BY <2>1, <2>2 DEF CleanGoesOn
  <2>4. live' \subseteq live /\ done' \subseteq Upload /\ faults' \in Nat /\ VaultTypes'
        /\ missed' \subseteq {"bases", "manifest", "range"} \X Hook
    BY <1>1, <2>1, Frames
  <2> HIDE DEF r
  <2> QED  BY <2>3, <2>4, CleanGoesOnTyped DEF CleanRuns, r
<1> QED  BY <1>2, <1>3, <1>4, <1>5

\* The version that is next: it is left, is gone already, or is deleted.
CleanNextRuns(d) ==
  LET c == cleaner[d]
      u == Min(c.todo)
      manifest == Bound(u, HeadSeq)
  IN
  /\ c # None /\ c.at = "clean" /\ u \in c.todo /\ u \in Upload
  /\ live' = live /\ done' = done /\ vault' = vault /\ missed' = missed
  /\ \/ CleanRuns(d, [c EXCEPT !.todo = @ \ {u}])
     \/ manifest \notin live /\ CleanRuns(d, Finished(c, u))
     \/ CleanRuns(d, [c EXCEPT !.at = "piece", !.upload = u, !.manifest = manifest])

\* That is what the step does.
LEMMA CleanNextSteps ==
  ASSUME Typing, Names, NEW d \in Device, CleanNext(d)
  PROVE  CleanNextRuns(d)
<1> DEFINE c == cleaner[d]
           u == Min(c.todo)
           manifest == Bound(u, HeadSeq)
<1>1. /\ c \in CleanRun /\ c # None /\ c.at = "clean" /\ c.todo \subseteq Upload /\ c.todo # {}
      /\ live \subseteq Message /\ done \subseteq Upload /\ faults \in Nat
      /\ missed \subseteq {"bases", "manifest", "range"} \X Hook
      /\ cleaner \in [Device -> CleanRun \cup {None}]
  BY DEF Typing, CleanerTypes, RestTypes, CleanNext
<1>2. u \in c.todo /\ u \in Upload /\ u \in Nat
  <2>1. c.todo \in SUBSET Nat
    BY <1>1 DEF Upload
  <2>2. u \in c.todo
    BY <1>1, <2>1, MinOfNats
  <2> QED  BY <1>1, <2>1, <2>2
<1>3. manifest \in Nat
  <2>1. LogOK
    BY DEF Names, LogInv, Logged, IsManifest, LogNamesMessages, Typing, LogOK
  <2> QED  BY <2>1, BoundIs, Frames
<1>4. /\ Still /\ day' = day /\ bases' = bases /\ client' = client /\ vault' = vault /\ live' = live
      /\ done' = done /\ faults' = faults /\ missed' = missed
  BY DEF CleanNext, account, discord, history, Still
<1>5. \/ cleaner' = [cleaner EXCEPT ![d] = [c EXCEPT !.todo = @ \ {u}]]
      \/ manifest \notin live /\ cleaner' = [cleaner EXCEPT ![d] = Finished(c, u)]
      \/ cleaner' = [cleaner EXCEPT ![d] = [c EXCEPT !.at = "piece", !.upload = u, !.manifest = manifest]]
  BY DEF CleanNext
<1>6. live' \subseteq live /\ done' \subseteq Upload /\ faults' \in Nat /\ VaultTypes'
      /\ missed' \subseteq {"bases", "manifest", "range"} \X Hook
  BY <1>1, <1>4, Frames
<1> HIDE DEF u, manifest
<1>7. ASSUME NEW r, r \in CleanRun, r.at \in {"clean", "piece"}, r.todo \subseteq Upload, r.at = "piece" => r.upload \in Upload,
             cleaner' = [cleaner EXCEPT ![d] = r]
      PROVE  CleanRuns(d, r)
  <2>1. CleanGoesOn(d, r)
    BY <1>4, <1>7 DEF CleanGoesOn
  <2> QED  BY <1>6, <2>1, CleanGoesOnTyped DEF CleanRuns
<1>8. CASE cleaner' = [cleaner EXCEPT ![d] = [c EXCEPT !.todo = @ \ {u}]]
  <2> DEFINE r == [c EXCEPT !.todo = @ \ {u}]
  <2>1. r \in CleanRun /\ r.at = "clean" /\ r.todo \subseteq Upload
    BY <1>1 DEF CleanRun
  <2> HIDE DEF r
  <2>2. CleanRuns(d, r)
    BY <1>7, <1>8, <2>1 DEF r
  <2> QED  BY <1>1, <1>2, <1>4, <2>2 DEF CleanNextRuns, r, u, manifest
<1>9. CASE manifest \notin live /\ cleaner' = [cleaner EXCEPT ![d] = Finished(c, u)]
  <2> DEFINE r == Finished(c, u)
  <2>1. r \in CleanRun /\ r.at = "clean" /\ r.todo \subseteq Upload
    BY <1>1, <1>2 DEF CleanRun, Finished
  <2> HIDE DEF r
  <2>2. CleanRuns(d, r)
    BY <1>7, <1>9, <2>1 DEF r
  <2> QED  BY <1>1, <1>2, <1>4, <1>9, <2>2 DEF CleanNextRuns, r, u, manifest
<1>10. CASE cleaner' = [cleaner EXCEPT ![d] = [c EXCEPT !.at = "piece", !.upload = u, !.manifest = manifest]]
  <2> DEFINE r == [c EXCEPT !.at = "piece", !.upload = u, !.manifest = manifest]
  <2>1. r \in CleanRun /\ r.at = "piece" /\ r.todo \subseteq Upload /\ r.upload \in Upload
    BY <1>1, <1>2, <1>3 DEF CleanRun, Upload
  <2> HIDE DEF r
  <2>2. CleanRuns(d, r)
    BY <1>7, <1>10, <2>1 DEF r
  <2> QED  BY <1>1, <1>2, <1>4, <2>2 DEF CleanNextRuns, r, u, manifest
<1> QED  BY <1>5, <1>8, <1>9, <1>10

\* What is recorded, and how a run of the cleaner ends.
LEMMA RecordSteps ==
  ASSUME Typing, Names, NEW d \in Device
  PROVE  /\ CleanRecord(d) => CleanRuns(d, [cleaner[d] EXCEPT !.finished = {}])
         /\ CleanEnd(d) => CleanRuns(d, Cleaning("drains", {})) \/ CleanRuns(d, None)
<1> DEFINE c == cleaner[d]
<1>1. /\ c # None => c \in CleanRun
      /\ c # None /\ c.at \in {"clean", "piece", "manifest"} => c.todo \subseteq Upload
      /\ live \subseteq Message /\ done \subseteq Upload /\ faults \in Nat
      /\ missed \subseteq {"bases", "manifest", "range"} \X Hook
      /\ cleaner \in [Device -> CleanRun \cup {None}]
  BY DEF Typing, CleanerTypes, RestTypes
<1>2. ASSUME CleanRecord(d)  PROVE CleanRuns(d, [c EXCEPT !.finished = {}])
  <2> DEFINE r == [c EXCEPT !.finished = {}]
  <2>1. /\ Still /\ day' = day /\ bases' = bases /\ client' = client /\ vault' = vault /\ live' = live
        /\ done' \in {done, done \cup c.finished} /\ faults' \in {faults, faults + 1} /\ missed' = missed
        /\ cleaner' = [cleaner EXCEPT ![d].finished = {}] /\ c # None /\ c.at = "clean"
    BY <1>2 DEF CleanRecord, Fault, account, discord, history, Still
  <2>2. cleaner' = [cleaner EXCEPT ![d] = r]
    BY <1>1, <2>1
  <2>3. r \in CleanRun /\ r.at = "clean" /\ r.todo \subseteq Upload /\ c.finished \subseteq Upload
    BY <1>1, <2>1 DEF CleanRun
  <2>4. CleanGoesOn(d, r)
    BY <2>1, <2>2, <2>3 DEF CleanGoesOn
  <2>5. live' \subseteq live /\ done' \subseteq Upload /\ faults' \in Nat /\ VaultTypes'
        /\ missed' \subseteq {"bases", "manifest", "range"} \X Hook
    BY <1>1, <2>1, <2>3, Frames
  <2> HIDE DEF r
  <2> QED  BY <2>4, <2>5, CleanGoesOnTyped DEF CleanRuns, r
<1>3. ASSUME CleanEnd(d)  PROVE CleanRuns(d, Cleaning("drains", {})) \/ CleanRuns(d, None)
  <2> DEFINE r == Cleaning("drains", {})
  <2>1. /\ Still /\ day' = day /\ bases' = bases /\ client' = client /\ vault' = vault /\ live' = live
        /\ done' \in {done, done \cup c.finished} /\ faults' \in {faults, faults + 1} /\ missed' = missed
        /\ cleaner' = [cleaner EXCEPT ![d] = r] \/ cleaner' = [cleaner EXCEPT ![d] = None]
        /\ c # None
    BY <1>3 DEF CleanEnd, Fault, account, discord, history, Still
  <2>2. r \in CleanRun /\ r.at = "drains" /\ c.finished \subseteq Upload
    BY <1>1, <2>1, CleaningTyped DEF CleanRun
  <2>3. live' \subseteq live /\ done' \subseteq Upload /\ faults' \in Nat /\ VaultTypes'
        /\ missed' \subseteq {"bases", "manifest", "range"} \X Hook
    BY <1>1, <2>1, <2>2, Frames
  <2> HIDE DEF r
  <2>4. CASE cleaner' = [cleaner EXCEPT ![d] = r]
    <3>1. CleanGoesOn(d, r)
      BY <2>1, <2>2, <2>4 DEF CleanGoesOn
    <3>2. CleanRuns(d, r)
      BY <2>3, <3>1, CleanGoesOnTyped DEF CleanRuns
    <3> QED  BY <3>2 DEF r
  <2>5. CASE cleaner' = [cleaner EXCEPT ![d] = None]
    <3>1. CleanGoesOn(d, None)
      BY <2>1, <2>5 DEF CleanGoesOn
    <3>2. CleanRuns(d, None)
      BY <2>3, <3>1, CleanGoesOnTyped DEF CleanRuns
    <3> QED  BY <3>2
  <2> QED  BY <2>1, <2>4, <2>5
<1> QED  BY <1>2, <1>3

\* The drain's steps.
LEMMA DrainStepsRun ==
  ASSUME Typing, Names, Positions, NEW d \in Device
  PROVE  /\ \A h \in Hook, unread \in BOOLEAN : DrainStart(d, h, unread) =>
              CleanRuns(d, [Cleaning("drain", Replaced(h)) EXCEPT !.hook = h])
         /\ DrainPiece(d) => CleanRuns(d, [cleaner[d] EXCEPT !.at = "drainManifest"])
         /\ DrainManifest(d) => CleanRuns(d, [cleaner[d] EXCEPT !.at = "drain", !.todo = @ \ {cleaner[d].manifest}])
         /\ DrainFinish(d) \/ DrainFails(d) => CleanRuns(d, Cleaning("drains", {}))
         /\ DrainsEnd(d) => CleanRuns(d, None)
<1> DEFINE c == cleaner[d]
<1>1. /\ c # None => c \in CleanRun
      /\ c # None /\ c.at \in {"drain", "drainPiece", "drainManifest"} => c.hook \in Hook
      /\ live \subseteq Message /\ done \subseteq Upload /\ faults \in Nat
      /\ missed \subseteq {"bases", "manifest", "range"} \X Hook
      /\ cleaner \in [Device -> CleanRun \cup {None}]
  BY DEF Typing, CleanerTypes, RestTypes
<1>2. ASSUME NEW h \in Hook, NEW unread \in BOOLEAN, DrainStart(d, h, unread)
      PROVE  CleanRuns(d, [Cleaning("drain", Replaced(h)) EXCEPT !.hook = h])
  <2> DEFINE r == [Cleaning("drain", Replaced(h)) EXCEPT !.hook = h]
  <2>1. /\ Still /\ day' = day /\ bases' = bases /\ client' = client /\ vault' = vault /\ live' = live
        /\ done' = done /\ faults' \in {faults, faults + 1} /\ cleaner' = [cleaner EXCEPT ![d] = r]
        /\ missed' \in {missed, missed \cup {<<"bases", h>>}}
    BY <1>2 DEF DrainStart, Fault, account, discord, history, Still
  <2>2. Replaced(h) \subseteq Nat
    <3> SUFFICES ASSUME NEW i \in (vault[h].from + 1) .. vault[h].to, NEW m \in log[i].moves  PROVE m.from \in Nat
      BY DEF Replaced
    <3>1. vault[h].from \in Nat /\ vault[h].to \in Nat /\ vault[h].to <= HeadSeq /\ HeadSeq \in Nat
      BY Frames DEF Typing, VaultTypes, Positions
    <3>2. i \in 1 .. HeadSeq
      BY <3>1
    <3>3. log[i] \in LogEntry
      BY <3>2, LogIs DEF Typing
    <3> QED  BY <3>3 DEF LogEntry, LogMove
  <2>3. r \in CleanRun /\ r.at = "drain" /\ r.hook = h
    BY <2>2 DEF CleanRun, Cleaning
  <2>4. CleanGoesOn(d, r)
    BY <2>1, <2>3 DEF CleanGoesOn
  <2>5. live' \subseteq live /\ done' \subseteq Upload /\ faults' \in Nat /\ VaultTypes'
        /\ missed' \subseteq {"bases", "manifest", "range"} \X Hook
    <3>1. <<"bases", h>> \in {"bases", "manifest", "range"} \X Hook
      OBVIOUS
    <3> QED  BY <1>1, <2>1, <3>1, Frames
  <2> HIDE DEF r
  <2> QED  BY <2>4, <2>5, CleanGoesOnTyped DEF CleanRuns, r
<1>3. ASSUME DrainPiece(d)  PROVE CleanRuns(d, [c EXCEPT !.at = "drainManifest"])
  <2> DEFINE r == [c EXCEPT !.at = "drainManifest"]
  <2>1. /\ Still /\ day' = day /\ bases' = bases /\ client' = client /\ vault' = vault /\ live' \subseteq live
        /\ done' = done /\ faults' = faults /\ missed' = missed /\ cleaner' = [cleaner EXCEPT ![d].at = "drainManifest"]
        /\ c # None /\ c.at = "drainPiece"
    BY <1>3 DEF DrainPiece, account, history, Still, Delete
  <2>2. cleaner' = [cleaner EXCEPT ![d] = r]
    BY <1>1, <2>1
  <2>3. r \in CleanRun /\ r.at = "drainManifest" /\ r.hook \in Hook
    BY <1>1, <2>1 DEF CleanRun
  <2>4. CleanGoesOn(d, r)
    BY <2>1, <2>2, <2>3 DEF CleanGoesOn
  <2>5. live' \subseteq live /\ done' \subseteq Upload /\ faults' \in Nat /\ VaultTypes'
        /\ missed' \subseteq {"bases", "manifest", "range"} \X Hook
    BY <1>1, <2>1, Frames
  <2> HIDE DEF r
  <2> QED  BY <2>4, <2>5, CleanGoesOnTyped DEF CleanRuns, r
<1>4. ASSUME DrainManifest(d)  PROVE CleanRuns(d, [c EXCEPT !.at = "drain", !.todo = @ \ {c.manifest}])
  <2> DEFINE r == [c EXCEPT !.at = "drain", !.todo = @ \ {c.manifest}]
  <2>1. /\ Still /\ day' = day /\ bases' = bases /\ client' = client /\ vault' = vault /\ live' \subseteq live
        /\ done' = done /\ faults' = faults /\ missed' = missed
        /\ cleaner' = [cleaner EXCEPT ![d].at = "drain", ![d].todo = @ \ {c.manifest}]
        /\ c # None /\ c.at = "drainManifest"
    BY <1>4 DEF DrainManifest, account, history, Still, Delete
  <2>2. cleaner' = [cleaner EXCEPT ![d] = r]
    BY <1>1, <2>1
  <2>3. r \in CleanRun /\ r.at = "drain" /\ r.hook \in Hook
    BY <1>1, <2>1 DEF CleanRun
  <2>4. CleanGoesOn(d, r)
    BY <2>1, <2>2, <2>3 DEF CleanGoesOn
  <2>5. live' \subseteq live /\ done' \subseteq Upload /\ faults' \in Nat /\ VaultTypes'
        /\ missed' \subseteq {"bases", "manifest", "range"} \X Hook
    BY <1>1, <2>1, Frames
  <2> HIDE DEF r
  <2> QED  BY <2>4, <2>5, CleanGoesOnTyped DEF CleanRuns, r
<1>5. ASSUME DrainFinish(d) \/ DrainFails(d)  PROVE CleanRuns(d, Cleaning("drains", {}))
  <2> DEFINE r == Cleaning("drains", {})
  <2>1. /\ Still /\ day' = day /\ bases' = bases /\ client' = client /\ live' = live
        /\ done' = done /\ faults' \in {faults, faults + 1} /\ cleaner' = [cleaner EXCEPT ![d] = r]
        /\ missed' \in {missed, missed \cup {<<"bases", c.hook>>}}
        /\ vault' = vault \/ vault' = [vault EXCEPT ![c.hook].state = "moved"]
        /\ c # None /\ c.at \in {"drain", "drainPiece", "drainManifest"}
    BY <1>5 DEF DrainFinish, DrainFails, Fault, account, discord, history, Still
  <2>2. r \in CleanRun /\ r.at = "drains"
    BY CleaningTyped
  <2>3. c.hook \in Hook
    BY <1>1, <2>1
  <2>4. VaultTypes'
    BY <2>1, <2>3 DEF Typing, VaultTypes
  <2>5. live' \subseteq live /\ done' \subseteq Upload /\ faults' \in Nat
        /\ missed' \subseteq {"bases", "manifest", "range"} \X Hook
    <3>1. <<"bases", c.hook>> \in {"bases", "manifest", "range"} \X Hook
      BY <2>3
    <3> QED  BY <1>1, <2>1, <3>1
  <2> HIDE DEF r
  <2>6. CleanGoesOn(d, r)
    BY <2>1, <2>2 DEF CleanGoesOn
  <2> QED  BY <2>4, <2>5, <2>6, CleanGoesOnTyped DEF CleanRuns, r
<1>6. ASSUME DrainsEnd(d)  PROVE CleanRuns(d, None)
  <2>1. /\ Still /\ day' = day /\ bases' = bases /\ client' = client /\ vault' = vault /\ live' = live
        /\ done' = done /\ faults' = faults /\ missed' = missed /\ cleaner' = [cleaner EXCEPT ![d] = None]
    BY <1>6 DEF DrainsEnd, account, discord, history, Still
  <2>2. CleanGoesOn(d, None)
    BY <2>1 DEF CleanGoesOn
  <2>3. live' \subseteq live /\ done' \subseteq Upload /\ faults' \in Nat /\ VaultTypes'
        /\ missed' \subseteq {"bases", "manifest", "range"} \X Hook
    BY <1>1, <2>1, Frames
  <2> QED  BY <2>2, <2>3, CleanGoesOnTyped DEF CleanRuns
<1> QED  BY <1>2, <1>3, <1>4, <1>5, <1>6

\* The old manifest that is next is loaded, or taken for one without fragments.
DrainLoadRuns(d, loads) ==
  LET c == cleaner[d]
      m == Min(c.todo)
      at == IF loads /\ messages[messages[m].piece].hook = c.hook THEN "drainPiece" ELSE "drainManifest"
  IN
  /\ c # None /\ c.at = "drain" /\ m \in c.todo
  /\ live' = live /\ done' = done /\ vault' = vault
  /\ missed' = IF ~loads /\ m \in live THEN missed \cup {<<"manifest", c.hook>>} ELSE missed
  /\ CleanRuns(d, [c EXCEPT !.manifest = m, !.at = at])

\* That is what the step does.
LEMMA DrainLoadSteps ==
  ASSUME Typing, Names, NEW d \in Device, NEW loads \in BOOLEAN, DrainLoad(d, loads)
  PROVE  DrainLoadRuns(d, loads)
<1> DEFINE c == cleaner[d]
           m == Min(c.todo)
           at == IF loads /\ messages[messages[m].piece].hook = c.hook THEN "drainPiece" ELSE "drainManifest"
           r == [c EXCEPT !.manifest = m, !.at = at]
<1>1. /\ c \in CleanRun /\ c # None /\ c.at = "drain" /\ c.todo # {} /\ c.hook \in Hook
      /\ live \subseteq Message /\ done \subseteq Upload /\ faults \in Nat
      /\ missed \subseteq {"bases", "manifest", "range"} \X Hook
      /\ cleaner \in [Device -> CleanRun \cup {None}]
  BY DEF Typing, CleanerTypes, RestTypes, DrainLoad
<1>2. m \in c.todo /\ m \in Nat
  <2>1. c.todo \in SUBSET Nat
    BY <1>1 DEF CleanRun
  <2> QED  BY <1>1, <2>1, MinOfNats
<1>3. /\ Still /\ day' = day /\ bases' = bases /\ client' = client /\ vault' = vault /\ live' = live
      /\ done' = done /\ faults' \in {faults, faults + 1}
      /\ missed' = IF ~loads /\ m \in live THEN missed \cup {<<"manifest", c.hook>>} ELSE missed
      /\ cleaner' = [cleaner EXCEPT ![d].manifest = m, ![d].at = at]
  BY DEF DrainLoad, Fault, account, discord, history, Still
<1>4. at \in {"drainPiece", "drainManifest"}
  OBVIOUS
<1> HIDE DEF m, at
<1>5. cleaner' = [cleaner EXCEPT ![d] = r]
  BY <1>1, <1>3
<1>6. r \in CleanRun /\ r.at = at /\ r.hook = c.hook /\ r.manifest = m /\ r.todo = c.todo
  BY <1>1, <1>2, <1>4 DEF CleanRun
<1>7. CleanGoesOn(d, r)
  <2> HIDE DEF r
  <2> QED  BY <1>1, <1>3, <1>4, <1>5, <1>6 DEF CleanGoesOn
<1>8. live' \subseteq live /\ done' \subseteq Upload /\ faults' \in Nat /\ VaultTypes'
      /\ missed' \subseteq {"bases", "manifest", "range"} \X Hook
  <2>1. <<"manifest", c.hook>> \in {"bases", "manifest", "range"} \X Hook
    BY <1>1
  <2> QED  BY <1>1, <1>3, <2>1, Frames
<1>9. CleanRuns(d, r)
  <2> HIDE DEF r
  <2> QED  BY <1>7, <1>8, CleanGoesOnTyped DEF CleanRuns
<1> HIDE DEF r
<1> QED  BY <1>1, <1>2, <1>3, <1>9 DEF DrainLoadRuns, m, at, r

\* Every step keeps the types, and tells, posts or copies.
LEMMA NextTyped ==
  ASSUME Typing, Names, Positions, [Next]_vars
  PROVE  Typing' /\ Step
<1>1. CASE UNCHANGED vars
  <2>1. Still /\ cleaner' = cleaner /\ vault' = vault /\ client' = client /\ live' = live /\ done' = done
        /\ faults' = faults /\ missed' = missed /\ bases' = bases /\ day' = day
    BY <1>1 DEF vars, account, discord, history, Still
  <2>2. RestTypes'
    BY <2>1, Frames DEF Typing, RestTypes, Still
  <2> QED  BY <2>1, <2>2, Frames, StillTells DEF Typing, Still, Step
<1>2. CASE NextDay \/ \E at \in 1 .. MaxLog : TakeBase(at)
  BY <1>2, WorldTyped
<1>3. ASSUME NEW d \in Device, Reopen(d) \/ \E u \in Upload : Release(d, u)  PROVE Typing' /\ Step
  BY <1>3, WorldTyped
<1>4. ASSUME NEW d \in Device, Uploading(d)  PROVE Typing' /\ Step
  BY <1>4, UploadTyped
<1>5. ASSUME NEW d \in Device, Moving(d)  PROVE Typing' /\ Step
  BY <1>5, MoveTyped
<1>6. ASSUME NEW d \in Device, NEW r, CleanRuns(d, r)  PROVE Typing' /\ Step
  BY <1>6 DEF CleanRuns, Step
<1>7. ASSUME NEW d \in Device, CleaningUp(d)  PROVE Typing' /\ Step
  <2>1. ASSUME NEW unsent \in BOOLEAN, CleanStart(d, unsent)  PROVE Typing' /\ Step
    BY <1>6, <2>1, CleanSteps
  <2>2. CASE CleanPiece(d) \/ CleanManifest(d) \/ CleanFails(d)
    BY <1>6, <2>2, CleanSteps
  <2>3. CASE CleanNext(d)
    BY <1>6, <2>3, CleanNextSteps DEF CleanNextRuns
  <2>4. CASE CleanRecord(d) \/ CleanEnd(d)
    BY <1>6, <2>4, RecordSteps
  <2> QED  BY <1>7, <2>1, <2>2, <2>3, <2>4 DEF CleaningUp
<1>8. ASSUME NEW d \in Device, Draining(d)  PROVE Typing' /\ Step
  <2>1. ASSUME NEW h \in Hook, NEW unread \in BOOLEAN, DrainStart(d, h, unread)  PROVE Typing' /\ Step
    BY <1>6, <2>1, DrainStepsRun
  <2>2. ASSUME NEW loads \in BOOLEAN, DrainLoad(d, loads)  PROVE Typing' /\ Step
    BY <1>6, <2>2, DrainLoadSteps DEF DrainLoadRuns
  <2>3. CASE DrainPiece(d) \/ DrainManifest(d) \/ DrainFinish(d) \/ DrainFails(d) \/ DrainsEnd(d)
    BY <1>6, <2>3, DrainStepsRun
  <2> QED  BY <1>8, <2>1, <2>2, <2>3 DEF Draining
<1> QED  BY <1>1, <1>2, <1>3, <1>4, <1>5, <1>7, <1>8 DEF Next
-----------------------------------------------------------------------------
(* What no step takes back                                                 *)

\* The log and the messages grow, and what is known of them is kept.
GrowsOn ==
  /\ Names' /\ MessagesGrow /\ Message \subseteq Message' /\ LogExtends
  /\ HeadSeq \in Nat /\ HeadSeq' \in Nat /\ HeadSeq' >= HeadSeq

\* Every step does.
LEMMA StepKeeps ==
  ASSUME Base, Step
  PROVE  GrowsOn
<1>1. CASE Tells
  <2>1. LogGrowth /\ MessagesGrow /\ Message' = Message /\ HeadSeq \in Nat
    BY <1>1, TellsLog, NamesAreMessages
  <2> QED  BY <1>1, <2>1, TellsKeeps DEF GrowsOn, LogGrowth
<1>2. ASSUME NEW d \in Device, NEW k, PostsFor(d, k)  PROVE GrowsOn
  <2>1. log' = log /\ MessagesGrow
    BY <1>2 DEF PostsFor
  <2> QED  BY <1>2, <2>1, PostKeeps, QuietLog DEF GrowsOn, LogExtends
<1>3. ASSUME NEW d \in Device, NEW v, NEW k, NEW p, Copies(d, v, k, p)  PROVE GrowsOn
  <2>1. log' = log /\ MessagesGrow
    BY <1>3 DEF Copies
  <2> QED  BY <1>3, <2>1, CopyKeeps, QuietLog DEF GrowsOn, LogExtends
<1> QED  BY <1>1, <1>2, <1>3 DEF Step

\* A message that is gone stays gone.
LEMMA GoneStays ==
  ASSUME Base, Step, NEW p \in Message, NEW s \in 0 .. HeadSeq, GoneSince(p, s)
  PROVE  GoneSince(p, s)'
BY TellsGone, PostGone, CopyGone DEF Step

\* And is gone since every later position.
LEMMA GoneLater ==
  ASSUME NEW p, NEW s \in Int, NEW t \in Int, t >= s, GoneSince(p, s)
  PROVE  GoneSince(p, t)
<1>1. \A b \in t .. HeadSeq : b \in s .. HeadSeq
  OBVIOUS
<1> QED  BY <1>1 DEF GoneSince

\* What else is never taken back.
Grows ==
  /\ Step
  /\ \A p \in Message : p \in live' => p \in live
  /\ Message' \ Message \subseteq live'
  /\ \A h \in Hook : vault[h].state = "moved" => vault'[h].state = "moved"
  /\ missed \subseteq missed'
  /\ Oldest \in 0 .. HeadSeq /\ Oldest' \in 0 .. HeadSeq' /\ Oldest' >= Oldest

\* The oldest base, while the bases stay.
LEMMA OldestIs ==
  ASSUME Typing
  PROVE  Oldest \in 0 .. HeadSeq /\ Oldest \in Nat /\ Oldest \in bases /\ \A b \in bases : Oldest <= b
<1>1. bases \in SUBSET (0 .. HeadSeq) /\ bases # {} /\ HeadSeq \in Nat
  BY Frames DEF Typing, TimeTypes
<1>2. Min(bases) \in bases /\ \A b \in bases : Min(bases) <= b
  BY <1>1, MinIs
<1>3. Oldest \in bases /\ \A b \in bases : Oldest <= b
  BY <1>2 DEF Oldest
<1> QED  BY <1>1, <1>3

\* Every step grows.
LEMMA NextGrows ==
  ASSUME Typing, Names, Positions, [Next]_vars
  PROVE  Grows
<1>1. Typing' /\ Step /\ Base
  BY NextTyped DEF Base, Typing, RunsTyped
<1>2. GrowsOn
  BY <1>1, StepKeeps
<1>3. Oldest \in 0 .. HeadSeq /\ (bases' = bases => Oldest' = Oldest /\ Oldest \in 0 .. HeadSeq')
  BY <1>2, OldestIs DEF Oldest, GrowsOn
<1>4. VaultTypes /\ live \subseteq Message
  BY DEF Typing, RestTypes
<1>5. ASSUME bases' = bases, missed' = missed, vault' = vault, live' = live, messages' = messages
      PROVE  Grows
  BY <1>1, <1>3, <1>5 DEF Grows, Message
<1>6. CASE UNCHANGED vars
  BY <1>5, <1>6 DEF vars, account, discord, history
<1>7. CASE NextDay
  BY <1>5, <1>7 DEF NextDay, account, discord, history
<1>8. ASSUME NEW at \in 1 .. MaxLog, TakeBase(at)  PROVE Grows
  <2>1. missed' = missed /\ vault' = vault /\ live' = live /\ messages' = messages /\ log' = log
    BY <1>8 DEF TakeBase, discord, history
  <2>2. Oldest' \in bases' /\ Oldest' \in 0 .. HeadSeq'
    <3>1. Typing'
      BY <1>1
    <3>2. bases' \in SUBSET (0 .. HeadSeq') /\ bases' # {} /\ HeadSeq' \in Nat
      BY <1>2, <3>1 DEF Typing, TimeTypes, GrowsOn
    <3>3. Min(bases') \in bases'
      BY <3>2, MinIs
    <3> QED  BY <3>2, <3>3 DEF Oldest
  <2>3. Oldest' >= Oldest
    <3>1. bases \in SUBSET (0 .. HeadSeq) /\ bases # {} /\ HeadSeq \in Nat
      BY Frames DEF Typing, TimeTypes
    <3>2. Max(bases) \in bases /\ Oldest \in Nat /\ \A b \in bases : Oldest <= b
      BY <3>1, MaxIs, OldestIs
    <3>3. \A b \in bases' : b \in bases \/ b = at
      BY <1>8 DEF TakeBase
    <3>4. at \in (Max(bases) + 1) .. HeadSeq
      BY <1>8 DEF TakeBase
    <3>5. PICK x \in bases : x = Max(bases)
      BY <3>2
    <3>6. at > x /\ x \in Nat /\ Oldest <= x /\ at \in Int
      BY <3>1, <3>2, <3>4, <3>5
    <3>7. ASSUME NEW b \in bases'  PROVE b >= Oldest
      <4>1. CASE b \in bases
        BY <3>1, <3>2, <4>1
      <4>2. CASE b = at
        <5>1. Oldest \in Int
          BY <3>2
        <5> HIDE DEF Oldest
        <5> QED  BY <3>6, <4>2, <5>1
      <4> QED  BY <3>3, <4>1, <4>2
    <3> QED  BY <2>2, <3>7
  <2> QED  BY <1>1, <1>3, <2>1, <2>2, <2>3 DEF Grows, Message
<1>9. ASSUME NEW d \in Device, Reopen(d)  PROVE Grows
  BY <1>5, <1>9 DEF Reopen, account, discord, history
<1>10. ASSUME NEW d \in Device, NEW u \in Upload, Release(d, u)  PROVE Grows
  BY <1>5, <1>10 DEF Release, discord, history
<1>11. ASSUME NEW d \in Device, NEW h, NEW p, Post(d, h, p), bases' = bases, missed' = missed, vault' = vault
       PROVE  Grows
  <2>1. Len(messages') = Len(messages) + 1 /\ Len(messages) \in Nat
    <3> DEFINE S == [hook : Hook, piece : Nat]
               x == [hook |-> h, piece |-> p]
    <3>1. messages \in Seq(S) /\ messages' = Append(messages, x)
      BY <1>11 DEF Typing, MessageTypes, Post
    <3> HIDE DEF S, x
    <3> QED  BY <3>1
  <2>2. Message = 1 .. Len(messages) /\ Message' = 1 .. Len(messages')
    BY <1>1, <1>2, MessagesNext DEF GrowsOn
  <2>3. live' = live \cup {Len(messages) + 1}
    BY <1>11 DEF Post
  <2> QED  BY <1>1, <1>3, <1>11, <2>1, <2>2, <2>3 DEF Grows
<1>12. ASSUME NEW d \in Device, Uploading(d)  PROVE Grows
  <2>1. ASSUME NEW h \in Hook, UploadPiece(d, h)  PROVE Grows
    BY <1>11, <2>1 DEF UploadPiece, account, history
  <2>2. ASSUME NEW h \in Hook, UploadManifest(d, h)  PROVE Grows
    BY <1>11, <2>2 DEF UploadManifest, account, history
  <2>3. CASE UploadCommit(d)
    BY <1>5, <2>3 DEF UploadCommit, discord, history
  <2> QED  BY <1>12, <2>1, <2>2, <2>3 DEF Uploading
<1>13. ASSUME NEW d \in Device, Moving(d)  PROVE Grows
  <2>1. ASSUME NEW h \in Hook, MoveStart(d, h)  PROVE Grows
    <3>1. /\ bases' = bases /\ live' = live /\ messages' = messages /\ missed \subseteq missed'
          /\ vault[h].state # "moved" /\ vault' = [vault EXCEPT ![h].state = "retired"]
      BY <2>1 DEF MoveStart, account, discord
    <3>2. \A g \in Hook : vault[g].state = "moved" => vault'[g].state = "moved"
      BY <1>4, <3>1 DEF VaultTypes
    <3> QED  BY <1>1, <1>3, <3>1, <3>2 DEF Grows, Message
  <2>2. CASE MoveMark(d)
    <3>1. /\ bases' = bases /\ live' = live /\ messages' = messages /\ missed' = missed
          /\ vault' = [vault EXCEPT ![mover[d].hook] = IF InVault(mover[d].hook) THEN mover[d].drain ELSE @]
      BY <2>2 DEF MoveMark, account, discord, history
    <3>2. \A g \in Hook : vault[g].state = "moved" => vault'[g].state = "moved"
      BY <1>4, <3>1 DEF VaultTypes, InVault
    <3> QED  BY <1>1, <1>3, <3>1, <3>2 DEF Grows, Message
  <2>3. ASSUME NEW h \in Hook, NEW g \in Hook, MoveCopy(d, h, g)  PROVE Grows
    <3>1. bases' = bases /\ missed' = missed /\ vault' = vault
      BY <2>3 DEF MoveCopy, account, history
    <3>2. live' = live \cup (Message' \ Message)
      BY <2>3, CopyStep
    <3> QED  BY <1>1, <1>3, <3>1, <3>2 DEF Grows
  <2>4. CASE MoveBatch(d) \/ MoveCommit(d) \/ MoveCheck(d) \/ MoveFails(d)
    BY <1>5, <2>4 DEF MoveBatch, MoveCommit, MoveCheck, MoveFails, account, discord, history
  <2> QED  BY <1>13, <2>1, <2>2, <2>3, <2>4 DEF Moving
<1>14. ASSUME bases' = bases, missed \subseteq missed', vault' = vault, live' \subseteq live, messages' = messages
       PROVE  Grows
  BY <1>1, <1>3, <1>14 DEF Grows, Message
<1>15. ASSUME NEW d \in Device, CleaningUp(d)  PROVE Grows
  <2>1. CASE CleanPiece(d) \/ CleanManifest(d)
    BY <1>14, <2>1 DEF CleanPiece, CleanManifest, Delete, account, history
  <2>2. CASE CleanNext(d) \/ CleanFails(d) \/ CleanRecord(d) \/ CleanEnd(d)
    BY <1>5, <2>2 DEF CleanNext, CleanFails, CleanRecord, CleanEnd, account, discord, history
  <2>3. ASSUME NEW unsent \in BOOLEAN, CleanStart(d, unsent)  PROVE Grows
    BY <1>5, <2>3 DEF CleanStart, account, discord, history
  <2> QED  BY <1>15, <2>1, <2>2, <2>3 DEF CleaningUp
<1>16. ASSUME NEW d \in Device, Draining(d)  PROVE Grows
  <2>1. ASSUME NEW h \in Hook, NEW unread \in BOOLEAN, DrainStart(d, h, unread)  PROVE Grows
    BY <1>14, <2>1 DEF DrainStart, account, discord
  <2>2. ASSUME NEW loads \in BOOLEAN, DrainLoad(d, loads)  PROVE Grows
    BY <1>14, <2>2 DEF DrainLoad, account, discord
  <2>3. CASE DrainPiece(d) \/ DrainManifest(d)
    BY <1>14, <2>3 DEF DrainPiece, DrainManifest, Delete, account, history
  <2>4. CASE DrainFails(d) \/ DrainsEnd(d)
    BY <1>14, <2>4 DEF DrainFails, DrainsEnd, account, discord, history
  <2>5. CASE DrainFinish(d)
    <3>1. /\ bases' = bases /\ live' = live /\ messages' = messages /\ missed \subseteq missed'
          /\ vault' = [vault EXCEPT ![cleaner[d].hook].state = "moved"]
      BY <2>5 DEF DrainFinish, account, discord
    <3>2. \A g \in Hook : vault[g].state = "moved" => vault'[g].state = "moved"
      BY <1>4, <3>1 DEF VaultTypes
    <3> QED  BY <1>1, <1>3, <3>1, <3>2 DEF Grows, Message
  <2> QED  BY <1>16, <2>1, <2>2, <2>3, <2>4, <2>5 DEF Draining
<1> QED  BY <1>6, <1>7, <1>8, <1>9, <1>10, <1>12, <1>13, <1>15, <1>16 DEF Next
-----------------------------------------------------------------------------
(* Deleted messages                                                        *)

\* No drain went ahead without waiting for the kept bases.
Waited == \A h \in Hook : <<"bases", h>> \notin missed

\* Nobody needs the message: neither the log as it is, nor a kept base.
Gone(p) == GoneSince(p, HeadSeq) /\ (Waited => GoneSince(p, Oldest))

\* Only such messages have been deleted.
LiveInv == \A p \in Message : p \in live \/ Gone(p)

\* A message that is gone is gone since every position to come, too.
LEMMA GoneOnward ==
  ASSUME Base, Grows, NEW p \in Message, NEW s \in 0 .. HeadSeq, GoneSince(p, s), NEW t \in Int, t >= s
  PROVE  GoneSince(p, t)'
<1>1. GoneSince(p, s)'
  BY GoneStays DEF Grows
<1>2. \A b \in t .. HeadSeq' : b \in s .. HeadSeq'
  OBVIOUS
<1> QED  BY <1>1, <1>2 DEF GoneSince

\* So is one that nobody needs.
LEMMA GoneOn ==
  ASSUME Base, Grows, NEW p \in Message, Gone(p)
  PROVE  Gone(p)'
<1>1. HeadSeq \in Nat /\ HeadSeq' \in Nat /\ HeadSeq' >= HeadSeq
  BY StepKeeps DEF Grows, GrowsOn
<1>2. Oldest \in 0 .. HeadSeq /\ Oldest' \in Int /\ Oldest' >= Oldest /\ missed \subseteq missed'
  BY <1>1 DEF Grows
<1>3. GoneSince(p, HeadSeq)'
  BY <1>1, GoneOnward DEF Gone
<1>4. ASSUME Waited'  PROVE GoneSince(p, Oldest)'
  <2>1. Waited
    BY <1>2, <1>4 DEF Waited
  <2>2. GoneSince(p, Oldest)
    BY <2>1 DEF Gone
  <2> HIDE DEF Oldest
  <2> QED  BY <1>2, <2>2, GoneOnward
<1> QED  BY <1>3, <1>4 DEF Gone

\* A step that deletes only such messages keeps LiveInv.
LEMMA LiveKept ==
  ASSUME Base, Grows, LiveInv, \A p \in live : p \in Message => p \in live' \/ Gone(p)
  PROVE  LiveInv'
<1> SUFFICES ASSUME NEW p \in Message', p \notin live'  PROVE Gone(p)'
  BY DEF LiveInv
<1>1. p \in Message
  BY DEF Grows
<1>2. Gone(p)
  BY <1>1 DEF LiveInv
<1> QED  BY <1>1, <1>2, GoneOn

\* What an upload owns is its.
LEMMA OneOwner ==
  ASSUME Base, NEW u \in Upload, NEW v \in Upload, NEW p \in Message, Owns(u, p), Owns(v, p)
  PROVE  u = v
BY DEF Base, Names, OwnInv

\* Who names a message owns it.
LEMMA NamersOwn ==
  ASSUME Base, NEW p
  PROVE  /\ \A u \in Upload, b \in 0 .. HeadSeq : Current(u, b) # 0 /\ p \in Parts(Current(u, b)) =>
              /\ Owns(u, p) /\ ~Released(u, b) /\ Current(u, b) = Bound(u, b) /\ WasBound(u, Current(u, b), b)
              /\ WasBound(u, Current(u, b), HeadSeq)
         /\ \A d \in Device : \A m \in mover[d].moves : p \in Parts(m.to) => Owns(m.upload, p) /\ m.upload \in Upload
         /\ \A d \in Device : upload[d] # None /\ p \in {upload[d].piece, upload[d].manifest} =>
              Owns(upload[d].id, p) /\ upload[d].id \in Upload /\ Bound(upload[d].id, HeadSeq) = 0
<1>1. ASSUME NEW u \in Upload, NEW b \in 0 .. HeadSeq, Current(u, b) # 0, p \in Parts(Current(u, b))
      PROVE  /\ Owns(u, p) /\ ~Released(u, b) /\ Current(u, b) = Bound(u, b) /\ WasBound(u, Current(u, b), b)
             /\ WasBound(u, Current(u, b), HeadSeq)
  <2>1. ~Released(u, b) /\ Current(u, b) = Bound(u, b)
    BY <1>1 DEF Current
  <2>2. WasBound(u, Current(u, b), b) /\ HeadSeq \in Nat
    BY <1>1, <2>1, NamesAreMessages, BoundIs
  <2>3. WasBound(u, Current(u, b), HeadSeq)
    BY <2>2 DEF WasBound
  <2>4. PICK i \in 1 .. HeadSeq : \E n \in log[i].moves : n.upload = u /\ n.to = Current(u, b)
    BY <2>3, BoundInLog
  <2>5. Owns(u, p)
    BY <1>1, <2>4 DEF Owns
  <2> QED  BY <2>1, <2>2, <2>3, <2>5
<1>2. ASSUME NEW d \in Device, NEW m \in mover[d].moves, p \in Parts(m.to)  PROVE Owns(m.upload, p) /\ m.upload \in Upload
  BY <1>2, PendingIs DEF Owns
<1>3. ASSUME NEW d \in Device, upload[d] # None, p \in {upload[d].piece, upload[d].manifest}
      PROVE  Owns(upload[d].id, p) /\ upload[d].id \in Upload /\ Bound(upload[d].id, HeadSeq) = 0
  <2>1. upload[d] \in UploadRun /\ UnderWay(d)
    BY <1>3 DEF Base, RunsTyped, UploadTypes, Names, UploadInv
  <2> QED  BY <1>3, <2>1 DEF Owns, UploadRun, UnderWay
<1> QED  BY <1>1, <1>2, <1>3

\* The messages of a version are gone since it was released.
LEMMA ReleasedGone ==
  ASSUME Base, NEW u \in Upload, NEW s \in 0 .. HeadSeq, Released(u, s), NEW p \in Message, Owns(u, p)
  PROVE  GoneSince(p, s)
<1>1. HeadSeq \in Nat /\ LogOK
  BY NamesAreMessages
<1>2. \A b \in s .. HeadSeq : Released(u, b) /\ b \in 0 .. HeadSeq
  BY <1>1, LaterToo
<1>3. Current(u, HeadSeq) = 0 /\ Bound(u, HeadSeq) # 0
  <2>1. Released(u, HeadSeq)
    BY <1>1, <1>2
  <2> QED  BY <2>1 DEF Current, Base, Names, LogInv
<1>4. ASSUME NEW b \in s .. HeadSeq, NEW v \in Upload, Current(v, b) # 0, p \in Parts(Current(v, b))  PROVE FALSE
  <2>1. Owns(v, p) /\ ~Released(v, b)
    BY <1>2, <1>4, NamersOwn
  <2>2. v = u
    BY <2>1, OneOwner
  <2> QED  BY <1>2, <2>1, <2>2
<1>5. ASSUME NEW d \in Device, NEW m \in mover[d].moves, ~Stale(m), p \in Parts(m.to)  PROVE FALSE
  <2>1. m.upload = u
    BY <1>5, NamersOwn, OneOwner
  <2>2. m.from \in Message /\ Current(m.upload, HeadSeq) = m.from
    BY <1>5, PendingIs DEF Stale
  <2> QED  BY <1>3, <2>1, <2>2, MessagesAre DEF Base
<1>6. ASSUME NEW d \in Device, upload[d] # None, p \in {upload[d].piece, upload[d].manifest}  PROVE FALSE
  <2>1. Owns(upload[d].id, p) /\ upload[d].id \in Upload /\ Bound(upload[d].id, HeadSeq) = 0
    BY <1>6, NamersOwn
  <2>2. upload[d].id = u
    BY <2>1, OneOwner
  <2> QED  BY <1>3, <2>1, <2>2
<1> QED  BY <1>4, <1>5, <1>6 DEF GoneSince

\* A manifest is no fragment.
LEMMA ManifestOrPiece ==
  ASSUME Base, NEW f, NEW g, IsManifest(f), IsManifest(g)
  PROVE  f # Piece(g) /\ f # Piece(f) /\ Piece(Piece(f)) = Piece(f) /\ f \in Message /\ Piece(f) \in Message
         /\ Parts(f) = {f, Piece(f)} /\ f # 0 /\ Piece(f) # 0
<1>1. Message = 1 .. Len(messages) /\ Len(messages) \in Nat
  BY MessagesAre DEF Base
<1>2. f \in Message /\ Piece(f) \in 1 .. (f - 1) /\ Piece(Piece(f)) = Piece(f) /\ Piece(Piece(g)) = Piece(g)
  BY DEF IsManifest
<1>3. f # Piece(f) /\ Piece(f) \in Message /\ f # 0 /\ Piece(f) # 0
  BY <1>1, <1>2
<1>4. f # Piece(g)
  BY <1>2, <1>3
<1> QED  BY <1>2, <1>3, <1>4 DEF Parts, Piece

\* The manifest a move replaced is gone since the entry of the move.
LEMMA ReplacedGone ==
  ASSUME Base, NEW i \in 1 .. HeadSeq, NEW n \in log[i].moves, n.from # 0
  PROVE  GoneSince(n.from, i) /\ IsManifest(n.from) /\ n.upload \in Upload /\ WasBound(n.upload, n.from, HeadSeq)
<1> DEFINE f == n.from
           u == n.upload
<1>1. HeadSeq \in Nat /\ LogOK
  BY NamesAreMessages
<1>2. Logged(i, n)
  BY DEF Base, Names, LogInv
<1>3. WasBound(u, f, i - 1) /\ \A b \in i .. HeadSeq : Current(u, b) # f
  BY <1>2 DEF Logged
<1>4. WasBound(u, f, HeadSeq)
  <2>1. \A j \in 1 .. (i - 1) : j \in 1 .. HeadSeq
    BY <1>1
  <2> QED  BY <1>3, <2>1 DEF WasBound
<1>5. IsManifest(f) /\ Owns(u, f) /\ f \in Message
  BY <1>4, BoundInLog
<1>6. u \in Upload
  <2>1. log[i] \in LogEntry
    BY LogIs DEF Base
  <2> QED  BY <2>1 DEF LogEntry, LogMove
<1>7. f <= Bound(u, HeadSeq) /\ f # 0 /\ Bound(u, HeadSeq) # 0 /\ f \in Nat
  <2>1. f <= Bound(u, HeadSeq) /\ Bound(u, HeadSeq) \in Nat
    BY <1>1, <1>4, BoundIs
  <2> QED  BY <1>5, <2>1, MessagesAre DEF Base
<1> HIDE DEF f, u
<1>8. ASSUME NEW b \in i .. HeadSeq, NEW v \in Upload, Current(v, b) # 0, f \in Parts(Current(v, b))  PROVE FALSE
  <2>1. b \in 0 .. HeadSeq
    BY <1>1
  <2>2. Owns(v, f) /\ WasBound(v, Current(v, b), HeadSeq)
    BY <1>8, <2>1, NamersOwn
  <2>3. v = u
    BY <1>5, <1>6, <2>2, OneOwner
  <2>4. IsManifest(Current(v, b)) /\ Parts(Current(v, b)) = {Current(v, b), Piece(Current(v, b))}
    BY <2>2, BoundInLog
  <2>5. f = Current(v, b)
    BY <1>5, <1>8, <2>4, ManifestOrPiece
  <2> QED  BY <1>3, <2>3, <2>5
<1>9. ASSUME NEW d \in Device, NEW m \in mover[d].moves, ~Stale(m), f \in Parts(m.to)  PROVE FALSE
  <2>1. m.upload = u
    BY <1>5, <1>6, <1>9, NamersOwn, OneOwner
  <2>2. IsManifest(m.to) /\ m.from < m.to /\ m.from \in Message
    BY PendingIs
  <2>3. f = m.to
    BY <1>5, <1>9, <2>2, ManifestOrPiece
  <2>4. Current(u, HeadSeq) = m.from /\ m.from # 0 /\ m.from \in Nat
    BY <1>9, <2>1, <2>2, MessagesAre DEF Stale, Base
  <2>5. Bound(u, HeadSeq) = m.from
    BY <2>4 DEF Current
  <2> QED  BY <1>7, <2>2, <2>3, <2>4, <2>5
<1>10. ASSUME NEW d \in Device, upload[d] # None, f \in {upload[d].piece, upload[d].manifest}  PROVE FALSE
  <2>1. Owns(upload[d].id, f) /\ upload[d].id \in Upload /\ Bound(upload[d].id, HeadSeq) = 0
    BY <1>10, NamersOwn
  <2>2. upload[d].id = u
    BY <1>5, <1>6, <2>1, OneOwner
  <2> QED  BY <1>7, <2>1, <2>2
<1>11. GoneSince(f, i)
  BY <1>8, <1>9, <1>10 DEF GoneSince
<1> QED  BY <1>4, <1>5, <1>6, <1>11 DEF f, u
-----------------------------------------------------------------------------
(* What becomes of a move and of a webhook                                 *)

\* The move of a device: it stays, starts, goes on, marks, or is done.
MoverGoes(d) ==
  \/ mover'[d] = mover[d]
  \/ \E h \in Hook : /\ MoveStart(d, h)
                     /\ mover'[d] = [NoMove EXCEPT !.at = "files", !.hook = h, !.from = MoveFrom(d, h)]
  \/ /\ mover[d].at \notin {"none", "done"} /\ mover'[d].at \notin {"none", "done", "mark"}
     /\ mover'[d].hook = mover[d].hook /\ mover'[d].from = mover[d].from
  \/ /\ MoveCheck(d) /\ mover[d].at = "settle" /\ VersionsAt(mover[d].hook) = {}
     /\ mover'[d] = [mover[d] EXCEPT !.at = "mark", !.drain = Drained(mover[d].from)]
  \/ /\ MoveMark(d) /\ mover[d].at = "mark"
     /\ mover'[d] = [NoMove EXCEPT !.at = "done", !.hook = mover[d].hook]

\* A webhook in the vault: it stays, is moved away from, is marked, or leaves.
VaultGoes(h) ==
  \/ vault'[h] = vault[h]
  \/ \E d \in Device : /\ MoveStart(d, h) /\ vault[h].state \in {"active", "retired"}
                       /\ vault'[h] = [vault[h] EXCEPT !.state = "retired"]
  \/ \E d \in Device : /\ MoveMark(d) /\ mover[d].at = "mark" /\ mover[d].hook = h /\ InVault(h)
                       /\ vault'[h] = mover[d].drain
  \/ \E d \in Device : /\ DrainFinish(d) /\ cleaner[d] # None /\ cleaner[d].at = "drain" /\ cleaner[d].todo = {}
                       /\ cleaner[d].hook = h /\ vault'[h] = [vault[h] EXCEPT !.state = "moved"]

\* Only one device acts at a time.
LEMMA NextMovers ==
  ASSUME Typing, Names, [Next]_vars, NEW d \in Device
  PROVE  MoverGoes(d)
<1>1. \A e \in Device : mover[e] \in MoveRun
  BY DEF Typing, MoverTypes
<1>2. CASE mover' = mover
  BY <1>2 DEF MoverGoes
<1>3. ASSUME NEW e \in Device, Reopen(e)  PROVE MoverGoes(d)
  <2> DEFINE r == IF mover[e].at \in {"none", "done"} THEN mover[e] ELSE Paused(e)
  <2>1. mover \in [Device -> MoveRun] /\ mover' = [mover EXCEPT ![e] = r]
    BY <1>3 DEF Reopen, Typing, MoverTypes
  <2>2. mover'[d] = IF d = e THEN r ELSE mover[d]
    BY <2>1
  <2>3. Paused(e).at = "paused" /\ Paused(e).hook = mover[e].hook /\ Paused(e).from = mover[e].from
    BY DEF Paused, NoMove
  <2>4. CASE d = e /\ mover[e].at \notin {"none", "done"}
    BY <2>2, <2>3, <2>4 DEF MoverGoes
  <2>5. CASE d # e \/ mover[e].at \in {"none", "done"}
    BY <2>2, <2>5 DEF MoverGoes
  <2> QED  BY <2>4, <2>5
<1>4. ASSUME NEW e \in Device, Moving(e)  PROVE MoverGoes(d)
  <2>1. ASSUME NEW r, MoveGoesOn(e, r)
        PROVE  mover'[d] = IF d = e THEN r ELSE mover[d]
    BY <2>1, GoesOnTells
  <2>2. ASSUME NEW h \in Hook, MoveStart(e, h)  PROVE MoverGoes(d)
    <3>1. mover'[d] = IF d = e THEN [NoMove EXCEPT !.at = "files", !.hook = h, !.from = MoveFrom(e, h)] ELSE mover[d]
      BY <2>1, <2>2, MoveSteps
    <3> QED  BY <2>2, <3>1 DEF MoverGoes
  <2>3. ASSUME mover[d].at \notin {"none", "done"}, d = e, mover'[d].at \notin {"none", "done", "mark"},
               mover'[d].hook = mover[d].hook, mover'[d].from = mover[d].from
        PROVE  MoverGoes(d)
    BY <2>3 DEF MoverGoes
  <2>4. CASE MoveFails(e)
    <3>1. mover'[d] = IF d = e THEN Paused(e) ELSE mover[d]
      BY <2>1, <2>4, MoveSteps
    <3>2. Paused(e).at = "paused" /\ Paused(e).hook = mover[e].hook /\ Paused(e).from = mover[e].from
      BY DEF Paused, NoMove
    <3>3. mover[e].at \in {"files", "copy", "settle", "mark"}
      BY <2>4 DEF MoveFails
    <3> QED  BY <3>1, <3>2, <3>3 DEF MoverGoes
  <2>5. CASE MoveMark(e)
    <3>1. mover'[d] = IF d = e THEN [NoMove EXCEPT !.at = "done", !.hook = mover[e].hook] ELSE mover[d]
      BY <2>1, <2>5, MoveSteps
    <3>2. mover[e].at = "mark"
      BY <2>5 DEF MoveMark
    <3> QED  BY <2>5, <3>1, <3>2 DEF MoverGoes
  <2>6. CASE MoveBatch(e)
    <3>1. PICK r : MoveGoesOn(e, r) /\ r.hook = mover[e].hook /\ r.from = mover[e].from
                   /\ r.at \in {"settle", "copy"} /\ mover[e].at = "files"
      BY <2>6, LookSteps
    <3>2. mover'[d] = IF d = e THEN r ELSE mover[d]
      BY <2>1, <3>1
    <3>3. CASE d = e
      BY <2>3, <3>1, <3>2, <3>3
    <3>4. CASE d # e
      BY <3>2, <3>4 DEF MoverGoes
    <3> QED  BY <3>3, <3>4
  <2>7. CASE MoveCheck(e)
    <3>1. CASE MoveGoesOn(e, [mover[e] EXCEPT !.at = "paused"]) /\ mover[e].at = "settle"
      <4>1. mover'[d] = IF d = e THEN [mover[e] EXCEPT !.at = "paused"] ELSE mover[d]
        BY <2>1, <3>1
      <4>2. CASE d = e
        <5>1. mover'[d].at = "paused" /\ mover'[d].hook = mover[d].hook /\ mover'[d].from = mover[d].from
          BY <1>1, <4>1, <4>2 DEF MoveRun
        <5> QED  BY <2>3, <3>1, <4>2, <5>1
      <4>3. CASE d # e
        BY <4>1, <4>3 DEF MoverGoes
      <4> QED  BY <4>2, <4>3
    <3>2. CASE /\ MoveGoesOn(e, [mover[e] EXCEPT !.at = "mark", !.drain = Drained(mover[e].from)])
               /\ VersionsAt(mover[e].hook) = {} /\ mover[e].at = "settle"
      <4>1. mover'[d] = IF d = e THEN [mover[e] EXCEPT !.at = "mark", !.drain = Drained(mover[e].from)] ELSE mover[d]
        BY <2>1, <3>2
      <4> QED  BY <2>7, <3>2, <4>1 DEF MoverGoes
    <3> QED  BY <2>7, <3>1, <3>2, LookSteps
  <2>8. CASE MoveCommit(e)
    <3>1. mover'[e] = [mover[e] EXCEPT !.at = "files", !.moves = {}] /\ \A x \in Device \ {e} : mover'[x] = mover[x]
          /\ mover[e].at = "copy"
      BY <2>8, CommitStep DEF MoveCommit
    <3>2. CASE d = e
      <4>1. mover'[d].at = "files" /\ mover'[d].hook = mover[d].hook /\ mover'[d].from = mover[d].from
        BY <1>1, <3>1, <3>2 DEF MoveRun
      <4>2. mover[d].at = "copy"
        BY <2>8, <3>2 DEF MoveCommit
      <4> QED  BY <2>3, <3>2, <4>1, <4>2
    <3>3. CASE d # e
      BY <3>1, <3>3 DEF MoverGoes
    <3> QED  BY <3>2, <3>3
  <2>9. ASSUME NEW h \in Hook, NEW g \in Hook, MoveCopy(e, h, g)  PROVE MoverGoes(d)
    <3>1. CASE d = e
      <4>1. /\ mover[e].at = "copy" /\ mover'[e].at = "copy" /\ mover'[e].hook = mover[e].hook
            /\ mover'[e].from = mover[e].from
        BY <2>9, CopyStep
      <4> QED  BY <2>3, <3>1, <4>1
    <3>2. CASE d # e
      <4>1. mover'[d] = mover[d]
        BY <2>9, <3>2 DEF MoveCopy, Typing, MoverTypes
      <4> QED  BY <4>1 DEF MoverGoes
    <3> QED  BY <3>1, <3>2
  <2> QED  BY <1>4, <2>2, <2>4, <2>5, <2>6, <2>7, <2>8, <2>9 DEF Moving
<1>5. CASE UNCHANGED vars
  BY <1>2, <1>5 DEF vars
<1>6. CASE NextDay \/ \E at \in 1 .. MaxLog : TakeBase(at)
  BY <1>2, <1>6 DEF NextDay, TakeBase
<1>7. ASSUME NEW e \in Device, (\E u \in Upload : Release(e, u)) \/ Uploading(e)  PROVE MoverGoes(d)
  BY <1>2, <1>7 DEF Release, Uploading, UploadPiece, UploadManifest, UploadCommit
<1>8. ASSUME NEW e \in Device, CleaningUp(e)  PROVE MoverGoes(d)
  BY <1>2, <1>8 DEF CleaningUp, CleanStart, CleanNext, CleanPiece, CleanManifest, CleanFails, CleanRecord, CleanEnd
<1>9. ASSUME NEW e \in Device, Draining(e)  PROVE MoverGoes(d)
  BY <1>2, <1>9 DEF Draining, DrainStart, DrainLoad, DrainPiece, DrainManifest, DrainFinish, DrainFails, DrainsEnd
<1> QED  BY <1>3, <1>4, <1>5, <1>6, <1>7, <1>8, <1>9 DEF Next

\* Nor is a webhook changed by more than one.
LEMMA NextVault ==
  ASSUME Typing, [Next]_vars, NEW h \in Hook
  PROVE  VaultGoes(h)
<1>1. VaultTypes
  BY DEF Typing
<1>2. CASE vault' = vault
  BY <1>2 DEF VaultGoes
<1>3. ASSUME NEW d \in Device, NEW g \in Hook, MoveStart(d, g)  PROVE VaultGoes(h)
  <2>1. vault' = [vault EXCEPT ![g].state = "retired"] /\ vault[g].state \in {"active", "retired"}
    BY <1>3 DEF MoveStart
  <2>2. vault'[h] = IF h = g THEN [vault[h] EXCEPT !.state = "retired"] ELSE vault[h]
    BY <1>1, <2>1 DEF VaultTypes
  <2> QED  BY <1>3, <2>1, <2>2 DEF VaultGoes
<1>4. ASSUME NEW d \in Device, MoveMark(d)  PROVE VaultGoes(h)
  <2>1. /\ vault' = [vault EXCEPT ![mover[d].hook] = IF InVault(mover[d].hook) THEN mover[d].drain ELSE @]
        /\ mover[d].at = "mark" /\ mover[d].hook \in Hook
    BY <1>4 DEF MoveMark, Typing, MoverTypes
  <2>2. vault'[h] = IF h = mover[d].hook /\ InVault(h) THEN mover[d].drain ELSE vault[h]
    BY <1>1, <2>1 DEF VaultTypes
  <2> QED  BY <1>4, <2>1, <2>2 DEF VaultGoes
<1>5. ASSUME NEW d \in Device, DrainFinish(d)  PROVE VaultGoes(h)
  <2>1. /\ vault' = [vault EXCEPT ![cleaner[d].hook].state = "moved"]
        /\ cleaner[d] # None /\ cleaner[d].at = "drain" /\ cleaner[d].todo = {}
    BY <1>5 DEF DrainFinish
  <2>2. vault'[h] = IF h = cleaner[d].hook THEN [vault[h] EXCEPT !.state = "moved"] ELSE vault[h]
    BY <1>1, <2>1 DEF VaultTypes
  <2> QED  BY <1>5, <2>1, <2>2 DEF VaultGoes
<1>6. CASE UNCHANGED vars
  BY <1>2, <1>6 DEF vars
<1>7. CASE NextDay \/ \E at \in 1 .. MaxLog : TakeBase(at)
  BY <1>2, <1>7 DEF NextDay, TakeBase
<1>8. ASSUME NEW d \in Device, Reopen(d) \/ (\E u \in Upload : Release(d, u)) \/ Uploading(d)  PROVE VaultGoes(h)
  BY <1>2, <1>8 DEF Reopen, Release, Uploading, UploadPiece, UploadManifest, UploadCommit
<1>9. ASSUME NEW d \in Device, Moving(d)  PROVE VaultGoes(h)
  BY <1>2, <1>3, <1>4, <1>9 DEF Moving, MoveCopy, MoveBatch, MoveCommit, MoveCheck, MoveFails
<1>10. ASSUME NEW d \in Device, CleaningUp(d)  PROVE VaultGoes(h)
  BY <1>2, <1>10 DEF CleaningUp, CleanStart, CleanNext, CleanPiece, CleanManifest, CleanFails, CleanRecord, CleanEnd
<1>11. ASSUME NEW d \in Device, Draining(d)  PROVE VaultGoes(h)
  BY <1>2, <1>5, <1>11 DEF Draining, DrainStart, DrainLoad, DrainPiece, DrainManifest, DrainFails, DrainsEnd
<1> QED  BY <1>6, <1>7, <1>8, <1>9, <1>10, <1>11 DEF Next

\* Days do not go back.
LEMMA NextDays ==
  ASSUME Typing, [Next]_vars
  PROVE  day \in Nat /\ day' \in Nat /\ day' >= day /\ (day' = day \/ NextDay)
<1>1. day \in Nat
  BY DEF Typing, TimeTypes
<1>2. CASE day' = day
  BY <1>1, <1>2
<1>3. CASE NextDay
  BY <1>1, <1>3 DEF NextDay
<1>4. CASE UNCHANGED vars \/ \E at \in 1 .. MaxLog : TakeBase(at)
  BY <1>2, <1>4 DEF vars, account, TakeBase
<1>5. ASSUME NEW d \in Device, Reopen(d) \/ (\E u \in Upload : Release(d, u)) \/ Uploading(d)  PROVE day' = day
  BY <1>5 DEF Reopen, Release, Uploading, UploadPiece, UploadManifest, UploadCommit, account
<1>6. ASSUME NEW d \in Device, Moving(d)  PROVE day' = day
  BY <1>6 DEF Moving, MoveStart, MoveMark, MoveCopy, MoveBatch, MoveCommit, MoveCheck, MoveFails, account
<1>7. ASSUME NEW d \in Device, CleaningUp(d)  PROVE day' = day
  BY <1>7 DEF CleaningUp, CleanStart, CleanNext, CleanPiece, CleanManifest, CleanFails, CleanRecord, CleanEnd, account
<1>8. ASSUME NEW d \in Device, Draining(d)  PROVE day' = day
  BY <1>8 DEF Draining, DrainStart, DrainLoad, DrainPiece, DrainManifest, DrainFinish, DrainFails, DrainsEnd, account
<1> QED  BY <1>2, <1>3, <1>4, <1>5, <1>6, <1>7, <1>8 DEF Next

\* Positions stay in the log.
LEMMA PositionsKept ==
  ASSUME Typing, Names, Positions, [Next]_vars
  PROVE  Positions'
<1>1. Typing' /\ Step /\ Base
  BY NextTyped DEF Base, Typing, RunsTyped
<1>2. HeadSeq \in Nat /\ HeadSeq' \in Nat /\ HeadSeq' >= HeadSeq
  BY <1>1, StepKeeps DEF GrowsOn
<1>3. day \in Nat /\ day' \in Nat /\ day' >= day
  BY NextDays
<1>4. ASSUME NEW d \in Device
      PROVE  /\ mover[d] \in MoveRun /\ mover[d].from \in Nat /\ mover[d].from <= HeadSeq
             /\ mover[d].at = "mark" =>
                  /\ mover[d].drain \in Drain /\ mover[d].drain.from <= HeadSeq /\ mover[d].drain.to <= HeadSeq
                  /\ mover[d].drain.at <= day
                  /\ mover[d].drain.from \in Nat /\ mover[d].drain.to \in Nat /\ mover[d].drain.at \in Nat
  BY DEF Typing, MoverTypes, MoveRun, Positions, Drain
<1>5. ASSUME NEW h \in Hook  PROVE vault'[h].from <= HeadSeq' /\ vault'[h].to <= HeadSeq' /\ vault'[h].at <= day'
  <2>1. /\ vault[h].from <= HeadSeq /\ vault[h].to <= HeadSeq /\ vault[h].at <= day
        /\ vault[h].from \in Nat /\ vault[h].to \in Nat /\ vault[h].at \in Nat
    BY DEF Typing, VaultTypes, Positions
  <2>2. CASE vault'[h].from = vault[h].from /\ vault'[h].to = vault[h].to /\ vault'[h].at = vault[h].at
    BY <1>2, <1>3, <2>1, <2>2
  <2>3. ASSUME NEW s, vault'[h] = [vault[h] EXCEPT !.state = s]
        PROVE  vault'[h].from = vault[h].from /\ vault'[h].to = vault[h].to /\ vault'[h].at = vault[h].at
    BY <2>3 DEF Typing, VaultTypes
  <2>4. ASSUME NEW d \in Device, mover[d].at = "mark", vault'[h] = mover[d].drain
        PROVE  vault'[h].from <= HeadSeq' /\ vault'[h].to <= HeadSeq' /\ vault'[h].at <= day'
    BY <1>2, <1>3, <1>4, <2>4
  <2>5. ASSUME NEW s, vault'[h] = [vault[h] EXCEPT !.state = s]
        PROVE  vault'[h].from <= HeadSeq' /\ vault'[h].to <= HeadSeq' /\ vault'[h].at <= day'
    BY <2>2, <2>3, <2>5
  <2>6. VaultGoes(h)
    BY NextVault
  <2>7. CASE vault'[h] = vault[h]
    BY <2>2, <2>7
  <2>8. CASE \E d \in Device : mover[d].at = "mark" /\ vault'[h] = mover[d].drain
    BY <2>4, <2>8
  <2>9. CASE vault'[h] = [vault[h] EXCEPT !.state = "retired"] \/ vault'[h] = [vault[h] EXCEPT !.state = "moved"]
    BY <2>5, <2>9
  <2> QED  BY <2>6, <2>7, <2>8, <2>9 DEF VaultGoes
<1>6. ASSUME NEW d \in Device
      PROVE  /\ mover'[d].from <= HeadSeq'
             /\ mover'[d].at = "mark" =>
                  mover'[d].drain.from <= HeadSeq' /\ mover'[d].drain.to <= HeadSeq' /\ mover'[d].drain.at <= day'
  <2>1. CASE mover'[d] = mover[d]
    BY <1>2, <1>3, <1>4, <2>1
  <2>2. ASSUME NEW h \in Hook, mover'[d] = [NoMove EXCEPT !.at = "files", !.hook = h, !.from = MoveFrom(d, h)]
        PROVE  mover'[d].from <= HeadSeq' /\ mover'[d].at = "files"
    <3>1. mover'[d].from = MoveFrom(d, h) /\ mover'[d].at = "files"
      BY <2>2 DEF NoMove
    <3>2. MoveFrom(d, h) \in Nat /\ MoveFrom(d, h) <= HeadSeq
      BY <1>2, <1>4 DEF MoveFrom
    <3> QED  BY <1>2, <3>1, <3>2
  <2>3. CASE mover'[d].at \notin {"none", "done", "mark"} /\ mover'[d].from = mover[d].from
    BY <1>2, <1>4, <2>3
  <2>4. ASSUME mover'[d] = [mover[d] EXCEPT !.at = "mark", !.drain = Drained(mover[d].from)]
        PROVE  /\ mover'[d].from <= HeadSeq'
               /\ mover'[d].drain.from <= HeadSeq' /\ mover'[d].drain.to <= HeadSeq' /\ mover'[d].drain.at <= day'
    <3>1. mover'[d].from = mover[d].from /\ mover'[d].drain = Drained(mover[d].from)
      BY <1>4, <2>4 DEF MoveRun
    <3>2. mover'[d].drain.from = mover[d].from /\ mover'[d].drain.to = HeadSeq /\ mover'[d].drain.at = day
      BY <3>1 DEF Drained
    <3> QED  BY <1>2, <1>3, <1>4, <3>1, <3>2
  <2>5. ASSUME mover'[d] = [NoMove EXCEPT !.at = "done", !.hook = mover[d].hook]
        PROVE  mover'[d].from <= HeadSeq' /\ mover'[d].at = "done"
    BY <1>2, <2>5 DEF NoMove
  <2> QED  BY <2>1, <2>2, <2>3, <2>4, <2>5, NextMovers DEF MoverGoes
<1> QED  BY <1>5, <1>6 DEF Positions
-----------------------------------------------------------------------------
(* Marks                                                                   *)

\* A mark says from where on nothing of the webhook is needed any more: what the move's range replaced
\* there is gone, and what is on it later came into the log later.
MarkInv(h, from, to) ==
  /\ \A i \in (from + 1) .. to : \A n \in log[i].moves :
       n.from # 0 /\ messages[Piece(n.from)].hook = h => GoneSince(Piece(n.from), to)
  /\ \A b \in to .. HeadSeq : \A u \in Upload : Current(u, b) # 0 /\ h \in HooksOf(Current(u, b)) =>
       \E i \in (to + 1) .. b : \E n \in log[i].moves : n.to = Current(u, b)

DrainSteps == {"drain", "drainPiece", "drainManifest"}

\* The marks of the vault and those worked out; only marked webhooks are drained.
MarksInv ==
  /\ \A h \in Hook : vault[h].state \in {"drain", "moved"} => MarkInv(h, vault[h].from, vault[h].to)
  /\ \A h \in Hook : vault[h].state = "moved" /\ <<"bases", h>> \notin missed => vault[h].to <= Oldest
  /\ \A d \in Device : mover[d].at = "mark" => MarkInv(mover[d].hook, mover[d].drain.from, mover[d].drain.to)
  /\ \A d \in Device : cleaner[d] # None /\ cleaner[d].at \in DrainSteps =>
       vault[cleaner[d].hook].state \in {"drain", "moved"}

\* A manifest stays where it is.
LEMMA HooksStay ==
  ASSUME Base, MessagesGrow, NEW f, IsManifest(f)
  PROVE  HooksOf(f)' = HooksOf(f)
<1>1. Parts(f) = {f, Piece(f)} /\ Parts(f)' = Parts(f) /\ messages'[f] = messages[f] /\ messages'[Piece(f)] = messages[Piece(f)]
  BY ManifestStays DEF Base
<1>2. HooksOf(f)' = {messages'[p].hook : p \in Parts(f)}
  BY <1>1 DEF HooksOf
<1> QED  BY <1>1, <1>2 DEF HooksOf

\* A step keeps a mark.
LEMMA MarkOn ==
  ASSUME Base, Grows, NEW h, NEW from \in Nat, NEW to \in 0 .. HeadSeq, MarkInv(h, from, to)
  PROVE  MarkInv(h, from, to)'
<1>1. MessagesGrow /\ LogExtends /\ HeadSeq \in Nat /\ HeadSeq' \in Nat /\ HeadSeq' >= HeadSeq
  BY StepKeeps DEF Grows, GrowsOn
<1>2. ASSUME NEW i \in (from + 1) .. to, NEW n \in log'[i].moves, n.from # 0,
             NEW q, q = Piece(n.from)', messages'[q].hook = h
      PROVE  GoneSince(q, to)'
  <2>1. i \in 1 .. HeadSeq
    BY <1>1
  <2>2. n \in log[i].moves
    BY <1>1, <2>1 DEF LogExtends
  <2>3. IsManifest(n.from)
    BY <1>2, <2>1, <2>2, ReplacedGone
  <2>4. Piece(n.from)' = Piece(n.from) /\ messages'[Piece(n.from)] = messages[Piece(n.from)] /\ Piece(n.from) \in Message
    BY <1>1, <2>3, ManifestStays DEF Base
  <2>5. GoneSince(Piece(n.from), to) /\ q = Piece(n.from)
    BY <1>2, <2>2, <2>4 DEF MarkInv
  <2>6. GoneSince(q, to) /\ q \in Message
    BY <2>4, <2>5
  <2> QED  BY <1>1, <2>6, GoneOnward
<1>3. ASSUME NEW b \in to .. HeadSeq', NEW u \in Upload, Current(u, b)' # 0, h \in HooksOf(Current(u, b))'
      PROVE  \E i \in (to + 1) .. b : \E n \in log'[i].moves : n.to = Current(u, b)'
  <2>1. ASSUME NEW c \in to .. HeadSeq, Current(u, c) # 0, Current(u, c) = Current(u, b)', c <= b
        PROVE  \E i \in (to + 1) .. b : \E n \in log'[i].moves : n.to = Current(u, b)'
    <3>1. c \in 0 .. HeadSeq
      BY <1>1
    <3>2. WasBound(u, Current(u, c), HeadSeq)
      <4>1. Current(u, c) = Bound(u, c)
        BY <2>1 DEF Current
      <4>2. WasBound(u, Current(u, c), c)
        BY <2>1, <3>1, <4>1, NamesAreMessages, BoundIs
      <4> QED  BY <1>1, <4>2 DEF WasBound
    <3>3. ASSUME NEW f, f = Current(u, c)  PROVE IsManifest(f) /\ HooksOf(f)' = HooksOf(f)
      BY <1>1, <3>2, <3>3, BoundInLog, HooksStay
    <3>4. PICK f : f = Current(u, c)
      OBVIOUS
    <3>5. h \in HooksOf(f)
      <4>1. HooksOf(f)' = HooksOf(Current(u, b))'
        BY <2>1, <3>4 DEF HooksOf, Parts
      <4> QED  BY <1>3, <3>3, <3>4, <4>1
    <3>6. PICK i \in (to + 1) .. c : \E n \in log[i].moves : n.to = f
      BY <2>1, <3>4, <3>5 DEF MarkInv
    <3>7. i \in 1 .. HeadSeq /\ i \in (to + 1) .. b
      BY <1>1, <2>1, <3>1
    <3>8. log'[i] = log[i]
      BY <1>1, <3>7 DEF LogExtends
    <3> QED  BY <2>1, <3>4, <3>6, <3>7, <3>8
  <2>2. CASE b \in to .. HeadSeq
    <3>1. Current(u, b)' = Current(u, b)
      BY <1>1, <2>2, OldStays
    <3> QED  BY <1>3, <2>1, <2>2, <3>1
  <2>3. CASE b = HeadSeq' /\ HeadSeq' # HeadSeq
    <3>1. Tells
      <4>1. log' # log
        BY <2>3 DEF HeadSeq
      <4> QED  BY <4>1 DEF Grows, Step, PostsFor, Copies
    <3>2. HeadMoves(u) /\ (Released(u, HeadSeq) => Released(u, HeadSeq)')
      BY <3>1, HeadBound
    <3>3. Current(u, b)' = Current(u, HeadSeq)' /\ ~Released(u, HeadSeq)' /\ Current(u, HeadSeq)' = Bound(u, HeadSeq)'
      BY <1>3, <2>3 DEF Current
    <3>4. CASE Bound(u, HeadSeq)' = Bound(u, HeadSeq)
      <4>1. Current(u, HeadSeq) = Bound(u, HeadSeq)
        BY <3>2, <3>3 DEF Current
      <4>2. HeadSeq \in to .. HeadSeq /\ HeadSeq <= b
        BY <1>1, <2>3
      <4> QED  BY <1>3, <2>1, <3>3, <3>4, <4>1, <4>2
    <3>5. ASSUME HeadSeq' = HeadSeq + 1, NEW n \in log'[HeadSeq + 1].moves, n.to = Bound(u, HeadSeq)'
          PROVE  \E i \in (to + 1) .. b : \E m \in log'[i].moves : m.to = Current(u, b)'
      <4>1. HeadSeq + 1 \in (to + 1) .. b
        BY <1>1, <2>3, <3>5
      <4> QED  BY <3>3, <3>5, <4>1
    <3> QED  BY <3>2, <3>4, <3>5 DEF HeadMoves
  <2>4. HeadSeq' = HeadSeq \/ HeadSeq' = HeadSeq + 1
    <3>1. CASE Tells
      BY <3>1, TellsLog DEF LogGrowth
    <3>2. CASE log' = log
      BY <3>2 DEF HeadSeq
    <3> QED  BY <3>1, <3>2 DEF Grows, Step, PostsFor, Copies
  <2> QED  BY <1>1, <2>2, <2>3, <2>4
<1>4. \A i \in (from + 1) .. to : \A n \in log'[i].moves :
        n.from # 0 /\ messages'[Piece(n.from)'].hook = h => GoneSince(Piece(n.from), to)'
  BY <1>2
<1> QED  BY <1>3, <1>4 DEF MarkInv

\* A mark that is made when nothing current is on the webhook says so rightly.
LEMMA MarkMade ==
  ASSUME Base, NEW h, NEW from \in Nat, VersionsAt(h) = {}
  PROVE  MarkInv(h, from, HeadSeq)
<1>1. HeadSeq \in Nat /\ LogOK
  BY NamesAreMessages
<1>2. ASSUME NEW u \in Upload, Current(u, HeadSeq) # 0, h \in HooksOf(Current(u, HeadSeq))  PROVE FALSE
  BY <1>2 DEF VersionsAt
<1>3. ASSUME NEW i \in (from + 1) .. HeadSeq, NEW n \in log[i].moves, n.from # 0, messages[Piece(n.from)].hook = h
      PROVE  GoneSince(Piece(n.from), HeadSeq)
  <2> DEFINE f == n.from
             u == n.upload
             q == Piece(f)
  <2>1. i \in 1 .. HeadSeq
    BY <1>1
  <2>2. IsManifest(f) /\ u \in Upload /\ WasBound(u, f, HeadSeq)
    BY <1>3, <2>1, ReplacedGone
  <2>3. f \in Message /\ q \in Message /\ Owns(u, q) /\ \E j \in 1 .. HeadSeq : \E x \in log[j].moves : x.to = f
    BY <2>2, BoundInLog
  <2>4. messages[q].hook = h
    BY <1>3
  <2>5. Bound(u, HeadSeq) # 0
    <3>1. f <= Bound(u, HeadSeq) /\ Bound(u, HeadSeq) \in Nat
      BY <1>1, <2>2, BoundIs
    <3>2. f \in Nat \ {0}
      BY <2>3, MessagesAre DEF Base
    <3> QED  BY <3>1, <3>2
  <2>6. ASSUME NEW g, IsManifest(g), q \in Parts(g)  PROVE q = Piece(g)
    BY <2>2, <2>6, ManifestOrPiece
  <2> HIDE DEF f, u, q
  <2>7. ASSUME NEW v \in Upload, Current(v, HeadSeq) # 0, q \in Parts(Current(v, HeadSeq))  PROVE FALSE
    BY <1>2, <2>4, <2>7 DEF HooksOf
  <2>8. ASSUME NEW d \in Device, NEW m \in mover[d].moves, ~Stale(m), q \in Parts(m.to)  PROVE FALSE
    <3>1. m.upload \in Upload /\ IsManifest(m.to) /\ Pending(d, m) /\ m.from \in Message
      BY PendingIs
    <3>2. q = Piece(m.to)
      BY <2>6, <2>8, <3>1
    <3>3. Current(m.upload, HeadSeq) = m.from /\ m.from # 0
      BY <2>8, <3>1, MessagesAre DEF Stale, Base
    <3>4. CASE Inherits(m)
      <4>1. q = Piece(m.from)
        BY <3>2, <3>4 DEF Inherits
      <4>2. q \in Parts(m.from)
        BY <4>1 DEF Parts, Piece
      <4> QED  BY <2>7, <3>1, <3>3, <4>2
    <3>5. CASE FreshInLog(m)
      BY <2>3, <3>2, <3>5 DEF FreshInLog, q
    <3> QED  BY <3>1, <3>4, <3>5 DEF Pending
  <2>9. ASSUME NEW d \in Device, upload[d] # None, q \in {upload[d].piece, upload[d].manifest}  PROVE FALSE
    <3>1. Owns(upload[d].id, q) /\ upload[d].id \in Upload /\ Bound(upload[d].id, HeadSeq) = 0
      BY <2>9, NamersOwn
    <3>2. upload[d].id = u
      BY <2>2, <2>3, <3>1, OneOwner
    <3> QED  BY <2>5, <3>1, <3>2
  <2>10. \A b \in HeadSeq .. HeadSeq : b = HeadSeq
    BY <1>1
  <2>11. GoneSince(q, HeadSeq)
    BY <2>7, <2>8, <2>9, <2>10 DEF GoneSince
  <2> QED  BY <2>11 DEF q, f
<1>4. \A b \in HeadSeq .. HeadSeq : b = HeadSeq
  BY <1>1
<1> QED  BY <1>2, <1>3, <1>4 DEF MarkInv

\* The cleaner of a device: it is closed, left alone, or takes a step.
CleanerGoes(d) ==
  \/ Reopen(d) /\ cleaner'[d] = None
  \/ client'[d].knows = client[d].knows /\ (cleaner'[d] = cleaner[d] \/ CleaningUp(d) \/ Draining(d))

\* Only one device acts at a time.
LEMMA NextCleaners ==
  ASSUME Typing, Names, Positions, [Next]_vars, NEW d \in Device
  PROVE  CleanerGoes(d)
<1>1. client \in [Device -> [knows : SUBSET Hook, posts : SUBSET Hook]] /\ cleaner \in [Device -> CleanRun \cup {None}]
  BY DEF Typing, VaultTypes, CleanerTypes
<1>2. CASE client' = client /\ cleaner' = cleaner
  BY <1>2 DEF CleanerGoes
<1>3. CASE UNCHANGED vars \/ NextDay \/ \E at \in 1 .. MaxLog : TakeBase(at)
  BY <1>2, <1>3 DEF vars, NextDay, TakeBase
<1>4. ASSUME NEW e \in Device, Reopen(e)  PROVE CleanerGoes(d)
  <2>1. /\ cleaner' = [cleaner EXCEPT ![e] = None]
        /\ client' = [client EXCEPT ![e].knows = {h \in Hook : InVault(h)},
                                    ![e].posts = {h \in Hook : vault[h].state = "active"}]
    BY <1>4 DEF Reopen
  <2>2. CASE e = d
    BY <1>1, <1>4, <2>1, <2>2 DEF CleanerGoes
  <2>3. CASE e # d
    BY <1>1, <2>1, <2>3 DEF CleanerGoes
  <2> QED  BY <2>2, <2>3
<1>5. ASSUME NEW e \in Device, (\E u \in Upload : Release(e, u)) \/ Uploading(e)  PROVE CleanerGoes(d)
  BY <1>2, <1>5 DEF Release, Uploading, UploadPiece, UploadManifest, UploadCommit
<1>6. ASSUME NEW e \in Device, Moving(e)  PROVE CleanerGoes(d)
  <2>1. ASSUME NEW h \in Hook, MoveStart(e, h)  PROVE CleanerGoes(d)
    <3>1. cleaner' = cleaner /\ client' = [client EXCEPT ![e].posts = @ \ {h}]
      BY <2>1 DEF MoveStart
    <3>2. client'[d].knows = client[d].knows
      BY <1>1, <3>1
    <3> QED  BY <3>1, <3>2 DEF CleanerGoes
  <2> QED  BY <1>2, <1>6, <2>1 DEF Moving, MoveMark, MoveCopy, MoveBatch, MoveCommit, MoveCheck, MoveFails
<1>7. ASSUME NEW e \in Device, CleaningUp(e) \/ Draining(e)  PROVE CleanerGoes(d)
  <2>1. ASSUME NEW r, CleanRuns(e, r)  PROVE CleanerGoes(d)
    <3>1. client' = client /\ (e # d => cleaner'[d] = cleaner[d])
      BY <2>1 DEF CleanRuns, CleanGoesOn
    <3> QED  BY <1>7, <3>1 DEF CleanerGoes
  <2>2. CASE CleaningUp(e)
    <3>1. CASE CleanNext(e)
      BY <2>1, <3>1, CleanNextSteps DEF CleanNextRuns
    <3> QED  BY <2>1, <2>2, <3>1, CleanSteps, RecordSteps DEF CleaningUp
  <2>3. CASE Draining(e)
    <3>1. ASSUME NEW loads \in BOOLEAN, DrainLoad(e, loads)  PROVE CleanerGoes(d)
      BY <2>1, <3>1, DrainLoadSteps DEF DrainLoadRuns
    <3> QED  BY <2>1, <2>3, <3>1, DrainStepsRun DEF Draining
  <2> QED  BY <1>7, <2>2, <2>3
<1> QED  BY <1>3, <1>4, <1>5, <1>6, <1>7 DEF Next

\* What a cleaner's run is after a step that does not drain.
LEMMA CleansAt ==
  ASSUME Typing, Names, NEW d \in Device, CleaningUp(d)
  PROVE  cleaner'[d] = None \/ cleaner'[d].at \notin DrainSteps
<1> DEFINE c == cleaner[d]
           NotDrain(r) == r = None \/ r.at \notin DrainSteps
<1>1. ASSUME NEW r, CleanRuns(d, r), NotDrain(r)  PROVE NotDrain(cleaner'[d])
  BY <1>1 DEF CleanRuns
<1>2. c # None => c \in CleanRun
  BY DEF Typing, CleanerTypes
<1>3. \A at \in {"clean", "drains"}, todo \in SUBSET Nat : NotDrain(Cleaning(at, todo))
  BY CleaningTyped DEF DrainSteps
<1>4. c # None => \A u : Finished(c, u).at = "clean"
  BY <1>2 DEF CleanRun, Finished
<1>5. c # None =>
        /\ [c EXCEPT !.at = "manifest"].at = "manifest"
        /\ \A u : [c EXCEPT !.at = "clean", !.todo = @ \ {u}].at = "clean" /\ [c EXCEPT !.todo = @ \ {u}].at = c.at
        /\ \A u, m : [c EXCEPT !.at = "piece", !.upload = u, !.manifest = m].at = "piece"
        /\ [c EXCEPT !.finished = {}].at = c.at
  BY <1>2 DEF CleanRun
<1> HIDE DEF c
<1>6. CASE CleanNext(d)
  <2>1. CleanNextRuns(d)
    BY <1>6, CleanNextSteps
  <2>2. c # None /\ c.at = "clean"
    BY <2>1 DEF CleanNextRuns, c
  <2> DEFINE u == Min(c.todo)
             m == Bound(u, HeadSeq)
  <2>3. NotDrain([c EXCEPT !.todo = @ \ {u}]) /\ NotDrain(Finished(c, u)) /\ NotDrain([c EXCEPT !.at = "piece", !.upload = u, !.manifest = m])
    BY <1>4, <1>5, <2>2 DEF DrainSteps
  <2>4. CleanRuns(d, [c EXCEPT !.todo = @ \ {u}]) \/ CleanRuns(d, Finished(c, u))
          \/ CleanRuns(d, [c EXCEPT !.at = "piece", !.upload = u, !.manifest = m])
    BY <2>1 DEF CleanNextRuns, c
  <2> HIDE DEF u, m, NotDrain
  <2>5. NotDrain(cleaner'[d])
    BY <1>1, <2>3, <2>4
  <2> QED  BY <2>5 DEF NotDrain
<1>7. CASE CleanPiece(d)
  <2>1. c # None /\ CleanRuns(d, [c EXCEPT !.at = "manifest"])
    BY <1>7, CleanSteps DEF CleanPiece, c
  <2> QED  BY <1>1, <1>5, <2>1 DEF DrainSteps
<1>8. CASE CleanManifest(d)
  <2>1. c # None /\ CleanRuns(d, Finished(c, c.upload))
    BY <1>8, CleanSteps DEF CleanManifest, c
  <2> QED  BY <1>1, <1>4, <2>1 DEF DrainSteps
<1>9. CASE CleanFails(d)
  <2>1. c # None /\ CleanRuns(d, [c EXCEPT !.at = "clean", !.todo = @ \ {c.upload}])
    BY <1>9, CleanSteps DEF CleanFails, c
  <2> QED  BY <1>1, <1>5, <2>1 DEF DrainSteps
<1>10. CASE CleanRecord(d)
  <2>1. c # None /\ c.at = "clean" /\ CleanRuns(d, [c EXCEPT !.finished = {}])
    BY <1>10, RecordSteps DEF CleanRecord, c
  <2> QED  BY <1>1, <1>5, <2>1 DEF DrainSteps
<1>11. CASE CleanEnd(d)
  <2>1. CleanRuns(d, Cleaning("drains", {})) \/ CleanRuns(d, None)
    BY <1>11, RecordSteps
  <2> QED  BY <1>1, <1>3, <2>1
<1>12. ASSUME NEW unsent \in BOOLEAN, CleanStart(d, unsent)  PROVE NotDrain(cleaner'[d])
  <2>1. CleanRuns(d, Cleaning("clean", IF unsent THEN {} ELSE Deletable \ done))
    BY <1>12, CleanSteps
  <2>2. (IF unsent THEN {} ELSE Deletable \ done) \in SUBSET Nat
    BY ConstantsAreTyped DEF Deletable, Upload
  <2> QED  BY <1>1, <1>3, <2>1, <2>2
<1> QED  BY <1>6, <1>7, <1>8, <1>9, <1>10, <1>11, <1>12 DEF CleaningUp

\* A device that drains has drained the same webhook before, or begins with it.
GoesOnDraining(d) ==
  /\ cleaner[d] # None /\ cleaner[d].at \in DrainSteps /\ cleaner'[d].hook = cleaner[d].hook
  /\ client'[d].knows = client[d].knows
  /\ \/ cleaner'[d] = cleaner[d]
     \/ \E loads \in BOOLEAN : DrainLoad(d, loads)
     \/ DrainPiece(d) /\ cleaner'[d] = [cleaner[d] EXCEPT !.at = "drainManifest"]
     \/ DrainManifest(d) /\ cleaner'[d] = [cleaner[d] EXCEPT !.at = "drain", !.todo = @ \ {cleaner[d].manifest}]

StartsDraining(d, h, unread) ==
  /\ DrainStart(d, h, unread) /\ client'[d].knows = client[d].knows
  /\ cleaner'[d].hook = h /\ cleaner'[d].at = "drain" /\ cleaner'[d].todo = Replaced(h)

\* That is all that leads to a drain.
LEMMA NextDrains ==
  ASSUME Typing, Names, Positions, [Next]_vars, NEW d \in Device, cleaner'[d] # None, cleaner'[d].at \in DrainSteps
  PROVE  GoesOnDraining(d) \/ \E h \in Hook, unread \in BOOLEAN : StartsDraining(d, h, unread)
<1>1. CleanerGoes(d)
  BY NextCleaners
<1>2. cleaner[d] # None => cleaner[d] \in CleanRun
  BY DEF Typing, CleanerTypes
<1>3. CASE client'[d].knows = client[d].knows /\ cleaner'[d] = cleaner[d]
  BY <1>3 DEF GoesOnDraining
<1>4. CASE client'[d].knows = client[d].knows /\ Draining(d)
  <2>1. ASSUME NEW r, CleanRuns(d, r)  PROVE cleaner'[d] = r
    BY <2>1 DEF CleanRuns
  <2>2. ASSUME NEW h \in Hook, NEW unread \in BOOLEAN, DrainStart(d, h, unread)  PROVE StartsDraining(d, h, unread)
    <3>1. cleaner'[d] = [Cleaning("drain", Replaced(h)) EXCEPT !.hook = h]
      BY <2>1, <2>2, DrainStepsRun
    <3> QED  BY <1>4, <2>2, <3>1 DEF StartsDraining, Cleaning
  <2>3. ASSUME NEW loads \in BOOLEAN, DrainLoad(d, loads)  PROVE GoesOnDraining(d)
    <3>1. DrainLoadRuns(d, loads)
      BY <2>3, DrainLoadSteps
    <3>2. \E m, at : CleanRuns(d, [cleaner[d] EXCEPT !.manifest = m, !.at = at])
      BY <3>1 DEF DrainLoadRuns
    <3>3. cleaner[d] # None /\ cleaner[d].at = "drain"
      BY <3>1 DEF DrainLoadRuns
    <3>4. cleaner'[d].hook = cleaner[d].hook
      BY <1>2, <2>1, <3>2, <3>3 DEF CleanRun
    <3> QED  BY <1>4, <2>3, <3>3, <3>4 DEF GoesOnDraining, DrainSteps
  <2>4. CASE DrainPiece(d)
    <3>1. cleaner'[d] = [cleaner[d] EXCEPT !.at = "drainManifest"] /\ cleaner[d] # None /\ cleaner[d].at = "drainPiece"
      BY <2>1, <2>4, DrainStepsRun DEF DrainPiece
    <3> QED  BY <1>2, <1>4, <2>4, <3>1 DEF GoesOnDraining, CleanRun, DrainSteps
  <2>5. CASE DrainManifest(d)
    <3>1. /\ cleaner'[d] = [cleaner[d] EXCEPT !.at = "drain", !.todo = @ \ {cleaner[d].manifest}]
          /\ cleaner[d] # None /\ cleaner[d].at = "drainManifest"
      BY <2>1, <2>5, DrainStepsRun DEF DrainManifest
    <3> QED  BY <1>2, <1>4, <2>5, <3>1 DEF GoesOnDraining, CleanRun, DrainSteps
  <2>6. CASE DrainFinish(d) \/ DrainFails(d) \/ DrainsEnd(d)
    <3>1. cleaner'[d] = Cleaning("drains", {}) \/ cleaner'[d] = None
      BY <2>1, <2>6, DrainStepsRun
    <3>2. Cleaning("drains", {}).at = "drains"
      BY DEF Cleaning
    <3> QED  BY <3>1, <3>2 DEF DrainSteps
  <2> QED  BY <1>4, <2>2, <2>3, <2>4, <2>5, <2>6 DEF Draining
<1> QED  BY <1>1, <1>3, <1>4, CleansAt DEF CleanerGoes

\* Marks are kept: what a mark says is so when it is worked out, and stays so.
LEMMA MarksKept ==
  ASSUME Typing, Names, Positions, MarksInv, [Next]_vars
  PROVE  MarksInv'
<1>1. Base /\ Grows /\ HeadSeq \in Nat
  BY NextGrows, NamesAreMessages DEF Base, Typing, RunsTyped
<1>2. ASSUME NEW h \in Hook  PROVE vault[h].from \in Nat /\ vault[h].to \in 0 .. HeadSeq
  BY <1>1 DEF Typing, VaultTypes, Positions
<1>3. ASSUME NEW d \in Device, mover[d].at = "mark"
      PROVE  mover[d].drain \in Drain /\ mover[d].drain.from \in Nat /\ mover[d].drain.to \in 0 .. HeadSeq /\ mover[d].hook \in Hook
  BY <1>1, <1>3 DEF Typing, MoverTypes, Positions, Drain
<1>4. ASSUME NEW h \in Hook, NEW from \in Nat, NEW to \in 0 .. HeadSeq, MarkInv(h, from, to)
      PROVE  MarkInv(h, from, to)'
  BY <1>1, <1>4, MarkOn
<1>5. ASSUME NEW h \in Hook, vault'[h].state \in {"drain", "moved"}
      PROVE  MarkInv(h, vault[h].from, vault[h].to)'
  <2>1. CASE vault[h].state \in {"drain", "moved"} /\ vault'[h].from = vault[h].from /\ vault'[h].to = vault[h].to
    <3>1. MarkInv(h, vault[h].from, vault[h].to)
      BY <2>1 DEF MarksInv
    <3>2. PICK from \in Nat, to \in 0 .. HeadSeq : from = vault[h].from /\ to = vault[h].to
      BY <1>2
    <3>3. MarkInv(h, from, to)'
      BY <1>4, <3>1, <3>2
    <3> QED  BY <2>1, <3>2, <3>3
  <2>2. CASE \E d \in Device : mover[d].at = "mark" /\ mover[d].hook = h /\ vault'[h] = mover[d].drain
    <3>1. PICK d \in Device : mover[d].at = "mark" /\ mover[d].hook = h /\ vault'[h] = mover[d].drain
      BY <2>2
    <3>2. MarkInv(h, mover[d].drain.from, mover[d].drain.to)
      BY <3>1 DEF MarksInv
    <3>3. PICK from \in Nat, to \in 0 .. HeadSeq : from = mover[d].drain.from /\ to = mover[d].drain.to
      BY <1>3, <3>1
    <3>4. MarkInv(h, from, to)'
      BY <1>4, <3>2, <3>3
    <3> QED  BY <3>1, <3>3, <3>4
  <2>3. ASSUME NEW s, vault'[h] = [vault[h] EXCEPT !.state = s]
        PROVE  vault'[h].state = s /\ vault'[h].from = vault[h].from /\ vault'[h].to = vault[h].to
    BY <2>3 DEF Typing, VaultTypes
  <2>4. ASSUME NEW d \in Device, cleaner[d].at = "drain", cleaner[d] # None, cleaner[d].hook = h,
               vault'[h] = [vault[h] EXCEPT !.state = "moved"]
        PROVE  MarkInv(h, vault[h].from, vault[h].to)'
    <3>1. vault[h].state \in {"drain", "moved"}
      BY <2>4 DEF MarksInv, DrainSteps
    <3> QED  BY <2>1, <2>3, <2>4, <3>1
  <2>5. CASE vault'[h] = [vault[h] EXCEPT !.state = "retired"]
    BY <1>5, <2>3, <2>5
  <2>6. CASE vault'[h] = vault[h]
    BY <1>5, <2>1, <2>6
  <2> QED  BY <2>2, <2>4, <2>5, <2>6, NextVault DEF VaultGoes
<1>6. ASSUME NEW h \in Hook, vault'[h].state = "moved", <<"bases", h>> \notin missed'
      PROVE  vault'[h].to <= Oldest'
  <2>1. Oldest \in Nat /\ Oldest' \in Nat /\ Oldest' >= Oldest /\ missed \subseteq missed'
    <3>1. HeadSeq' \in Nat
      BY <1>1, StepKeeps DEF Grows, GrowsOn
    <3> QED  BY <1>1, <3>1 DEF Grows
  <2> HIDE DEF Oldest
  <2>2. CASE vault[h].to <= Oldest /\ vault'[h].to = vault[h].to
    BY <1>2, <2>1, <2>2
  <2>3. CASE vault'[h] = vault[h]
    BY <1>6, <2>1, <2>2, <2>3 DEF MarksInv
  <2>4. ASSUME NEW s, vault'[h] = [vault[h] EXCEPT !.state = s]
        PROVE  vault'[h].state = s /\ vault'[h].to = vault[h].to
    BY <2>4 DEF Typing, VaultTypes
  <2>5. ASSUME NEW d \in Device, DrainFinish(d), cleaner[d].hook = h, vault'[h] = [vault[h] EXCEPT !.state = "moved"]
        PROVE  vault'[h].to <= Oldest'
    <3>1. missed' = IF vault[h].to > Oldest THEN missed \cup {<<"bases", h>>} ELSE missed
      BY <2>5 DEF DrainFinish
    <3>2. ~(vault[h].to > Oldest)
      BY <1>6, <3>1
    <3> QED  BY <1>2, <2>1, <2>2, <2>4, <2>5, <3>2
  <2>6. CASE \E d \in Device : mover[d].at = "mark" /\ vault'[h] = mover[d].drain
    BY <1>3, <1>6, <2>6 DEF Drain
  <2>7. CASE vault'[h] = [vault[h] EXCEPT !.state = "retired"]
    BY <1>6, <2>4, <2>7
  <2> QED  BY <2>3, <2>5, <2>6, <2>7, NextVault DEF VaultGoes
<1>7. ASSUME NEW d \in Device, mover'[d].at = "mark"
      PROVE  MarkInv(mover[d].hook, mover[d].drain.from, mover[d].drain.to)'
  <2>1. CASE mover'[d] = mover[d]
    <3>1. PICK h \in Hook, from \in Nat, to \in 0 .. HeadSeq :
            h = mover[d].hook /\ from = mover[d].drain.from /\ to = mover[d].drain.to
      BY <1>3, <1>7, <2>1
    <3>2. MarkInv(h, from, to)
      BY <1>7, <2>1, <3>1 DEF MarksInv
    <3>3. MarkInv(h, from, to)'
      BY <1>4, <3>2
    <3> QED  BY <2>1, <3>1, <3>3
  <2>2. CASE /\ VersionsAt(mover[d].hook) = {} /\ mover[d].at = "settle"
             /\ mover'[d] = [mover[d] EXCEPT !.at = "mark", !.drain = Drained(mover[d].from)]
    <3>1. PICK h \in Hook, from \in Nat, to \in 0 .. HeadSeq : h = mover[d].hook /\ from = mover[d].from /\ to = HeadSeq
      BY <1>1, <2>2 DEF Typing, MoverTypes, MoveRun
    <3>2. mover'[d].hook = h /\ mover'[d].drain = Drained(mover[d].from)
      BY <2>2, <3>1 DEF Typing, MoverTypes, MoveRun
    <3>3. mover'[d].drain.from = from /\ mover'[d].drain.to = to
      BY <3>1, <3>2 DEF Drained
    <3>4. MarkInv(h, from, to)
      BY <1>1, <2>2, <3>1, MarkMade
    <3>5. MarkInv(h, from, to)'
      BY <1>4, <3>4
    <3> QED  BY <3>2, <3>3, <3>5
  <2>3. \A h \in Hook : mover'[d] = [NoMove EXCEPT !.at = "files", !.hook = h, !.from = MoveFrom(d, h)] => mover'[d].at = "files"
    BY DEF NoMove
  <2>4. mover'[d] = [NoMove EXCEPT !.at = "done", !.hook = mover[d].hook] => mover'[d].at = "done"
    BY DEF NoMove
  <2> QED  BY <1>7, <2>1, <2>2, <2>3, <2>4, NextMovers DEF MoverGoes
<1>8. ASSUME NEW h \in Hook, vault[h].state \in {"drain", "moved"}  PROVE vault'[h].state \in {"drain", "moved"}
  <2>1. vault'[h] = [vault[h] EXCEPT !.state = "moved"] => vault'[h].state = "moved"
    BY DEF Typing, VaultTypes
  <2>2. CASE vault'[h] = vault[h]
    BY <1>8, <2>2
  <2>3. ASSUME NEW d \in Device, mover[d].at = "mark", vault'[h] = mover[d].drain  PROVE vault'[h].state = "drain"
    BY <1>3, <2>3 DEF Drain
  <2>4. vault[h].state \notin {"active", "retired"}
    BY <1>8
  <2> QED  BY <2>1, <2>2, <2>3, <2>4, NextVault DEF VaultGoes
<1>9. ASSUME NEW d \in Device, cleaner'[d] # None, cleaner'[d].at \in DrainSteps
      PROVE  vault'[cleaner'[d].hook].state \in {"drain", "moved"}
  <2>1. CASE GoesOnDraining(d)
    <3>1. vault[cleaner[d].hook].state \in {"drain", "moved"} /\ cleaner[d].hook \in Hook
      BY <2>1 DEF GoesOnDraining, MarksInv, Typing, CleanerTypes, DrainSteps
    <3> QED  BY <1>8, <2>1, <3>1 DEF GoesOnDraining
  <2>2. ASSUME NEW h \in Hook, NEW unread \in BOOLEAN, StartsDraining(d, h, unread)
        PROVE  vault'[cleaner'[d].hook].state \in {"drain", "moved"}
    <3>1. vault[h].state = "drain" /\ cleaner'[d].hook = h
      BY <2>2 DEF StartsDraining, DrainStart, DrainsByAge, MayDrain
    <3> QED  BY <1>8, <3>1
  <2> QED  BY <1>9, <2>1, <2>2, NextDrains
<1> QED  BY <1>5, <1>6, <1>7, <1>9 DEF MarksInv
-----------------------------------------------------------------------------
(* What is known of a cleaner                                              *)

\* A message is off the vault's webhooks.
Off(p) == p \in live => ~InVault(messages[p].hook)

\* A move of this manifest came too late.
LeftStale(f) == \E i \in 1 .. HeadSeq : \E n \in log[i].moves : n.stale /\ n.from = f

\* Nothing is left of the version, unless a move came too late.
Cleaned(u) == LeftStale(Bound(u, HeadSeq)) \/ \A p \in Parts(Bound(u, HeadSeq)) : Off(p)

\* A manifest that was replaced, and that nobody needs: neither its fragment, if it is on the webhook.
Condemned(h, f) ==
  /\ \E i \in 1 .. HeadSeq : \E n \in log[i].moves : n.from = f /\ f # 0
  /\ Gone(f)
  /\ messages[Piece(f)].hook = h => Gone(Piece(f))

\* What is off stays off.
LEMMA OffStays ==
  ASSUME Base, Grows, NEW p \in Message, Off(p)
  PROVE  Off(p)'
<1>1. messages'[p] = messages[p] /\ messages[p].hook \in Hook
  BY StepKeeps, MessagesAre DEF Base, Grows, GrowsOn, MessagesGrow
<1> QED  BY <1>1 DEF Off, Grows, InVault

\* What was too late was so.
LEMMA LeftStaleStays ==
  ASSUME Base, Grows, NEW f, LeftStale(f)
  PROVE  LeftStale(f)'
<1>1. LogExtends /\ HeadSeq \in Nat /\ HeadSeq' \in Nat /\ HeadSeq' >= HeadSeq
  BY StepKeeps DEF Grows, GrowsOn
<1>2. PICK i \in 1 .. HeadSeq : \E n \in log[i].moves : n.stale /\ n.from = f
  BY DEF LeftStale
<1>3. i \in 1 .. HeadSeq' /\ log'[i] = log[i]
  BY <1>1 DEF LogExtends
<1> QED  BY <1>2, <1>3 DEF LeftStale

\* A released version is bound to a manifest, and to no other any more.
LEMMA ReleasedStays ==
  ASSUME Base, Grows, NEW u \in Upload, NEW s \in 0 .. HeadSeq, Released(u, s)
  PROVE  /\ Released(u, HeadSeq) /\ Released(u, s)' /\ Released(u, HeadSeq)'
         /\ Bound(u, HeadSeq)' = Bound(u, HeadSeq)
         /\ IsManifest(Bound(u, HeadSeq)) /\ WasBound(u, Bound(u, HeadSeq), HeadSeq)
<1>1. MessagesGrow /\ LogExtends /\ HeadSeq \in Nat /\ HeadSeq' \in Nat /\ HeadSeq' >= HeadSeq /\ LogOK
  BY StepKeeps, NamesAreMessages DEF Grows, GrowsOn
<1>2. Released(u, HeadSeq) /\ Released(u, s)'
  <2>1. HeadSeq \in s .. HeadSeq
    BY <1>1
  <2> QED  BY <1>1, <2>1, LaterToo, OldStays
<1>3. Released(u, HeadSeq)'
  <2>1. PICK i \in 1 .. HeadSeq : u \in log[i].ended
    BY <1>2 DEF Released
  <2>2. i \in 1 .. HeadSeq' /\ log'[i] = log[i]
    BY <1>1 DEF LogExtends
  <2> QED  BY <2>1, <2>2 DEF Released
<1>4. Bound(u, HeadSeq) # 0 /\ Current(u, HeadSeq) = 0
  BY <1>2 DEF Base, Names, LogInv, Current
<1>5. IsManifest(Bound(u, HeadSeq)) /\ WasBound(u, Bound(u, HeadSeq), HeadSeq)
  <2>1. WasBound(u, Bound(u, HeadSeq), HeadSeq)
    <3>1. HeadSeq \in 0 .. HeadSeq
      BY <1>1
    <3> QED  BY <1>1, <1>4, <3>1, BoundIs
  <2> QED  BY <2>1, BoundInLog
<1>6. Bound(u, HeadSeq)' = Bound(u, HeadSeq)
  <2>1. CASE log' = log
    BY <1>1, <2>1, QuietLog
  <2>2. CASE Tells
    <3>1. HeadMoves(u) /\ LogGrowth
      BY <2>2, HeadBound, TellsLog
    <3>2. ASSUME HeadSeq' = HeadSeq + 1, NEW n \in log'[HeadSeq + 1].moves, ~n.stale, n.upload = u  PROVE FALSE
      <4>1. NewMove(n)
        BY <1>1, <3>1, <3>2 DEF LogGrowth, Tellable
      <4>2. ASSUME NEW d \in Device, upload[d] # None, n = Bind(upload[d].id, upload[d].manifest)  PROVE FALSE
        <5>1. n.upload = upload[d].id
          BY <4>2 DEF Bind
        <5>2. Bound(upload[d].id, HeadSeq) = 0
          BY <4>2, NamersOwn
        <5> QED  BY <1>4, <3>2, <5>1, <5>2
      <4>3. ASSUME NEW d \in Device, NEW m \in mover[d].moves,
                   n = [upload |-> m.upload, from |-> m.from, to |-> m.to, stale |-> Stale(m)]
            PROVE  FALSE
        <5>1. m.upload = u /\ ~Stale(m) /\ m.from \in Message
          BY <3>2, <4>3, PendingIs
        <5>2. Current(u, HeadSeq) = m.from /\ m.from # 0
          BY <5>1, MessagesAre DEF Stale, Base
        <5> QED  BY <1>4, <5>2
      <4> QED  BY <4>1, <4>2, <4>3 DEF NewMove
    <3> QED  BY <3>1, <3>2 DEF HeadMoves
  <2> QED  BY <2>1, <2>2 DEF Grows, Step, PostsFor, Copies
<1> QED  BY <1>2, <1>3, <1>5, <1>6

\* What is cleaned stays so.
LEMMA CleanedStays ==
  ASSUME Base, Grows, NEW u \in Upload, Released(u, HeadSeq), Cleaned(u)
  PROVE  Cleaned(u)'
<1>1. MessagesGrow /\ HeadSeq \in Nat
  BY StepKeeps DEF Grows, GrowsOn
<1>2. Bound(u, HeadSeq)' = Bound(u, HeadSeq) /\ IsManifest(Bound(u, HeadSeq))
  <2>1. HeadSeq \in 0 .. HeadSeq
    BY <1>1
  <2> QED  BY <2>1, ReleasedStays
<1>3. PICK f : f = Bound(u, HeadSeq)
  OBVIOUS
<1>4. Parts(f)' = Parts(f) /\ Parts(f) \subseteq Message
  BY <1>1, <1>2, <1>3, ManifestStays DEF Base
<1>5. CASE LeftStale(f)
  <2>1. LeftStale(f)'
    BY <1>5, LeftStaleStays
  <2> QED  BY <1>2, <1>3, <2>1 DEF Cleaned
<1>6. CASE \A p \in Parts(f) : Off(p)
  <2>1. \A p \in Parts(f)' : Off(p)'
    BY <1>4, <1>6, OffStays
  <2>2. Parts(f)' = Parts(Bound(u, HeadSeq))'
    BY <1>2, <1>3 DEF Parts
  <2> QED  BY <2>1, <2>2 DEF Cleaned
<1> QED  BY <1>3, <1>5, <1>6 DEF Cleaned

\* What is condemned is a manifest.
LEMMA CondemnedIs ==
  ASSUME Base, NEW h, NEW f, Condemned(h, f)
  PROVE  IsManifest(f) /\ f \in Message /\ Piece(f) \in Message
<1>1. IsManifest(f)
  BY ReplacedGone DEF Condemned
<1> QED  BY <1>1, ManifestOrPiece

\* What is condemned stays so.
LEMMA CondemnedStays ==
  ASSUME Base, Grows, NEW h, NEW f, Condemned(h, f)
  PROVE  Condemned(h, f)'
<1>1. MessagesGrow /\ LogExtends /\ HeadSeq \in Nat /\ HeadSeq' \in Nat /\ HeadSeq' >= HeadSeq
  BY StepKeeps DEF Grows, GrowsOn
<1>2. IsManifest(f) /\ f \in Message /\ Piece(f) \in Message
  BY CondemnedIs
<1>3. Gone(f)'
  BY <1>2, GoneOn DEF Condemned
<1>4. Piece(f)' = Piece(f) /\ messages'[Piece(f)] = messages[Piece(f)]
  BY <1>1, <1>2, ManifestStays DEF Base
<1>5. ASSUME NEW q, q = Piece(f), Gone(q)  PROVE Gone(q)'
  BY <1>2, <1>5, GoneOn
<1>6. messages'[Piece(f)'].hook = h => Gone(Piece(f))'
  BY <1>4, <1>5 DEF Condemned
<1>7. (\E i \in 1 .. HeadSeq : \E n \in log[i].moves : n.from = f /\ f # 0)'
  <2>1. PICK i \in 1 .. HeadSeq : \E n \in log[i].moves : n.from = f /\ f # 0
    BY DEF Condemned
  <2>2. i \in 1 .. HeadSeq' /\ log'[i] = log[i]
    BY <1>1 DEF LogExtends
  <2> QED  BY <2>1, <2>2
<1> QED  BY <1>3, <1>6, <1>7 DEF Condemned

\* A cleaner's run: what it is at was released before the kept bases, what it has finished is gone.
Cleans(c) ==
  /\ \A u \in c.finished : Released(u, HeadSeq) /\ Cleaned(u)
  /\ c.at \in {"clean", "piece", "manifest"} => \A u \in c.todo : Released(u, Oldest)
  /\ c.at \in {"piece", "manifest"} => Released(c.upload, Oldest) /\ c.manifest = Bound(c.upload, HeadSeq)
  /\ c.at = "manifest" => Off(Piece(c.manifest))

\* A drain's run: nobody needs what it has still to delete.
Drains(c) ==
  /\ c.at \in DrainSteps => \A f \in c.todo : Condemned(c.hook, f)
  /\ c.at \in {"drainPiece", "drainManifest"} => c.manifest \in c.todo
  /\ c.at = "drainPiece" => messages[Piece(c.manifest)].hook = c.hook

Gathered(u) ==
  Bound(u, HeadSeq) # 0 /\ Bound(u, HeadSeq) \notin live =>
    LeftStale(Bound(u, HeadSeq)) \/ Off(Piece(Bound(u, HeadSeq)))

CleanInv ==
  /\ \A u \in done : Released(u, HeadSeq) /\ Cleaned(u)
  /\ \A u \in Upload : Gathered(u)
  /\ \A d \in Device : \A h \in Hook : h \notin client[d].knows => ~InVault(h)
  /\ \A d \in Device : cleaner[d] # None =>
       /\ Cleans(cleaner[d]) /\ Drains(cleaner[d])
       /\ cleaner[d].at \in DrainSteps => cleaner[d].hook \in client[d].knows

\* A step deletes what a cleaner or a drain is at, or nothing.
LiveGoes ==
  \/ live \subseteq live'
  \/ \E d \in Device : \E p :
       /\ live' = live \ {p} /\ log' = log /\ messages' = messages /\ cleaner[d] # None
       /\ \/ CleanPiece(d) /\ cleaner[d].at = "piece" /\ p = Piece(cleaner[d].manifest)
          \/ CleanManifest(d) /\ cleaner[d].at = "manifest" /\ p = cleaner[d].manifest
          \/ DrainPiece(d) /\ cleaner[d].at = "drainPiece" /\ p = Piece(cleaner[d].manifest)
          \/ DrainManifest(d) /\ cleaner[d].at = "drainManifest" /\ p = cleaner[d].manifest

\* That is all that deletes.
LEMMA NextLive ==
  ASSUME [Next]_vars
  PROVE  LiveGoes
<1>1. CASE live' = live
  BY <1>1 DEF LiveGoes
<1>2. CASE UNCHANGED vars \/ NextDay \/ \E at \in 1 .. MaxLog : TakeBase(at)
  BY <1>1, <1>2 DEF vars, discord, NextDay, TakeBase
<1>3. ASSUME NEW d \in Device, Reopen(d) \/ (\E u \in Upload : Release(d, u)) \/ Uploading(d)  PROVE LiveGoes
  <2>1. ASSUME NEW h, NEW p, Post(d, h, p)  PROVE LiveGoes
    BY <2>1 DEF Post, LiveGoes
  <2> QED  BY <1>1, <1>3, <2>1 DEF Reopen, Release, Uploading, UploadPiece, UploadManifest, UploadCommit, discord
<1>4. ASSUME NEW d \in Device, Moving(d)  PROVE LiveGoes
  <2>1. ASSUME NEW h, NEW g, MoveCopy(d, h, g)  PROVE live \subseteq live'
    BY <2>1 DEF MoveCopy
  <2> QED  BY <1>1, <1>4, <2>1 DEF Moving, MoveStart, MoveMark, MoveBatch, MoveCommit, MoveCheck, MoveFails, discord, LiveGoes
<1>5. ASSUME NEW d \in Device, NEW p, Delete(d, p), log' = log, messages' = messages, cleaner[d] # None,
             \/ CleanPiece(d) /\ cleaner[d].at = "piece" /\ p = Piece(cleaner[d].manifest)
             \/ CleanManifest(d) /\ cleaner[d].at = "manifest" /\ p = cleaner[d].manifest
             \/ DrainPiece(d) /\ cleaner[d].at = "drainPiece" /\ p = Piece(cleaner[d].manifest)
             \/ DrainManifest(d) /\ cleaner[d].at = "drainManifest" /\ p = cleaner[d].manifest
      PROVE  LiveGoes
  BY <1>1, <1>5 DEF Delete, LiveGoes
<1>6. ASSUME NEW d \in Device, CleaningUp(d)  PROVE LiveGoes
  <2>1. CASE CleanPiece(d)
    BY <1>5, <2>1 DEF CleanPiece, account, Piece
  <2>2. CASE CleanManifest(d)
    BY <1>5, <2>2 DEF CleanManifest, account
  <2> QED  BY <1>1, <1>6, <2>1, <2>2 DEF CleaningUp, CleanStart, CleanNext, CleanFails, CleanRecord, CleanEnd, discord
<1>7. ASSUME NEW d \in Device, Draining(d)  PROVE LiveGoes
  <2>1. CASE DrainPiece(d)
    BY <1>5, <2>1 DEF DrainPiece, account, Piece
  <2>2. CASE DrainManifest(d)
    BY <1>5, <2>2 DEF DrainManifest, account
  <2> QED  BY <1>1, <1>7, <2>1, <2>2 DEF Draining, DrainStart, DrainLoad, DrainFinish, DrainFails, DrainsEnd, discord
<1> QED  BY <1>2, <1>3, <1>4, <1>6, <1>7 DEF Next

\* What a cleaner or a drain deletes, nobody needs.
LEMMA DeletedGone ==
  ASSUME Typing, Names, Positions, LiveInv, CleanInv, [Next]_vars, NEW q \in Message, q \notin live'
  PROVE  Gone(q)
<1>1. Base /\ Grows /\ HeadSeq \in Nat /\ LogOK
  BY NextGrows, NamesAreMessages DEF Base, Typing, RunsTyped
<1>2. ASSUME NEW d \in Device, cleaner[d] # None
      PROVE  Cleans(cleaner[d]) /\ Drains(cleaner[d]) /\ (cleaner[d].at \in {"piece", "manifest"} => cleaner[d].upload \in Upload)
  BY <1>2 DEF CleanInv, Typing, CleanerTypes
<1>3. ASSUME NEW u \in Upload, Released(u, Oldest), NEW m, m = Bound(u, HeadSeq)
      PROVE  Gone(m) /\ Gone(Piece(m))
  <2>1. PICK s \in 0 .. HeadSeq : s = Oldest
    BY OldestIs
  <2>2. IsManifest(m) /\ WasBound(u, m, HeadSeq)
    BY <1>1, <1>3, <2>1, ReleasedStays
  <2>3. ASSUME NEW p \in Message, Owns(u, p)  PROVE Gone(p)
    <3>1. GoneSince(p, s)
      BY <1>1, <1>3, <2>1, <2>3, ReleasedGone
    <3>2. GoneSince(p, HeadSeq)
      BY <1>1, <3>1, GoneLater
    <3> QED  BY <2>1, <3>1, <3>2 DEF Gone
  <2> QED  BY <1>1, <2>2, <2>3, BoundInLog
<1>4. ASSUME NEW d \in Device, NEW p, cleaner[d] # None,
             \/ CleanPiece(d) /\ cleaner[d].at = "piece" /\ p = Piece(cleaner[d].manifest)
             \/ CleanManifest(d) /\ cleaner[d].at = "manifest" /\ p = cleaner[d].manifest
             \/ DrainPiece(d) /\ cleaner[d].at = "drainPiece" /\ p = Piece(cleaner[d].manifest)
             \/ DrainManifest(d) /\ cleaner[d].at = "drainManifest" /\ p = cleaner[d].manifest
      PROVE  Gone(p)
  <2>1. CASE cleaner[d].at \in {"piece", "manifest"}
    <3>1. /\ Released(cleaner[d].upload, Oldest) /\ cleaner[d].manifest = Bound(cleaner[d].upload, HeadSeq)
          /\ cleaner[d].upload \in Upload
      BY <1>2, <1>4, <2>1 DEF Cleans
    <3>2. Gone(cleaner[d].manifest) /\ Gone(Piece(cleaner[d].manifest))
      BY <1>3, <3>1
    <3> QED  BY <1>4, <2>1, <3>2
  <2>2. CASE cleaner[d].at \in {"drainPiece", "drainManifest"}
    <3>1. Condemned(cleaner[d].hook, cleaner[d].manifest)
      BY <1>2, <1>4, <2>2 DEF Drains, DrainSteps
    <3>2. cleaner[d].at = "drainPiece" => messages[Piece(cleaner[d].manifest)].hook = cleaner[d].hook
      BY <1>2, <1>4 DEF Drains
    <3> QED  BY <1>4, <2>2, <3>1, <3>2 DEF Condemned
  <2> QED  BY <1>4, <2>1, <2>2
<1> QED  BY <1>4, NextLive DEF LiveGoes, LiveInv

\* So LiveInv is kept.
LEMMA LiveInvKept ==
  ASSUME Typing, Names, Positions, LiveInv, CleanInv, [Next]_vars
  PROVE  LiveInv'
<1>1. Base /\ Grows
  BY NextGrows DEF Base, Typing, RunsTyped
<1>2. \A p \in live : p \in Message => p \in live' \/ Gone(p)
  BY DeletedGone
<1> QED  BY <1>1, <1>2, LiveKept

\* A manifest that is condemned and still its upload's was moved too late.
LEMMA CondemnedBound ==
  ASSUME Base, NEW u \in Upload, NEW h, NEW f, f = Bound(u, HeadSeq), f # 0, Condemned(h, f)
  PROVE  LeftStale(f)
<1>1. HeadSeq \in Nat /\ LogOK
  BY NamesAreMessages
<1>2. PICK i \in 1 .. HeadSeq : \E n \in log[i].moves : n.from = f
  BY DEF Condemned
<1>3. PICK n \in log[i].moves : n.from = f
  BY <1>2
<1>4. CASE n.stale
  BY <1>3, <1>4 DEF LeftStale
<1>5. CASE ~n.stale
  <2>1. n.upload \in Upload /\ WasBound(n.upload, f, HeadSeq)
    BY <1>3, ReplacedGone
  <2>2. WasBound(u, f, HeadSeq)
    <3>1. HeadSeq \in 0 .. HeadSeq
      BY <1>1
    <3> QED  BY <1>1, <3>1, BoundIs
  <2>3. Owns(u, f) /\ Owns(n.upload, f) /\ f \in Message
    BY <2>1, <2>2, BoundInLog
  <2>4. n.upload = u
    BY <2>1, <2>3, OneOwner
  <2>5. WasBound(u, n.to, HeadSeq)
    BY <1>5, <2>4 DEF WasBound
  <2>6. n.to <= f /\ n.to \in Message
    <3>1. HeadSeq \in 0 .. HeadSeq
      BY <1>1
    <3> QED  BY <1>1, <2>5, <3>1, BoundIs
  <2>7. n.from < n.to
    BY <1>3 DEF Base, Names, LogInv, Logged
  <2> QED  BY <1>3, <2>3, <2>6, <2>7, MessagesAre DEF Base
<1> QED  BY <1>4, <1>5

\* The manifest of an upload is deleted after its fragment.
LEMMA GatheredKept ==
  ASSUME Typing, Names, Positions, LiveInv, CleanInv, [Next]_vars, NEW u \in Upload
  PROVE  Gathered(u)'
<1>1. Base /\ Grows /\ HeadSeq \in Nat /\ LogOK /\ MessagesGrow
  BY NextGrows, NamesAreMessages, StepKeeps DEF Base, Typing, RunsTyped, Grows, GrowsOn
<1> SUFFICES ASSUME Bound(u, HeadSeq)' # 0, Bound(u, HeadSeq)' \notin live'
             PROVE  (LeftStale(Bound(u, HeadSeq)) \/ Off(Piece(Bound(u, HeadSeq))))'
  BY DEF Gathered
<1>2. CASE Released(u, HeadSeq)
  <2>1. PICK f : f = Bound(u, HeadSeq)
    OBVIOUS
  <2>2. Bound(u, HeadSeq)' = f /\ IsManifest(f)
    <3>1. HeadSeq \in 0 .. HeadSeq
      BY <1>1
    <3> QED  BY <1>1, <1>2, <2>1, <3>1, ReleasedStays
  <2>3. f \in Message /\ Piece(f) \in Message /\ Piece(f)' = Piece(f)
    BY <1>1, <2>2, ManifestStays DEF Base
  <2>4. CASE LeftStale(f)
    <3>1. LeftStale(f)'
      BY <1>1, <2>4, LeftStaleStays
    <3> QED  BY <2>2, <3>1
  <2>5. CASE Off(Piece(f))
    <3>1. PICK p \in Message : p = Piece(f)
      BY <2>3
    <3>2. Off(p)'
      BY <1>1, <2>5, <3>1, OffStays
    <3>3. Piece(Bound(u, HeadSeq))' = p
      BY <2>2, <2>3, <3>1 DEF Piece
    <3> QED  BY <3>2, <3>3
  <2>6. CASE f \notin live
    BY <2>1, <2>2, <2>4, <2>5, <2>6 DEF CleanInv, Gathered
  <2>7. ASSUME NEW d \in Device, cleaner[d] # None, cleaner[d].at \in {"piece", "manifest"}
        PROVE  IsManifest(cleaner[d].manifest)
    <3>1. Cleans(cleaner[d]) /\ cleaner[d].upload \in Upload
      BY <2>7 DEF CleanInv, Typing, CleanerTypes
    <3>2. Released(cleaner[d].upload, Oldest) /\ cleaner[d].manifest = Bound(cleaner[d].upload, HeadSeq)
      BY <2>7, <3>1 DEF Cleans
    <3>3. PICK s \in 0 .. HeadSeq : s = Oldest
      BY OldestIs
    <3> QED  BY <1>1, <3>1, <3>2, <3>3, ReleasedStays
  <2>8. ASSUME NEW d \in Device, cleaner[d] # None, cleaner[d].at \in {"drainPiece", "drainManifest"}
        PROVE  Condemned(cleaner[d].hook, cleaner[d].manifest)
    <3>1. Drains(cleaner[d])
      BY <2>8 DEF CleanInv
    <3> QED  BY <2>8, <3>1 DEF Drains, DrainSteps
  <2>9. ASSUME NEW m, IsManifest(m)  PROVE f # Piece(m)
    BY <1>1, <2>2, <2>9, ManifestOrPiece
  <2>10. ASSUME NEW d \in Device, cleaner[d] # None, cleaner[d].at = "manifest", f = cleaner[d].manifest
         PROVE  Off(Piece(f))
    BY <2>10 DEF CleanInv, Cleans
  <2>11. ASSUME NEW d \in Device, cleaner[d] # None, cleaner[d].at = "drainManifest", f = cleaner[d].manifest
         PROVE  LeftStale(f)
    BY <1>1, <2>1, <2>2, <2>8, <2>11, CondemnedBound
  <2>12. ASSUME NEW d \in Device, cleaner[d] # None, cleaner[d].at \in {"piece", "drainPiece"}
         PROVE  f # Piece(cleaner[d].manifest)
    <3>1. IsManifest(cleaner[d].manifest)
      BY <1>1, <2>7, <2>8, <2>12, CondemnedIs
    <3> QED  BY <2>9, <3>1
  <2>13. CASE f \in live
    <3>1. PICK d \in Device : \E p : /\ live' = live \ {p} /\ cleaner[d] # None
            /\ \/ cleaner[d].at = "piece" /\ p = Piece(cleaner[d].manifest)
               \/ cleaner[d].at = "manifest" /\ p = cleaner[d].manifest
               \/ cleaner[d].at = "drainPiece" /\ p = Piece(cleaner[d].manifest)
               \/ cleaner[d].at = "drainManifest" /\ p = cleaner[d].manifest
      BY <2>2, <2>13, NextLive DEF LiveGoes
    <3> QED  BY <2>2, <2>4, <2>5, <2>10, <2>11, <2>12, <2>13, <3>1
  <2> QED  BY <2>6, <2>13
<1>3. CASE ~Released(u, HeadSeq)
  <2>1. ASSUME NEW p \in Message, p = Bound(u, HeadSeq)'  PROVE GoneSince(p, HeadSeq)
    BY <2>1, DeletedGone DEF Gone
  <2>2. CASE Bound(u, HeadSeq)' = Bound(u, HeadSeq)
    <3>1. Current(u, HeadSeq) = Bound(u, HeadSeq)
      BY <1>3 DEF Current
    <3>2. PICK p \in Message : p = Bound(u, HeadSeq)
      <4>1. HeadSeq \in 0 .. HeadSeq
        BY <1>1
      <4> QED  BY <1>1, <2>2, <4>1, BoundIs
    <3>3. GoneSince(p, HeadSeq) /\ HeadSeq \in HeadSeq .. HeadSeq
      BY <1>1, <2>1, <2>2, <3>2
    <3>4. p \in Parts(p)
      BY DEF Parts
    <3> QED  BY <2>2, <3>1, <3>2, <3>3, <3>4 DEF GoneSince
  <2>3. CASE Bound(u, HeadSeq)' # Bound(u, HeadSeq)
    <3>1. Tells
      <4>1. log' # log
        BY <1>1, <2>3, QuietLog
      <4> QED  BY <1>1, <4>1 DEF Grows, Step, PostsFor, Copies
    <3>2. PICK n \in log'[HeadSeq + 1].moves : ~n.stale /\ n.to = Bound(u, HeadSeq)' /\ HeadSeq' = HeadSeq + 1
      BY <1>1, <2>3, <3>1, HeadBound DEF HeadMoves
    <3>3. NewMove(n)
      <4>1. LogGrowth
        BY <1>1, <3>1, TellsLog
      <4> QED  BY <1>1, <3>2, <4>1 DEF LogGrowth, Tellable
    <3>4. n.to \in Message
      BY <1>1, <3>3, NewMovesAdvance
    <3>5. PICK p \in Message : p = n.to
      BY <3>4
    <3>6. GoneSince(p, HeadSeq)
      BY <2>1, <3>2, <3>5
    <3>7. ASSUME NEW d \in Device, upload[d] # None, n = Bind(upload[d].id, upload[d].manifest)  PROVE FALSE
      BY <3>5, <3>6, <3>7 DEF Bind, GoneSince
    <3>8. ASSUME NEW d \in Device, NEW m \in mover[d].moves,
                 n = [upload |-> m.upload, from |-> m.from, to |-> m.to, stale |-> Stale(m)]
          PROVE  FALSE
      <4>1. ~Stale(m) /\ m.to = p
        BY <3>2, <3>5, <3>8
      <4> QED  BY <3>6, <4>1 DEF GoneSince, Parts
    <3> QED  BY <3>3, <3>7, <3>8 DEF NewMove
  <2> QED  BY <2>2, <2>3
<1> QED  BY <1>2, <1>3

\* What a run of the cleaner rests on stays so.
LEMMA CleansOn ==
  ASSUME Base, Grows, NEW c \in CleanRun, Cleans(c),
         c.at \in {"clean", "piece", "manifest"} => c.todo \subseteq Upload,
         c.at \in {"piece", "manifest"} => c.upload \in Upload
  PROVE  Cleans(c)'
<1>1. HeadSeq \in Nat /\ HeadSeq' \in Nat /\ MessagesGrow
  BY StepKeeps DEF Grows, GrowsOn
<1>2. c.finished \subseteq Upload /\ HeadSeq \in 0 .. HeadSeq
  BY <1>1 DEF CleanRun
<1>3. \A u \in c.finished : Released(u, HeadSeq)' /\ Cleaned(u)'
  BY <1>2, ReleasedStays, CleanedStays DEF Cleans
<1>4. ASSUME NEW u \in Upload, Released(u, Oldest)
      PROVE  /\ Released(u, Oldest)' /\ Bound(u, HeadSeq)' = Bound(u, HeadSeq) /\ IsManifest(Bound(u, HeadSeq))
  <2>1. PICK s \in 0 .. HeadSeq : s = Oldest
    BY DEF Grows
  <2>2. PICK t \in 0 .. HeadSeq' : t = Oldest' /\ t >= s
    BY <2>1 DEF Grows
  <2>3. Released(u, s)' /\ Bound(u, HeadSeq)' = Bound(u, HeadSeq) /\ IsManifest(Bound(u, HeadSeq))
    BY <1>4, <2>1, ReleasedStays
  <2>4. \A i \in 1 .. s : i \in 1 .. t
    BY <1>1, <2>2
  <2>5. Released(u, t)'
    BY <2>3, <2>4 DEF Released
  <2> QED  BY <2>2, <2>3, <2>5 DEF Released
<1>5. c.at \in {"clean", "piece", "manifest"} => \A u \in c.todo : Released(u, Oldest)'
  BY <1>4 DEF Cleans
<1>6. c.at \in {"piece", "manifest"} => Released(c.upload, Oldest)' /\ c.manifest = Bound(c.upload, HeadSeq)'
  BY <1>4 DEF Cleans
<1>7. ASSUME c.at = "manifest"  PROVE Off(Piece(c.manifest))'
  <2>1. IsManifest(c.manifest)
    BY <1>4, <1>7 DEF Cleans
  <2>2. PICK p \in Message : p = Piece(c.manifest)
    BY <2>1, ManifestOrPiece
  <2>3. p = Piece(c.manifest)'
    BY <1>1, <2>1, <2>2, ManifestStays DEF Base
  <2>4. Off(p)'
    BY <1>7, <2>2, OffStays DEF Cleans
  <2> QED  BY <2>3, <2>4
<1> QED  BY <1>3, <1>5, <1>6, <1>7 DEF Cleans

\* And what a drain rests on.
LEMMA DrainsOn ==
  ASSUME Base, Grows, NEW c, Drains(c)
  PROVE  Drains(c)'
<1>1. MessagesGrow
  BY StepKeeps DEF Grows, GrowsOn
<1>2. \A f \in c.todo : Condemned(c.hook, f) => Condemned(c.hook, f)'
  BY CondemnedStays
<1>3. ASSUME c.at = "drainPiece"  PROVE messages'[Piece(c.manifest)'].hook = c.hook
  <2>1. Condemned(c.hook, c.manifest) /\ messages[Piece(c.manifest)].hook = c.hook
    BY <1>3 DEF Drains, DrainSteps
  <2>2. Piece(c.manifest)' = Piece(c.manifest) /\ messages'[Piece(c.manifest)] = messages[Piece(c.manifest)]
    BY <1>1, <2>1, CondemnedIs, ManifestStays DEF Base
  <2> QED  BY <2>1, <2>2
<1> QED  BY <1>2, <1>3 DEF Drains

\* A webhook of the vault is known to every device that is not in the vault any more when it is forgotten.
LEMMA KnownKept ==
  ASSUME Typing, Names, Positions, CleanInv, [Next]_vars, NEW d \in Device, NEW h \in Hook, h \notin client'[d].knows
  PROVE  ~InVault(h)'
<1>1. Grows
  BY NextGrows
<1>2. CASE client'[d].knows = client[d].knows
  BY <1>1, <1>2 DEF CleanInv, Grows, InVault
<1>3. CASE Reopen(d)
  <2>1. client'[d].knows = {g \in Hook : InVault(g)} /\ vault' = vault
    BY <1>3 DEF Reopen, Typing, VaultTypes
  <2> QED  BY <2>1 DEF InVault
<1> QED  BY <1>2, <1>3, NextCleaners DEF CleanerGoes

\* What the drain of a webhook is to delete nobody needs.
LEMMA DrainCondemns ==
  ASSUME Typing, Names, Positions, MarksInv, [Next]_vars,
         NEW d \in Device, NEW h \in Hook, NEW unread \in BOOLEAN, DrainStart(d, h, unread), NEW f \in Replaced(h)
  PROVE  Condemned(h, f)'
<1>1. Base /\ Grows /\ HeadSeq \in Nat /\ HeadSeq' \in Nat /\ HeadSeq' >= HeadSeq /\ LogExtends /\ MessagesGrow
  BY NextGrows, StepKeeps DEF Base, Typing, RunsTyped, Grows, GrowsOn
<1>2. PICK to \in 0 .. HeadSeq : to = vault[h].to
  BY <1>1 DEF Typing, VaultTypes, Positions
<1>3. PICK from \in Nat : from = vault[h].from
  BY DEF Typing, VaultTypes
<1>4. PICK i \in (from + 1) .. to : \E m \in log[i].moves : f = m.from
  BY <1>2, <1>3 DEF Replaced
<1>5. PICK n \in log[i].moves : f = n.from
  BY <1>4
<1>6. f # 0 /\ i \in 1 .. HeadSeq
  BY <1>1 DEF Replaced
<1>7. vault[h].state = "drain" /\ missed' = IF unread /\ to > Oldest THEN missed \cup {<<"bases", h>>} ELSE missed
  BY <1>2 DEF DrainStart, DrainsByAge, MayDrain
<1>8. Oldest' \in Nat /\ Oldest \in Nat /\ Oldest' >= Oldest
  BY <1>1 DEF Grows
<1>9. Waited' => to <= Oldest'
  <2>1. Waited' => ~(unread /\ to > Oldest)
    BY <1>7 DEF Waited
  <2>2. ~unread => to <= Oldest
    BY <1>2 DEF DrainStart, MayDrain
  <2> HIDE DEF Oldest
  <2> QED  BY <1>2, <1>8, <2>1, <2>2
<1>10. ASSUME NEW p \in Message, NEW s \in 0 .. HeadSeq, s <= to, GoneSince(p, s)  PROVE Gone(p)'
  <2>1. GoneSince(p, HeadSeq)'
    BY <1>1, <1>10, GoneOnward
  <2>2. ASSUME Waited'  PROVE GoneSince(p, Oldest)'
    <3>1. Oldest' \in Int /\ Oldest' >= s
      <4> HIDE DEF Oldest
      <4> QED  BY <1>2, <1>8, <1>9, <1>10, <2>2
    <3> HIDE DEF Oldest
    <3> QED  BY <1>1, <1>10, <3>1, GoneOnward
  <2> QED  BY <2>1, <2>2 DEF Gone
<1>11. IsManifest(f) /\ GoneSince(f, i)
  BY <1>1, <1>5, <1>6, ReplacedGone
<1>12. f \in Message /\ Piece(f) \in Message /\ Piece(f)' = Piece(f) /\ messages'[Piece(f)] = messages[Piece(f)]
  BY <1>1, <1>11, ManifestStays DEF Base
<1>13. Gone(f)'
  <2>1. i \in 0 .. HeadSeq /\ i <= to
    BY <1>1, <1>2, <1>3, <1>4
  <2> QED  BY <1>10, <1>11, <1>12, <2>1
<1>14. ASSUME NEW q \in Message, q = Piece(f), messages[q].hook = h  PROVE Gone(q)'
  <2>1. MarkInv(h, from, to)
    BY <1>2, <1>3, <1>7 DEF MarksInv
  <2>2. GoneSince(q, to)
    BY <1>5, <1>6, <1>14, <2>1 DEF MarkInv
  <2> QED  BY <1>2, <1>10, <2>2
<1>15. messages'[Piece(f)'].hook = h => Gone(Piece(f))'
  BY <1>12, <1>14
<1>16. i \in 1 .. HeadSeq' /\ log'[i] = log[i]
  BY <1>1, <1>6 DEF LogExtends
<1>17. (\E j \in 1 .. HeadSeq : \E m \in log[j].moves : m.from = f /\ f # 0)'
  BY <1>5, <1>6, <1>16
<1> QED  BY <1>13, <1>15, <1>17 DEF Condemned

\* A run with less to it rests on no more.
LEMMA CleansLess ==
  ASSUME NEW c, NEW r, Cleans(c)', r.finished \subseteq c.finished,
         \/ r.at \notin {"clean", "piece", "manifest"}
         \/ r.at = "clean" /\ c.at \in {"clean", "piece", "manifest"} /\ r.todo \subseteq c.todo
  PROVE  Cleans(r)'
BY DEF Cleans

\* A version that is finished is cleaned, beside the others that are.
LEMMA FinishedCleans ==
  ASSUME NEW c \in CleanRun, NEW u, Cleans(c)', c.at \in {"clean", "piece", "manifest"}, Released(u, HeadSeq)', Cleaned(u)'
  PROVE  Cleans(Finished(c, u))'
<1>1. PICK r : r = Finished(c, u)
  OBVIOUS
<1>2. r.at = "clean" /\ r.finished = c.finished \cup {u} /\ r.todo \subseteq c.todo
  BY <1>1 DEF Finished, CleanRun
<1>3. Cleans(r)'
  BY <1>2 DEF Cleans
<1> QED  BY <1>1, <1>3 DEF Finished

\* What is deleted by a device is off.
LEMMA DeletedOff ==
  ASSUME Typing, CleanInv, NEW d \in Device, NEW p \in Message, Delete(d, p), messages' = messages, vault' = vault
  PROVE  Off(p)'
<1>1. messages[p].hook \in Hook
  BY MessagesAre DEF Typing
<1>2. CASE messages[p].hook \in client[d].knows
  BY <1>2 DEF Delete, Off
<1>3. CASE messages[p].hook \notin client[d].knows
  BY <1>1, <1>3 DEF CleanInv, Off, InVault
<1> QED  BY <1>2, <1>3

\* What a cleaner's run rests on is so after every step.
LEMMA CleansKept ==
  ASSUME Typing, Names, Positions, LiveInv, CleanInv, [Next]_vars, NEW d \in Device, cleaner'[d] # None
  PROVE  Cleans(cleaner[d])'
<1>1. Base /\ Grows /\ HeadSeq \in Nat /\ LogOK /\ MessagesGrow
  BY NextGrows, NamesAreMessages, StepKeeps DEF Base, Typing, RunsTyped, Grows, GrowsOn
<1>2. PICK c : c = cleaner[d]
  OBVIOUS
<1>3. ASSUME c # None
      PROVE  /\ c \in CleanRun /\ Cleans(c) /\ Cleans(c)'
             /\ c.at \in {"clean", "piece", "manifest"} => c.todo \subseteq Upload
             /\ c.at \in {"piece", "manifest"} => c.upload \in Upload
  <2>1. /\ c \in CleanRun /\ Cleans(c)
        /\ c.at \in {"clean", "piece", "manifest"} => c.todo \subseteq Upload
        /\ c.at \in {"piece", "manifest"} => c.upload \in Upload
    BY <1>2, <1>3 DEF Typing, CleanerTypes, CleanInv
  <2> QED  BY <1>1, <2>1, CleansOn
<1>4. ASSUME NEW r, cleaner'[d] = r, r # None => Cleans(r)'  PROVE Cleans(cleaner[d])'
  BY <1>4
<1>5. ASSUME NEW r, CleanRuns(d, r)  PROVE cleaner'[d] = r
  BY <1>5 DEF CleanRuns
<1>6. ASSUME NEW u \in Upload, Released(u, Oldest)
      PROVE  /\ Released(u, HeadSeq) /\ Released(u, HeadSeq)' /\ Bound(u, HeadSeq)' = Bound(u, HeadSeq)
             /\ IsManifest(Bound(u, HeadSeq)) /\ Bound(u, HeadSeq) # 0
             /\ Parts(Bound(u, HeadSeq)) = {Bound(u, HeadSeq), Piece(Bound(u, HeadSeq))}
  <2>1. PICK s \in 0 .. HeadSeq : s = Oldest
    BY OldestIs
  <2> QED  BY <1>1, <1>6, <2>1, ReleasedStays, ManifestOrPiece
<1>7. CASE cleaner'[d] = cleaner[d]
  BY <1>2, <1>3, <1>4, <1>7
<1>8. ASSUME NEW at \in {"clean", "drains", "drain"}, NEW todo \in SUBSET Nat, cleaner'[d] = Cleaning(at, todo),
             at = "clean" => \A u \in todo : Released(u, Oldest)'
      PROVE  Cleans(cleaner[d])'
  <2>1. PICK r : r = Cleaning(at, todo)
    OBVIOUS
  <2>2. r.at = at /\ r.todo = todo /\ r.finished = {}
    BY <2>1, CleaningTyped
  <2>3. Cleans(r)'
    BY <1>8, <2>2 DEF Cleans
  <2> QED  BY <1>4, <1>8, <2>1, <2>3
<1>9. ASSUME NEW unsent \in BOOLEAN, CleanStart(d, unsent)  PROVE Cleans(cleaner[d])'
  <2> DEFINE todo == IF unsent THEN {} ELSE Deletable \ done
  <2>1. cleaner'[d] = Cleaning("clean", todo)
    BY <1>5, <1>9, CleanSteps
  <2>2. todo \in SUBSET Nat
    BY ConstantsAreTyped DEF Deletable, Upload
  <2>3. ASSUME NEW u \in todo  PROVE Released(u, Oldest)'
    <3>1. u \in Upload /\ Released(u, HeadSeq) /\ ReleasedAt(u) <= Oldest
      BY DEF Deletable
    <3>2. ReleasedAt(u) \in 1 .. HeadSeq /\ u \in log[ReleasedAt(u)].ended
      BY <3>1 DEF Released, ReleasedAt
    <3>3. PICK i \in 1 .. HeadSeq : i = ReleasedAt(u)
      BY <3>2
    <3>4. PICK s \in 0 .. HeadSeq : s = Oldest
      BY OldestIs
    <3>5. i \in 1 .. s
      BY <1>1, <3>1, <3>3, <3>4
    <3>6. Released(u, s)
      BY <3>2, <3>3, <3>5 DEF Released
    <3>7. Released(u, Oldest)
      BY <3>4, <3>6
    <3>8. log' = log /\ bases' = bases
      BY <1>9 DEF CleanStart, account
    <3> QED  BY <3>7, <3>8 DEF Released, Oldest
  <2> HIDE DEF todo
  <2> QED  BY <1>8, <2>1, <2>2, <2>3
<1>10. CASE CleanNext(d)
  <2>1. CleanNextRuns(d)
    BY <1>1, <1>10, CleanNextSteps
  <2>2. PICK u : u = Min(c.todo)
    OBVIOUS
  <2>3. PICK f : f = Bound(u, HeadSeq)
    OBVIOUS
  <2>4. c # None /\ c.at = "clean" /\ u \in c.todo /\ u \in Upload
    BY <1>2, <2>1, <2>2 DEF CleanNextRuns
  <2>5. \/ cleaner'[d] = [c EXCEPT !.todo = @ \ {u}]
        \/ f \notin live /\ cleaner'[d] = Finished(c, u)
        \/ cleaner'[d] = [c EXCEPT !.at = "piece", !.upload = u, !.manifest = f]
    BY <1>2, <1>5, <2>1, <2>2, <2>3 DEF CleanNextRuns
  <2>6. c \in CleanRun /\ Cleans(c)' /\ Cleans(c)
    BY <1>3, <2>4
  <2>7. Released(u, Oldest) /\ Released(u, Oldest)'
    BY <2>4, <2>6 DEF Cleans
  <2>8. CASE cleaner'[d] = [c EXCEPT !.todo = @ \ {u}]
    <3>1. PICK r : r = [c EXCEPT !.todo = @ \ {u}]
      OBVIOUS
    <3>2. r.at = "clean" /\ r.todo \subseteq c.todo /\ r.finished = c.finished
      BY <2>4, <2>6, <3>1 DEF CleanRun
    <3>3. Cleans(r)'
      BY <2>4, <2>6, <3>2, CleansLess
    <3> QED  BY <1>4, <2>8, <3>1, <3>3
  <2>9. CASE f \notin live /\ cleaner'[d] = Finished(c, u)
    <3>1. Gathered(u)
      BY <2>4 DEF CleanInv
    <3>2. LeftStale(f) \/ Off(Piece(f))
      BY <1>6, <2>3, <2>4, <2>7, <2>9, <3>1 DEF Gathered
    <3>3. Off(f)
      BY <2>9 DEF Off
    <3>4. Cleaned(u)
      BY <1>6, <2>3, <2>4, <2>7, <3>2, <3>3 DEF Cleaned
    <3>5. Released(u, HeadSeq)' /\ Cleaned(u)'
      BY <1>1, <1>6, <2>4, <2>7, <3>4, CleanedStays
    <3>6. Cleans(Finished(c, u))'
      BY <2>4, <2>6, <3>5, FinishedCleans
    <3>7. PICK r : r = Finished(c, u)
      OBVIOUS
    <3>8. Cleans(r)'
      BY <3>6, <3>7 DEF Finished
    <3> QED  BY <1>4, <2>9, <3>7, <3>8
  <2>10. CASE cleaner'[d] = [c EXCEPT !.at = "piece", !.upload = u, !.manifest = f]
    <3>1. PICK r : r = [c EXCEPT !.at = "piece", !.upload = u, !.manifest = f]
      OBVIOUS
    <3>2. r.at = "piece" /\ r.todo = c.todo /\ r.finished = c.finished /\ r.upload = u /\ r.manifest = f
      BY <2>6, <3>1 DEF CleanRun
    <3>3. f = Bound(u, HeadSeq)'
      BY <1>6, <2>3, <2>4, <2>7
    <3>4. Cleans(r)'
      BY <2>4, <2>6, <2>7, <3>2, <3>3 DEF Cleans
    <3> QED  BY <1>4, <2>10, <3>1, <3>4
  <2> QED  BY <2>5, <2>8, <2>9, <2>10
<1>11. CASE CleanPiece(d)
  <2>1. c # None /\ c.at = "piece" /\ cleaner'[d] = [c EXCEPT !.at = "manifest"] /\ Delete(d, Piece(c.manifest))
        /\ messages' = messages /\ vault' = vault
    BY <1>1, <1>2, <1>5, <1>11, CleanSteps DEF CleanPiece, Piece
  <2>2. PICK r : r = [c EXCEPT !.at = "manifest"]
    OBVIOUS
  <2>3. r.at = "manifest" /\ r.todo = c.todo /\ r.finished = c.finished /\ r.upload = c.upload /\ r.manifest = c.manifest
    BY <1>3, <2>1, <2>2 DEF CleanRun
  <2>4. IsManifest(c.manifest)
    BY <1>3, <1>6, <2>1 DEF Cleans
  <2>5. PICK p \in Message : p = Piece(c.manifest)
    BY <1>1, <2>4, ManifestOrPiece
  <2>6. Off(p)'
    BY <2>1, <2>5, DeletedOff
  <2>7. p = Piece(r.manifest)'
    BY <2>1, <2>3, <2>5 DEF Piece
  <2>8. Off(Piece(r.manifest))'
    BY <2>6, <2>7
  <2>9. Cleans(r)'
    BY <1>3, <2>1, <2>3, <2>8 DEF Cleans
  <2> QED  BY <1>4, <2>1, <2>2, <2>9
<1>12. CASE CleanManifest(d)
  <2>1. c # None /\ c.at = "manifest" /\ cleaner'[d] = Finished(c, c.upload) /\ Delete(d, c.manifest)
        /\ messages' = messages /\ vault' = vault
    BY <1>1, <1>2, <1>5, <1>12, CleanSteps DEF CleanManifest
  <2>2. /\ Released(c.upload, Oldest) /\ c.manifest = Bound(c.upload, HeadSeq) /\ c.upload \in Upload
        /\ Off(Piece(c.manifest)) /\ IsManifest(c.manifest)
    BY <1>3, <1>6, <2>1 DEF Cleans
  <2>3. PICK u \in Upload : u = c.upload
    BY <2>2
  <2>4. PICK f \in Message : f = Bound(u, HeadSeq)
    BY <1>1, <2>2, <2>3, ManifestOrPiece
  <2>5. Off(f)'
    BY <2>1, <2>2, <2>3, <2>4, DeletedOff
  <2>6. PICK p \in Message : p = Piece(f)
    BY <1>1, <2>2, <2>3, <2>4, ManifestOrPiece
  <2>7. Off(p)'
    BY <1>1, <2>2, <2>3, <2>4, <2>6, OffStays
  <2>8. Released(u, HeadSeq)' /\ Bound(u, HeadSeq)' = f /\ Parts(f) = {f, p}
    BY <1>6, <2>2, <2>3, <2>4, <2>6
  <2>9. Parts(Bound(u, HeadSeq))' = {f, p}
    BY <2>1, <2>8 DEF Parts
  <2>10. Cleaned(u)'
    BY <2>5, <2>7, <2>9 DEF Cleaned
  <2>11. Cleans(Finished(c, u))'
    BY <1>3, <2>1, <2>8, <2>10, FinishedCleans
  <2>12. PICK r : r = Finished(c, u)
    OBVIOUS
  <2>13. Cleans(r)'
    BY <2>11, <2>12 DEF Finished
  <2> QED  BY <1>4, <2>1, <2>3, <2>12, <2>13
<1>13. CASE CleanFails(d)
  <2>1. c # None /\ c.at \in {"piece", "manifest"} /\ cleaner'[d] = [c EXCEPT !.at = "clean", !.todo = @ \ {c.upload}]
    BY <1>1, <1>2, <1>5, <1>13, CleanSteps DEF CleanFails
  <2>2. PICK r : r = [c EXCEPT !.at = "clean", !.todo = @ \ {c.upload}]
    OBVIOUS
  <2>3. r.at = "clean" /\ r.todo \subseteq c.todo /\ r.finished = c.finished
    BY <1>3, <2>1, <2>2 DEF CleanRun
  <2>4. Cleans(r)'
    BY <1>3, <2>1, <2>3, CleansLess
  <2> QED  BY <1>4, <2>1, <2>2, <2>4
<1>14. CASE CleanRecord(d)
  <2>1. c # None /\ c.at = "clean" /\ cleaner'[d] = [c EXCEPT !.finished = {}]
    BY <1>1, <1>2, <1>5, <1>14, RecordSteps DEF CleanRecord
  <2>2. PICK r : r = [c EXCEPT !.finished = {}]
    OBVIOUS
  <2>3. r.at = "clean" /\ r.todo \subseteq c.todo /\ r.finished = {}
    BY <1>3, <2>1, <2>2 DEF CleanRun
  <2>4. Cleans(r)'
    BY <1>3, <2>1, <2>3, CleansLess
  <2> QED  BY <1>4, <2>1, <2>2, <2>4
<1>15. CASE CleanEnd(d)
  BY <1>1, <1>5, <1>8, <1>15, RecordSteps
<1>16. CASE Draining(d)
  <2>1. ASSUME NEW r, cleaner'[d] = r, c # None, r.at \in DrainSteps, r.finished = c.finished  PROVE Cleans(cleaner[d])'
    <3>1. Cleans(r)'
      BY <1>3, <2>1, CleansLess DEF DrainSteps
    <3> QED  BY <1>4, <2>1, <3>1
  <2>2. ASSUME NEW h \in Hook, NEW unread \in BOOLEAN, DrainStart(d, h, unread)  PROVE Cleans(cleaner[d])'
    <3>1. cleaner'[d] = [Cleaning("drain", Replaced(h)) EXCEPT !.hook = h]
      BY <1>1, <1>5, <2>2, DrainStepsRun
    <3>2. PICK r : r = [Cleaning("drain", Replaced(h)) EXCEPT !.hook = h]
      OBVIOUS
    <3>3. r.at = "drain" /\ r.finished = {}
      BY <3>2 DEF Cleaning
    <3>4. Cleans(r)'
      BY <3>3 DEF Cleans
    <3> QED  BY <1>4, <3>1, <3>2, <3>4
  <2>3. ASSUME NEW loads \in BOOLEAN, DrainLoad(d, loads)  PROVE Cleans(cleaner[d])'
    <3>1. DrainLoadRuns(d, loads)
      BY <1>1, <2>3, DrainLoadSteps
    <3>2. c # None /\ \E m : \E at \in DrainSteps : CleanRuns(d, [c EXCEPT !.manifest = m, !.at = at])
      BY <1>2, <3>1 DEF DrainLoadRuns, DrainSteps
    <3>3. PICK m, at : at \in DrainSteps /\ cleaner'[d] = [c EXCEPT !.manifest = m, !.at = at]
      BY <1>5, <3>2
    <3>4. PICK r : r = [c EXCEPT !.manifest = m, !.at = at]
      OBVIOUS
    <3>5. r.at = at /\ r.finished = c.finished
      BY <1>3, <3>2, <3>4 DEF CleanRun
    <3> QED  BY <2>1, <3>2, <3>3, <3>4, <3>5
  <2>4. CASE DrainPiece(d)
    <3>1. cleaner'[d] = [c EXCEPT !.at = "drainManifest"] /\ c # None
      BY <1>1, <1>2, <1>5, <2>4, DrainStepsRun DEF DrainPiece
    <3>2. PICK r : r = [c EXCEPT !.at = "drainManifest"]
      OBVIOUS
    <3>3. r.at = "drainManifest" /\ r.finished = c.finished
      BY <1>3, <3>1, <3>2 DEF CleanRun
    <3> QED  BY <2>1, <3>1, <3>2, <3>3 DEF DrainSteps
  <2>5. CASE DrainManifest(d)
    <3>1. cleaner'[d] = [c EXCEPT !.at = "drain", !.todo = @ \ {c.manifest}] /\ c # None
      BY <1>1, <1>2, <1>5, <2>5, DrainStepsRun DEF DrainManifest
    <3>2. PICK r : r = [c EXCEPT !.at = "drain", !.todo = @ \ {c.manifest}]
      OBVIOUS
    <3>3. r.at = "drain" /\ r.finished = c.finished
      BY <1>3, <3>1, <3>2 DEF CleanRun
    <3> QED  BY <2>1, <3>1, <3>2, <3>3 DEF DrainSteps
  <2>6. CASE DrainFinish(d) \/ DrainFails(d) \/ DrainsEnd(d)
    <3>1. cleaner'[d] = Cleaning("drains", {}) \/ cleaner'[d] = None
      BY <1>1, <1>5, <2>6, DrainStepsRun
    <3> QED  BY <1>8, <3>1
  <2> QED  BY <1>16, <2>2, <2>3, <2>4, <2>5, <2>6 DEF Draining
<1>17. CASE CleaningUp(d)
  BY <1>9, <1>10, <1>11, <1>12, <1>13, <1>14, <1>15, <1>17 DEF CleaningUp
<1> QED  BY <1>7, <1>16, <1>17, NextCleaners DEF CleanerGoes

\* What a drain rests on is so after every step.
LEMMA DrainsKept ==
  ASSUME Typing, Names, Positions, MarksInv, CleanInv, [Next]_vars, NEW d \in Device, cleaner'[d] # None
  PROVE  Drains(cleaner[d])' /\ (cleaner'[d].at \in DrainSteps => cleaner'[d].hook \in client'[d].knows)
<1>1. Base /\ Grows /\ MessagesGrow
  BY NextGrows, StepKeeps DEF Base, Typing, RunsTyped, Grows, GrowsOn
<1>2. PICK c : c = cleaner[d]
  OBVIOUS
<1>3. CASE cleaner'[d].at \notin DrainSteps
  BY <1>3 DEF Drains, DrainSteps
<1>4. CASE GoesOnDraining(d)
  <2>1. c # None /\ c.at \in DrainSteps /\ cleaner'[d].hook = c.hook /\ client'[d].knows = client[d].knows
    BY <1>2, <1>4 DEF GoesOnDraining
  <2>2. c \in CleanRun /\ Drains(c) /\ c.hook \in client[d].knows
    BY <1>2, <2>1 DEF Typing, CleanerTypes, CleanInv
  <2>3. Drains(c)'
    BY <1>1, <2>2, DrainsOn
  <2>4. ASSUME NEW r, cleaner'[d] = r, Drains(r)'  PROVE Drains(cleaner[d])'
    BY <2>4
  <2>5. ASSUME cleaner'[d] = c  PROVE Drains(cleaner[d])'
    BY <2>3, <2>4, <2>5
  <2>6. ASSUME NEW loads \in BOOLEAN, DrainLoad(d, loads)  PROVE Drains(cleaner[d])'
    <3>1. DrainLoadRuns(d, loads)
      BY <1>1, <2>6, DrainLoadSteps
    <3>2. PICK m, at : /\ c.at = "drain" /\ m \in c.todo
                       /\ CleanRuns(d, [c EXCEPT !.manifest = m, !.at = at])
                       /\ at = IF loads /\ messages[messages[m].piece].hook = c.hook THEN "drainPiece" ELSE "drainManifest"
      BY <1>2, <3>1 DEF DrainLoadRuns
    <3>3. PICK r : r = [c EXCEPT !.manifest = m, !.at = at]
      OBVIOUS
    <3>4. cleaner'[d] = r /\ messages' = messages
      BY <3>2, <3>3 DEF CleanRuns, CleanGoesOn, Still
    <3>5. r.at = at /\ r.manifest = m /\ r.todo = c.todo /\ r.hook = c.hook
      BY <2>2, <3>3 DEF CleanRun
    <3>6. at = "drainPiece" => messages'[Piece(m)'].hook = c.hook
      BY <3>2, <3>4 DEF Piece
    <3>7. Drains(r)'
      BY <2>3, <3>2, <3>5, <3>6 DEF Drains, DrainSteps
    <3> QED  BY <2>4, <3>4, <3>7
  <2>7. ASSUME DrainPiece(d), cleaner'[d] = [c EXCEPT !.at = "drainManifest"]  PROVE Drains(cleaner[d])'
    <3>1. PICK r : r = [c EXCEPT !.at = "drainManifest"]
      OBVIOUS
    <3>2. r.at = "drainManifest" /\ r.manifest = c.manifest /\ r.todo = c.todo /\ r.hook = c.hook
      BY <2>2, <3>1 DEF CleanRun
    <3>3. c.at = "drainPiece"
      BY <1>2, <2>7 DEF DrainPiece
    <3>4. Drains(r)'
      BY <2>3, <3>2, <3>3 DEF Drains, DrainSteps
    <3> QED  BY <2>4, <2>7, <3>1, <3>4
  <2>8. ASSUME cleaner'[d] = [c EXCEPT !.at = "drain", !.todo = @ \ {c.manifest}]  PROVE Drains(cleaner[d])'
    <3>1. PICK r : r = [c EXCEPT !.at = "drain", !.todo = @ \ {c.manifest}]
      OBVIOUS
    <3>2. r.at = "drain" /\ r.todo \subseteq c.todo /\ r.hook = c.hook
      BY <2>2, <3>1 DEF CleanRun
    <3>3. Drains(r)'
      BY <2>1, <2>3, <3>2 DEF Drains, DrainSteps
    <3> QED  BY <2>4, <2>8, <3>1, <3>3
  <2>9. Drains(cleaner[d])'
    BY <1>2, <1>4, <2>5, <2>6, <2>7, <2>8 DEF GoesOnDraining
  <2> QED  BY <2>1, <2>2, <2>9
<1>5. ASSUME NEW h \in Hook, NEW unread \in BOOLEAN, StartsDraining(d, h, unread)
      PROVE  Drains(cleaner[d])' /\ cleaner'[d].hook \in client'[d].knows
  <2>1. /\ DrainStart(d, h, unread) /\ client'[d].knows = client[d].knows
        /\ cleaner'[d].hook = h /\ cleaner'[d].at = "drain" /\ cleaner'[d].todo = Replaced(h)
    BY <1>5 DEF StartsDraining
  <2>2. \A f \in Replaced(h) : Condemned(h, f)'
    BY <2>1, DrainCondemns
  <2>3. Drains(cleaner[d])'
    BY <2>1, <2>2 DEF Drains, DrainSteps
  <2>4. InVault(h)
    BY <2>1 DEF DrainStart, DrainsByAge, MayDrain, InVault
  <2> QED  BY <2>1, <2>3, <2>4 DEF CleanInv
<1> QED  BY <1>3, <1>4, <1>5, NextDrains

\* What a step records as cleaned is among what was finished.
LEMMA NextDone ==
  ASSUME [Next]_vars, NEW u \in done', u \notin done
  PROVE  \E d \in Device : cleaner[d] # None /\ u \in cleaner[d].finished
<1>1. done' # done
  OBVIOUS
<1>2. CASE UNCHANGED vars \/ NextDay \/ \E at \in 1 .. MaxLog : TakeBase(at)
  BY <1>1, <1>2 DEF vars, NextDay, TakeBase
<1>3. ASSUME NEW d \in Device, Reopen(d) \/ (\E v \in Upload : Release(d, v)) \/ Uploading(d)  PROVE FALSE
  BY <1>1, <1>3 DEF Reopen, Release, Uploading, UploadPiece, UploadManifest, UploadCommit
<1>4. ASSUME NEW d \in Device, Moving(d)  PROVE FALSE
  BY <1>1, <1>4 DEF Moving, MoveStart, MoveMark, MoveCopy, MoveBatch, MoveCommit, MoveCheck, MoveFails
<1>5. ASSUME NEW d \in Device, Draining(d)  PROVE FALSE
  BY <1>1, <1>5 DEF Draining, DrainStart, DrainLoad, DrainPiece, DrainManifest, DrainFinish, DrainFails, DrainsEnd
<1>6. ASSUME NEW d \in Device, CleaningUp(d)
      PROVE  \E e \in Device : cleaner[e] # None /\ u \in cleaner[e].finished
  <2>1. CleanRecord(d) \/ CleanEnd(d)
    BY <1>1, <1>6 DEF CleaningUp, CleanStart, CleanNext, CleanPiece, CleanManifest, CleanFails
  <2> QED  BY <1>1, <2>1 DEF CleanRecord, CleanEnd
<1> QED  BY <1>2, <1>3, <1>4, <1>5, <1>6 DEF Next

\* What is known of cleaners and drains is kept.
LEMMA CleanInvKept ==
  ASSUME Typing, Names, Positions, MarksInv, LiveInv, CleanInv, [Next]_vars
  PROVE  CleanInv'
<1>1. Base /\ Grows /\ HeadSeq \in Nat
  BY NextGrows, NamesAreMessages DEF Base, Typing, RunsTyped
<1>2. ASSUME NEW u \in done'  PROVE Released(u, HeadSeq)' /\ Cleaned(u)'
  <2>1. ASSUME NEW d \in Device, cleaner[d] # None, u \in cleaner[d].finished
        PROVE  u \in Upload /\ Released(u, HeadSeq) /\ Cleaned(u)
    BY <2>1 DEF CleanInv, Cleans, Typing, CleanerTypes, CleanRun
  <2>2. u \in done => u \in Upload /\ Released(u, HeadSeq) /\ Cleaned(u)
    BY DEF CleanInv, Typing, RestTypes
  <2>3. u \in Upload /\ Released(u, HeadSeq) /\ Cleaned(u)
    BY <2>1, <2>2, NextDone
  <2>4. HeadSeq \in 0 .. HeadSeq
    BY <1>1
  <2> QED  BY <1>1, <2>3, <2>4, ReleasedStays, CleanedStays
<1>3. \A u \in Upload : Gathered(u)'
  BY GatheredKept
<1>4. \A d \in Device : \A h \in Hook : h \notin client'[d].knows => ~InVault(h)'
  BY KnownKept
<1>5. \A d \in Device : cleaner'[d] # None =>
        /\ Cleans(cleaner[d])' /\ Drains(cleaner[d])'
        /\ cleaner'[d].at \in DrainSteps => cleaner'[d].hook \in client'[d].knows
  BY CleansKept, DrainsKept
<1> QED  BY <1>2, <1>3, <1>4, <1>5 DEF CleanInv
-----------------------------------------------------------------------------
(* The ranges of moves                                                     *)

\* The log stays, or a device tells it something.
LEMMA NextLog ==
  ASSUME [Next]_vars
  PROVE  \/ log' = log
         \/ \E d \in Device : UploadCommit(d) \/ MoveCommit(d) \/ \E u \in Upload : Release(d, u)
<1>1. CASE UNCHANGED vars \/ NextDay \/ \E at \in 1 .. MaxLog : TakeBase(at)
  BY <1>1 DEF vars, account, NextDay, TakeBase
<1>2. ASSUME NEW d \in Device, Reopen(d) \/ Uploading(d)  PROVE log' = log \/ UploadCommit(d)
  BY <1>2 DEF Reopen, Uploading, UploadPiece, UploadManifest, account
<1>3. ASSUME NEW d \in Device, Moving(d)  PROVE log' = log \/ MoveCommit(d)
  BY <1>3 DEF Moving, MoveStart, MoveMark, MoveCopy, MoveBatch, MoveCheck, MoveFails, account
<1>4. ASSUME NEW d \in Device, CleaningUp(d)  PROVE log' = log
  BY <1>4 DEF CleaningUp, CleanStart, CleanNext, CleanPiece, CleanManifest, CleanFails, CleanRecord, CleanEnd, account
<1>5. ASSUME NEW d \in Device, Draining(d)  PROVE log' = log
  BY <1>5 DEF Draining, DrainStart, DrainLoad, DrainPiece, DrainManifest, DrainFinish, DrainFails, DrainsEnd, account
<1> QED  BY <1>1, <1>2, <1>3, <1>4, <1>5 DEF Next

\* A move begins, marks, or a drain finishes: nothing else changes the ranges.
BeginsMove == \E d \in Device : \E h \in Hook : MoveStart(d, h)
MarksHook == \E d \in Device : MoveMark(d)
FinishesDrain == \E d \in Device : DrainFinish(d)

\* Only moves that begin write down where.
LEMMA NextBegan ==
  ASSUME [Next]_vars
  PROVE  began' = began \/ BeginsMove
<1>1. CASE UNCHANGED vars \/ NextDay \/ \E at \in 1 .. MaxLog : TakeBase(at)
  BY <1>1 DEF vars, history, NextDay, TakeBase
<1>2. ASSUME NEW d \in Device, Reopen(d) \/ (\E u \in Upload : Release(d, u)) \/ Uploading(d)  PROVE began' = began
  BY <1>2 DEF Reopen, Release, Uploading, UploadPiece, UploadManifest, UploadCommit, history
<1>3. ASSUME NEW d \in Device, Moving(d)  PROVE began' = began \/ BeginsMove
  BY <1>3 DEF Moving, MoveMark, MoveCopy, MoveBatch, MoveCommit, MoveCheck, MoveFails, history, BeginsMove
<1>4. ASSUME NEW d \in Device, CleaningUp(d)  PROVE began' = began
  BY <1>4 DEF CleaningUp, CleanStart, CleanNext, CleanPiece, CleanManifest, CleanFails, CleanRecord, CleanEnd, history
<1>5. ASSUME NEW d \in Device, Draining(d)  PROVE began' = began
  BY <1>5 DEF Draining, DrainStart, DrainLoad, DrainPiece, DrainManifest, DrainFinish, DrainFails, DrainsEnd, history
<1> QED  BY <1>1, <1>2, <1>3, <1>4, <1>5 DEF Next

Underway(d, h) == mover[d].hook = h /\ mover[d].at \notin {"none", "done"}

\* Another device began a move of the webhook anew.
Shared(h) == <<"range", h>> \in missed

\* One device moves the webhook, and its range, and the mark's, begin where the move first began.
OneRange(h) ==
  /\ \A d, e \in Device : Underway(d, h) /\ Underway(e, h) => d = e
  /\ vault[h].state \in {"drain", "moved"} => vault[h].from = began[h] /\ \A d \in Device : ~Underway(d, h)
  /\ \A d \in Device : Underway(d, h) => mover[d].from = began[h]
  /\ \A d \in Device : mover[d].at = "mark" /\ mover[d].hook = h => mover[d].drain.from = began[h]

Begins(h) ==
  /\ began[h] = None <=> vault[h].state = "active"
  /\ \A d \in Device : Underway(d, h) => vault[h].state # "active"

RangeInv ==
  /\ began \in [Hook -> Nat \cup {None}]
  /\ \A h \in Hook : Begins(h) /\ (~Shared(h) => OneRange(h))

\* A move goes on, or gets to its mark.
MoverStays(d) ==
  \/ mover'[d] = mover[d]
  \/ /\ mover[d].at \notin {"none", "done"} /\ mover'[d].at \notin {"none", "done", "mark"}
     /\ mover'[d].hook = mover[d].hook /\ mover'[d].from = mover[d].from
  \/ /\ mover[d].at = "settle" /\ mover'[d].at = "mark" /\ mover'[d].hook = mover[d].hook
     /\ mover'[d].from = mover[d].from /\ mover'[d].drain.from = mover[d].from

\* No move is underway for longer or shorter then.
LEMMA MoversStay ==
  ASSUME Typing, Names, [Next]_vars, ~BeginsMove, ~MarksHook, NEW d \in Device
  PROVE  MoverStays(d) /\ \A h : Underway(d, h)' <=> Underway(d, h)
<1>1. mover[d] \in MoveRun
  BY DEF Typing, MoverTypes
<1>2. MoverGoes(d)
  BY NextMovers
<1>3. ASSUME mover'[d] = [mover[d] EXCEPT !.at = "mark", !.drain = Drained(mover[d].from)]
      PROVE  /\ mover'[d].at = "mark" /\ mover'[d].hook = mover[d].hook /\ mover'[d].from = mover[d].from
             /\ mover'[d].drain.from = mover[d].from
  BY <1>1, <1>3 DEF MoveRun, Drained
<1>4. MoverStays(d)
  BY <1>2, <1>3 DEF MoverGoes, MoverStays, BeginsMove, MarksHook
<1> QED  BY <1>4 DEF MoverStays, Underway

\* A move begins at a webhook.
LEMMA BeginKeepsRange ==
  ASSUME Typing, Names, Positions, RangeInv, [Next]_vars, NEW e \in Device, NEW k \in Hook, MoveStart(e, k)
  PROVE  RangeInv'
<1> USE DEF Underway, Shared
<1>1. HeadSeq \in Nat /\ HeadSeq # None /\ None \notin Nat
  BY LogIs, ConstantsAreTyped DEF Typing
<1>2. /\ mover[e].at \in {"none", "paused", "done"} /\ vault[k].state \in {"active", "retired"}
      /\ vault' = [vault EXCEPT ![k].state = "retired"]
      /\ missed' = IF vault[k].state = "retired" /\ ~Resumes(e, k) THEN missed \cup {<<"range", k>>} ELSE missed
      /\ began' = [began EXCEPT ![k] = IF began[k] = None THEN HeadSeq ELSE began[k]]
      /\ mover' = [mover EXCEPT ![e] = [NoMove EXCEPT !.at = "files", !.hook = k, !.from = MoveFrom(e, k)]]
  BY DEF MoveStart
<1>3. began \in [Hook -> Nat \cup {None}] /\ mover \in [Device -> MoveRun]
  BY DEF RangeInv, Typing, MoverTypes
<1>4. /\ began' \in [Hook -> Nat \cup {None}]
      /\ began'[k] = IF began[k] = None THEN HeadSeq ELSE began[k]
      /\ \A h \in Hook \ {k} : began'[h] = began[h]
  BY <1>1, <1>2, <1>3
<1>5. /\ vault'[k].state = "retired" /\ \A h \in Hook \ {k} : vault'[h] = vault[h]
  BY <1>2 DEF Typing, VaultTypes
<1>6. /\ mover'[e].at = "files" /\ mover'[e].hook = k /\ mover'[e].from = MoveFrom(e, k)
      /\ \A d \in Device \ {e} : mover'[d] = mover[d]
  BY <1>2, <1>3 DEF NoMove
<1>7. ASSUME NEW h \in Hook  PROVE Begins(h)'
  <2>1. Begins(h)
    BY DEF RangeInv
  <2>2. CASE h = k
    BY <1>1, <1>4, <1>5, <2>2 DEF Begins
  <2>3. CASE h # k
    BY <1>4, <1>5, <1>6, <2>1, <2>3 DEF Begins
  <2> QED  BY <2>2, <2>3
<1>8. ASSUME NEW h \in Hook, ~Shared(h)'  PROVE OneRange(h)'
  <2>1. OneRange(h) /\ Begins(h)
    BY <1>2, <1>8 DEF RangeInv
  <2>2. CASE h # k
    <3>1. \A d \in Device : mover'[d].hook = h => mover'[d] = mover[d]
      BY <1>6, <2>2
    <3> QED  BY <1>4, <1>5, <2>1, <2>2, <3>1 DEF OneRange
  <2>3. CASE h = k
    <3>1. \A d \in Device \ {e} : ~Underway(d, k)
      <4>1. CASE vault[k].state = "active"
        BY <2>1, <2>3, <4>1 DEF Begins
      <4>2. CASE vault[k].state = "retired"
        <5>1. Resumes(e, k)
          BY <1>2, <1>8, <2>3, <4>2
        <5>2. Underway(e, k)
          BY <5>1 DEF Resumes
        <5> QED  BY <2>1, <2>3, <5>2 DEF OneRange
      <4> QED  BY <1>2, <4>1, <4>2
    <3>2. mover'[e].from = began'[k]
      <4>1. CASE vault[k].state = "active"
        <5>1. began[k] = None /\ ~Underway(e, k)
          BY <2>1, <2>3, <4>1 DEF Begins
        <5> QED  BY <1>4, <1>6, <5>1 DEF MoveFrom, Resumes
      <4>2. CASE vault[k].state = "retired"
        <5>1. Resumes(e, k)
          BY <1>2, <1>8, <2>3, <4>2
        <5>2. Underway(e, k) /\ began[k] # None
          BY <2>1, <2>3, <4>2, <5>1 DEF Resumes, Begins
        <5> QED  BY <1>4, <1>6, <2>1, <2>3, <5>1, <5>2 DEF MoveFrom, OneRange
      <4> QED  BY <1>2, <4>1, <4>2
    <3>3. \A d \in Device : mover'[d].hook = k /\ mover'[d].at \notin {"none", "done"} => d = e
      BY <1>6, <3>1
    <3>4. mover'[e].at # "mark"
      BY <1>6
    <3> QED  BY <1>5, <2>3, <3>2, <3>3, <3>4 DEF OneRange
  <2> QED  BY <2>2, <2>3
<1> QED  BY <1>4, <1>7, <1>8 DEF RangeInv

\* A webhook is marked.
LEMMA MarkKeepsRange ==
  ASSUME Typing, RangeInv, NEW e \in Device, MoveMark(e)
  PROVE  RangeInv'
<1> USE DEF Underway, Shared
<1>1. PICK k : k = mover[e].hook
  OBVIOUS
<1>2. /\ mover[e].at = "mark" /\ missed' = missed /\ began' = began
      /\ vault' = [vault EXCEPT ![k] = IF InVault(k) THEN mover[e].drain ELSE vault[k]]
      /\ mover' = [mover EXCEPT ![e] = [NoMove EXCEPT !.at = "done", !.hook = k]]
  BY <1>1 DEF MoveMark, history
<1>3. k \in Hook /\ mover[e].drain \in Drain /\ mover \in [Device -> MoveRun]
  BY <1>1, <1>2 DEF Typing, MoverTypes
<1>4. /\ vault'[k] = (IF InVault(k) THEN mover[e].drain ELSE vault[k])
      /\ \A h \in Hook \ {k} : vault'[h] = vault[h]
  BY <1>2, <1>3 DEF Typing, VaultTypes
<1>5. mover'[e].at = "done" /\ \A d \in Device \ {e} : mover'[d] = mover[d]
  BY <1>2, <1>3 DEF NoMove
<1>6. mover[e].drain.state = "drain" /\ Underway(e, k)
  BY <1>1, <1>2, <1>3 DEF Drain
<1>7. ASSUME NEW h \in Hook  PROVE Begins(h)'
  <2>1. Begins(h)
    BY DEF RangeInv
  <2>2. vault[h].state # "active" <=> vault'[h].state # "active"
    BY <1>4, <1>6, <2>1 DEF Begins, InVault
  <2> QED  BY <1>2, <1>5, <2>1, <2>2 DEF Begins
<1>8. ASSUME NEW h \in Hook, ~Shared(h)'  PROVE OneRange(h)'
  <2>1. OneRange(h)
    BY <1>2, <1>8 DEF RangeInv
  <2>2. \A d \in Device : mover'[d].at # "done" => mover'[d] = mover[d] /\ d # e
    BY <1>5
  <2>3. CASE h # k
    BY <1>2, <1>4, <2>1, <2>2, <2>3 DEF OneRange
  <2>4. CASE h = k
    <3>1. \A d \in Device : ~Underway(d, k)'
      BY <1>6, <2>1, <2>2, <2>4 DEF OneRange
    <3>2. mover[e].drain.from = began[k]
      BY <1>1, <1>2, <2>1, <2>4 DEF OneRange
    <3>3. vault'[k].state \in {"drain", "moved"} => vault'[k].from = began[k]
      BY <1>4, <2>1, <2>4, <3>2 DEF OneRange
    <3>4. \A d \in Device : mover'[d].at = "mark" => mover'[d].hook # k
      BY <3>1
    <3> QED  BY <1>2, <2>4, <3>1, <3>3, <3>4 DEF OneRange
  <2> QED  BY <2>3, <2>4
<1> QED  BY <1>2, <1>7, <1>8 DEF RangeInv

\* A drain is finished.
LEMMA FinishKeepsRange ==
  ASSUME Typing, MarksInv, RangeInv, NEW e \in Device, DrainFinish(e)
  PROVE  RangeInv'
<1> USE DEF Underway, Shared
<1>1. /\ cleaner[e] # None /\ cleaner[e].at = "drain" /\ mover' = mover /\ began' = began /\ missed \subseteq missed'
      /\ vault' = [vault EXCEPT ![cleaner[e].hook].state = "moved"]
  BY DEF DrainFinish
<1>2. PICK k \in Hook : k = cleaner[e].hook
  BY <1>1 DEF Typing, CleanerTypes
<1>3. vault[k].state \in {"drain", "moved"}
  BY <1>1, <1>2 DEF MarksInv, DrainSteps
<1>4. /\ vault'[k].state = "moved" /\ vault'[k].from = vault[k].from
      /\ \A h \in Hook \ {k} : vault'[h] = vault[h]
  BY <1>1, <1>2 DEF Typing, VaultTypes
<1>5. ASSUME NEW h \in Hook  PROVE Begins(h)'
  <2>1. Begins(h)
    BY DEF RangeInv
  <2> QED  BY <1>1, <1>3, <1>4, <2>1 DEF Begins
<1>6. ASSUME NEW h \in Hook, ~Shared(h)'  PROVE OneRange(h)'
  <2>1. OneRange(h)
    BY <1>1, <1>6 DEF RangeInv
  <2> QED  BY <1>1, <1>3, <1>4, <2>1 DEF OneRange
<1> QED  BY <1>1, <1>5, <1>6 DEF RangeInv

\* The webhooks stay when nothing of this happens.
LEMMA VaultStays ==
  ASSUME Typing, [Next]_vars, ~BeginsMove, ~MarksHook, ~FinishesDrain, NEW h \in Hook
  PROVE  vault'[h] = vault[h]
BY NextVault DEF VaultGoes, BeginsMove, MarksHook, FinishesDrain

\* Ranges are kept.
LEMMA RangeKept ==
  ASSUME Typing, Names, Positions, MarksInv, RangeInv, [Next]_vars
  PROVE  RangeInv'
<1>1. CASE BeginsMove
  BY <1>1, BeginKeepsRange DEF BeginsMove
<1>2. CASE MarksHook
  BY <1>2, MarkKeepsRange DEF MarksHook
<1>3. CASE FinishesDrain
  BY <1>3, FinishKeepsRange DEF FinishesDrain
<1>4. CASE ~BeginsMove /\ ~MarksHook /\ ~FinishesDrain
  <2>1. began' = began /\ missed \subseteq missed' /\ \A h \in Hook : vault'[h] = vault[h]
    BY <1>4, NextBegan, NextGrows, VaultStays DEF Grows
  <2>2. \A d \in Device : MoverStays(d) /\ \A h : Underway(d, h)' <=> Underway(d, h)
    BY <1>4, MoversStay
  <2>3. ASSUME NEW h \in Hook  PROVE Begins(h)'
    BY <2>1, <2>2 DEF RangeInv, Begins
  <2>4. ASSUME NEW h \in Hook, ~Shared(h)'  PROVE OneRange(h)'
    <3>1. OneRange(h)
      BY <2>1, <2>4 DEF RangeInv, Shared
    <3>2. \A d \in Device : Underway(d, h)' => mover'[d].from = mover[d].from
      BY <2>2 DEF MoverStays, Underway
    <3>3. ASSUME NEW d \in Device, mover'[d].at = "mark", mover'[d].hook = h  PROVE mover'[d].drain.from = began[h]
      <4>1. CASE mover'[d] = mover[d]
        BY <3>1, <3>3, <4>1 DEF OneRange
      <4>2. CASE mover[d].at = "settle" /\ mover'[d].hook = mover[d].hook /\ mover'[d].drain.from = mover[d].from
        BY <3>1, <3>3, <4>2 DEF OneRange, Underway
      <4> QED  BY <2>2, <3>3, <4>1, <4>2 DEF MoverStays
    <3> QED  BY <2>1, <2>2, <3>1, <3>2, <3>3 DEF OneRange
  <2> QED  BY <2>1, <2>3, <2>4 DEF RangeInv
<1> QED  BY <1>1, <1>2, <1>3, <1>4
-----------------------------------------------------------------------------
(* What a drain leaves                                                     *)

\* The webhook is the only one that was moved, by one device, and every old manifest could be read.
Alone(h) == (\A g \in Hook \ {h} : began[g] = None) /\ <<"manifest", h>> \notin missed /\ ~Shared(h)

Marked(h) == vault[h].state \in {"drain", "moved"}

\* A move of entry i replaced manifest f.
Replaces(i, f) == \E n \in log[i].moves : ~n.stale /\ n.from = f /\ f # 0

OffHook(h, p) == p \in live => messages[p].hook # h

\* No relocate came after that position.
Latest(to) == \A i \in 1 .. HeadSeq : \A n \in log[i].moves : n.from # 0 => i <= to

\* What a drain of the webhook has not to delete any more is off it, in the range of the move; and
\* when it is about to delete a manifest, so is the fragment.
Leaves(c, h) ==
  /\ c.hook = h
  /\ \A i \in (began[h] + 1) .. vault[h].to : \A f \in Message :
       Replaces(i, f) /\ f \notin c.todo => \A p \in Parts(f) : OffHook(h, p)
  /\ c.at = "drainManifest" =>
       \A i \in 1 .. HeadSeq : Replaces(i, c.manifest) => OffHook(h, Piece(c.manifest))

\* A manifest that was replaced is deleted after its fragment on the webhook.
Loose(h) == \A i \in 1 .. HeadSeq : \A f \in Message : Replaces(i, f) /\ f \notin live => OffHook(h, Piece(f))

\* Nothing is on the webhook that was replaced since the move first began.
Emptied(h) ==
  \A i \in (began[h] + 1) .. HeadSeq : \A f \in Message : Replaces(i, f) => \A p \in Parts(f) : OffHook(h, p)

Left(h) ==
  /\ Marked(h) => Latest(vault[h].to)
  /\ \A d \in Device : mover[d].at = "mark" => Latest(mover[d].drain.to)
  /\ Loose(h)
  /\ \A d \in Device : cleaner[d] # None /\ cleaner[d].at \in DrainSteps => Leaves(cleaner[d], h)
  /\ vault[h].state = "moved" => Emptied(h)

LeftInv == \A h \in Hook : Alone(h) => Left(h)

Core == Typing /\ Names /\ Positions /\ LiveInv /\ MarksInv /\ CleanInv /\ RangeInv

\* All moves are of a webhook that is alone after the step, which is so before the step, too.
LEMMA AloneBefore ==
  ASSUME Core, [Next]_vars, NEW h \in Hook, Alone(h)'
  PROVE  /\ Alone(h) /\ OneRange(h) /\ Begins(h)
         /\ \A d \in Device : mover[d].at \notin {"none", "done"} => Underway(d, h)
         /\ \A k \in Hook : vault[k].state # "active" => k = h
<1>1. Typing /\ Names /\ Positions /\ RangeInv /\ None \notin Nat /\ HeadSeq \in Nat
  BY LogIs, ConstantsAreTyped DEF Core, Typing
<1>2. missed \subseteq missed'
  BY <1>1, NextGrows DEF Grows
<1>3. ASSUME NEW g \in Hook, began'[g] = None  PROVE began[g] = None
  <2>1. ASSUME NEW d \in Device, NEW k \in Hook, MoveStart(d, k)  PROVE began[g] = None
    <3>1. began' = [began EXCEPT ![k] = IF began[k] = None THEN HeadSeq ELSE began[k]]
      BY <2>1 DEF MoveStart
    <3>2. began \in [Hook -> Nat \cup {None}]
      BY <1>1 DEF RangeInv
    <3> QED  BY <1>1, <1>3, <3>1, <3>2
  <2> QED  BY <1>3, <2>1, NextBegan DEF BeginsMove
<1>4. Alone(h)
  BY <1>2, <1>3 DEF Alone, Shared
<1>5. \A k \in Hook : vault[k].state # "active" => k = h
  BY <1>1, <1>4 DEF RangeInv, Begins, Alone
<1>6. ASSUME NEW d \in Device, mover[d].at \notin {"none", "done"}  PROVE Underway(d, h)
  <2>1. mover[d].hook \in Hook
    BY <1>1, <1>6 DEF Typing, MoverTypes
  <2>2. Underway(d, mover[d].hook)
    BY <1>6 DEF Underway
  <2>3. mover[d].hook = h
    BY <1>1, <1>5, <2>1, <2>2 DEF RangeInv, Begins
  <2> QED  BY <2>2, <2>3
<1> QED  BY <1>1, <1>4, <1>5, <1>6 DEF RangeInv, Alone

\* Once such a webhook is marked, it stays marked as it is.
LEMMA MarkedStays ==
  ASSUME Core, [Next]_vars, NEW h \in Hook, Alone(h)', Marked(h)
  PROVE  began' = began /\ vault'[h].to = vault[h].to /\ Marked(h)'
<1>1. /\ OneRange(h) /\ \A d \in Device : mover[d].at \notin {"none", "done"} => Underway(d, h)
      /\ \A k \in Hook : vault[k].state # "active" => k = h
  BY AloneBefore
<1>2. \A d \in Device : mover[d].at \in {"none", "done"}
  BY <1>1 DEF OneRange, Marked
<1>3. Typing /\ None \notin Nat /\ HeadSeq \in Nat /\ began \in [Hook -> Nat \cup {None}]
  BY LogIs, ConstantsAreTyped DEF Core, Typing, RangeInv
<1>4. ASSUME NEW d \in Device, NEW k \in Hook, MoveStart(d, k)  PROVE FALSE
  <2>1. vault[k].state \in {"active", "retired"} /\ began' = [began EXCEPT ![k] = IF began[k] = None THEN HeadSeq ELSE began[k]]
    BY <1>4 DEF MoveStart
  <2>2. k # h
    BY <2>1 DEF Marked
  <2>3. began'[k] # None
    BY <1>3, <2>1
  <2> QED  BY <2>2, <2>3 DEF Alone
<1>5. began' = began
  BY <1>4, NextBegan DEF BeginsMove
<1>6. vault'[h] = [vault[h] EXCEPT !.state = "moved"] => vault'[h].to = vault[h].to /\ vault'[h].state = "moved"
  BY <1>3 DEF Typing, VaultTypes
<1>7. VaultGoes(h)
  BY <1>3, NextVault
<1>8. vault'[h] = vault[h] \/ vault'[h] = [vault[h] EXCEPT !.state = "moved"]
  BY <1>2, <1>4, <1>7 DEF VaultGoes
<1> QED  BY <1>5, <1>6, <1>8 DEF Marked

\* Nothing is relocated when the webhook is marked, or its mark worked out.
LEMMA LatestStays ==
  ASSUME Core, [Next]_vars, NEW h \in Hook, Alone(h)', Marked(h) \/ \E d \in Device : mover[d].at = "mark",
         NEW to \in Nat, Latest(to)
  PROVE  Latest(to)'
<1>1. /\ OneRange(h) /\ \A d \in Device : mover[d].at \notin {"none", "done"} => Underway(d, h)
  BY AloneBefore
<1>2. LogTypes /\ HeadSeq \in Nat /\ HeadSeq = Len(log)
  BY LogIs DEF Core, Typing
<1>3. ASSUME NEW d \in Device, MoveCommit(d)  PROVE FALSE
  <2>1. mover[d].at = "copy"
    BY <1>3 DEF MoveCommit
  <2>2. Underway(d, h)
    BY <1>1, <2>1
  <2>3. \A e \in Device : mover[e].at # "mark"
    BY <1>1, <2>1, <2>2 DEF OneRange
  <2> QED  BY <1>1, <2>2, <2>3 DEF OneRange, Marked
<1>4. CASE log' = log
  BY <1>4 DEF Latest, HeadSeq
<1>5. ASSUME NEW e, log' = Append(log, e), \A n \in e.moves : n.from = 0  PROVE Latest(to)'
  <2>1. /\ HeadSeq' = HeadSeq + 1 /\ log'[HeadSeq + 1] = e
        /\ \A i \in 1 .. HeadSeq : log'[i] = log[i]
    BY <1>2, <1>5 DEF LogTypes, HeadSeq
  <2>2. \A i \in 1 .. HeadSeq' : i \in 1 .. HeadSeq \/ i = HeadSeq + 1
    BY <1>2, <2>1
  <2> QED  BY <1>5, <2>1, <2>2 DEF Latest
<1>6. ASSUME NEW d \in Device, UploadCommit(d)  PROVE Latest(to)'
  <2>1. log' = Append(log, Entry({Bind(upload[d].id, upload[d].manifest)}, {}))
    BY <1>6 DEF UploadCommit, Commits
  <2>2. \A n \in Entry({Bind(upload[d].id, upload[d].manifest)}, {}).moves : n.from = 0
    BY DEF Entry, Bind
  <2> QED  BY <1>5, <2>1, <2>2
<1>7. ASSUME NEW d \in Device, NEW u \in Upload, Release(d, u)  PROVE Latest(to)'
  <2>1. log' = Append(log, Entry({}, {u})) /\ Entry({}, {u}).moves = {}
    BY <1>7 DEF Release, Commits, Entry
  <2> QED  BY <1>5, <2>1
<1> QED  BY <1>3, <1>4, <1>6, <1>7, NextLog

\* What is off the webhook stays off it.
LEMMA OffHookStays ==
  ASSUME Base, Grows, NEW h, NEW p \in Message, OffHook(h, p)
  PROVE  OffHook(h, p)'
<1>1. messages'[p] = messages[p]
  BY StepKeeps DEF Grows, GrowsOn, MessagesGrow
<1> QED  BY <1>1 DEF OffHook, Grows

\* The same of the parts of a manifest.
LEMMA PartsOffStay ==
  ASSUME Base, Grows, NEW h, NEW f, IsManifest(f), \A p \in Parts(f) : OffHook(h, p)
  PROVE  \A p \in Parts(f)' : OffHook(h, p)'
<1>1. Parts(f)' = Parts(f) /\ Parts(f) \subseteq Message
  <2>1. MessagesGrow
    BY StepKeeps DEF Grows, GrowsOn
  <2> QED  BY <2>1, ManifestStays DEF Base
<1> QED  BY <1>1, OffHookStays

\* What was replaced by an old entry was so before.
LEMMA ReplacedBefore ==
  ASSUME Base, Grows, NEW i \in 1 .. HeadSeq, NEW f, Replaces(i, f)'
  PROVE  Replaces(i, f) /\ IsManifest(f) /\ f \in Message /\ Piece(f) \in Message
<1>1. log'[i] = log[i] /\ HeadSeq \in Nat
  BY StepKeeps DEF Grows, GrowsOn, LogExtends
<1>2. Replaces(i, f)
  BY <1>1 DEF Replaces
<1>3. PICK n \in log[i].moves : n.from = f /\ f # 0
  BY <1>2 DEF Replaces
<1>4. IsManifest(f)
  BY <1>3, ReplacedGone
<1> QED  BY <1>2, <1>4, ManifestOrPiece

\* What is replaced anew is not deleted.
LEMMA NewReplaced ==
  ASSUME Core, [Next]_vars, NEW i \in 1 .. HeadSeq', i \notin 1 .. HeadSeq, NEW f, Replaces(i, f)'
  PROVE  f \in live'
<1>1. Base /\ Grows /\ HeadSeq \in Nat
  BY NextGrows, NamesAreMessages DEF Core, Base, Typing, RunsTyped
<1>2. Tells
  <2>1. log' # log
    BY DEF HeadSeq
  <2> QED  BY <1>1, <2>1 DEF Grows, Step, PostsFor, Copies
<1>3. i = HeadSeq + 1 /\ Tellable(log'[i])
  BY <1>1, <1>2, TellsLog DEF LogGrowth
<1>4. PICK n \in log'[i].moves : ~n.stale /\ n.from = f /\ f # 0
  BY DEF Replaces
<1>5. NewMove(n)
  BY <1>3 DEF Tellable
<1>6. ASSUME NEW d \in Device, n = Bind(upload[d].id, upload[d].manifest)  PROVE FALSE
  BY <1>4, <1>6 DEF Bind
<1>7. ASSUME NEW d \in Device, NEW m \in mover[d].moves,
             n = [upload |-> m.upload, from |-> m.from, to |-> m.to, stale |-> Stale(m)]
      PROVE  f \in live'
  <2>1. ~Stale(m) /\ m.from = f
    BY <1>4, <1>7
  <2>2. Current(m.upload, HeadSeq) = f /\ m.upload \in Upload /\ f \in Message
    BY <1>1, <2>1, PendingIs DEF Stale
  <2>3. ASSUME f \notin live'  PROVE FALSE
    <3>1. GoneSince(f, HeadSeq)
      BY <2>2, <2>3, DeletedGone DEF Core, Gone
    <3>2. HeadSeq \in HeadSeq .. HeadSeq /\ f \in Parts(f)
      BY <1>1 DEF Parts
    <3> QED  BY <1>4, <2>2, <3>1, <3>2 DEF GoneSince
  <2> QED  BY <2>3
<1> QED  BY <1>5, <1>6, <1>7 DEF NewMove

\* What was replaced is no version's any more.
LEMMA ReplacedUnbound ==
  ASSUME Base, NEW i \in 1 .. HeadSeq, NEW f, Replaces(i, f), NEW u \in Upload
  PROVE  f # Bound(u, HeadSeq)
<1> SUFFICES ASSUME f = Bound(u, HeadSeq)  PROVE FALSE
  OBVIOUS
<1>1. HeadSeq \in Nat /\ LogOK /\ HeadSeq \in 0 .. HeadSeq
  BY NamesAreMessages
<1>2. PICK n \in log[i].moves : ~n.stale /\ n.from = f /\ f # 0
  BY DEF Replaces
<1>3. n.upload \in Upload /\ WasBound(n.upload, f, HeadSeq)
  BY <1>2, ReplacedGone
<1>4. WasBound(u, f, HeadSeq)
  BY <1>1, <1>2, BoundIs
<1>5. Owns(u, f) /\ Owns(n.upload, f) /\ f \in Message
  BY <1>3, <1>4, BoundInLog
<1>6. n.upload = u
  BY <1>3, <1>5, OneOwner
<1>7. WasBound(u, n.to, HeadSeq)
  BY <1>2, <1>6 DEF WasBound
<1>8. n.to <= f /\ n.to \in Message
  BY <1>1, <1>7, BoundIs
<1>9. n.from < n.to
  BY <1>2 DEF Base, Names, LogInv, Logged
<1> QED  BY <1>2, <1>5, <1>8, <1>9, MessagesAre DEF Base

\* What a cleaner or a drain deletes next is a manifest, or a fragment of one.
LEMMA NextManifest ==
  ASSUME Core, [Next]_vars, NEW d \in Device, cleaner[d] # None,
         cleaner[d].at \in {"piece", "manifest", "drainPiece", "drainManifest"}
  PROVE  IsManifest(cleaner[d].manifest)
<1>1. Base /\ Grows
  BY NextGrows DEF Core, Base, Typing, RunsTyped
<1>2. CASE cleaner[d].at \in {"piece", "manifest"}
  <2>1. Cleans(cleaner[d]) /\ cleaner[d].upload \in Upload
    BY <1>2 DEF Core, CleanInv, Typing, CleanerTypes
  <2>2. Released(cleaner[d].upload, Oldest) /\ cleaner[d].manifest = Bound(cleaner[d].upload, HeadSeq)
    BY <1>2, <2>1 DEF Cleans
  <2>3. PICK s \in 0 .. HeadSeq : s = Oldest
    BY OldestIs DEF Core
  <2> QED  BY <1>1, <2>1, <2>2, <2>3, ReleasedStays
<1>3. CASE cleaner[d].at \in {"drainPiece", "drainManifest"}
  <2>1. Drains(cleaner[d])
    BY DEF Core, CleanInv
  <2>2. Condemned(cleaner[d].hook, cleaner[d].manifest)
    BY <1>3, <2>1 DEF Drains, DrainSteps
  <2> QED  BY <1>1, <2>2, CondemnedIs
<1> QED  BY <1>2, <1>3

\* A replaced manifest is deleted after its fragment on the webhook.
LEMMA LooseKept ==
  ASSUME Core, [Next]_vars, NEW h \in Hook, Left(h)
  PROVE  Loose(h)'
<1>1. Base /\ Grows /\ HeadSeq \in Nat /\ MessagesGrow
  BY NextGrows, NamesAreMessages, StepKeeps DEF Core, Base, Typing, RunsTyped, Grows, GrowsOn
<1> SUFFICES ASSUME NEW i \in 1 .. HeadSeq', NEW f \in Message', Replaces(i, f)', f \notin live'
             PROVE  OffHook(h, Piece(f))'
  BY DEF Loose
<1>2. i \in 1 .. HeadSeq
  BY NewReplaced
<1>3. Replaces(i, f) /\ IsManifest(f) /\ f \in Message /\ Piece(f) \in Message
  BY <1>1, <1>2, ReplacedBefore
<1>4. OffHook(h, Piece(f))
  <2>1. CASE f \notin live
    BY <1>2, <1>3, <2>1 DEF Left, Loose
  <2>2. CASE f \in live
    <3>1. PICK d \in Device : \E p : /\ live' = live \ {p} /\ cleaner[d] # None
            /\ \/ cleaner[d].at = "piece" /\ p = Piece(cleaner[d].manifest)
               \/ cleaner[d].at = "manifest" /\ p = cleaner[d].manifest
               \/ cleaner[d].at = "drainPiece" /\ p = Piece(cleaner[d].manifest)
               \/ cleaner[d].at = "drainManifest" /\ p = cleaner[d].manifest
      BY <2>2, NextLive DEF LiveGoes
    <3>2. CASE cleaner[d].at \in {"piece", "drainPiece"}
      <4>1. IsManifest(cleaner[d].manifest)
        BY <3>1, <3>2, NextManifest
      <4>2. f # Piece(cleaner[d].manifest)
        BY <1>1, <1>3, <4>1, ManifestOrPiece
      <4> QED  BY <2>2, <3>1, <3>2, <4>2
    <3>3. CASE cleaner[d].at = "manifest" /\ f = cleaner[d].manifest
      <4>1. Cleans(cleaner[d]) /\ cleaner[d].upload \in Upload
        BY <3>1, <3>3 DEF Core, CleanInv, Typing, CleanerTypes
      <4>2. f = Bound(cleaner[d].upload, HeadSeq)
        BY <3>3, <4>1 DEF Cleans
      <4> QED  BY <1>1, <1>2, <1>3, <4>1, <4>2, ReplacedUnbound
    <3>4. CASE cleaner[d].at = "drainManifest" /\ f = cleaner[d].manifest
      <4>1. Leaves(cleaner[d], h)
        BY <3>1, <3>4 DEF Left, DrainSteps
      <4> QED  BY <1>2, <1>3, <3>4, <4>1 DEF Leaves
    <3> QED  BY <2>2, <3>1, <3>2, <3>3, <3>4
  <2> QED  BY <2>1, <2>2
<1>5. Piece(f)' = Piece(f)
  BY <1>1, <1>3, ManifestStays DEF Base
<1>6. PICK p \in Message : p = Piece(f)
  BY <1>3
<1>7. OffHook(h, p)'
  BY <1>1, <1>4, <1>6, OffHookStays
<1> QED  BY <1>5, <1>6, <1>7 DEF Piece

\* Nothing is replaced anew when the webhook is marked, or its mark worked out.
LEMMA NoneReplaced ==
  ASSUME Core, [Next]_vars, NEW h \in Hook, Alone(h)', Left(h), Marked(h) \/ \E d \in Device : mover[d].at = "mark",
         NEW i \in 1 .. HeadSeq', NEW f, Replaces(i, f)'
  PROVE  /\ i \in 1 .. HeadSeq /\ Replaces(i, f) /\ IsManifest(f) /\ f \in Message /\ Piece(f) \in Message
         /\ Marked(h) => i <= vault[h].to
         /\ \A d \in Device : mover[d].at = "mark" => i <= mover[d].drain.to
<1>1. Base /\ Grows /\ Typing /\ Positions /\ HeadSeq \in Nat
  BY NextGrows, NamesAreMessages DEF Core, Base, Typing, RunsTyped
<1>2. PICK n \in log'[i].moves : n.from = f /\ f # 0
  BY DEF Replaces
<1>3. ASSUME NEW to \in Nat, Latest(to)  PROVE i <= to
  <2>1. Latest(to)'
    BY <1>3, LatestStays
  <2> QED  BY <1>2, <2>1 DEF Latest
<1>4. Marked(h) => i <= vault[h].to /\ vault[h].to \in Nat /\ vault[h].to <= HeadSeq
  BY <1>1, <1>3 DEF Left, Typing, VaultTypes, Positions
<1>5. \A d \in Device : mover[d].at = "mark" =>
        i <= mover[d].drain.to /\ mover[d].drain.to \in Nat /\ mover[d].drain.to <= HeadSeq
  BY <1>1, <1>3 DEF Left, Typing, MoverTypes, Drain, Positions
<1>6. i \in 1 .. HeadSeq
  BY <1>1, <1>4, <1>5
<1> QED  BY <1>1, <1>4, <1>5, <1>6, ReplacedBefore

\* What a drain loads: afterwards the fragment is off the webhook, or it is deleted next.
LEMMA LoadedLeaves ==
  ASSUME Core, [Next]_vars, NEW h \in Hook, Alone(h)', Left(h), NEW d \in Device, cleaner[d] # None, cleaner[d].hook = h,
         NEW loads \in BOOLEAN, DrainLoad(d, loads), cleaner'[d].at = "drainManifest",
         NEW i \in 1 .. HeadSeq, Replaces(i, cleaner'[d].manifest), cleaner'[d].manifest \in Message
  PROVE  OffHook(h, Piece(cleaner'[d].manifest)) /\ cleaner'[d].todo = cleaner[d].todo
<1>1. DrainLoadRuns(d, loads)
  BY DrainLoadSteps DEF Core
<1>2. PICK m : m = Min(cleaner[d].todo)
  OBVIOUS
<1>3. PICK at : at = IF loads /\ messages[messages[m].piece].hook = cleaner[d].hook THEN "drainPiece" ELSE "drainManifest"
  OBVIOUS
<1>4. /\ missed' = IF ~loads /\ m \in live THEN missed \cup {<<"manifest", cleaner[d].hook>>} ELSE missed
      /\ cleaner'[d] = [cleaner[d] EXCEPT !.manifest = m, !.at = at]
  BY <1>1, <1>2, <1>3 DEF DrainLoadRuns, CleanRuns
<1>5. cleaner[d] \in CleanRun
  BY DEF Core, Typing, CleanerTypes
<1>6. cleaner'[d].manifest = m /\ cleaner'[d].at = at /\ cleaner'[d].todo = cleaner[d].todo
  BY <1>4, <1>5 DEF CleanRun
<1>7. CASE loads
  BY <1>3, <1>6, <1>7 DEF OffHook, Piece
<1>8. CASE ~loads
  <2>1. m \notin live
    BY <1>4, <1>8 DEF Alone
  <2> QED  BY <1>6, <2>1 DEF Left, Loose
<1> QED  BY <1>6, <1>7, <1>8

\* A drain leaves what it has left.
LEMMA LeavesKept ==
  ASSUME Core, [Next]_vars, NEW h \in Hook, Alone(h)', Left(h),
         NEW d \in Device, cleaner'[d] # None, cleaner'[d].at \in DrainSteps
  PROVE  Leaves(cleaner[d], h)'
<1>1. Base /\ Grows /\ Typing /\ Names /\ Positions /\ MarksInv /\ HeadSeq \in Nat /\ MessagesGrow
  BY NextGrows, NamesAreMessages, StepKeeps DEF Core, Base, Typing, RunsTyped, Grows, GrowsOn
<1>2. OneRange(h) /\ Begins(h) /\ \A k \in Hook : vault[k].state # "active" => k = h
  BY AloneBefore
<1>3. Marked(h) => began[h] \in Nat
  BY <1>2 DEF Core, RangeInv, Begins, Marked
<1>4. ASSUME NEW k \in Hook, NEW unread \in BOOLEAN, StartsDraining(d, k, unread)  PROVE Leaves(cleaner[d], h)'
  <2>1. vault[k].state = "drain" /\ vault' = vault /\ began' = began /\ log' = log
    BY <1>4 DEF StartsDraining, DrainStart, MayDrain, DrainsByAge, account
  <2>2. k = h
    BY <1>2, <2>1
  <2>3. cleaner'[d].hook = h /\ cleaner'[d].at = "drain" /\ cleaner'[d].todo = Replaced(h) /\ vault[h].from = began[h]
    BY <1>2, <1>4, <2>1, <2>2 DEF StartsDraining, OneRange
  <2>4. ASSUME NEW i \in (began[h] + 1) .. vault[h].to, NEW f, Replaces(i, f)'  PROVE f \in Replaced(h)
    <3>1. PICK n \in log[i].moves : n.from = f /\ f # 0
      BY <2>1, <2>4 DEF Replaces
    <3>2. i \in (vault[h].from + 1) .. vault[h].to
      BY <2>3
    <3> QED  BY <3>1, <3>2 DEF Replaced
  <2> QED  BY <2>1, <2>3, <2>4 DEF Leaves
<1>5. CASE GoesOnDraining(d)
  <2> DEFINE c == cleaner[d]
  <2>1. c # None /\ c.at \in DrainSteps /\ Leaves(c, h) /\ c.hook = h /\ cleaner'[d].hook = h /\ c \in CleanRun
    BY <1>1, <1>5 DEF GoesOnDraining, Left, Leaves, Typing, CleanerTypes
  <2>2. Marked(h)
    BY <1>1, <2>1 DEF MarksInv, Marked
  <2>3. began' = began /\ vault'[h].to = vault[h].to /\ vault[h].to \in Nat /\ vault[h].to <= HeadSeq
    BY <1>1, <2>2, MarkedStays DEF Typing, VaultTypes, Positions
  <2>4. HeadSeq' \in Nat /\ HeadSeq' >= HeadSeq
    BY <1>1, StepKeeps DEF Grows, GrowsOn
  <2>5. h \in client[d].knows
    BY <2>1 DEF Core, CleanInv
  <2>6. ASSUME NEW i \in (began[h] + 1) .. vault[h].to, NEW f, Replaces(i, f)', f \notin cleaner'[d].todo
        PROVE  \A p \in Parts(f)' : OffHook(h, p)'
    <3>1. i \in 1 .. HeadSeq' /\ i \in 1 .. HeadSeq
      BY <1>1, <1>3, <2>2, <2>3, <2>4
    <3>2. Replaces(i, f) /\ IsManifest(f) /\ f \in Message /\ Piece(f) \in Message
      BY <1>1, <2>6, <3>1, ReplacedBefore
    <3>3. CASE f \notin c.todo
      <4>1. \A p \in Parts(f) : OffHook(h, p)
        BY <2>1, <3>2, <3>3 DEF Leaves
      <4> QED  BY <1>1, <3>2, <4>1, PartsOffStay
    <3>4. CASE f \in c.todo
      <4>1. DrainManifest(d) /\ f = c.manifest
        <5>1. ASSUME NEW loads \in BOOLEAN, DrainLoad(d, loads)  PROVE cleaner'[d].todo = c.todo
          <6>1. DrainLoadRuns(d, loads)
            BY <1>1, <5>1, DrainLoadSteps
          <6>2. \E m, at : cleaner'[d] = [c EXCEPT !.manifest = m, !.at = at]
            BY <6>1 DEF DrainLoadRuns, CleanRuns
          <6> QED  BY <2>1, <6>2 DEF CleanRun
        <5>2. [c EXCEPT !.at = "drainManifest"].todo = c.todo /\ [c EXCEPT !.at = "drain", !.todo = @ \ {c.manifest}].todo = c.todo \ {c.manifest}
          BY <2>1 DEF CleanRun
        <5> QED  BY <1>5, <2>6, <3>4, <5>1, <5>2 DEF GoesOnDraining
      <4>2. c.at = "drainManifest" /\ Delete(d, f) /\ messages' = messages
        BY <4>1 DEF DrainManifest
      <4>3. OffHook(h, Piece(f))
        BY <2>1, <3>1, <3>2, <4>1, <4>2 DEF Leaves
      <4>4. OffHook(h, f)'
        BY <2>5, <4>2 DEF OffHook, Delete
      <4>5. PICK q \in Message : q = Piece(f)
        BY <3>2
      <4>6. OffHook(h, q)'
        BY <1>1, <4>3, <4>5, OffHookStays
      <4>7. Parts(f)' = {f, q}
        BY <1>1, <3>2, <4>5, ManifestStays DEF Base
      <4> QED  BY <4>4, <4>6, <4>7
    <3> QED  BY <3>3, <3>4
  <2>7. ASSUME cleaner'[d].at = "drainManifest", NEW i \in 1 .. HeadSeq', NEW f, f = cleaner'[d].manifest, Replaces(i, f)'
        PROVE  OffHook(h, Piece(f))'
    <3>1. i \in 1 .. HeadSeq /\ Replaces(i, f) /\ IsManifest(f) /\ f \in Message /\ Piece(f) \in Message
      BY <2>2, <2>7, NoneReplaced
    <3>2. PICK q \in Message : q = Piece(f) /\ q = Piece(f)'
      BY <1>1, <3>1, ManifestStays DEF Base
    <3>3. CASE cleaner'[d] = c
      <4>1. OffHook(h, q)
        BY <2>1, <2>7, <3>1, <3>2, <3>3 DEF Leaves
      <4>2. OffHook(h, q)'
        BY <1>1, <4>1, OffHookStays
      <4> QED  BY <3>2, <4>2
    <3>4. ASSUME NEW loads \in BOOLEAN, DrainLoad(d, loads)  PROVE OffHook(h, Piece(f))'
      <4>1. OffHook(h, q)
        BY <2>1, <2>7, <3>1, <3>2, <3>4, LoadedLeaves
      <4>2. OffHook(h, q)'
        BY <1>1, <4>1, OffHookStays
      <4> QED  BY <3>2, <4>2
    <3>5. CASE DrainPiece(d) /\ cleaner'[d] = [c EXCEPT !.at = "drainManifest"]
      <4>1. f = c.manifest /\ Delete(d, q) /\ messages' = messages
        BY <2>1, <2>7, <3>2, <3>5 DEF CleanRun, DrainPiece, Piece
      <4>2. OffHook(h, q)'
        BY <2>5, <4>1 DEF OffHook, Delete
      <4> QED  BY <3>2, <4>2
    <3>6. CASE cleaner'[d] = [c EXCEPT !.at = "drain", !.todo = @ \ {c.manifest}]
      BY <2>1, <2>7, <3>6 DEF CleanRun
    <3> QED  BY <1>5, <3>3, <3>4, <3>5, <3>6 DEF GoesOnDraining
  <2> QED  BY <2>1, <2>3, <2>6, <2>7 DEF Leaves
<1> QED  BY <1>1, <1>4, <1>5, NextDrains

\* A mark says where the last relocate was.
LEMMA LatestKept ==
  ASSUME Core, [Next]_vars, NEW h \in Hook, Alone(h)', Left(h)
  PROVE  /\ (Marked(h) => Latest(vault[h].to))'
         /\ \A d \in Device : (mover[d].at = "mark" => Latest(mover[d].drain.to))'
<1>1. Typing /\ Names /\ Positions /\ MarksInv /\ HeadSeq \in Nat
  BY LogIs DEF Core, Typing
<1>2. \A d \in Device : mover[d].at = "mark" => mover[d].drain \in Drain /\ Latest(mover[d].drain.to)
  BY <1>1 DEF Typing, MoverTypes, Left
<1>3. ASSUME NEW to \in Nat, Latest(to), Marked(h) \/ \E d \in Device : mover[d].at = "mark"  PROVE Latest(to)'
  BY <1>3, LatestStays
<1>4. ASSUME Marked(h)'  PROVE Latest(vault[h].to)'
  <2>1. CASE Marked(h)
    <3>1. PICK to \in Nat : to = vault[h].to /\ to = vault'[h].to
      BY <1>1, <2>1, MarkedStays DEF Typing, VaultTypes
    <3>2. Latest(to)'
      BY <1>3, <2>1, <3>1 DEF Left
    <3> QED  BY <3>1, <3>2
  <2>2. CASE ~Marked(h)
    <3>1. vault[h] \in [state : {"active", "retired", "drain", "moved"}, from : Nat, to : Nat, at : Nat]
      BY <1>1 DEF Typing, VaultTypes
    <3>2. VaultGoes(h)
      BY <1>1, NextVault
    <3>3. ASSUME vault'[h] = [vault[h] EXCEPT !.state = "retired"]  PROVE FALSE
      BY <1>4, <3>1, <3>3 DEF Marked
    <3>4. ASSUME NEW d \in Device, cleaner[d] # None, cleaner[d].at = "drain", cleaner[d].hook = h  PROVE FALSE
      BY <1>1, <2>2, <3>4 DEF MarksInv, Marked, DrainSteps
    <3>5. PICK d \in Device : mover[d].at = "mark" /\ vault'[h] = mover[d].drain
      BY <1>4, <2>2, <3>2, <3>3, <3>4 DEF VaultGoes, Marked
    <3>6. PICK to \in Nat : to = mover[d].drain.to /\ to = vault'[h].to
      BY <1>2, <3>5 DEF Drain
    <3>7. Latest(to)'
      BY <1>2, <1>3, <3>5, <3>6
    <3> QED  BY <3>6, <3>7
  <2> QED  BY <2>1, <2>2
<1>5. ASSUME NEW d \in Device, mover'[d].at = "mark"  PROVE Latest(mover[d].drain.to)'
  <2>1. MoverGoes(d) /\ mover[d] \in MoveRun
    BY <1>1, NextMovers DEF Typing, MoverTypes
  <2>2. CASE mover'[d] = mover[d]
    <3>1. PICK to \in Nat : to = mover[d].drain.to /\ to = mover'[d].drain.to
      BY <1>2, <1>5, <2>2 DEF Drain
    <3>2. Latest(to)'
      BY <1>2, <1>3, <1>5, <2>2, <3>1
    <3> QED  BY <3>1, <3>2
  <2>3. ASSUME MoveCheck(d), mover'[d] = [mover[d] EXCEPT !.at = "mark", !.drain = Drained(mover[d].from)]
        PROVE  Latest(mover[d].drain.to)'
    <3>1. log' = log
      BY <2>3 DEF MoveCheck, account
    <3>2. mover'[d].drain = Drained(mover[d].from)
      BY <2>1, <2>3 DEF MoveRun
    <3>3. mover'[d].drain.to = HeadSeq
      BY <3>2 DEF Drained
    <3> QED  BY <1>1, <3>1, <3>3 DEF Latest, HeadSeq
  <2>4. ASSUME NEW g, NEW s, mover'[d] = [NoMove EXCEPT !.at = "files", !.hook = g, !.from = s]  PROVE FALSE
    BY <1>5, <2>4 DEF NoMove
  <2>5. ASSUME NEW g, mover'[d] = [NoMove EXCEPT !.at = "done", !.hook = g]  PROVE FALSE
    BY <1>5, <2>5 DEF NoMove
  <2> QED  BY <1>5, <2>1, <2>2, <2>3, <2>4, <2>5 DEF MoverGoes
<1> QED  BY <1>4, <1>5

\* A webhook that is moved is emptied.
LEMMA EmptiedKept ==
  ASSUME Core, [Next]_vars, NEW h \in Hook, Alone(h)', Left(h), vault'[h].state = "moved"
  PROVE  Emptied(h)'
<1>1. Base /\ Grows /\ Typing /\ Names /\ Positions /\ MarksInv /\ HeadSeq \in Nat
  BY NextGrows, NamesAreMessages DEF Core, Base, Typing, RunsTyped
<1>2. vault[h] \in [state : {"active", "retired", "drain", "moved"}, from : Nat, to : Nat, at : Nat]
  BY <1>1 DEF Typing, VaultTypes
<1>3. Marked(h) /\ \/ vault[h].state = "moved"
                   \/ \E d \in Device : cleaner[d] # None /\ cleaner[d].at = "drain" /\ cleaner[d].todo = {} /\ cleaner[d].hook = h
  <2>1. VaultGoes(h)
    BY <1>1, NextVault
  <2>2. ASSUME vault'[h] = [vault[h] EXCEPT !.state = "retired"]  PROVE FALSE
    BY <1>2, <2>2
  <2>3. ASSUME NEW d \in Device, mover[d].at = "mark", vault'[h] = mover[d].drain  PROVE FALSE
    BY <1>1, <2>3 DEF Typing, MoverTypes, Drain
  <2>4. \/ vault[h].state = "moved"
        \/ \E d \in Device : cleaner[d] # None /\ cleaner[d].at = "drain" /\ cleaner[d].todo = {} /\ cleaner[d].hook = h
    BY <2>1, <2>2, <2>3 DEF VaultGoes
  <2> QED  BY <1>1, <2>4 DEF MarksInv, Marked, DrainSteps
<1>4. began' = began
  BY <1>3, MarkedStays
<1> SUFFICES ASSUME NEW i \in (began[h] + 1) .. HeadSeq', i \in 1 .. HeadSeq', NEW f \in Message', Replaces(i, f)'
             PROVE  \A p \in Parts(f)' : OffHook(h, p)'
  <2>1. began[h] \in Nat /\ HeadSeq' \in Nat
    BY <1>1, <1>3, AloneBefore, StepKeeps DEF Core, RangeInv, Begins, Marked, Grows, GrowsOn
  <2> QED  BY <1>4, <2>1 DEF Emptied
<1>5. /\ i \in 1 .. HeadSeq /\ i <= vault[h].to
      /\ Replaces(i, f) /\ IsManifest(f) /\ f \in Message
  BY <1>3, NoneReplaced
<1>6. \A p \in Parts(f) : OffHook(h, p)
  <2>1. began[h] \in Nat
    BY <1>3, AloneBefore DEF Core, RangeInv, Begins, Marked
  <2>2. CASE vault[h].state = "moved"
    <3>1. i \in (began[h] + 1) .. HeadSeq
      BY <1>1, <1>5, <2>1
    <3> QED  BY <1>5, <2>2, <3>1 DEF Left, Emptied
  <2>3. ASSUME NEW d \in Device, cleaner[d] # None, cleaner[d].at = "drain", cleaner[d].todo = {}
        PROVE  \A p \in Parts(f) : OffHook(h, p)
    <3>1. Leaves(cleaner[d], h)
      BY <2>3 DEF Left, DrainSteps
    <3>2. i \in (began[h] + 1) .. vault[h].to
      BY <1>2, <1>5, <2>1
    <3> QED  BY <1>5, <2>3, <3>1, <3>2 DEF Leaves
  <2> QED  BY <1>3, <2>2, <2>3
<1> QED  BY <1>1, <1>5, <1>6, PartsOffStay

\* What a drain leaves behind is kept.
LEMMA LeftKept ==
  ASSUME Core, LeftInv, [Next]_vars
  PROVE  LeftInv'
<1> SUFFICES ASSUME NEW h \in Hook, Alone(h)'  PROVE Left(h)'
  BY DEF LeftInv
<1>1. Left(h)
  BY AloneBefore DEF LeftInv
<1> QED  BY <1>1, LatestKept, LooseKept, LeavesKept, EmptiedKept DEF Left
-----------------------------------------------------------------------------
(* The bounds of numbers                                                   *)

\* Failures are counted, and the days too.
LEMMA NextFaults ==
  ASSUME [Next]_vars
  PROVE  faults' = faults \/ Fault
<1>1. CASE UNCHANGED vars \/ NextDay \/ \E at \in 1 .. MaxLog : TakeBase(at)
  BY <1>1 DEF vars, NextDay, TakeBase
<1>2. ASSUME NEW d \in Device, Reopen(d) \/ (\E u \in Upload : Release(d, u)) \/ Uploading(d)  PROVE faults' = faults \/ Fault
  BY <1>2 DEF Reopen, Release, Uploading, UploadPiece, UploadManifest, UploadCommit
<1>3. ASSUME NEW d \in Device, Moving(d)  PROVE faults' = faults \/ Fault
  BY <1>3 DEF Moving, MoveStart, MoveMark, MoveCopy, MoveBatch, MoveCommit, MoveCheck, MoveFails
<1>4. ASSUME NEW d \in Device, CleaningUp(d)  PROVE faults' = faults \/ Fault
  BY <1>4 DEF CleaningUp, CleanStart, CleanNext, CleanPiece, CleanManifest, CleanFails, CleanRecord, CleanEnd
<1>5. ASSUME NEW d \in Device, Draining(d)  PROVE faults' = faults \/ Fault
  BY <1>5 DEF Draining, DrainStart, DrainLoad, DrainPiece, DrainManifest, DrainFinish, DrainFails, DrainsEnd
<1> QED  BY <1>1, <1>2, <1>3, <1>4, <1>5 DEF Next

\* What a device knows and posts to: it is opened anew, it begins a move, or they stay.
LEMMA NextClients ==
  ASSUME [Next]_vars
  PROVE  \/ client' = client
         \/ \E d \in Device : \/ Reopen(d)
                              \/ \E h \in Hook : client' = [client EXCEPT ![d].posts = @ \ {h}]
<1> DEFINE Clients == \/ client' = client
                      \/ \E d \in Device : \/ Reopen(d)
                                           \/ \E h \in Hook : client' = [client EXCEPT ![d].posts = @ \ {h}]
<1>1. CASE UNCHANGED vars \/ NextDay \/ \E at \in 1 .. MaxLog : TakeBase(at)
  BY <1>1 DEF vars, NextDay, TakeBase
<1>2. ASSUME NEW d \in Device, Reopen(d) \/ (\E u \in Upload : Release(d, u)) \/ Uploading(d)  PROVE Clients
  BY <1>2 DEF Release, Uploading, UploadPiece, UploadManifest, UploadCommit
<1>3. ASSUME NEW d \in Device, Moving(d)  PROVE Clients
  <2>1. ASSUME NEW h \in Hook, MoveStart(d, h)  PROVE Clients
    BY <2>1 DEF MoveStart
  <2> QED  BY <1>3, <2>1 DEF Moving, MoveMark, MoveCopy, MoveBatch, MoveCommit, MoveCheck, MoveFails
<1>4. ASSUME NEW d \in Device, CleaningUp(d)  PROVE client' = client
  BY <1>4 DEF CleaningUp, CleanStart, CleanNext, CleanPiece, CleanManifest, CleanFails, CleanRecord, CleanEnd
<1>5. ASSUME NEW d \in Device, Draining(d)  PROVE client' = client
  BY <1>5 DEF Draining, DrainStart, DrainLoad, DrainPiece, DrainManifest, DrainFinish, DrainFails, DrainsEnd
<1> QED  BY <1>1, <1>2, <1>3, <1>4, <1>5 DEF Next

\* A message's fragment is no later message.
PiecesBefore == \A m \in Message : Piece(m) \in 1 .. m

\* A device posts to webhooks it knows.
PostsKnown == \A d \in Device : client[d].posts \subseteq client[d].knows

Bounds ==
  /\ day <= MaxDay /\ faults <= MaxFaults /\ \A i \in 1 .. HeadSeq : log[i].day <= day
  /\ PiecesBefore /\ PostsKnown

\* Posts and copies keep fragments before what names them.
LEMMA PiecesKept ==
  ASSUME Base, Step, PiecesBefore
  PROVE  PiecesBefore'
<1> SUFFICES ASSUME NEW m \in Message'  PROVE messages'[m].piece \in 1 .. m
  BY DEF PiecesBefore, Piece
<1>1. MessagesGrow /\ Message = 1 .. Len(messages) /\ Len(messages) \in Nat /\ Message' = 1 .. Len(messages') /\ Len(messages') \in Nat
  BY StepKeeps, MessagesNext DEF GrowsOn
<1>2. CASE m \in Message
  BY <1>1, <1>2 DEF MessagesGrow, PiecesBefore, Piece
<1>3. ASSUME NEW p \in Message, m \notin Message  PROVE p \in 1 .. m
  BY <1>1, <1>3
<1>4. CASE Tells
  BY <1>1, <1>2, <1>4, TellsLog
<1>5. ASSUME NEW d \in Device, NEW k, PostsFor(d, k), m \notin Message  PROVE messages'[m].piece \in 1 .. m
  <2>1. m = k
    BY <1>5 DEF PostsFor
  <2>2. CASE messages'[k].piece = k
    BY <1>1, <2>1, <2>2
  <2>3. CASE upload[d] # None /\ messages'[k].piece = upload[d].piece
    <3>1. upload[d].piece \in Message
      BY <2>3 DEF Base, Names, UploadInv, UnderWay
    <3> QED  BY <1>3, <1>5, <2>1, <2>3, <3>1
  <2> QED  BY <1>5, <2>2, <2>3 DEF PostsFor
<1>6. ASSUME NEW d \in Device, NEW v, NEW k, NEW p, Copies(d, v, k, p), m \notin Message  PROVE messages'[m].piece \in 1 .. m
  <2>1. m \in {k, p} /\ v \in mover[d].todo /\ messages'[k].piece = p /\ k \in Message'
    BY <1>6 DEF Copies
  <2>2. CASE p = Piece(v.from)
    <3>1. WasBound(v.upload, v.from, HeadSeq)
      BY <2>1 DEF Base, Names, PendInv
    <3>2. p \in Message
      BY <2>2, <3>1, BoundInLog
    <3> QED  BY <1>3, <1>6, <2>1, <3>2
  <2>3. CASE p \in Message' \ Message /\ p < k /\ messages'[p].piece = p
    BY <1>1, <2>1, <2>3
  <2> QED  BY <1>6, <2>2, <2>3 DEF Copies
<1> QED  BY <1>2, <1>4, <1>5, <1>6 DEF Step

\* Entries are of the days until now.
LEMMA EntryDays ==
  ASSUME Typing, [Next]_vars, \A i \in 1 .. HeadSeq : log[i].day <= day
  PROVE  \A i \in 1 .. HeadSeq' : log'[i].day <= day'
<1>1. /\ day \in Nat /\ day' \in Nat /\ day' >= day /\ HeadSeq \in Nat /\ HeadSeq = Len(log)
      /\ \A i \in 1 .. HeadSeq : log[i] \in LogEntry
  BY NextDays, LogIs DEF Typing
<1>2. \A i \in 1 .. HeadSeq : log[i].day <= day'
  BY <1>1 DEF LogEntry
<1>3. CASE log' = log
  BY <1>2, <1>3 DEF HeadSeq
<1>4. ASSUME NEW moves, NEW ended, log' = Append(log, Entry(moves, ended))  PROVE \A i \in 1 .. HeadSeq' : log'[i].day <= day'
  <2>1. PICK e : e = Entry(moves, ended)
    OBVIOUS
  <2>2. e.day = day
    BY <2>1 DEF Entry
  <2>3. HeadSeq' = HeadSeq + 1 /\ log'[HeadSeq + 1] = e /\ \A i \in 1 .. HeadSeq : log'[i] = log[i]
    BY <1>1, <1>4, <2>1 DEF Typing, LogTypes, HeadSeq
  <2>4. \A i \in 1 .. HeadSeq' : i \in 1 .. HeadSeq \/ i = HeadSeq + 1
    BY <1>1, <2>3
  <2> QED  BY <1>1, <1>2, <2>2, <2>3, <2>4
<1>5. ASSUME NEW d \in Device, UploadCommit(d) \/ MoveCommit(d) \/ \E u \in Upload : Release(d, u)
      PROVE  \E moves, ended : log' = Append(log, Entry(moves, ended))
  <2>1. ASSUME NEW moves, NEW ended, Commits(Entry(moves, ended))  PROVE \E x, y : log' = Append(log, Entry(x, y))
    BY <2>1 DEF Commits
  <2> QED  BY <1>5, <2>1 DEF UploadCommit, MoveCommit, Release
<1> QED  BY <1>3, <1>4, <1>5, NextLog

\* The bounds are kept.
LEMMA BoundsKept ==
  ASSUME Typing, Names, Positions, Bounds, [Next]_vars
  PROVE  Bounds'
<1>1. PiecesBefore'
  BY NextGrows, PiecesKept DEF Grows, Bounds, Base, Typing, RunsTyped
<1>2. \A i \in 1 .. HeadSeq' : log'[i].day <= day'
  BY EntryDays DEF Bounds
<1>3. day' <= MaxDay
  BY NextDays, ConstantsAreTyped DEF Bounds, NextDay
<1>4. faults' <= MaxFaults
  BY NextFaults, ConstantsAreTyped DEF Bounds, Fault, Typing, RestTypes
<1>5. PostsKnown'
  <2>1. client \in [Device -> [knows : SUBSET Hook, posts : SUBSET Hook]]
    BY DEF Typing, VaultTypes
  <2>2. ASSUME NEW d \in Device, Reopen(d)  PROVE PostsKnown'
    <3>1. client' = [client EXCEPT ![d].knows = {h \in Hook : InVault(h)},
                                   ![d].posts = {h \in Hook : vault[h].state = "active"}]
      BY <2>2 DEF Reopen
    <3>2. {h \in Hook : vault[h].state = "active"} \subseteq {h \in Hook : InVault(h)}
      BY DEF InVault
    <3> QED  BY <2>1, <3>1, <3>2 DEF Bounds, PostsKnown
  <2>3. ASSUME NEW d \in Device, NEW h \in Hook, client' = [client EXCEPT ![d].posts = @ \ {h}]  PROVE PostsKnown'
    BY <2>1, <2>3 DEF Bounds, PostsKnown
  <2> QED  BY <2>2, <2>3, NextClients DEF Bounds, PostsKnown
<1> QED  BY <1>1, <1>2, <1>3, <1>4, <1>5 DEF Bounds
-----------------------------------------------------------------------------
(* At the beginning                                                        *)

\* The one version that is there: its manifest, and its fragment.
LEMMA InitLog ==
  ASSUME Init
  PROVE  /\ HeadSeq = 1 /\ Message = {1, 2} /\ Len(messages) = 2
         /\ Bind(1, 2) \in LogMove /\ log[1].moves = {Bind(1, 2)} /\ log[1].ended = {} /\ log[1].day = 0
         /\ log \in Seq(LogEntry) /\ messages \in Seq([hook : Hook, piece : Nat])
         /\ messages[1] = [hook |-> PieceOn, piece |-> 1] /\ messages[2] = [hook |-> ManifestOn, piece |-> 1]
<1> DEFINE e == Entry({Bind(1, 2)}, {})
           x == [hook |-> PieceOn, piece |-> 1]
           y == [hook |-> ManifestOn, piece |-> 1]
<1>1. log = <<e>> /\ messages = <<x, y>> /\ day = 0
  BY DEF Init
<1>2. Bind(1, 2) \in LogMove
  BY ConstantsAreTyped DEF Bind, LogMove, Upload
<1>3. e \in LogEntry /\ e.moves = {Bind(1, 2)} /\ e.ended = {} /\ e.day = 0
  BY <1>1, <1>2 DEF Entry, LogEntry
<1>4. x \in [hook : Hook, piece : Nat] /\ y \in [hook : Hook, piece : Nat]
  BY ConstantsAreTyped
<1>5. HeadSeq = 1 /\ log[1] = e /\ log \in Seq(LogEntry)
  <2> HIDE DEF e
  <2> QED  BY <1>1, <1>3 DEF HeadSeq
<1>6. Message = {1, 2} /\ messages[1] = x /\ messages[2] = y /\ Len(messages) = 2
  <2> HIDE DEF x, y
  <2> QED  BY <1>1 DEF Message
<1>7. messages \in Seq([hook : Hook, piece : Nat])
  <2> DEFINE S == [hook : Hook, piece : Nat]
  <2>1. x \in S /\ y \in S
    BY <1>4
  <2> HIDE DEF S, x, y
  <2>2. messages \in Seq(S)
    BY <1>1, <2>1
  <2> QED  BY <2>2 DEF S
<1> QED  BY <1>2, <1>3, <1>5, <1>6, <1>7

\* Everything has its type at the beginning.
LEMMA InitTyped ==
  ASSUME Init
  PROVE  Typing
<1>1. LogTypes /\ MessageTypes
  BY InitLog DEF LogTypes, MessageTypes
<1>2. UploadTypes
  BY DEF Init, UploadTypes
<1>3. MoverTypes
  <2>1. NoMove \in MoveRun /\ NoMove.at = "none"
    BY DEF NoMove, MoveRun
  <2> QED  BY <2>1 DEF Init, MoverTypes
<1>4. CleanerTypes
  BY DEF Init, CleanerTypes
<1>5. TimeTypes
  BY InitLog DEF Init, TimeTypes
<1>6. VaultTypes
  BY DEF Init, VaultTypes, Kept
<1>7. RestTypes
  BY InitLog DEF Init, RestTypes
<1> QED  BY <1>1, <1>2, <1>3, <1>4, <1>5, <1>6, <1>7 DEF Typing

\* And only the one upload names messages.
LEMMA InitNames ==
  ASSUME Init
  PROVE  Names /\ Positions
<1>1. /\ HeadSeq = 1 /\ Message = {1, 2} /\ log[1].moves = {Bind(1, 2)} /\ log[1].ended = {}
      /\ messages[1].piece = 1 /\ messages[2].piece = 1
  BY InitLog
<1>2. \A d \in Device : upload[d] = None /\ mover[d] = NoMove
  BY DEF Init
<1>3. NoMove.moves = {} /\ NoMove.todo = {} /\ NoMove.from = 0 /\ NoMove.at = "none"
  BY DEF NoMove
<1>4. \A i \in 1 .. HeadSeq : i = 1
  BY <1>1
<1>5. Bind(1, 2).upload = 1 /\ Bind(1, 2).from = 0 /\ Bind(1, 2).to = 2 /\ Bind(1, 2).stale = FALSE
  BY DEF Bind
<1>6. OwnInv
  BY <1>1, <1>2, <1>3, <1>4, <1>5 DEF OwnInv, Owns
<1>7. LogInv
  <2>1. IsManifest(2)
    BY <1>1 DEF IsManifest, Piece
  <2>2. \A u : ~Released(u, HeadSeq)
    BY <1>1, <1>4 DEF Released
  <2> QED  BY <1>1, <1>4, <1>5, <2>1, <2>2 DEF LogInv, Logged
<1>8. PendInv /\ UploadInv
  BY <1>2, <1>3 DEF PendInv, UploadInv
<1>9. Positions
  <2>1. \A h \in Hook : vault[h].from = 0 /\ vault[h].to = 0 /\ vault[h].at = 0 /\ day = 0
    BY DEF Init, Kept
  <2> QED  BY <1>1, <1>2, <1>3, <2>1 DEF Positions
<1> QED  BY <1>6, <1>7, <1>8, <1>9 DEF Names

\* Nothing is deleted, marked or cleaned.
LEMMA InitRest ==
  ASSUME Init
  PROVE  LiveInv /\ MarksInv /\ CleanInv
<1>1. Message = {1, 2} /\ live = {1, 2} /\ HeadSeq = 1
  BY InitLog DEF Init
<1>2. \A h \in Hook : vault[h].state = "active"
  BY DEF Init, Kept
<1>3. \A d \in Device : mover[d].at = "none" /\ cleaner[d] = None /\ client[d].knows = Hook
  BY DEF Init, NoMove
<1>4. LiveInv
  BY <1>1 DEF LiveInv
<1>5. MarksInv
  BY <1>2, <1>3 DEF MarksInv
<1>6. ASSUME NEW u \in Upload  PROVE Gathered(u)
  <2>1. Base
    BY InitTyped, InitNames DEF Base, Typing, RunsTyped
  <2>2. LogOK /\ HeadSeq \in 0 .. HeadSeq
    BY <1>1, <2>1, NamesAreMessages
  <2>3. Bound(u, HeadSeq) # 0 => Bound(u, HeadSeq) \in Message
    BY <2>2, BoundIs
  <2> QED  BY <1>1, <2>3 DEF Gathered
<1>7. CleanInv
  BY <1>3, <1>6 DEF CleanInv, Init
<1> QED  BY <1>4, <1>5, <1>7

\* No webhook has been moved, nothing was replaced, no number is beyond its bound.
LEMMA InitMoves ==
  ASSUME Init
  PROVE  RangeInv /\ LeftInv /\ Bounds
<1>1. /\ HeadSeq = 1 /\ Message = {1, 2} /\ log[1].moves = {Bind(1, 2)} /\ log[1].day = 0
      /\ Piece(1) = 1 /\ Piece(2) = 1
  BY InitLog DEF Piece
<1>2. \A h \in Hook : vault[h].state = "active" /\ began[h] = None
  BY DEF Init, Kept
<1>3. \A d \in Device : mover[d].at = "none" /\ cleaner[d] = None /\ client[d].posts \subseteq client[d].knows
  BY DEF Init, NoMove
<1>4. Bind(1, 2).from = 0
  BY DEF Bind
<1>5. RangeInv
  <2>1. began \in [Hook -> Nat \cup {None}]
    BY DEF Init
  <2> QED  BY <1>2, <1>3, <2>1 DEF RangeInv, Begins, OneRange, Underway
<1>6. LeftInv
  <2>1. \A i \in 1 .. HeadSeq : \A f : ~Replaces(i, f)
    BY <1>1, <1>4 DEF Replaces
  <2> QED  BY <1>2, <1>3, <2>1 DEF LeftInv, Left, Marked, Loose
<1>7. Bounds
  <2>1. day <= MaxDay /\ faults <= MaxFaults /\ \A i \in 1 .. HeadSeq : log[i].day <= day
    <3>1. day = 0 /\ faults = 0
      BY DEF Init
    <3>2. MaxDay \in Nat /\ MaxFaults \in Nat
      BY ConstantsAreTyped
    <3>3. \A i \in 1 .. HeadSeq : i = 1
      BY <1>1
    <3> QED  BY <1>1, <3>1, <3>2, <3>3
  <2>2. PiecesBefore
    BY <1>1 DEF PiecesBefore
  <2> QED  BY <1>3, <2>1, <2>2 DEF Bounds, PostsKnown
<1> QED  BY <1>5, <1>6, <1>7
-----------------------------------------------------------------------------
(* What always holds                                                       *)

IInv == Core /\ LeftInv /\ Bounds

\* The whole invariant holds at the beginning and is kept by every step.
THEOREM Invariance == Spec => []IInv
<1>1. Init => IInv
  BY InitTyped, InitNames, InitRest, InitMoves DEF IInv, Core
<1>2. IInv /\ [Next]_vars => IInv'
  <2> SUFFICES ASSUME IInv, [Next]_vars  PROVE IInv'
    OBVIOUS
  <2>1. Typing /\ Names /\ Positions /\ LiveInv /\ MarksInv /\ CleanInv /\ RangeInv /\ Core /\ LeftInv /\ Bounds
    BY DEF IInv, Core
  <2>2. Typing'
    BY <2>1, NextTyped
  <2>3. Names'
    BY <2>1, NextTyped, StepKeeps DEF Base, Typing, RunsTyped, GrowsOn
  <2>4. Positions' /\ LiveInv' /\ MarksInv' /\ CleanInv'
    BY <2>1, PositionsKept, LiveInvKept, MarksKept, CleanInvKept
  <2>5. RangeInv' /\ LeftInv' /\ Bounds'
    BY <2>1, RangeKept, LeftKept, BoundsKept
  <2> QED  BY <2>2, <2>3, <2>4, <2>5 DEF IInv, Core
<1> QED  BY <1>1, <1>2, PTL DEF Spec

\* A version that is current at a position is whole, when nobody deleted what it needs since then, and
\* its webhooks are in the vault, when their marks are not later: else it strayed onto one of them.
LEMMA ReadableSince ==
  ASSUME IInv, NEW b \in 0 .. HeadSeq, NEW u \in Upload, Current(u, b) # 0,
         \A p \in Message : p \in live \/ GoneSince(p, b),
         \A h \in Hook : vault[h].state = "moved" => vault[h].to <= b
  PROVE  Readable(Current(u, b)) \/ Strays(Current(u, b))
<1>1. Base /\ HeadSeq \in Nat /\ MarksInv /\ Typing
  BY NamesAreMessages DEF IInv, Core, Base, Typing, RunsTyped
<1>2. PICK m : m = Current(u, b)
  OBVIOUS
<1>3. WasBound(u, m, HeadSeq)
  <2>1. Current(u, b) \in Parts(Current(u, b))
    BY DEF Parts
  <2> QED  BY <1>1, <1>2, <2>1, NamersOwn
<1>4. IsManifest(m) /\ Parts(m) \subseteq Message
  BY <1>1, <1>3, BoundInLog
<1>5. ASSUME NEW p \in Parts(m)  PROVE p \in live
  <2>1. b \in b .. HeadSeq
    BY <1>1
  <2> QED  BY <1>2, <1>4, <1>5, <2>1 DEF GoneSince
<1>6. ASSUME NEW p \in Parts(m), ~InVault(messages[p].hook)  PROVE Strays(m)
  <2>1. messages[p].hook \in Hook /\ messages[p].hook \in HooksOf(m)
    BY <1>1, <1>4, MessagesAre DEF Typing, HooksOf
  <2>2. PICK h \in Hook : h = messages[p].hook
    BY <2>1
  <2>3. vault[h].state = "moved" /\ vault[h].to \in Nat
    BY <1>1, <1>6, <2>2 DEF InVault, Typing, VaultTypes
  <2>4. MarkInv(h, vault[h].from, vault[h].to) /\ b \in vault[h].to .. HeadSeq
    BY <1>1, <2>3 DEF MarksInv
  <2>5. PICK i \in (vault[h].to + 1) .. b : \E n \in log[i].moves : n.to = m
    BY <1>2, <2>1, <2>2, <2>4 DEF MarkInv
  <2>6. i \in 1 .. HeadSeq /\ i > vault[h].to
    BY <1>1, <2>3, <2>5
  <2> QED  BY <2>1, <2>2, <2>3, <2>5, <2>6 DEF Strays
<1> QED  BY <1>2, <1>5, <1>6 DEF Readable

\* However moves, copies, releases, cleaning and draining meet (ChannelMover, runCleanup, finishDrain),
\* every current version is whole and on webhooks of the vault, unless it strayed onto a marked one.
THEOREM CurrentIsReadable == Spec => []CurrentReadable
<1>1. IInv => CurrentReadable
  <2> SUFFICES ASSUME IInv, NEW u \in Upload, Current(u, HeadSeq) # 0
               PROVE  Readable(Current(u, HeadSeq)) \/ Strays(Current(u, HeadSeq))
    BY DEF CurrentReadable
  <2>1. HeadSeq \in Nat
    BY LogIs DEF IInv, Core, Typing
  <2>2. PICK b \in 0 .. HeadSeq : b = HeadSeq
    BY <2>1
  <2>3. \A p \in Message : p \in live \/ GoneSince(p, b)
    BY <2>2 DEF IInv, Core, LiveInv, Gone
  <2>4. \A h \in Hook : vault[h].state = "moved" => vault[h].to <= b
    BY <2>2 DEF IInv, Core, Positions
  <2> QED  BY <2>2, <2>3, <2>4, ReadableSince
<1> QED  BY <1>1, Invariance, PTL

\* So is every version that a kept base names, unless a drain did not wait for the bases (deletableUploads
\* and the gate of finishDrain).
THEOREM KeptBasesAreReadable == Spec => []KeptBasesReadable
<1>1. IInv => KeptBasesReadable
  <2> SUFFICES ASSUME IInv, Waited, NEW b \in bases, NEW u \in Upload, Current(u, b) # 0
               PROVE  Readable(Current(u, b)) \/ Strays(Current(u, b))
    BY DEF KeptBasesReadable, Waited
  <2>1. HeadSeq \in Nat /\ Typing /\ b \in 0 .. HeadSeq
    BY LogIs DEF IInv, Core, Typing, TimeTypes
  <2>2. PICK s \in 0 .. HeadSeq : s = Oldest /\ s <= b
    BY <2>1, OldestIs
  <2>3. ASSUME NEW p \in Message, p \notin live  PROVE GoneSince(p, b)
    <3>1. GoneSince(p, s)
      BY <2>2, <2>3 DEF IInv, Core, LiveInv, Gone
    <3> QED  BY <2>1, <2>2, <3>1, GoneLater
  <2>4. ASSUME NEW h \in Hook, vault[h].state = "moved"  PROVE vault[h].to <= b
    <3>1. vault[h].to <= s
      BY <2>2, <2>4 DEF IInv, Core, MarksInv, Waited
    <3> QED  BY <2>1, <2>2, <3>1 DEF Typing, VaultTypes
  <2> QED  BY <2>1, <2>3, <2>4, ReadableSince
<1> QED  BY <1>1, Invariance, PTL

\* What is recorded as cleaned is gone, though runs were cut and calls failed (runCleanup and deleteVersion).
THEOREM CleanedStaysGone == Spec => []CleanedIsGone
<1>1. IInv => CleanedIsGone
  BY DEF IInv, Core, CleanInv, Cleaned, LeftStale, Off, CleanedIsGone
<1> QED  BY <1>1, Invariance, PTL

\* When the only webhook that one device moved leaves the vault, nothing is on it that was replaced since
\* the move first began (finishDrain), though the move was paused and the drain repeated.
THEOREM LeftoversAreGone == Spec => []LeftoversGone
<1>1. IInv => LeftoversGone
  <2> SUFFICES ASSUME IInv, NEW h \in Hook, vault[h].state = "moved", Alone(h),
                      NEW i \in (began[h] + 1) .. HeadSeq, NEW m \in log[i].moves, ~m.stale, m.from # 0,
                      NEW p \in Parts(m.from) \cap live
               PROVE  messages[p].hook # h
    BY DEF LeftoversGone, Alone, Shared
  <2>1. Base /\ Emptied(h) /\ HeadSeq \in Nat
    BY NamesAreMessages DEF IInv, Core, Base, Typing, RunsTyped, LeftInv, Left
  <2>2. began[h] \in Nat
    BY DEF IInv, Core, RangeInv, Begins
  <2>3. i \in 1 .. HeadSeq
    BY <2>1, <2>2
  <2>4. m.from \in Message
    <3>1. IsManifest(m.from)
      BY <2>1, <2>3, ReplacedGone
    <3> QED  BY <3>1 DEF IsManifest
  <2>5. Replaces(i, m.from)
    BY DEF Replaces
  <2> QED  BY <2>1, <2>4, <2>5 DEF Emptied, OffHook
<1> QED  BY <1>1, Invariance, PTL

\* A position of the log or a message, taken out of the numbers.
LEMMA RecordsAre ==
  ASSUME NEW A, NEW B
  PROVE  /\ \A n \in LogMove : n.from \in A /\ n.to \in B => n \in [upload : Upload, from : A, to : B, stale : BOOLEAN]
         /\ \A n \in [upload : Upload, from : Nat, to : Nat] :
              n.from \in A /\ n.to \in B => n \in [upload : Upload, from : A, to : B]
BY DEF LogMove

\* The log and the messages have their types.
LEMMA LogIsTyped ==
  ASSUME IInv
  PROVE  /\ \A i \in 1 .. HeadSeq :
              /\ log[i].day \in 0 .. day /\ log[i].ended \subseteq Upload
              /\ log[i].moves \subseteq [upload : Upload, from : {0} \cup Message, to : Message, stale : BOOLEAN]
         /\ \A m \in Message : messages[m] \in [hook : Hook, piece : 1 .. m]
<1>1. Base /\ Typing /\ Bounds
  BY DEF IInv, Core, Base, Typing, RunsTyped
<1>2. ASSUME NEW i \in 1 .. HeadSeq
      PROVE  /\ log[i].day \in 0 .. day /\ log[i].ended \subseteq Upload
             /\ log[i].moves \subseteq [upload : Upload, from : {0} \cup Message, to : Message, stale : BOOLEAN]
  <2>1. log[i] \in LogEntry /\ log[i].day <= day /\ day \in Nat
    BY <1>1, LogIs DEF Typing, TimeTypes, Bounds
  <2>2. log[i].day \in 0 .. day /\ log[i].ended \subseteq Upload /\ log[i].moves \subseteq LogMove
    BY <2>1 DEF LogEntry
  <2>3. ASSUME NEW n \in log[i].moves  PROVE n.from \in {0} \cup Message /\ n.to \in Message
    <3>1. n.to \in Message
      BY <1>1 DEF Base, Names, LogInv, Logged, IsManifest
    <3>2. n.from # 0 => n.from \in Message
      BY <1>1, ReplacedGone DEF IsManifest
    <3> QED  BY <3>1, <3>2
  <2> QED  BY <2>2, <2>3, RecordsAre
<1>3. ASSUME NEW m \in Message  PROVE messages[m] \in [hook : Hook, piece : 1 .. m]
  <2>1. messages[m] \in [hook : Hook, piece : Nat] /\ messages[m].piece \in 1 .. m
    BY <1>1, MessagesAre DEF Typing, Bounds, PiecesBefore, Piece
  <2> QED  BY <2>1
<1> QED  BY <1>2, <1>3

\* Everything keeps its type: the log names messages that were posted, at positions and days that were.
THEOREM TypesHold == Spec => []TypeOK
<1>1. IInv => TypeOK
  <2> SUFFICES ASSUME IInv  PROVE TypeOK
    OBVIOUS
  <2>1. Base /\ Typing /\ Positions /\ Bounds
    BY DEF IInv, Core, Base, Typing, RunsTyped
  <2>2. HeadSeq \in Nat
    BY <2>1, LogIs DEF Typing
  <2>3. day \in 0 .. MaxDay /\ bases \subseteq 0 .. HeadSeq /\ bases # {} /\ faults \in 0 .. MaxFaults
    BY <2>1, ConstantsAreTyped DEF Typing, TimeTypes, RestTypes, Bounds
  <2>4. vault \in [Hook -> [state : {"active", "retired", "drain", "moved"},
                            from : 0 .. HeadSeq, to : 0 .. HeadSeq, at : 0 .. day]]
    <3>1. vault \in [Hook -> [state : {"active", "retired", "drain", "moved"}, from : Nat, to : Nat, at : Nat]]
      BY <2>1 DEF Typing, VaultTypes
    <3>2. ASSUME NEW h \in Hook
          PROVE  vault[h] \in [state : {"active", "retired", "drain", "moved"}, from : 0 .. HeadSeq, to : 0 .. HeadSeq, at : 0 .. day]
      <4>1. vault[h].from \in 0 .. HeadSeq /\ vault[h].to \in 0 .. HeadSeq /\ vault[h].at \in 0 .. day
        BY <2>1, <2>2, <2>3, <3>1 DEF Positions
      <4> QED  BY <3>1, <4>1
    <3> QED  BY <3>1, <3>2
  <2>5. ASSUME NEW d \in Device, upload[d] # None
        PROVE  upload[d] \in [id : Upload, piece : Message, manifest : {0} \cup Message]
    <3>1. upload[d] \in UploadRun /\ UnderWay(d)
      BY <2>1, <2>5 DEF Base, RunsTyped, UploadTypes, Names, UploadInv
    <3>2. upload[d].piece \in Message /\ upload[d].manifest \in {0} \cup Message
      BY <3>1 DEF UnderWay, IsManifest
    <3> QED  BY <3>1, <3>2 DEF UploadRun
  <2>6. ASSUME NEW d \in Device
        PROVE  /\ mover[d].at \in {"none", "files", "copy", "settle", "mark", "paused", "done"}
               /\ mover[d].hook \in Hook \cup {None} /\ mover[d].from \in 0 .. HeadSeq
               /\ mover[d].moves \subseteq [upload : Upload, from : {0} \cup Message, to : Message]
    <3>1. mover[d] \in MoveRun /\ mover[d].from <= HeadSeq
      BY <2>1 DEF Typing, MoverTypes, Positions
    <3>2. ASSUME NEW m \in mover[d].moves  PROVE m.from \in {0} \cup Message /\ m.to \in Message
      BY <2>1, PendingIs
    <3>3. mover[d].moves \subseteq [upload : Upload, from : Nat, to : Nat]
      BY <3>1 DEF MoveRun
    <3>4. mover[d].moves \subseteq [upload : Upload, from : {0} \cup Message, to : Message]
      BY <3>2, <3>3, RecordsAre
    <3>5. /\ mover[d].at \in {"none", "files", "copy", "settle", "mark", "paused", "done"}
          /\ mover[d].hook \in Hook \cup {None} /\ mover[d].from \in 0 .. HeadSeq
      BY <2>2, <3>1 DEF MoveRun
    <3> QED  BY <3>4, <3>5
  <2>7. ASSUME NEW d \in Device, cleaner[d] # None
        PROVE  /\ cleaner[d].at \in {"clean", "piece", "manifest", "drains", "drain", "drainPiece", "drainManifest"}
               /\ cleaner[d].hook \in Hook \cup {None} /\ cleaner[d].finished \subseteq Upload
    BY <2>1, <2>7 DEF Typing, CleanerTypes, CleanRun
  <2>8. \A d \in Device : client[d].posts \subseteq client[d].knows
    BY <2>1 DEF Bounds, PostsKnown
  <2>9. /\ client \in [Device -> [knows : SUBSET Hook, posts : SUBSET Hook]]
        /\ live \subseteq Message /\ done \subseteq Upload /\ missed \subseteq {"bases", "manifest", "range"} \X Hook
    BY <2>1 DEF Typing, VaultTypes, RestTypes
  <2> QED  BY <2>3, <2>4, <2>5, <2>6, <2>7, <2>8, <2>9, LogIsTyped DEF TypeOK
<1> QED  BY <1>1, Invariance, PTL
=============================================================================
