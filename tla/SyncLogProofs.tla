--------------------------- MODULE SyncLogProofs ---------------------------
(***************************************************************************)
(* SyncLog implements SharedLog as long as no INSERT fails: for any        *)
(* devices, operations, failures of the network, restarts and leases.      *)
(* From the same assumption: what commitOp and the outbox promise, which   *)
(* is the author's order, bases that lie behind, acknowledgements that     *)
(* last, and calls that keep their word.                                   *)
(***************************************************************************)
EXTENDS SyncLog, SequenceTheorems, TLAPS

\* The program counters and what travels are typed.
Typing ==
  /\ requests \subseteq [op : Op, by : Op]
  /\ made \in [Device -> Seq(Op)]
  /\ pc \in [Op -> {"idle", "catchup", "send", "confirm", "ok", "failed"}]
  /\ sent \in [Op -> Op \cup {None}]
  /\ DOMAIN answer = Proc

\* The log holds every operation at most once.
OnceInLog ==
  /\ log \in Seq(Op)
  /\ \A i, j \in DOMAIN log : log[i] = log[j] => i = j

\* The database holds the log.
OnDisk ==
  /\ diskFaults \in Nat
  /\ disk \in Seq([seq : Nat, op : Op])
  /\ Len(disk) = Len(log)
  /\ \A i \in DOMAIN log : disk[i].op = log[i]

\* s is what the sequence l holds behind position n.
Part(s, l, n) ==
  /\ s \in Seq(Op)
  /\ n + Len(s) <= Len(l)
  /\ \A i \in 1 .. Len(s) : s[i] = l[n + i]

Beginnings ==
  /\ applied \in [Device -> Seq(Op)]
  /\ \A d \in Device : Part(applied[d], log, 0)

\* A batch on its way starts no later than where the device's index ends. Only
\* a call that pulls, or one that has sent something, has an answer to take.
Batches ==
  /\ \A p \in Proc : Pulling(p) /\ answer[p] # None =>
       /\ answer[p].after \in 0 .. Len(applied[DeviceOf(p)])
       /\ Part(answer[p].ops, log, answer[p].after)
  /\ \A o \in Op : ~Pulling(o) /\ answer[o] # None => pc[o] = "send" /\ sent[o] # None

IInv == Typing /\ OnceInLog /\ OnDisk /\ Beginnings /\ Batches

-----------------------------------------------------------------------------
(* Parts of a sequence                                                     *)

\* What is part of the log stays part of it when an entry is appended.
LEMMA PartGrows ==
  ASSUME NEW s, NEW l \in Seq(Op), NEW n \in Nat, Part(s, l, n), NEW o \in Op
  PROVE  Part(s, Append(l, o), n)
BY AppendProperties, LenProperties DEF Part

\* A part that continues a beginning makes a longer beginning.
LEMMA PartsJoin ==
  ASSUME NEW s, NEW t, NEW l \in Seq(Op), Part(s, l, 0), Part(t, l, Len(s))
  PROVE  Part(s \o t, l, 0)
<1>1. /\ s \in Seq(Op) /\ t \in Seq(Op)
      /\ Len(s) \in Nat /\ Len(t) \in Nat /\ Len(s) + Len(t) <= Len(l)
  BY LenProperties DEF Part
<1>2. /\ s \o t \in Seq(Op)
      /\ Len(s \o t) = Len(s) + Len(t)
      /\ \A i \in 1 .. Len(s) + Len(t) : (s \o t)[i] = IF i <= Len(s) THEN s[i] ELSE t[i - Len(s)]
  BY <1>1, ConcatProperties
<1>3. ASSUME NEW i \in 1 .. Len(s) + Len(t)  PROVE (s \o t)[i] = l[0 + i]
  <2>1. CASE i <= Len(s)
    BY <1>1, <1>2, <2>1 DEF Part
  <2>2. CASE i > Len(s)
    <3>1. i - Len(s) \in 1 .. Len(t) /\ Len(s) + (i - Len(s)) = i
      BY <1>1, <2>2
    <3>2. t[i - Len(s)] = l[i]
      BY <3>1 DEF Part
    <3> QED  BY <1>1, <1>2, <2>2, <3>2
  <2> QED  BY <1>1, <2>1, <2>2
<1> QED  BY <1>1, <1>2, <1>3 DEF Part

\* The end of a part that starts earlier is the part from where one is.
LEMMA PartEnd ==
  ASSUME NEW s, NEW l \in Seq(Op), NEW a \in Nat, Part(s, l, a), NEW n \in Nat,
         a <= n, n <= Len(l)
  PROVE  Part(SubSeq(s, n - a + 1, Len(s)), l, n)
<1> DEFINE m == n - a + 1
           t == SubSeq(s, m, Len(s))
<1>1. Len(s) \in Nat /\ m \in Nat /\ m >= 1 /\ Len(l) \in Nat
      /\ \A i \in m .. Len(s) : s[i] \in Op
  BY LenProperties, ElementOfSeq DEF Part
<1>2. /\ t \in Seq(Op)
      /\ Len(t) = IF m <= Len(s) THEN Len(s) - m + 1 ELSE 0
      /\ \A i \in 1 .. Len(s) - m + 1 : t[i] = s[m + i - 1]
  BY <1>1, SubSeqProperties
<1> HIDE DEF t
<1>3. ASSUME NEW i \in 1 .. Len(t)  PROVE t[i] = l[n + i]
  <2>1. i \in 1 .. Len(s) - m + 1 /\ m + i - 1 \in 1 .. Len(s) /\ a + (m + i - 1) = n + i
    BY <1>1, <1>2
  <2> HIDE DEF m
  <2> QED  BY <1>2, <2>1 DEF Part
<1>4. n + Len(t) <= Len(l)
  BY <1>1, <1>2 DEF Part
<1> QED  BY <1>2, <1>3, <1>4 DEF Part, t

\* A slice of the log is a part of it.
LEMMA SliceIsPart ==
  ASSUME NEW l \in Seq(Op), NEW n \in 0 .. Len(l), NEW m \in n .. Len(l)
  PROVE  Part(SubSeq(l, n + 1, m), l, n)
<1>1. Len(l) \in Nat /\ \A i \in n + 1 .. m : l[i] \in Op
  BY LenProperties, ElementOfSeq
<1>2. /\ SubSeq(l, n + 1, m) \in Seq(Op)
      /\ Len(SubSeq(l, n + 1, m)) = IF n + 1 <= m THEN m - (n + 1) + 1 ELSE 0
      /\ \A i \in 1 .. m - (n + 1) + 1 : SubSeq(l, n + 1, m)[i] = l[(n + 1) + i - 1]
  BY <1>1, SubSeqProperties
<1> QED  BY <1>1, <1>2 DEF Part

\* A beginning is the slice of its length.
LEMMA BeginningIsSlice ==
  ASSUME NEW s, NEW l \in Seq(Op), Part(s, l, 0)
  PROVE  s = SubSeq(l, 1, Len(s))
<1>1. /\ s \in Seq(Op) /\ Len(s) \in Nat /\ Len(l) \in Nat /\ Len(s) <= Len(l)
      /\ \A i \in 1 .. Len(s) : s[i] = l[i]
  BY LenProperties DEF Part
<1>2. \A i \in 1 .. Len(s) : l[i] \in Op
  BY <1>1, ElementOfSeq
<1>3. /\ SubSeq(l, 1, Len(s)) \in Seq(Op)
      /\ Len(SubSeq(l, 1, Len(s))) = Len(s)
      /\ \A i \in 1 .. Len(s) : SubSeq(l, 1, Len(s))[i] = l[i]
  BY <1>1, <1>2, SubSeqProperties
<1> QED  BY <1>1, <1>3, SeqEqual

\* What a pull appends continues what the device has applied, whatever other
\* pulls have appended since the batch was read.
LEMMA FreshContinues ==
  ASSUME IInv, NEW p \in Proc, Pulling(p), answer[p] # None
  PROVE  LET d == DeviceOf(p)
         IN  /\ d \in Device
             /\ Part(Fresh(p), log, Len(applied[d]))
             /\ Part(applied[d] \o Fresh(p), log, 0)
             /\ Len(applied[d] \o Fresh(p)) >= Len(applied[d])
<1> DEFINE d == DeviceOf(p)
<1>1. d \in Device
  BY ConstantsAreTyped DEF DeviceOf, Proc
<1>2. /\ log \in Seq(Op) /\ applied[d] \in Seq(Op) /\ Part(applied[d], log, 0)
      /\ answer[p].after \in 0 .. Len(applied[d])
      /\ Part(answer[p].ops, log, answer[p].after)
  BY <1>1 DEF IInv, OnceInLog, Beginnings, Batches
<1> HIDE DEF d
<1>3. /\ Len(applied[d]) \in Nat /\ answer[p].after \in Nat
      /\ answer[p].after <= Len(applied[d]) /\ Len(applied[d]) <= Len(log)
  BY <1>2, LenProperties DEF Part
<1>4. Part(Fresh(p), log, Len(applied[d]))
  BY <1>2, <1>3, PartEnd DEF Fresh, d
<1>5. Part(applied[d] \o Fresh(p), log, 0)
  BY <1>2, <1>4, PartsJoin
<1>6. Fresh(p) \in Seq(Op) /\ Len(Fresh(p)) \in Nat
  BY <1>4, LenProperties DEF Part
<1>7. Len(applied[d] \o Fresh(p)) = Len(applied[d]) + Len(Fresh(p))
  BY <1>2, <1>6, ConcatProperties
<1> QED  BY <1>1, <1>3, <1>4, <1>5, <1>6, <1>7 DEF d

-----------------------------------------------------------------------------
(* The inductive invariant                                                 *)

\* Nothing has happened yet.
LEMMA InitIInv == Init => IInv
<1> SUFFICES ASSUME Init  PROVE IInv
  OBVIOUS
<1>1. Typing
  BY EmptySeq DEF Init, Typing
<1>2. OnceInLog /\ OnDisk
  BY EmptySeq DEF Init, OnceInLog, OnDisk
<1>3. Beginnings
  BY EmptySeq DEF Init, Beginnings, Part
<1>4. Batches
  BY DEF Init, Batches, Proc
<1> QED  BY <1>1, <1>2, <1>3, <1>4 DEF IInv

\* Sequencer.submit and the INSERT: the log grows by an operation it does not
\* hold, or not at all.
LEMMA SubmitKeeps ==
  ASSUME MaxDiskFaults = 0, IInv, NEW r \in requests, Submit(r)
  PROVE  IInv'
<1>1. /\ r \in [op : Op, by : Op] /\ r.op \in Op /\ r.by \in Op
      /\ log \in Seq(Op) /\ Len(log) \in Nat /\ diskFaults \in Nat
  BY LenProperties DEF IInv, Typing, OnceInLog, OnDisk
<1>2. UNCHANGED <<applied, made, pc, sent>>
  BY DEF Submit, replica, calls
<1>3. /\ DOMAIN answer' = Proc
      /\ \A p \in Proc : answer'[p] = answer[p] \/ (p \in Op /\ pc[p] = "send" /\ sent[p] # None)
  <2>1. PICK a : Reply(r, a)
    BY DEF Submit
  <2>2. DOMAIN answer = Proc /\ None \notin Op
    BY ConstantsAreTyped DEF IInv, Typing
  <2> QED  BY <1>1, <2>1, <2>2 DEF Reply
<1>4. Typing'
  BY <1>2, <1>3 DEF IInv, Typing, Submit
<1>5. CASE Verdict(r.op) # "accepted"
  <2>1. UNCHANGED <<log, disk, diskFaults>>
    BY <1>5 DEF Submit
  <2>2. OnceInLog' /\ OnDisk' /\ Beginnings'
    BY <1>2, <2>1 DEF IInv, OnceInLog, OnDisk, Beginnings
  <2>3. Batches'
    <3>1. ASSUME NEW p \in Proc, Pulling(p)', answer'[p] # None
          PROVE  answer'[p] = answer[p] /\ Pulling(p)
      BY <1>2, <1>3, <3>1 DEF Pulling
    <3>2. ASSUME NEW o \in Op, ~Pulling(o)', answer'[o] # None
          PROVE  pc'[o] = "send" /\ sent'[o] # None
      BY <1>2, <1>3, <3>2 DEF IInv, Batches, Pulling, Proc
    <3> QED  BY <1>2, <2>1, <3>1, <3>2 DEF IInv, Batches
  <2> QED  BY <1>4, <2>2, <2>3 DEF IInv
<1>6. CASE Verdict(r.op) = "accepted"
  <2>1. log' = Append(log, r.op)
    BY <1>6 DEF Submit
  <2>2. disk' = Append(disk, [seq |-> Len(log) + 1, op |-> r.op]) /\ UNCHANGED diskFaults
    BY <1>1, <1>6 DEF Submit
  <2>3. \A i \in DOMAIN log : log[i] # r.op
    BY <1>6 DEF Verdict, Entries
  <2>4. /\ log' \in Seq(Op) /\ Len(log') = Len(log) + 1
        /\ log'[Len(log) + 1] = r.op
        /\ \A i \in 1 .. Len(log) : log'[i] = log[i]
        /\ DOMAIN log' = 1 .. Len(log) + 1 /\ DOMAIN log = 1 .. Len(log)
    BY <1>1, <2>1, AppendProperties, LenProperties
  <2>5. OnceInLog'
    BY <1>1, <2>3, <2>4 DEF IInv, OnceInLog
  <2>6. OnDisk'
    <3>1. /\ disk' \in Seq([seq : Nat, op : Op]) /\ Len(disk') = Len(disk) + 1
          /\ disk'[Len(disk) + 1] = [seq |-> Len(log) + 1, op |-> r.op]
          /\ \A i \in 1 .. Len(disk) : disk'[i] = disk[i]
      <4>1. [seq |-> Len(log) + 1, op |-> r.op] \in [seq : Nat, op : Op]
        BY <1>1
      <4> QED  BY <2>2, <4>1, AppendProperties DEF IInv, OnDisk
    <3> QED  BY <1>1, <2>2, <2>4, <3>1 DEF IInv, OnDisk
  <2>7. Beginnings'
    BY <1>1, <1>2, <2>1, PartGrows DEF IInv, Beginnings
  <2>8. Batches'
    <3>1. ASSUME NEW p \in Proc, Pulling(p)', answer'[p] # None
          PROVE  /\ answer'[p].after \in 0 .. Len(applied'[DeviceOf(p)])
                 /\ Part(answer'[p].ops, log', answer'[p].after)
      <4>1. answer'[p] = answer[p] /\ Pulling(p)
        BY <1>2, <1>3, <3>1 DEF Pulling
      <4>2. /\ answer[p].after \in 0 .. Len(applied[DeviceOf(p)])
            /\ Part(answer[p].ops, log, answer[p].after)
        BY <3>1, <4>1 DEF IInv, Batches
      <4>3. Part(answer[p].ops, Append(log, r.op), answer[p].after)
        BY <1>1, <4>2, PartGrows
      <4> QED  BY <1>2, <2>1, <4>1, <4>2, <4>3
    <3>2. ASSUME NEW o \in Op, ~Pulling(o)', answer'[o] # None
          PROVE  pc'[o] = "send" /\ sent'[o] # None
      BY <1>2, <1>3, <3>2 DEF IInv, Batches, Pulling, Proc
    <3> QED  BY <3>1, <3>2 DEF Batches
  <2> QED  BY <1>4, <2>5, <2>6, <2>7, <2>8 DEF IInv
<1> QED  BY <1>5, <1>6

\* The log a restarted server reads is the one it had.
LEMMA RestartRestores ==
  ASSUME IInv, RestartServer
  PROVE  log' = log
<1>1. /\ log \in Seq(Op) /\ disk \in Seq([seq : Nat, op : Op]) /\ Len(disk) = Len(log)
      /\ log' = [i \in DOMAIN disk |-> disk[i].op]
      /\ \A i \in DOMAIN log : disk[i].op = log[i]
  BY DEF IInv, OnceInLog, OnDisk, RestartServer
<1>2. DOMAIN disk = 1 .. Len(log) /\ DOMAIN log = 1 .. Len(log) /\ Len(log) \in Nat
  BY <1>1, LenProperties
<1>3. log = [i \in 1 .. Len(log) |-> log[i]]
  BY <1>1, <1>2
<1> QED  BY <1>1, <1>2, <1>3

\* The pulls: batches read, taken, or thrown away.
LEMMA PullKeeps ==
  ASSUME IInv, NEW p \in Proc, Step(p)
  PROVE  IInv'
<1>1. log \in Seq(Op) /\ Len(log) \in Nat /\ DeviceOf(p) \in Device /\ DOMAIN answer = Proc
      /\ applied[DeviceOf(p)] \in Seq(Op) /\ Len(applied[DeviceOf(p)]) \in 0 .. Len(log)
  <2>1. DeviceOf(p) \in Device
    BY ConstantsAreTyped DEF DeviceOf, Proc
  <2> QED  BY <2>1, LenProperties DEF IInv, OnceInLog, Typing, Beginnings, Part
<1>2. CASE ReadLog(p)
  <2> DEFINE after == Len(applied[DeviceOf(p)])
             upto  == Least(after + BatchMax, Len(log))
             batch == [after |-> after, ops |-> SubSeq(log, after + 1, upto)]
  <2>1. answer' = [answer EXCEPT ![p] = batch] /\ Pulling(p)
        /\ UNCHANGED <<log, disk, diskFaults, applied, made, pc, sent, requests>>
    BY <1>2 DEF ReadLog, server, replica, calls
  <2>2. upto \in after .. Len(log)
    BY <1>1, ConstantsAreTyped DEF Least
  <2>3. Part(batch.ops, log, batch.after) /\ batch.after \in 0 .. Len(applied[DeviceOf(p)])
    BY <1>1, <2>2, SliceIsPart
  <2> HIDE DEF batch
  <2>4. Typing' /\ OnceInLog' /\ OnDisk' /\ Beginnings'
    BY <1>1, <2>1 DEF IInv, Typing, OnceInLog, OnDisk, Beginnings
  <2>5. Batches'
    <3>1. \A q \in Proc : answer'[q] = IF q = p THEN batch ELSE answer[q]
      BY <1>1, <2>1
    <3> QED  BY <2>1, <2>3, <3>1 DEF IInv, Batches, Pulling, Proc
  <2> QED  BY <2>4, <2>5 DEF IInv
<1>3. ASSUME \/ Receive(p)
             \/ ReceiveThrows(p)
      PROVE  IInv'
  <2>1. /\ Pulling(p) /\ answer[p] # None
        /\ answer' = [answer EXCEPT ![p] = None]
        /\ UNCHANGED <<log, disk, diskFaults, made, sent, requests>>
    BY <1>3 DEF Receive, ReceiveThrows, server
  <2>2. /\ pc' \in [Op -> {"idle", "catchup", "send", "confirm", "ok", "failed"}]
        /\ \A o \in Op : o # p => pc'[o] = pc[o]
    BY <1>3 DEF Receive, ReceiveThrows, AfterPull, IInv, Typing
  <2>3. /\ applied' \in [Device -> Seq(Op)]
        /\ \A d \in Device : /\ Part(applied'[d], log, 0)
                             /\ Len(applied'[d]) >= Len(applied[d])
                             /\ Len(applied[d]) \in Nat /\ Len(applied'[d]) \in Nat
    <3>1. applied' = applied \/ applied' = [applied EXCEPT ![DeviceOf(p)] = @ \o Fresh(p)]
      BY <1>3 DEF Receive, ReceiveThrows
    <3>2. /\ Part(applied[DeviceOf(p)] \o Fresh(p), log, 0)
          /\ Len(applied[DeviceOf(p)] \o Fresh(p)) >= Len(applied[DeviceOf(p)])
      BY <2>1, FreshContinues
    <3>3. applied \in [Device -> Seq(Op)] /\ \A d \in Device : Part(applied[d], log, 0)
      BY DEF IInv, Beginnings
    <3>4. \A d \in Device : applied'[d] = applied[d]
                           \/ (d = DeviceOf(p) /\ applied'[d] = applied[d] \o Fresh(p))
      BY <3>1, <3>3
    <3>5. applied' \in [Device -> Seq(Op)]
      <4>1. applied[DeviceOf(p)] \o Fresh(p) \in Seq(Op)
        BY <3>2 DEF Part
      <4>2. CASE applied' = [applied EXCEPT ![DeviceOf(p)] = @ \o Fresh(p)]
        <5> DEFINE longer == applied[DeviceOf(p)] \o Fresh(p)
        <5>1. applied' = [applied EXCEPT ![DeviceOf(p)] = longer]
          BY <4>2
        <5>2. longer \in Seq(Op)
          BY <4>1
        <5> HIDE DEF longer
        <5> QED  BY <3>3, <5>1, <5>2
      <4>3. CASE applied' = applied
        BY <3>3, <4>3
      <4> QED  BY <3>1, <4>2, <4>3
    <3>6. ASSUME NEW d \in Device
          PROVE  Part(applied'[d], log, 0) /\ Len(applied'[d]) >= Len(applied[d])
                 /\ Len(applied[d]) \in Nat /\ Len(applied'[d]) \in Nat
      <4>1. Part(applied[d], log, 0) /\ Len(applied[d]) \in Nat
        BY <3>3, LenProperties
      <4>2. CASE applied'[d] = applied[d]
        BY <4>1, <4>2
      <4>3. CASE d = DeviceOf(p) /\ applied'[d] = applied[d] \o Fresh(p)
        <5>1. Len(applied[d] \o Fresh(p)) \in Nat
          BY <3>2, <4>3, LenProperties DEF Part
        <5> QED  BY <3>2, <4>1, <4>3, <5>1
      <4> QED  BY <3>4, <4>2, <4>3
    <3> QED  BY <3>5, <3>6
  <2>4. Typing' /\ OnceInLog' /\ OnDisk'
    BY <1>1, <2>1, <2>2 DEF IInv, Typing, OnceInLog, OnDisk
  <2>5. Beginnings'
    BY <2>1, <2>3 DEF Beginnings
  <2>6. Batches'
    <3>1. \A q \in Proc : answer'[q] = IF q = p THEN None ELSE answer[q]
      BY <1>1, <2>1
    <3>2. ASSUME NEW q \in Proc, Pulling(q)', answer'[q] # None
          PROVE  /\ answer'[q].after \in 0 .. Len(applied'[DeviceOf(q)])
                 /\ Part(answer'[q].ops, log', answer'[q].after)
      <4>1. q # p /\ answer'[q] = answer[q] /\ Pulling(q)
        BY <2>2, <3>1, <3>2 DEF Pulling
      <4>2. /\ answer[q].after \in 0 .. Len(applied[DeviceOf(q)])
            /\ Part(answer[q].ops, log, answer[q].after)
        BY <3>2, <4>1 DEF IInv, Batches
      <4>3. DeviceOf(q) \in Device
        BY ConstantsAreTyped DEF DeviceOf, Proc
      <4> QED  BY <2>1, <2>3, <4>1, <4>2, <4>3
    <3>3. ASSUME NEW o \in Op, ~Pulling(o)', answer'[o] # None
          PROVE  pc'[o] = "send" /\ sent'[o] # None
      BY <2>1, <2>2, <3>1, <3>3 DEF IInv, Batches, Pulling, Proc
    <3> QED  BY <3>2, <3>3 DEF Batches
  <2> QED  BY <2>4, <2>5, <2>6 DEF IInv
<1> QED  BY <1>2, <1>3 DEF Step

\* A step of a call, a failure of the network or a restart of the device,
\* which only settle what was asked for.
LEMMA CallKeeps ==
  ASSUME IInv,
         UNCHANGED <<log, disk, diskFaults, applied>>,
         requests' \subseteq [op : Op, by : Op],
         made' \in [Device -> Seq(Op)],
         pc' \in [Op -> {"idle", "catchup", "send", "confirm", "ok", "failed"}],
         sent' \in [Op -> Op \cup {None}],
         DOMAIN answer' = Proc,
         \A p \in Proc : \/ answer'[p] = None
                         \/ answer'[p] = answer[p] /\ (p \in Op => pc'[p] = pc[p] /\ sent'[p] = sent[p])
  PROVE  IInv'
<1>1. Typing' /\ OnceInLog' /\ OnDisk' /\ Beginnings'
  BY DEF IInv, Typing, OnceInLog, OnDisk, Beginnings
<1>2. ASSUME NEW p \in Proc, Pulling(p)', answer'[p] # None
      PROVE  answer'[p] = answer[p] /\ Pulling(p)
  BY <1>2 DEF Pulling
<1>3. ASSUME NEW o \in Op, ~Pulling(o)', answer'[o] # None
      PROVE  pc'[o] = "send" /\ sent'[o] # None
  BY <1>3 DEF IInv, Batches, Pulling, Proc
<1>4. Batches'
  BY <1>2, <1>3 DEF IInv, Batches
<1> QED  BY <1>1, <1>4 DEF IInv

\* Every step keeps the invariant, if no INSERT fails.
LEMMA NextIInv ==
  ASSUME MaxDiskFaults = 0, IInv, [Next]_vars
  PROVE  IInv'
<1> USE DEF server, replica, calls, history
<1>1. Author \in [Op -> Device] /\ Op \subseteq Proc /\ None \notin Op /\ Typing
  BY ConstantsAreTyped DEF Proc, IInv
<1>2. CASE UNCHANGED vars
  BY <1>1, <1>2, CallKeeps DEF vars, Typing
<1>3. ASSUME NEW r \in requests, Submit(r)  PROVE IInv'
  BY <1>3, SubmitKeeps
<1>4. ASSUME NEW u \in Upload, (\E d \in Device : RenewLease(d, u)) \/ EndLease(u)
      PROVE  IInv'
  BY <1>1, <1>4, CallKeeps DEF RenewLease, EndLease, Typing
<1>5. CASE RestartServer
  BY <1>1, <1>5, CallKeeps, RestartRestores DEF RestartServer, Typing
<1>6. ASSUME NEW p \in Proc, Step(p)  PROVE IInv'
  BY <1>6, PullKeeps
<1>7. ASSUME NEW o \in Op, Call(o)  PROVE IInv'
  <2>1. made' \in [Device -> Seq(Op)]
    BY <1>1, <1>7, AppendProperties DEF Call, Typing
  <2>2. answer[o] = None
    BY <1>1, <1>7 DEF IInv, Batches, Pulling, Call
  <2> QED  BY <1>1, <1>7, <2>1, <2>2, CallKeeps DEF Call, Typing
<1>8. ASSUME NEW o \in Op, Send(o)  PROVE IInv'
  <2>1. PICK x \in Unsent(Author[o]) : sent' = [sent EXCEPT ![o] = x]
                                     /\ requests' = requests \cup {[op |-> x, by |-> o]}
    BY <1>8 DEF Send
  <2>2. x \in Op
    BY <1>1, ElementOfSeq, LenProperties DEF Unsent, Typing
  <2>3. answer[o] = None
    BY <1>1, <1>8 DEF IInv, Batches, Pulling, Send
  <2> QED  BY <1>1, <1>8, <2>1, <2>2, <2>3, CallKeeps DEF Send, Typing
<1>9. ASSUME NEW o \in Op, AllSent(o)  PROVE IInv'
  <2>1. answer[o] = None
    BY <1>1, <1>9 DEF IInv, Batches, Pulling, AllSent
  <2> QED  BY <1>1, <1>9, <2>1, CallKeeps DEF AllSent, Typing
<1>10. ASSUME NEW o \in Op, Acknowledged(o) \/ Refused(o) \/ Errored(o)  PROVE IInv'
  <2>1. /\ sent' = [sent EXCEPT ![o] = None]
        /\ answer' = [answer EXCEPT ![o] = None]
        /\ UNCHANGED <<log, disk, diskFaults, applied, made, requests>>
    BY <1>10 DEF Acknowledged, Refused, Errored, Answered
  <2>2. pc' = pc \/ pc' = [pc EXCEPT ![o] = "failed"]
    BY <1>10 DEF Acknowledged, Refused, Errored
  <2> QED  BY <1>1, <2>1, <2>2, CallKeeps DEF Typing
<1>11. ASSUME NEW o \in Op, NetworkFails(o)  PROVE IInv'
  BY <1>1, <1>11, CallKeeps DEF NetworkFails, Typing
<1>12. ASSUME NEW d \in Device, RestartDevice(d)  PROVE IInv'
  BY <1>1, <1>12, CallKeeps DEF RestartDevice, Typing
<1>13. ASSUME NEW o \in Op, CallStep(o)  PROVE IInv'
  BY <1>8, <1>9, <1>10, <1>13 DEF CallStep
<1> QED  BY <1>2, <1>3, <1>4, <1>5, <1>6, <1>7, <1>11, <1>12, <1>13 DEF Next

\* IInv holds in every behaviour: the log holds every operation once, its
\* rows restore it, and what every device has applied and every batch on its
\* way are parts of it.
THEOREM IInvIsInvariant ==
  ASSUME MaxDiskFaults = 0
  PROVE  Spec => []IInv
BY InitIInv, NextIInv, PTL DEF Spec

-----------------------------------------------------------------------------
(* The refinement                                                          *)

\* A step of SyncLog is one of SharedLog: the server takes an operation, a
\* device applies a batch, or neither the log nor an index changes.
LEMMA StepIsShared ==
  ASSUME MaxDiskFaults = 0, IInv, [Next]_vars
  PROVE  [Shared!Next]_(Shared!vars)
<1> USE DEF server, replica, calls, history
<1> SUFFICES ASSUME ~ UNCHANGED <<log, applied>>  PROVE Shared!Next
  BY DEF Shared!vars
<1>1. ASSUME NEW r \in requests, Submit(r)  PROVE Shared!Next
  <2>1. /\ r.op \in Op /\ Verdict(r.op) = "accepted"
        /\ log' = Append(log, r.op) /\ UNCHANGED applied
    BY <1>1 DEF Submit, IInv, Typing
  <2>2. \A i \in DOMAIN log : log[i] # r.op
    BY <2>1 DEF Verdict, Entries
  <2> QED  BY <2>1, <2>2 DEF Shared!Next, Shared!Add
<1>2. ASSUME NEW p \in Proc, Step(p)  PROVE Shared!Next
  <2> DEFINE d == DeviceOf(p)
             s == applied[d] \o Fresh(p)
  <2>1. /\ Pulling(p) /\ answer[p] # None /\ UNCHANGED log
        /\ applied' = [applied EXCEPT ![d] = s] /\ applied' # applied
    BY <1>2 DEF Step, ReadLog, Receive, ReceiveThrows
  <2>2. d \in Device /\ Part(s, log, 0) /\ Len(s) >= Len(applied[d])
    BY <2>1, FreshContinues
  <2>3. /\ log \in Seq(Op) /\ applied \in [Device -> Seq(Op)] /\ Part(applied[d], log, 0)
    BY <2>2 DEF IInv, OnceInLog, Beginnings
  <2>4. s \in Seq(Op) /\ Len(s) \in Nat /\ Len(applied[d]) \in Nat /\ Len(s) <= Len(log)
        /\ DOMAIN log = 1 .. Len(log) /\ Len(log) \in Nat
    BY <2>2, <2>3, LenProperties DEF Part
  <2> HIDE DEF s, d
  <2>5. s = SubSeq(log, 1, Len(s)) /\ applied[d] = SubSeq(log, 1, Len(applied[d]))
    BY <2>2, <2>3, BeginningIsSlice
  <2>6. s # applied[d]
    BY <2>1, <2>2, <2>3
  <2>7. Len(s) > Len(applied[d])
    BY <2>2, <2>4, <2>5, <2>6
  <2>8. Shared!Learn(d, Len(s)) /\ Len(s) \in DOMAIN log
    <3>1. applied' = [applied EXCEPT ![d] = SubSeq(log, 1, Len(s))]
      BY <2>1, <2>5
    <3>2. Len(s) \in DOMAIN log
      BY <2>4, <2>7
    <3> QED  BY <2>1, <2>7, <3>1, <3>2 DEF Shared!Learn
  <2> QED  BY <2>2, <2>8 DEF Shared!Next
<1>3. ASSUME RestartServer  PROVE FALSE
  BY <1>3, RestartRestores DEF RestartServer
<1>4. ASSUME NEW o \in Op, Call(o) \/ CallStep(o) \/ NetworkFails(o)  PROVE FALSE
  BY <1>4 DEF Call, CallStep, Send, AllSent, Acknowledged, Refused, Errored, Answered, NetworkFails
<1> QED
  BY <1>1, <1>2, <1>3, <1>4 DEF Next, vars, RenewLease, EndLease, RestartDevice

\* As long as no INSERT fails, the devices share one log that only grows and
\* holds an operation once, and what each has applied is a beginning of it
\* that only grows: whatever is sent again, arrives late or is lost, whatever
\* pulls overlap, and whichever programs restart.
THEOREM ImplementsSharedLog ==
  ASSUME MaxDiskFaults = 0
  PROVE  Spec => SharesLog
<1>1. Init => Shared!Init
  BY DEF Init, Shared!Init
<1>2. IInv /\ [Next]_vars => [Shared!Next]_(Shared!vars)
  BY StepIsShared
<1> QED  BY <1>1, <1>2, IInvIsInvariant, PTL DEF Spec, SharesLog, Shared!Spec
-----------------------------------------------------------------------------
(* The types, also when INSERTs fail                                       *)

\* A read on its way starts no later than where the device's index ends, and
\* an answer is about something sent.
TypeInv ==
  /\ TypeOK /\ DOMAIN answer = Proc
  /\ \A p \in Proc : Pulling(p) /\ answer[p] # None =>
       answer[p].after <= Len(applied[DeviceOf(p)])
  /\ \A o \in Op : pc[o] = "send" /\ answer[o] # None => sent[o] # None

\* What a pull takes from a batch are operations.
LEMMA FreshAreOps ==
  ASSUME TypeInv, NEW p \in Proc, Pulling(p), answer[p] # None
  PROVE  /\ DeviceOf(p) \in Device /\ Fresh(p) \in Seq(Op)
         /\ applied[DeviceOf(p)] \o Fresh(p) \in Seq(Op)
         /\ Len(applied[DeviceOf(p)] \o Fresh(p)) >= Len(applied[DeviceOf(p)])
<1> DEFINE d == DeviceOf(p)
           s == answer[p].ops
           m == Len(applied[d]) - answer[p].after + 1
<1>1. d \in Device
  BY ConstantsAreTyped DEF DeviceOf, Proc
<1>2. /\ s \in Seq(Op) /\ answer[p].after \in Nat /\ answer[p].after <= Len(applied[d])
      /\ applied[d] \in Seq(Op)
  BY <1>1 DEF TypeInv, TypeOK, Batch
<1>3. Len(s) \in Nat /\ Len(applied[d]) \in Nat /\ m \in Nat /\ m >= 1
      /\ \A i \in m .. Len(s) : s[i] \in Op
  BY <1>2, LenProperties, ElementOfSeq
<1>4. Fresh(p) = SubSeq(s, m, Len(s))
  BY DEF Fresh
<1> HIDE DEF s, m, d
<1>5. Fresh(p) \in Seq(Op)
  BY <1>3, <1>4, SubSeqProperties
<1>6. Len(applied[d] \o Fresh(p)) = Len(applied[d]) + Len(Fresh(p)) /\ Len(Fresh(p)) \in Nat
      /\ applied[d] \o Fresh(p) \in Seq(Op)
  BY <1>2, <1>5, ConcatProperties, LenProperties
<1> QED  BY <1>1, <1>3, <1>5, <1>6 DEF d

\* Initially nothing travels.
LEMMA InitTypeInv == Init => TypeInv
BY EmptySeq DEF Init, TypeInv, TypeOK, Proc

\* The server's answer to a request, and the log it keeps.
LEMMA SubmitKeepsTypes ==
  ASSUME TypeInv, NEW r \in requests, Submit(r)
  PROVE  TypeInv'
<1>1. /\ r \in [op : Op, by : Op] /\ r.op \in Op /\ r.by \in Op
      /\ log \in Seq(Op) /\ Len(log) \in Nat
  BY LenProperties DEF TypeInv, TypeOK
<1>2. UNCHANGED <<lease, minRules, replica, calls, history>> /\ requests' \subseteq requests
  BY DEF Submit
<1>3. log' \in Seq(Op)
  BY <1>1, AppendProperties DEF Submit
<1>4. disk' \in Seq([seq : Nat, op : Op])
  <2>1. [seq |-> Len(log) + 1, op |-> r.op] \in [seq : Nat, op : Op]
    BY <1>1
  <2>2. disk \in Seq([seq : Nat, op : Op])
    BY DEF TypeInv, TypeOK
  <2>3. Append(disk, [seq |-> Len(log) + 1, op |-> r.op]) \in Seq([seq : Nat, op : Op])
    BY <2>1, <2>2, AppendProperties
  <2> QED  BY <2>2, <2>3 DEF Submit
<1>5. \E a \in Statuses : Reply(r, a)
  BY DEF Submit, Verdict, Statuses
<1>6. /\ DOMAIN answer' = Proc
      /\ \A p \in Proc : \/ answer'[p] = answer[p]
                         \/ p \in Op /\ pc[p] = "send" /\ sent[p] # None /\ answer'[p] \in Statuses
  BY <1>1, <1>5, ConstantsAreTyped DEF Reply, TypeInv
<1>7. \A p \in Proc : answer'[p] # None =>
        IF Pulling(p)' THEN answer'[p] \in Batch ELSE pc'[p] = "send" /\ answer'[p] \in Statuses
  BY <1>2, <1>6 DEF TypeInv, TypeOK, Pulling, calls
<1>8. TypeOK'
  BY <1>2, <1>3, <1>4, <1>7 DEF TypeInv, TypeOK, replica, calls, history
<1>9. \A p \in Proc : Pulling(p)' /\ answer'[p] # None => answer'[p].after <= Len(applied'[DeviceOf(p)])
  BY <1>2, <1>6 DEF TypeInv, Pulling, replica, calls
<1>10. \A o \in Op : pc'[o] = "send" /\ answer'[o] # None => sent'[o] # None
  BY <1>2, <1>6 DEF TypeInv, calls, Proc
<1> QED  BY <1>6, <1>8, <1>9, <1>10 DEF TypeInv

\* A pull reads, takes or throws a batch.
LEMMA PullKeepsTypes ==
  ASSUME TypeInv, NEW p \in Proc, Step(p)
  PROVE  TypeInv'
<1> USE DEF server, replica, calls, history
<1>1. TypeOK /\ DOMAIN answer = Proc /\ DeviceOf(p) \in Device
  BY ConstantsAreTyped DEF TypeInv, DeviceOf, Proc
<1>2. CASE ReadLog(p)
  <2> DEFINE after == Len(applied[DeviceOf(p)])
             upto  == Least(after + BatchMax, Len(log))
             batch == [after |-> after, ops |-> SubSeq(log, after + 1, upto)]
  <2>1. answer' = [answer EXCEPT ![p] = batch] /\ Pulling(p)
        /\ UNCHANGED <<server, replica, calls, requests, history>>
    BY <1>2 DEF ReadLog
  <2>2. /\ after \in Nat /\ Len(log) \in Nat /\ upto \in Int /\ upto <= Len(log)
        /\ log \in Seq(Op)
    BY <1>1, LenProperties, ConstantsAreTyped DEF TypeOK, Least
  <2>3. batch \in Batch
    <3>1. \A i \in after + 1 .. upto : log[i] \in Op
      BY <2>2, ElementOfSeq
    <3>2. SubSeq(log, after + 1, upto) \in Seq(Op)
      BY <2>2, <3>1, SubSeqProperties
    <3> QED  BY <2>2, <3>2 DEF Batch
  <2>4. batch.after = after
    OBVIOUS
  <2> HIDE DEF batch
  <2>5. \A q \in Proc : answer'[q] = IF q = p THEN batch ELSE answer[q]
    BY <1>1, <2>1
  <2>6. TypeOK'
    BY <1>1, <2>1, <2>3, <2>5 DEF TypeOK, Pulling
  <2>7. \A q \in Proc : Pulling(q)' /\ answer'[q] # None => answer'[q].after <= Len(applied'[DeviceOf(q)])
    BY <2>1, <2>2, <2>4, <2>5 DEF TypeInv, Pulling
  <2>8. \A o \in Op : pc'[o] = "send" /\ answer'[o] # None => sent'[o] # None
    BY <2>1, <2>5 DEF TypeInv, Pulling, Proc
  <2> QED  BY <1>1, <2>1, <2>6, <2>7, <2>8 DEF TypeInv
<1>3. ASSUME Receive(p) \/ ReceiveThrows(p)
      PROVE  TypeInv'
  <2>1. /\ Pulling(p) /\ answer[p] # None
        /\ answer' = [answer EXCEPT ![p] = None]
        /\ UNCHANGED <<server, base, made, sent, requests, history>>
    BY <1>3 DEF Receive, ReceiveThrows
  <2>2. /\ pc' \in [Op -> {"idle", "catchup", "send", "confirm", "ok", "failed"}]
        /\ \A o \in Op : o # p => pc'[o] = pc[o]
    BY <1>1, <1>3 DEF Receive, ReceiveThrows, AfterPull, TypeOK
  <2>3. /\ outbox' \in [Device -> SUBSET Op] /\ acked' \in [Device -> SUBSET Op]
    <3>1. \E ops : Settle(DeviceOf(p), ops)
      BY <1>3 DEF Receive, ReceiveThrows
    <3>2. outbox \in [Device -> SUBSET Op] /\ acked \in [Device -> SUBSET Op]
      BY <1>1 DEF TypeOK
    <3> QED  BY <3>1, <3>2 DEF Settle
  <2>4. /\ applied' \in [Device -> Seq(Op)]
        /\ \A d \in Device : Len(applied'[d]) >= Len(applied[d])
    <3>1. /\ applied \in [Device -> Seq(Op)]
          /\ \A d \in Device : Len(applied[d]) \in Nat
      BY <1>1, LenProperties DEF TypeOK
    <3> DEFINE longer == applied[DeviceOf(p)] \o Fresh(p)
    <3>2. longer \in Seq(Op) /\ Len(longer) >= Len(applied[DeviceOf(p)])
      BY <2>1, FreshAreOps
    <3>3. applied' = applied \/ applied' = [applied EXCEPT ![DeviceOf(p)] = longer]
      BY <1>3 DEF Receive, ReceiveThrows
    <3> HIDE DEF longer
    <3>4. applied' \in [Device -> Seq(Op)]
      BY <3>1, <3>2, <3>3
    <3>5. \A d \in Device : applied'[d] = applied[d] \/ (d = DeviceOf(p) /\ applied'[d] = longer)
      BY <3>1, <3>3
    <3>6. ASSUME NEW d \in Device  PROVE Len(applied'[d]) >= Len(applied[d])
      <4>1. Len(applied[d]) \in Nat
        BY <3>1
      <4>2. CASE applied'[d] = applied[d]
        BY <4>1, <4>2
      <4>3. CASE d = DeviceOf(p) /\ applied'[d] = longer
        BY <3>2, <4>3
      <4> QED  BY <3>5, <4>2, <4>3
    <3> QED  BY <3>4, <3>6
  <2>5. \A q \in Proc : answer'[q] = IF q = p THEN None ELSE answer[q]
    BY <1>1, <2>1
  <2>6. \A q \in Proc : answer'[q] # None => answer'[q] = answer[q] /\ q # p
    BY <2>5
  <2>7. \A q \in Proc : q # p => (Pulling(q)' <=> Pulling(q)) /\ (q \in Op => pc'[q] = pc[q])
    BY <2>2 DEF Pulling
  <2>8. \A q \in Proc : answer'[q] # None =>
          IF Pulling(q)' THEN answer'[q] \in Batch ELSE pc'[q] = "send" /\ answer'[q] \in Statuses
    <3> SUFFICES ASSUME NEW q \in Proc, answer'[q] # None
                 PROVE  IF Pulling(q)' THEN answer'[q] \in Batch
                        ELSE pc'[q] = "send" /\ answer'[q] \in Statuses
      OBVIOUS
    <3>1. answer[q] # None /\ answer'[q] = answer[q] /\ q # p /\ (Pulling(q)' <=> Pulling(q))
      BY <2>6, <2>7
    <3>2. CASE Pulling(q)
      BY <1>1, <3>1, <3>2 DEF TypeOK
    <3>3. CASE ~Pulling(q)
      <4>1. q \in Op
        BY <3>3 DEF Pulling
      <4> QED  BY <1>1, <2>7, <3>1, <3>3, <4>1 DEF TypeOK
    <3> QED  BY <3>2, <3>3
  <2>9. TypeOK'
    BY <1>1, <2>1, <2>2, <2>3, <2>4, <2>8 DEF TypeOK
  <2>10. ASSUME NEW q \in Proc, Pulling(q)', answer'[q] # None
         PROVE  answer'[q].after <= Len(applied'[DeviceOf(q)])
    <3>1. /\ answer'[q] = answer[q] /\ Pulling(q) /\ answer[q].after <= Len(applied[DeviceOf(q)])
          /\ answer[q].after \in Nat
      BY <1>1, <2>6, <2>7, <2>10 DEF TypeInv, TypeOK, Batch
    <3>2. DeviceOf(q) \in Device
      BY ConstantsAreTyped DEF DeviceOf, Proc
    <3>3. Len(applied[DeviceOf(q)]) \in Nat /\ Len(applied'[DeviceOf(q)]) \in Nat
      BY <1>1, <2>4, <3>2, LenProperties DEF TypeOK
    <3> QED  BY <2>4, <3>1, <3>2, <3>3
  <2>11. \A o \in Op : pc'[o] = "send" /\ answer'[o] # None => sent'[o] # None
    BY <2>1, <2>6, <2>7 DEF TypeInv, Proc
  <2> QED  BY <1>1, <2>1, <2>9, <2>10, <2>11 DEF TypeInv
<1> QED  BY <1>2, <1>3 DEF Step

\* Steps of calls, failures of the network and restarts: a waiting answer is
\* taken, thrown away or left where it is.
LEMMA CallKeepsTypes ==
  ASSUME TypeInv, TypeOK', UNCHANGED applied, DOMAIN answer' = Proc,
         \A p \in Proc : \/ answer'[p] = None
                         \/ answer'[p] = answer[p] /\ (p \in Op => pc'[p] = pc[p] /\ sent'[p] = sent[p])
  PROVE  TypeInv'
<1>1. ASSUME NEW p \in Proc, Pulling(p)', answer'[p] # None
      PROVE  answer'[p].after <= Len(applied'[DeviceOf(p)])
  BY <1>1 DEF TypeInv, Pulling
<1>2. ASSUME NEW o \in Op, pc'[o] = "send", answer'[o] # None  PROVE sent'[o] # None
  BY <1>2 DEF TypeInv, Proc
<1> QED  BY <1>1, <1>2 DEF TypeInv

\* Every step keeps the types.
LEMMA NextTypeInv == TypeInv /\ [Next]_vars => TypeInv'
<1> SUFFICES ASSUME TypeInv, [Next]_vars  PROVE TypeInv'
  OBVIOUS
<1> USE DEF server, replica, calls, history
<1>1. Author \in [Op -> Device] /\ Op \subseteq Proc /\ None \notin Op /\ TypeOK /\ DOMAIN answer = Proc
      /\ \A d \in Device : d \notin Op
  BY ConstantsAreTyped DEF Proc, TypeInv
<1>2. CASE UNCHANGED vars
  BY <1>1, <1>2, CallKeepsTypes DEF vars, TypeOK, Pulling
<1>3. ASSUME NEW r \in requests, Submit(r)  PROVE TypeInv'
  BY <1>3, SubmitKeepsTypes
<1>4. ASSUME NEW u \in Upload, (\E d \in Device : RenewLease(d, u)) \/ EndLease(u)
      PROVE  TypeInv'
  <2>1. lease' \in [Upload -> Device \cup {None}]
    <3>1. lease \in [Upload -> Device \cup {None}]
      BY <1>1 DEF TypeOK
    <3>2. \E x \in Device \cup {None} : lease' = [lease EXCEPT ![u] = x]
      BY <1>4 DEF RenewLease, EndLease
    <3> QED  BY <3>1, <3>2
  <2>2. UNCHANGED <<log, disk, minRules, replica, calls, requests, answer, history>>
    BY <1>4 DEF RenewLease, EndLease
  <2>3. TypeOK'
    BY <1>1, <2>1, <2>2 DEF TypeOK, Pulling
  <2> QED  BY <1>1, <2>2, <2>3, CallKeepsTypes
<1>5. CASE RestartServer
  <2>1. log' \in Seq(Op)
    <3>1. disk \in Seq([seq : Nat, op : Op]) /\ Len(disk) \in Nat /\ DOMAIN disk = 1 .. Len(disk)
      BY <1>1, LenProperties DEF TypeOK
    <3>2. \A i \in 1 .. Len(disk) : disk[i].op \in Op
      <4>1. ASSUME NEW i \in 1 .. Len(disk)  PROVE disk[i] \in [seq : Nat, op : Op]
        BY <3>1, ElementOfSeq
      <4> QED  BY <4>1
    <3>3. log' = [i \in 1 .. Len(disk) |-> disk[i].op]
      BY <1>5, <3>1 DEF RestartServer
    <3> QED  BY <3>1, <3>2, <3>3, SeqDef
  <2> QED  BY <1>1, <1>5, <2>1, CallKeepsTypes DEF RestartServer, TypeOK, Pulling
<1>6. ASSUME NEW p \in Proc, Step(p)  PROVE TypeInv'
  BY <1>6, PullKeepsTypes
<1>7. ASSUME NEW o \in Op, Call(o)  PROVE TypeInv'
  <2>1. made' \in [Device -> Seq(Op)] /\ base' \in [Op -> Nat]
    BY <1>1, <1>7, AppendProperties, LenProperties DEF Call, TypeOK
  <2>2. answer[o] = None
    BY <1>1, <1>7 DEF TypeOK, Pulling, Call
  <2>3. TypeOK'
    BY <1>1, <1>7, <2>1, <2>2 DEF Call, TypeOK, Pulling
  <2> QED  BY <1>1, <1>7, <2>2, <2>3, CallKeepsTypes DEF Call, TypeOK
<1>8. ASSUME NEW o \in Op, Send(o)  PROVE TypeInv'
  <2>1. PICK x \in Unsent(Author[o]) : sent' = [sent EXCEPT ![o] = x]
                                     /\ requests' = requests \cup {[op |-> x, by |-> o]}
    BY <1>8 DEF Send
  <2>2. x \in Op
    BY <1>1, ElementOfSeq, LenProperties DEF Unsent, TypeOK
  <2>3. answer[o] = None
    BY <1>1, <1>8 DEF TypeInv, Send
  <2>4. TypeOK'
    BY <1>1, <1>8, <2>1, <2>2 DEF Send, TypeOK, Pulling
  <2> QED  BY <1>1, <1>8, <2>1, <2>3, <2>4, CallKeepsTypes DEF Send, TypeOK
<1>9. ASSUME NEW o \in Op, AllSent(o)  PROVE TypeInv'
  <2>1. answer[o] = None
    BY <1>1, <1>9 DEF TypeInv, AllSent
  <2>2. TypeOK'
    BY <1>1, <1>9, <2>1 DEF AllSent, TypeOK, Pulling
  <2> QED  BY <1>1, <1>9, <2>1, <2>2, CallKeepsTypes DEF AllSent, TypeOK
<1>10. ASSUME NEW o \in Op, Acknowledged(o) \/ Refused(o) \/ Errored(o)  PROVE TypeInv'
  <2>1. /\ pc[o] = "send" /\ answer[o] # None
        /\ sent' = [sent EXCEPT ![o] = None]
        /\ answer' = [answer EXCEPT ![o] = None]
        /\ UNCHANGED <<server, applied, base, made, requests, lost>>
    BY <1>10 DEF Acknowledged, Refused, Errored, Answered
  <2>2. pc' = pc \/ pc' = [pc EXCEPT ![o] = "failed"]
    BY <1>10 DEF Acknowledged, Refused, Errored
  <2>3. sent[o] \in Op
    BY <1>1, <2>1 DEF TypeInv, TypeOK
  <2>4. outbox' \in [Device -> SUBSET Op] /\ acked' \in [Device -> SUBSET Op] /\ refused' \subseteq Op
    <3>1. /\ outbox \in [Device -> SUBSET Op] /\ acked \in [Device -> SUBSET Op] /\ refused \subseteq Op
          /\ Author[o] \in Device
      BY <1>1 DEF TypeOK
    <3>2. CASE Acknowledged(o)
      BY <2>3, <3>1, <3>2 DEF Acknowledged
    <3>3. CASE Refused(o)
      BY <2>3, <3>1, <3>3 DEF Refused, Settle
    <3>4. CASE Errored(o)
      BY <3>1, <3>4 DEF Errored
    <3> QED  BY <1>10, <3>2, <3>3, <3>4
  <2>5. TypeOK'
    BY <1>1, <2>1, <2>2, <2>4 DEF TypeOK, Pulling
  <2> QED  BY <1>1, <2>1, <2>2, <2>5, CallKeepsTypes DEF TypeOK
<1>11. ASSUME NEW o \in Op, NetworkFails(o)  PROVE TypeInv'
  <2>1. TypeOK'
    BY <1>1, <1>11 DEF NetworkFails, TypeOK, Pulling
  <2>2. /\ pc' = [pc EXCEPT ![o] = "failed"] /\ sent' = [sent EXCEPT ![o] = None]
        /\ answer' = [answer EXCEPT ![o] = None] /\ UNCHANGED applied
    BY <1>11 DEF NetworkFails, replica
  <2>3. DOMAIN answer' = Proc
    BY <1>1, <2>2 DEF TypeInv
  <2>4. \A p \in Proc : \/ answer'[p] = None
                        \/ answer'[p] = answer[p] /\ (p \in Op => pc'[p] = pc[p] /\ sent'[p] = sent[p])
    <3>1. DOMAIN answer = Proc /\ DOMAIN pc = Op /\ DOMAIN sent = Op
      BY <1>1 DEF TypeInv, TypeOK
    <3>2. ASSUME NEW p \in Proc, p = o  PROVE answer'[p] = None
      BY <2>2, <3>1, <3>2
    <3>3. ASSUME NEW p \in Proc, p # o
          PROVE  answer'[p] = answer[p] /\ (p \in Op => pc'[p] = pc[p] /\ sent'[p] = sent[p])
      BY <2>2, <3>1, <3>3
    <3> QED  BY <3>2, <3>3
  <2> QED  BY <1>1, <2>1, <2>2, <2>3, <2>4, CallKeepsTypes
<1>12. ASSUME NEW d \in Device, RestartDevice(d)  PROVE TypeInv'
  <2>1. TypeOK'
    BY <1>1, <1>12 DEF RestartDevice, TypeOK, Pulling, Proc
  <2>2. DOMAIN answer' = Proc /\ UNCHANGED applied
    BY <1>12 DEF RestartDevice
  <2>3. \A p \in Proc : \/ answer'[p] = None
                        \/ answer'[p] = answer[p] /\ (p \in Op => pc'[p] = pc[p] /\ sent'[p] = sent[p])
    BY <1>1, <1>12 DEF RestartDevice, TypeOK
  <2> QED  BY <1>1, <2>1, <2>2, <2>3, CallKeepsTypes
<1>13. ASSUME NEW o \in Op, CallStep(o)  PROVE TypeInv'
  BY <1>8, <1>9, <1>10, <1>13 DEF CallStep
<1> QED  BY <1>2, <1>3, <1>4, <1>5, <1>6, <1>7, <1>11, <1>12, <1>13 DEF Next

\* The state has its types in every behaviour, also when INSERTs fail and a
\* restart finds a shorter log: no pull takes what is no operation from a
\* batch, and no answer is left for a call that does not expect one.
THEOREM TypesHold == Spec => []TypeOK
<1>1. TypeInv => TypeOK
  BY DEF TypeInv
<1> QED  BY <1>1, InitTypeInv, NextTypeInv, PTL DEF Spec

-----------------------------------------------------------------------------
(* commitOp and the outbox                                                 *)

\* What the log holds, or what is known to be missing from it.
Settled == Entries(log) \cup refused \cup lost

\* A device's operations are listed once, when their calls begin.
CallsMade ==
  /\ \A d \in Device : \A i, j \in DOMAIN made[d] : made[d][i] = made[d][j] => i = j
  /\ \A d \in Device : \A i \in DOMAIN made[d] :
       Author[made[d][i]] = d /\ pc[made[d][i]] # "idle"
  /\ \A o \in Op : pc[o] # "idle" => o \in Entries(made[Author[o]])

\* No operation leaves the outbox unsettled.
Accounted ==
  /\ outbox \in [Device -> SUBSET Op]
  /\ \A d \in Device : Entries(made[d]) \subseteq outbox[d] \cup Settled

\* An acknowledgement, taken up or on its way, is for an entry.
Confirmed ==
  /\ acked \in [Device -> SUBSET Op]
  /\ \A d \in Device : acked[d] \subseteq Entries(log)
  /\ \A o \in Op :
       pc[o] = "send" /\ answer[o] # None /\ answer[o] \in {"accepted", "duplicate"}
         => sent[o] \in Entries(log)

\* y was made before x.
Earlier(y, x) ==
  \E d \in Device : \E j \in DOMAIN made[d] : \E i \in 1 .. j - 1 :
    made[d][i] = y /\ made[d][j] = x

\* What was made before an operation on its way, or in the log, is settled.
InOrder ==
  /\ \A r \in requests : /\ pc[r.op] # "idle"
                         /\ \A y \in Op : Earlier(y, r.op) => y \in Settled
  /\ \A j \in DOMAIN log : /\ pc[log[j]] # "idle"
                           /\ \A y \in Op : Earlier(y, log[j]) =>
                               y \in refused \cup lost \/ \E i \in 1 .. j - 1 : log[i] = y

\* What waits has not been applied, and what is done has.
Waiting ==
  /\ \A d \in Device : outbox[d] \cap Entries(applied[d]) = {}
  /\ \A o \in Op : pc[o] = "ok" => o \in Entries(applied[Author[o]])

\* Bases lie behind.
Based ==
  /\ base \in [Op -> Nat]
  /\ \A o \in Op : base[o] <= Len(applied[Author[o]])
  /\ \A j \in DOMAIN log : base[log[j]] < j

OrderInv == IInv /\ CallsMade /\ Accounted /\ Confirmed /\ InOrder /\ Waiting /\ Based

-----------------------------------------------------------------------------
(* The inductive invariant                                                 *)

\* Nothing has happened yet.
LEMMA InitOrderInv == Init => OrderInv
<1> SUFFICES ASSUME Init  PROVE OrderInv
  OBVIOUS
<1>1. IInv
  BY InitIInv
<1>2. CallsMade /\ Accounted
  BY DEF Init, CallsMade, Accounted, Entries
<1>3. Confirmed /\ InOrder
  BY DEF Init, Confirmed, InOrder, Proc
<1>4. Waiting /\ Based
  BY ConstantsAreTyped DEF Init, Waiting, Based, Entries
<1> QED  BY <1>1, <1>2, <1>3, <1>4 DEF OrderInv

\* A step that neither begins a call nor sends or orders an operation: what
\* leaves the outbox must be settled, what enters an index must leave it.
LEMMA StepKeeps ==
  ASSUME OrderInv, IInv',
         UNCHANGED <<log, made, base>>,
         requests' \subseteq requests,
         \A o \in Op : pc[o] # "idle" <=> pc'[o] # "idle",
         refused \subseteq refused', lost \subseteq lost',
         outbox' \in [Device -> SUBSET Op], acked' \in [Device -> SUBSET Op],
         \A d \in Device : /\ outbox[d] \subseteq outbox'[d] \cup Settled'
                           /\ outbox'[d] \cap Entries(applied'[d]) = {}
                           /\ acked'[d] \subseteq Entries(log)
                           /\ Len(applied[d]) <= Len(applied'[d]),
         \A o \in Op : pc'[o] = "send" /\ answer'[o] # None /\ answer'[o] \in {"accepted", "duplicate"}
                         => sent'[o] \in Entries(log),
         \A o \in Op : pc'[o] = "ok" => o \in Entries(applied'[Author[o]])
  PROVE  OrderInv'
<1>1. /\ \A d \in Device : made[d] \in Seq(Op) /\ \A i \in DOMAIN made[d] : made[d][i] \in Op
      /\ \A r \in requests : r.op \in Op
      /\ \A j \in DOMAIN log : log[j] \in Op
      /\ \A d \in Device : Len(applied[d]) \in Nat /\ Len(applied'[d]) \in Nat
      /\ Author \in [Op -> Device]
  BY ConstantsAreTyped, LenProperties, ElementOfSeq DEF OrderInv, IInv, Typing, OnceInLog, Beginnings
<1>2. CallsMade'
  BY <1>1 DEF OrderInv, CallsMade, Entries
<1>3. Accounted'
  BY DEF OrderInv, Accounted, Settled, Entries
<1>4. Confirmed'
  BY DEF OrderInv, Confirmed, Entries
<1>5. Settled \subseteq Settled'
  BY DEF Settled, Entries
<1>6. InOrder'
  <2>1. ASSUME NEW r \in requests'
        PROVE  pc'[r.op] # "idle" /\ \A y \in Op : Earlier(y, r.op) => y \in Settled'
    BY <1>1, <1>5 DEF OrderInv, InOrder
  <2>2. ASSUME NEW j \in DOMAIN log'
        PROVE  /\ pc'[log'[j]] # "idle"
               /\ \A y \in Op : Earlier(y, log[j]) =>
                    y \in refused' \cup lost' \/ \E i \in 1 .. j - 1 : log'[i] = y
    BY <1>1 DEF OrderInv, InOrder
  <2> QED  BY <2>1, <2>2 DEF InOrder, Earlier
<1>7. Waiting'
  BY DEF OrderInv, Waiting
<1>8. Based'
  <2>1. base' = base /\ log' = log /\ base \in [Op -> Nat] /\ \A j \in DOMAIN log : base[log[j]] < j
    BY DEF OrderInv, Based
  <2>2. ASSUME NEW o \in Op  PROVE base[o] <= Len(applied'[Author[o]])
    <3>1. base[o] \in Nat /\ base[o] <= Len(applied[Author[o]]) /\ Author[o] \in Device
      BY <1>1 DEF OrderInv, Based
    <3> QED  BY <1>1, <3>1
  <2> QED  BY <2>1, <2>2 DEF Based
<1> QED  BY <1>2, <1>3, <1>4, <1>6, <1>7, <1>8 DEF OrderInv

\* Sequencer.submit: what was made before the operation that joins the log is
\* there, or known to be missing.
LEMMA SubmitKeepsOrder ==
  ASSUME MaxDiskFaults = 0, OrderInv, NEW r \in requests, Submit(r)
  PROVE  OrderInv'
<1>1. IInv'
  BY SubmitKeeps DEF OrderInv
<1>2. /\ r.op \in Op /\ r.by \in Op /\ r \in requests
      /\ requests' \subseteq requests
      /\ UNCHANGED <<applied, outbox, acked, base, pc, sent, made, refused, lost>>
      /\ diskFaults \in Nat /\ log \in Seq(Op) /\ Len(log) \in Nat
      /\ DOMAIN answer = Proc
  BY LenProperties DEF OrderInv, IInv, Typing, OnceInLog, OnDisk, Submit, replica, calls, history
<1>3. PICK a : /\ Reply(r, a)
               /\ a \in {"accepted", "duplicate"} => r.op \in Entries(log')
               /\ UNCHANGED log \/ (log' = Append(log, r.op) /\ r.op \notin Entries(log))
  <2>1. CASE Verdict(r.op) = "accepted"
    <3>1. log' = Append(log, r.op) /\ r.op \notin Entries(log) /\ Reply(r, "accepted")
      BY <1>2, <2>1 DEF Submit, Verdict
    <3>2. r.op \in Entries(log')
      BY <1>2, <3>1, AppendProperties, LenProperties DEF Entries
    <3> QED  BY <3>1, <3>2
  <2>2. CASE Verdict(r.op) # "accepted"
    <3>1. UNCHANGED log /\ Reply(r, Verdict(r.op))
      BY <2>2 DEF Submit
    <3>2. Verdict(r.op) \in {"accepted", "duplicate"} => r.op \in Entries(log')
      BY <2>2, <3>1 DEF Verdict
    <3> QED  BY <3>1, <3>2
  <2> QED  BY <2>1, <2>2
<1>4. Entries(log) \subseteq Entries(log')
  BY <1>2, <1>3, AppendProperties, LenProperties DEF Entries
<1>5. \A o \in Op : pc'[o] = "send" /\ answer'[o] # None /\ answer'[o] \in {"accepted", "duplicate"}
                      => sent'[o] \in Entries(log')
  <2> SUFFICES ASSUME NEW o \in Op, pc[o] = "send", answer'[o] # None,
                      answer'[o] \in {"accepted", "duplicate"}
               PROVE  sent[o] \in Entries(log')
    BY <1>2
  <2>1. answer'[o] = answer[o] \/ (o = r.by /\ answer'[o] = a /\ sent[o] = r.op)
    BY <1>2, <1>3 DEF Reply, Proc
  <2> QED  BY <1>3, <1>4, <2>1 DEF OrderInv, Confirmed
<1>6. CASE UNCHANGED log
  <2>1. Settled' = Settled /\ \A d \in Device : outbox[d] \subseteq outbox'[d] \cup Settled'
    BY <1>2, <1>6 DEF Settled, Entries
  <2>2. \A d \in Device : outbox'[d] \cap Entries(applied'[d]) = {} /\ acked'[d] \subseteq Entries(log)
    BY <1>2 DEF OrderInv, Waiting, Confirmed, Entries
  <2>3. \A d \in Device : Len(applied[d]) <= Len(applied'[d])
    BY <1>2, LenProperties DEF OrderInv, IInv, Beginnings
  <2>4. outbox' \in [Device -> SUBSET Op] /\ acked' \in [Device -> SUBSET Op]
    BY <1>2 DEF OrderInv, Accounted, Confirmed
  <2>5. \A o \in Op : pc'[o] = "ok" => o \in Entries(applied'[Author[o]])
    BY <1>2 DEF OrderInv, Waiting, Entries
  <2> QED  BY <1>1, <1>2, <1>5, <1>6, <2>1, <2>2, <2>3, <2>4, <2>5, StepKeeps DEF Entries
<1>7. CASE log' = Append(log, r.op) /\ r.op \notin Entries(log)
  <2>1. /\ DOMAIN log' = 1 .. Len(log) + 1 /\ DOMAIN log = 1 .. Len(log)
        /\ log'[Len(log) + 1] = r.op /\ \A i \in 1 .. Len(log) : log'[i] = log[i]
    BY <1>2, <1>7, AppendProperties, LenProperties
  <2>2. CallsMade'
    BY <1>2 DEF OrderInv, CallsMade, Entries
  <2>3. Accounted'
    BY <1>2, <1>4 DEF OrderInv, Accounted, Settled, Entries
  <2>4. Confirmed'
    <3>1. acked' \in [Device -> SUBSET Op] /\ \A d \in Device : acked'[d] \subseteq Entries(log')
      BY <1>2, <1>4 DEF OrderInv, Confirmed
    <3> QED  BY <1>5, <3>1 DEF Confirmed, Entries
  <2>5. InOrder'
    <3>1. ASSUME NEW q \in requests'
          PROVE  pc'[q.op] # "idle" /\ \A y \in Op : Earlier(y, q.op) => y \in Settled'
      BY <1>2, <1>4 DEF OrderInv, InOrder, Settled
    <3>2. ASSUME NEW j \in 1 .. Len(log)
          PROVE  /\ pc'[log'[j]] # "idle"
                 /\ \A y \in Op : Earlier(y, log'[j]) =>
                      y \in refused' \cup lost' \/ \E i \in 1 .. j - 1 : log'[i] = y
      <4>1. /\ pc[log[j]] # "idle"
            /\ \A y \in Op : Earlier(y, log[j]) =>
                 y \in refused \cup lost \/ \E i \in 1 .. j - 1 : log[i] = y
        BY <2>1 DEF OrderInv, InOrder
      <4>2. \A i \in 1 .. j - 1 : log'[i] = log[i]
        BY <1>2, <2>1
      <4> QED  BY <1>2, <2>1, <4>1, <4>2
    <3>3. /\ pc'[r.op] # "idle"
          /\ \A y \in Op : Earlier(y, r.op) =>
               y \in refused' \cup lost' \/ \E i \in 1 .. Len(log) + 1 - 1 : log'[i] = y
      <4>1. pc[r.op] # "idle" /\ \A y \in Op : Earlier(y, r.op) => y \in Settled
        BY DEF OrderInv, InOrder
      <4>2. \A y \in Entries(log) : \E i \in 1 .. Len(log) + 1 - 1 : log'[i] = y
        BY <1>2, <2>1 DEF Entries
      <4> QED  BY <1>2, <4>1, <4>2 DEF Settled
    <3>4. ASSUME NEW j \in DOMAIN log'
          PROVE  /\ pc'[log'[j]] # "idle"
                 /\ \A y \in Op : Earlier(y, log'[j]) =>
                      y \in refused' \cup lost' \/ \E i \in 1 .. j - 1 : log'[i] = y
      <4>1. j \in 1 .. Len(log) \/ j = Len(log) + 1
        BY <1>2, <2>1
      <4>2. CASE j = Len(log) + 1
        BY <2>1, <3>3, <4>2
      <4> QED  BY <3>2, <4>1, <4>2
    <3> QED  BY <1>2, <3>1, <3>4 DEF InOrder, Earlier
  <2>6. Waiting'
    BY <1>2 DEF OrderInv, Waiting, Entries
  <2>7. Based'
    <3>1. base[r.op] < Len(log) + 1
      <4>1. /\ base[r.op] \in Nat /\ base[r.op] <= Len(applied[Author[r.op]])
            /\ Author[r.op] \in Device
        BY <1>2, ConstantsAreTyped DEF OrderInv, Based
      <4>2. Len(applied[Author[r.op]]) \in Nat /\ Len(applied[Author[r.op]]) <= Len(log)
        BY <4>1, LenProperties DEF OrderInv, IInv, Beginnings, Part
      <4> QED  BY <1>2, <4>1, <4>2
    <3>2. \A j \in 1 .. Len(log) : base[log[j]] < j
      BY <2>1 DEF OrderInv, Based
    <3>3. \A j \in DOMAIN log' : base[log'[j]] < j
      BY <1>2, <2>1, <3>1, <3>2
    <3> QED  BY <1>2, <3>3 DEF OrderInv, Based
  <2> QED  BY <1>1, <2>2, <2>3, <2>4, <2>5, <2>6, <2>7 DEF OrderInv
<1> QED  BY <1>3, <1>6, <1>7

\* Replica.enqueue: the new operation is the last of its device, so nothing
\* comes to be earlier than an operation on its way or in the log.
LEMMA CallKeepsOrder ==
  ASSUME MaxDiskFaults = 0, OrderInv, IInv', NEW o \in Op, Call(o)
  PROVE  OrderInv'
<1> DEFINE d == Author[o]
<1>1. /\ d \in Device /\ Author \in [Op -> Device]
      /\ pc[o] = "idle" /\ pc' = [pc EXCEPT ![o] = "catchup"]
      /\ base' = [base EXCEPT ![o] = Len(applied[d])]
      /\ outbox' = [outbox EXCEPT ![d] = @ \cup {o}]
      /\ made' = [made EXCEPT ![d] = Append(@, o)]
      /\ UNCHANGED <<log, applied, acked, sent, requests, answer, refused, lost>>
  BY ConstantsAreTyped DEF Call, server, history
<1>2. /\ made \in [Device -> Seq(Op)] /\ log \in Seq(Op) /\ requests \subseteq [op : Op, by : Op]
      /\ pc \in [Op -> {"idle", "catchup", "send", "confirm", "ok", "failed"}]
      /\ applied \in [Device -> Seq(Op)]
  BY DEF OrderInv, IInv, Typing, OnceInLog, Beginnings
<1>3. \A e \in Device : /\ Len(made[e]) \in Nat /\ DOMAIN made[e] = 1 .. Len(made[e])
                        /\ \A i \in DOMAIN made[e] : made[e][i] \in Op
                        /\ e # d => made'[e] = made[e]
  BY <1>1, <1>2, LenProperties, ElementOfSeq
<1> HIDE DEF d
<1>4. /\ DOMAIN made'[d] = 1 .. Len(made[d]) + 1
      /\ made'[d][Len(made[d]) + 1] = o
      /\ \A i \in 1 .. Len(made[d]) : made'[d][i] = made[d][i]
  <2>1. made'[d] = Append(made[d], o)
    BY <1>1, <1>2
  <2> QED  BY <1>1, <1>2, <2>1, AppendProperties, LenProperties
<1>5. \A e \in Device : \A i \in DOMAIN made[e] : Author[made[e][i]] = e /\ made[e][i] # o
  BY <1>1 DEF OrderInv, CallsMade
<1>6. o \notin Entries(log) /\ \A r \in requests : r.op # o
  BY <1>1 DEF OrderInv, InOrder, Entries
<1>7. CallsMade'
  <2>1. ASSUME NEW e \in Device, NEW i \in DOMAIN made'[e]
        PROVE  /\ Author[made'[e][i]] = e /\ pc'[made'[e][i]] # "idle"
               /\ \A j \in DOMAIN made'[e] : made'[e][i] = made'[e][j] => i = j
    <3>1. CASE e # d
      BY <1>1, <1>2, <1>3, <1>5, <3>1 DEF OrderInv, CallsMade
    <3>2. CASE e = d
      <4>1. \A j \in 1 .. Len(made[d]) : /\ Author[made'[d][j]] = d /\ made'[d][j] # o
                                         /\ made[d][j] \in Op /\ pc[made[d][j]] # "idle"
        <5>1. \A j \in 1 .. Len(made[d]) : j \in DOMAIN made[d] /\ made'[d][j] = made[d][j]
          BY <1>1, <1>3, <1>4
        <5>2. \A j \in DOMAIN made[d] : pc[made[d][j]] # "idle"
          BY <1>1 DEF OrderInv, CallsMade
        <5>3. d \in Device
          BY <1>1
        <5>4. \A j \in DOMAIN made[d] : Author[made[d][j]] = d /\ made[d][j] # o
          BY <1>5, <5>3
        <5>5. \A j \in DOMAIN made[d] : made[d][j] \in Op
          BY <1>3, <5>3
        <5> QED  BY <5>1, <5>2, <5>4, <5>5
      <4>2. \A j, k \in 1 .. Len(made[d]) : made'[d][j] = made'[d][k] => j = k
        BY <1>1, <1>3, <1>4 DEF OrderInv, CallsMade
      <4>3. Len(made[d]) \in Nat
        BY <1>1, <1>3
      <4>4. i \in 1 .. Len(made[d]) \/ (i = Len(made[d]) + 1 /\ made'[d][i] = o)
        BY <1>4, <3>2, <4>3
      <4>5. Author[made'[e][i]] = e /\ pc'[made'[e][i]] # "idle"
        BY <1>1, <1>2, <1>4, <3>2, <4>1, <4>4 DEF d
      <4>6. ASSUME NEW j \in DOMAIN made'[e], made'[e][i] = made'[e][j]  PROVE i = j
        <5>1. j \in 1 .. Len(made[d]) \/ (j = Len(made[d]) + 1 /\ made'[d][j] = o)
          BY <1>4, <3>2, <4>3
        <5> QED  BY <3>2, <4>1, <4>2, <4>4, <4>6, <5>1
      <4> QED  BY <4>5, <4>6
    <3> QED  BY <3>1, <3>2
  <2>2. ASSUME NEW x \in Op, pc'[x] # "idle"  PROVE x \in Entries(made'[Author[x]])
    <3>1. CASE x = o
      <4>1. Len(made[d]) + 1 \in DOMAIN made'[d]
        BY <1>1, <1>3, <1>4
      <4> QED  BY <1>4, <3>1, <4>1 DEF Entries, d
    <3>2. CASE x # o
      <4>1. x \in Entries(made[Author[x]]) /\ Author[x] \in Device
        BY <1>1, <1>2, <2>2, <3>2 DEF OrderInv, CallsMade
      <4>2. PICK i \in DOMAIN made[Author[x]] : made[Author[x]][i] = x
        BY <4>1 DEF Entries
      <4>3. i \in DOMAIN made'[Author[x]] /\ made'[Author[x]][i] = x
        BY <1>1, <1>3, <1>4, <4>1, <4>2
      <4> QED  BY <4>3 DEF Entries
    <3> QED  BY <3>1, <3>2
  <2> QED  BY <1>1, <2>1, <2>2 DEF CallsMade, Entries
<1>8. Accounted'
  <2>1. outbox' \in [Device -> SUBSET Op]
    BY <1>1 DEF OrderInv, Accounted
  <2>2. ASSUME NEW e \in Device, NEW i \in DOMAIN made'[e]
        PROVE  made'[e][i] \in outbox'[e] \cup Settled
    <3>1. outbox[e] \subseteq outbox'[e] /\ o \in outbox'[d]
      BY <1>1 DEF OrderInv, Accounted
    <3>2. made[e][i] \in outbox[e] \cup Settled \/ i \notin DOMAIN made[e]
      BY DEF OrderInv, Accounted, Entries
    <3>3. (i \in DOMAIN made[e] /\ made'[e][i] = made[e][i]) \/ (e = d /\ made'[e][i] = o)
      BY <1>1, <1>3, <1>4
    <3> QED  BY <3>1, <3>2, <3>3
  <2> QED  BY <1>1, <2>1, <2>2 DEF Accounted, Entries, Settled
<1>9. Confirmed'
  BY <1>1, <1>2 DEF OrderInv, Confirmed, Entries
<1>10. ASSUME NEW x \in Op, x # o, NEW y \in Op, Earlier(y, x)'  PROVE Earlier(y, x)
  <2>1. PICK e \in Device : \E j \in DOMAIN made'[e] : \E i \in 1 .. j - 1 :
          made'[e][i] = y /\ made'[e][j] = x
    BY <1>10 DEF Earlier
  <2>2. PICK j \in DOMAIN made'[e] : \E i \in 1 .. j - 1 : made'[e][i] = y /\ made'[e][j] = x
    BY <2>1
  <2>3. PICK i \in 1 .. j - 1 : made'[e][i] = y /\ made'[e][j] = x
    BY <2>2
  <2>4. j \in DOMAIN made[e]
    BY <1>1, <1>3, <1>4, <1>10, <2>3
  <2>5. i \in DOMAIN made[e] /\ made'[e][i] = made[e][i] /\ made'[e][j] = made[e][j]
    BY <1>1, <1>3, <1>4, <2>4
  <2> QED  BY <2>3, <2>4, <2>5 DEF Earlier
<1>11. InOrder'
  <2>1. ASSUME NEW r \in requests'
        PROVE  pc'[r.op] # "idle" /\ \A y \in Op : Earlier(y, r.op)' => y \in Settled
    BY <1>1, <1>2, <1>6, <1>10 DEF OrderInv, InOrder
  <2>2. ASSUME NEW j \in DOMAIN log
        PROVE  /\ pc'[log[j]] # "idle"
               /\ \A y \in Op : Earlier(y, log[j]) =>
                    y \in refused \cup lost \/ \E i \in 1 .. j - 1 : log[i] = y
               /\ log[j] \in Op /\ log[j] # o
    BY <1>1, <1>2, <1>6, ElementOfSeq, LenProperties DEF OrderInv, InOrder, Entries
  <2>3. ASSUME NEW j \in DOMAIN log', NEW y \in Op, Earlier(y, log[j])'
        PROVE  y \in refused' \cup lost' \/ \E i \in 1 .. j - 1 : log'[i] = y
    <3>1. log' = log /\ refused' = refused /\ lost' = lost
      BY <1>1
    <3>2. Earlier(y, log[j])
      <4>1. PICK x \in Op : x = log[j] /\ x # o
        BY <2>2, <3>1
      <4>2. Earlier(y, x)'
        BY <2>3, <3>1, <4>1 DEF Earlier
      <4> QED  BY <1>10, <4>1, <4>2
    <3> QED  BY <2>2, <3>1, <3>2
  <2> QED  BY <1>1, <2>1, <2>2, <2>3 DEF InOrder, Settled, Entries
<1>12. Waiting'
  <2>1. o \notin Entries(applied[d])
    <3>1. /\ Part(applied[d], log, 0) /\ Len(applied[d]) \in Nat /\ Len(log) \in Nat
          /\ DOMAIN applied[d] = 1 .. Len(applied[d]) /\ DOMAIN log = 1 .. Len(log)
      BY <1>1, <1>2, LenProperties DEF OrderInv, IInv, Beginnings
    <3>2. \A i \in DOMAIN applied[d] : i \in DOMAIN log /\ applied[d][i] = log[i]
      BY <3>1 DEF Part
    <3> QED  BY <1>6, <3>2 DEF Entries
  <2>2. \A x \in Op : pc'[x] = "ok" => pc[x] = "ok"
    BY <1>1, <1>2
  <2> QED  BY <1>1, <2>1, <2>2 DEF OrderInv, Waiting, Accounted, Entries
<1>13. Based'
  <2>1. Len(applied[d]) \in Nat
    BY <1>1, <1>2, LenProperties
  <2>2. base' \in [Op -> Nat] /\ \A x \in Op : base'[x] = IF x = o THEN Len(applied[d]) ELSE base[x]
    BY <1>1, <2>1 DEF OrderInv, Based
  <2>3. ASSUME NEW j \in DOMAIN log  PROVE base'[log[j]] < j
    <3>1. log[j] \in Op /\ log[j] # o
      BY <1>2, <1>6, ElementOfSeq, LenProperties DEF Entries
    <3> QED  BY <2>2, <3>1 DEF OrderInv, Based
  <2>4. ASSUME NEW x \in Op  PROVE base'[x] <= Len(applied[Author[x]])
    BY <2>1, <2>2 DEF OrderInv, Based, d
  <2> QED  BY <1>1, <2>2, <2>3, <2>4 DEF Based
<1> QED  BY <1>7, <1>8, <1>9, <1>11, <1>12, <1>13 DEF OrderInv

\* Replica.pushOneAsync: the operation it sends is the first that waits.
LEMMA SendKeepsOrder ==
  ASSUME MaxDiskFaults = 0, OrderInv, IInv', NEW o \in Op, Send(o)
  PROVE  OrderInv'
<1> DEFINE d == Author[o]
<1>1. /\ d \in Device /\ sent[o] = None /\ pc[o] = "send"
      /\ UNCHANGED <<log, applied, outbox, acked, base, pc, made, answer, refused, lost>>
  BY ConstantsAreTyped DEF Send, server, replica, history
<1>2. PICK x \in Unsent(d) : /\ sent' = [sent EXCEPT ![o] = x]
                             /\ requests' = requests \cup {[op |-> x, by |-> o]}
  BY DEF Send
<1> HIDE DEF d
<1>3. PICK j \in DOMAIN made[d] : /\ made[d][j] = x
                                  /\ \A k \in 1 .. j - 1 : made[d][k] \notin outbox[d] \ acked[d]
  BY <1>2 DEF Unsent
<1>4. /\ made[d] \in Seq(Op) /\ DOMAIN made[d] = 1 .. Len(made[d]) /\ Len(made[d]) \in Nat
      /\ x \in Op /\ pc[x] # "idle"
  BY <1>1, <1>3, LenProperties, ElementOfSeq DEF OrderInv, IInv, Typing, CallsMade
<1>5. ASSUME NEW y \in Op, Earlier(y, x)  PROVE y \in Settled
  <2>1. PICK e \in Device : \E k \in DOMAIN made[e] : \E i \in 1 .. k - 1 :
          made[e][i] = y /\ made[e][k] = x
    BY <1>5 DEF Earlier
  <2>2. PICK k \in DOMAIN made[e] : \E i \in 1 .. k - 1 : made[e][i] = y /\ made[e][k] = x
    BY <2>1
  <2>3. e = d /\ k = j
    BY <1>1, <1>3, <2>2 DEF OrderInv, CallsMade
  <2>4. PICK i \in 1 .. j - 1 : made[d][i] = y
    BY <2>2, <2>3
  <2>5. i \in DOMAIN made[d] /\ y \notin outbox[d] \ acked[d]
    BY <1>3, <1>4, <2>4
  <2>6. y \in outbox[d] \cup Settled
    BY <1>1, <2>4, <2>5 DEF OrderInv, Accounted, Entries
  <2>7. acked[d] \subseteq Settled
    BY <1>1 DEF OrderInv, Confirmed, Settled
  <2> QED  BY <2>5, <2>6, <2>7
<1>6. CallsMade' /\ Accounted' /\ Waiting' /\ Based'
  BY <1>1 DEF OrderInv, CallsMade, Accounted, Waiting, Based, Entries, Settled
<1>7. Confirmed'
  <2>1. answer[o] = None
    BY <1>1 DEF OrderInv, IInv, Batches, Pulling
  <2> QED  BY <1>1, <1>2, <2>1 DEF OrderInv, IInv, Typing, Confirmed, Entries
<1>8. InOrder'
  <2>1. ASSUME NEW r \in requests'
        PROVE  pc'[r.op] # "idle" /\ \A y \in Op : Earlier(y, r.op) => y \in Settled
    BY <1>1, <1>2, <1>4, <1>5 DEF OrderInv, InOrder
  <2>2. ASSUME NEW n \in DOMAIN log
        PROVE  /\ pc'[log[n]] # "idle"
               /\ \A y \in Op : Earlier(y, log[n]) =>
                    y \in refused \cup lost \/ \E i \in 1 .. n - 1 : log[i] = y
    BY <1>1 DEF OrderInv, InOrder
  <2> QED  BY <1>1, <2>1, <2>2 DEF InOrder, Earlier, Settled, Entries
<1> QED  BY <1>6, <1>7, <1>8 DEF OrderInv

\* What a pull takes is in the log, and is in the index afterwards.
LEMMA FreshIsLogged ==
  ASSUME OrderInv, NEW p \in Proc, Pulling(p), answer[p] # None
  PROVE  LET d == DeviceOf(p)
         IN  /\ Entries(Fresh(p)) \subseteq Entries(log)
             /\ Entries(applied[d] \o Fresh(p)) = Entries(applied[d]) \cup Entries(Fresh(p))
<1> DEFINE d == DeviceOf(p)
<1>1. /\ d \in Device /\ applied[d] \in Seq(Op) /\ log \in Seq(Op)
      /\ Part(Fresh(p), log, Len(applied[d]))
  BY FreshContinues DEF OrderInv, IInv, Beginnings, OnceInLog
<1> HIDE DEF d
<1>2. /\ Fresh(p) \in Seq(Op) /\ Len(Fresh(p)) \in Nat /\ Len(applied[d]) \in Nat /\ Len(log) \in Nat
      /\ DOMAIN Fresh(p) = 1 .. Len(Fresh(p)) /\ DOMAIN applied[d] = 1 .. Len(applied[d])
      /\ DOMAIN log = 1 .. Len(log)
  BY <1>1, LenProperties DEF Part
<1>3. \A i \in 1 .. Len(Fresh(p)) : Len(applied[d]) + i \in DOMAIN log /\ Fresh(p)[i] = log[Len(applied[d]) + i]
  BY <1>1, <1>2 DEF Part
<1>4. Entries(Fresh(p)) \subseteq Entries(log)
  BY <1>2, <1>3 DEF Entries
<1>5. /\ DOMAIN (applied[d] \o Fresh(p)) = 1 .. Len(applied[d]) + Len(Fresh(p))
      /\ \A i \in 1 .. Len(applied[d]) + Len(Fresh(p)) :
           (applied[d] \o Fresh(p))[i] = IF i <= Len(applied[d]) THEN applied[d][i]
                                         ELSE Fresh(p)[i - Len(applied[d])]
  <2>1. applied[d] \o Fresh(p) \in Seq(Op)
    BY <1>1, <1>2, ConcatProperties
  <2> QED  BY <1>1, <1>2, <2>1, ConcatProperties, LenProperties
<1>6. Entries(applied[d] \o Fresh(p)) \subseteq Entries(applied[d]) \cup Entries(Fresh(p))
  <2> SUFFICES ASSUME NEW i \in 1 .. Len(applied[d]) + Len(Fresh(p))
               PROVE  (applied[d] \o Fresh(p))[i] \in Entries(applied[d]) \cup Entries(Fresh(p))
    BY <1>5 DEF Entries
  <2>1. i \in DOMAIN applied[d] \/ i - Len(applied[d]) \in DOMAIN Fresh(p)
    BY <1>2
  <2>2. CASE i <= Len(applied[d])
    BY <1>2, <1>5, <2>2 DEF Entries
  <2>3. CASE i > Len(applied[d])
    <3>1. i - Len(applied[d]) \in DOMAIN Fresh(p)
      BY <1>2, <2>3
    <3>2. (applied[d] \o Fresh(p))[i] = Fresh(p)[i - Len(applied[d])]
      BY <1>2, <1>5, <2>3
    <3> QED  BY <3>1, <3>2 DEF Entries
  <2> QED  BY <1>2, <2>2, <2>3
<1>7. Entries(applied[d]) \subseteq Entries(applied[d] \o Fresh(p))
  <2> SUFFICES ASSUME NEW i \in DOMAIN applied[d]
               PROVE  applied[d][i] \in Entries(applied[d] \o Fresh(p))
    BY DEF Entries
  <2>1. i \in DOMAIN (applied[d] \o Fresh(p)) /\ (applied[d] \o Fresh(p))[i] = applied[d][i]
    BY <1>2, <1>5
  <2> QED  BY <2>1 DEF Entries
<1>8. Entries(Fresh(p)) \subseteq Entries(applied[d] \o Fresh(p))
  <2> SUFFICES ASSUME NEW i \in DOMAIN Fresh(p)
               PROVE  Fresh(p)[i] \in Entries(applied[d] \o Fresh(p))
    BY DEF Entries
  <2>1. /\ Len(applied[d]) + i \in DOMAIN (applied[d] \o Fresh(p))
        /\ (applied[d] \o Fresh(p))[Len(applied[d]) + i] = Fresh(p)[i]
    BY <1>2, <1>5
  <2> QED  BY <2>1 DEF Entries
<1> QED  BY <1>4, <1>6, <1>7, <1>8 DEF d

\* A pull settles what its batch holds beyond the index.
LEMMA PullKeepsOrder ==
  ASSUME OrderInv, IInv', NEW p \in Proc, Step(p)
  PROVE  OrderInv'
<1> DEFINE d == DeviceOf(p)
<1> USE DEF server, replica, calls, history
<1>1. /\ d \in Device /\ outbox \in [Device -> SUBSET Op] /\ acked \in [Device -> SUBSET Op]
      /\ Author \in [Op -> Device] /\ DOMAIN answer = Proc /\ Op \subseteq Proc
      /\ applied \in [Device -> Seq(Op)]
      /\ \A e \in Device : Len(applied[e]) \in Nat
      /\ pc \in [Op -> {"idle", "catchup", "send", "confirm", "ok", "failed"}]
  BY ConstantsAreTyped, LenProperties
  DEF OrderInv, IInv, Typing, Beginnings, Accounted, Confirmed, DeviceOf, Proc
<1>2. /\ \A e \in Device : /\ outbox[e] \cap Entries(applied[e]) = {}
                           /\ acked[e] \subseteq Entries(log)
      /\ \A o \in Op : pc[o] = "ok" => o \in Entries(applied[Author[o]])
      /\ \A o \in Op : pc[o] = "send" /\ answer[o] # None /\ answer[o] \in {"accepted", "duplicate"}
                         => sent[o] \in Entries(log)
  BY DEF OrderInv, Waiting, Confirmed
<1>3. CASE ReadLog(p)
  <2>1. /\ Pulling(p) /\ \A o \in Op : o # p => answer'[o] = answer[o]
        /\ UNCHANGED <<log, applied, outbox, acked, base, pc, sent, made, requests, refused, lost>>
    BY <1>1, <1>3 DEF ReadLog
  <2>2. \A o \in Op : pc'[o] = "send" /\ answer'[o] # None /\ answer'[o] \in {"accepted", "duplicate"}
                        => sent'[o] \in Entries(log)
    BY <1>2, <2>1 DEF Pulling
  <2> QED  BY <1>1, <1>2, <2>1, <2>2, StepKeeps DEF Settled
<1>4. ASSUME Receive(p) \/ ReceiveThrows(p)  PROVE OrderInv'
  <2>1. /\ Pulling(p) /\ answer[p] # None /\ answer' = [answer EXCEPT ![p] = None]
        /\ UNCHANGED <<log, base, made, sent, requests, refused, lost>>
    BY <1>4 DEF Receive, ReceiveThrows
  <2>2. /\ Entries(Fresh(p)) \subseteq Entries(log)
        /\ Entries(applied[d] \o Fresh(p)) = Entries(applied[d]) \cup Entries(Fresh(p))
        /\ Len(applied[d] \o Fresh(p)) >= Len(applied[d])
    BY <2>1, FreshIsLogged, FreshContinues DEF OrderInv
  <2>3. PICK ops : /\ Settle(d, ops) /\ ops \subseteq Entries(Fresh(p))
                   /\ \/ applied' = [applied EXCEPT ![d] = @ \o Fresh(p)] /\ ops = Entries(Fresh(p))
                      \/ applied' = applied
    BY <1>4 DEF Receive, ReceiveThrows, Entries
  <2>4. \A o \in Op : \/ pc'[o] = pc[o]
                      \/ o = p /\ pc[o] \in {"catchup", "confirm"} /\ pc'[o] \in {"send", "failed"}
                      \/ o = p /\ pc[o] \in {"catchup", "confirm"} /\ pc'[o] = "ok" /\ o \in Entries(applied[Author[o]])
    BY <1>1, <1>4, <2>1 DEF Receive, ReceiveThrows, AfterPull, Pulling
  <2> HIDE DEF d
  <2>5. \A e \in Device : /\ Entries(applied[e]) \subseteq Entries(applied'[e])
                          /\ Len(applied[e]) <= Len(applied'[e])
                          /\ outbox'[e] \cap Entries(applied'[e]) = {}
                          /\ outbox[e] \subseteq outbox'[e] \cup Entries(log)
                          /\ acked'[e] \subseteq Entries(log)
    <3>1. \A e \in Device : /\ outbox'[e] = IF e = d THEN outbox[e] \ ops ELSE outbox[e]
                            /\ acked'[e] = IF e = d THEN acked[e] \ ops ELSE acked[e]
                            /\ applied'[e] = applied[e]
                              \/ (e = d /\ ops = Entries(Fresh(p)) /\ applied'[e] = applied[d] \o Fresh(p))
      BY <1>1, <2>3 DEF Settle
    <3> SUFFICES ASSUME NEW e \in Device
                 PROVE  /\ Entries(applied[e]) \subseteq Entries(applied'[e])
                        /\ Len(applied[e]) <= Len(applied'[e])
                        /\ outbox'[e] \cap Entries(applied'[e]) = {}
                        /\ outbox[e] \subseteq outbox'[e] \cup Entries(log)
                        /\ acked'[e] \subseteq Entries(log)
      OBVIOUS
    <3>2. CASE applied'[e] = applied[e]
      <4>1. /\ outbox'[e] \subseteq outbox[e] /\ acked'[e] \subseteq acked[e]
            /\ outbox[e] \subseteq outbox'[e] \cup ops /\ ops \subseteq Entries(log)
        BY <2>2, <2>3, <3>1
      <4>2. Len(applied[e]) <= Len(applied'[e])
        BY <1>1, <3>2
      <4> QED  BY <1>2, <3>2, <4>1, <4>2
    <3>3. CASE e = d /\ ops = Entries(Fresh(p)) /\ applied'[e] = applied[d] \o Fresh(p)
      <4>1. Entries(applied'[e]) = Entries(applied[e]) \cup ops /\ Len(applied[e]) <= Len(applied'[e])
        BY <1>1, <2>2, <3>3
      <4>2. outbox'[e] = outbox[e] \ ops /\ acked'[e] = acked[e] \ ops /\ ops \subseteq Entries(log)
        BY <2>2, <3>1, <3>3
      <4> QED  BY <1>2, <4>1, <4>2
    <3> QED  BY <3>1, <3>2, <3>3
  <2>6. outbox' \in [Device -> SUBSET Op] /\ acked' \in [Device -> SUBSET Op]
    BY <1>1, <2>3 DEF Settle
  <2>7. \A o \in Op : pc'[o] = "send" /\ answer'[o] # None /\ answer'[o] \in {"accepted", "duplicate"}
                        => sent'[o] \in Entries(log)
    BY <1>1, <1>2, <2>1, <2>4
  <2>8. \A o \in Op : pc'[o] = "ok" => o \in Entries(applied'[Author[o]])
    BY <1>1, <1>2, <2>4, <2>5
  <2>9. \A o \in Op : pc[o] # "idle" <=> pc'[o] # "idle"
    BY <2>4
  <2> QED  BY <2>1, <2>5, <2>6, <2>7, <2>8, <2>9, StepKeeps DEF Settled, Entries
<1> QED  BY <1>3, <1>4 DEF Step

\* Every step keeps the invariant, if no INSERT fails.
LEMMA NextOrderInv ==
  ASSUME MaxDiskFaults = 0, OrderInv, [Next]_vars
  PROVE  OrderInv'
<1> USE DEF server, replica, calls, history
<1>1. IInv /\ IInv'
  BY NextIInv DEF OrderInv
<1>2. /\ outbox \in [Device -> SUBSET Op] /\ acked \in [Device -> SUBSET Op]
      /\ Author \in [Op -> Device] /\ DOMAIN answer = Proc /\ Op \subseteq Proc
      /\ \A d \in Device : /\ Len(applied[d]) <= Len(applied[d])
                           /\ outbox[d] \cap Entries(applied[d]) = {}
                           /\ acked[d] \subseteq Entries(log)
      /\ pc \in [Op -> {"idle", "catchup", "send", "confirm", "ok", "failed"}]
      /\ sent \in [Op -> Op \cup {None}]
      /\ \A o \in Op : pc[o] = "ok" => o \in Entries(applied[Author[o]])
      /\ \A o \in Op : pc[o] = "send" /\ answer[o] # None /\ answer[o] \in {"accepted", "duplicate"}
                         => sent[o] \in Entries(log)
      /\ Entries(log) \subseteq Op
  BY ConstantsAreTyped, LenProperties, ElementOfSeq
  DEF OrderInv, IInv, Typing, OnceInLog, Beginnings, Accounted, Confirmed, Waiting, Proc, Entries
<1>3. CASE UNCHANGED vars
  BY <1>1, <1>2, <1>3, StepKeeps DEF vars, Settled
<1>4. ASSUME NEW r \in requests, Submit(r)  PROVE OrderInv'
  BY <1>4, SubmitKeepsOrder
<1>5. ASSUME NEW u \in Upload, (\E d \in Device : RenewLease(d, u)) \/ EndLease(u)
      PROVE  OrderInv'
  BY <1>1, <1>2, <1>5, StepKeeps DEF RenewLease, EndLease, Settled
<1>6. CASE RestartServer
  BY <1>1, <1>2, <1>6, RestartRestores, StepKeeps DEF RestartServer, Settled
<1>7. ASSUME NEW p \in Proc, Step(p)  PROVE OrderInv'
  BY <1>1, <1>7, PullKeepsOrder
<1>8. ASSUME NEW o \in Op, Call(o)  PROVE OrderInv'
  BY <1>1, <1>8, CallKeepsOrder
<1>9. ASSUME NEW o \in Op, Send(o)  PROVE OrderInv'
  BY <1>1, <1>9, SendKeepsOrder
<1>10. ASSUME NEW o \in Op, AllSent(o)  PROVE OrderInv'
  BY <1>1, <1>2, <1>10, StepKeeps DEF AllSent, Settled
<1>11. ASSUME NEW o \in Op, Acknowledged(o)  PROVE OrderInv'
  <2>1. sent[o] \in Entries(log) /\ Author[o] \in Device
    BY <1>2, <1>11 DEF Acknowledged, Answered
  <2>2. /\ acked' \in [Device -> SUBSET Op]
        /\ \A d \in Device : acked'[d] \subseteq Entries(log)
    BY <1>2, <1>11, <2>1 DEF Acknowledged
  <2> QED  BY <1>1, <1>2, <1>11, <2>2, StepKeeps DEF Acknowledged, Answered, Settled
<1>12. ASSUME NEW o \in Op, Refused(o)  PROVE OrderInv'
  <2>1. Author[o] \in Device
    BY <1>2
  <2>2. /\ outbox' \in [Device -> SUBSET Op] /\ acked' \in [Device -> SUBSET Op]
        /\ \A d \in Device : /\ outbox'[d] \subseteq outbox[d] /\ acked'[d] \subseteq acked[d]
                             /\ outbox[d] \subseteq outbox'[d] \cup {sent[o]}
    BY <1>2, <1>12, <2>1 DEF Refused, Settle
  <2>3. /\ UNCHANGED <<log, made, base, applied, requests, lost>>
        /\ refused' = refused \cup {sent[o]}
        /\ answer' = [answer EXCEPT ![o] = None] /\ sent' = [sent EXCEPT ![o] = None]
        /\ pc[o] = "send" /\ (pc' = pc \/ pc' = [pc EXCEPT ![o] = "failed"])
    BY <1>12 DEF Refused, Answered
  <2>4. \A d \in Device : /\ outbox[d] \subseteq outbox'[d] \cup Settled'
                          /\ outbox'[d] \cap Entries(applied'[d]) = {}
                          /\ acked'[d] \subseteq Entries(log)
    BY <1>2, <2>2, <2>3 DEF Settled
  <2>5. /\ \A x \in Op : pc'[x] = "send" /\ answer'[x] # None /\ answer'[x] \in {"accepted", "duplicate"}
                           => sent'[x] \in Entries(log)
        /\ \A x \in Op : (pc[x] # "idle" <=> pc'[x] # "idle") /\ (pc'[x] = "ok" => pc[x] = "ok")
    BY <1>2, <2>3
  <2> QED  BY <1>1, <1>2, <2>2, <2>3, <2>4, <2>5, StepKeeps
<1>13. ASSUME NEW o \in Op, Errored(o)  PROVE OrderInv'
  BY <1>1, <1>2, <1>13, StepKeeps DEF Errored, Answered, Settled
<1>14. ASSUME NEW o \in Op, NetworkFails(o)  PROVE OrderInv'
  BY <1>1, <1>2, <1>14, StepKeeps DEF NetworkFails, Settled
<1>15. ASSUME NEW d \in Device, RestartDevice(d)  PROVE OrderInv'
  BY <1>1, <1>2, <1>15, StepKeeps DEF RestartDevice, Settled
<1>16. ASSUME NEW o \in Op, CallStep(o)  PROVE OrderInv'
  BY <1>9, <1>10, <1>11, <1>12, <1>13, <1>16 DEF CallStep
<1> QED  BY <1>3, <1>4, <1>5, <1>6, <1>7, <1>8, <1>14, <1>15, <1>16 DEF Next

-----------------------------------------------------------------------------
(* The theorems                                                            *)

\* The invariant holds in every behaviour.
LEMMA OrderInvHolds ==
  ASSUME MaxDiskFaults = 0
  PROVE  Spec => []OrderInv
BY InitOrderInv, NextOrderInv, PTL DEF Spec

\* The place of an operation of the log.
LEMMA AtProperty ==
  ASSUME OnceInLog, NEW i \in DOMAIN log
  PROVE  At(log[i]) = i
BY DEF At, OnceInLog

\* Rule 10 of the protocol: a device's operations are in the log in the order
\* of their calls, except those the server refused or a restart of the device
\* lost, whatever its calls send for each other.
THEOREM AuthorsOrder ==
  ASSUME MaxDiskFaults = 0
  PROVE  Spec => []OwnOrder
<1>1. ASSUME OrderInv  PROVE OwnOrder
  <2> SUFFICES ASSUME NEW d \in Device, NEW j \in DOMAIN made[d], NEW i \in 1 .. j - 1,
                      made[d][j] \in Entries(log)
               PROVE  \/ made[d][i] \in Entries(log) /\ At(made[d][i]) < At(made[d][j])
                      \/ made[d][i] \in refused \cup lost
    BY DEF OwnOrder
  <2>1. PICK n \in DOMAIN log : log[n] = made[d][j]
    BY DEF Entries
  <2>2. made[d][i] \in Op /\ n \in Nat
    <3>1. made[d] \in Seq(Op) /\ DOMAIN made[d] = 1 .. Len(made[d]) /\ Len(made[d]) \in Nat
      BY <1>1, LenProperties DEF OrderInv, IInv, Typing
    <3>2. i \in DOMAIN made[d]
      BY <3>1
    <3>3. log \in Seq(Op) /\ DOMAIN log = 1 .. Len(log) /\ Len(log) \in Nat
      BY <1>1, LenProperties DEF OrderInv, IInv, OnceInLog
    <3> QED  BY <3>1, <3>2, <3>3, ElementOfSeq
  <2>3. Earlier(made[d][i], log[n])
    BY <2>1 DEF Earlier
  <2>4. made[d][i] \in refused \cup lost \/ \E m \in 1 .. n - 1 : log[m] = made[d][i]
    BY <1>1, <2>2, <2>3 DEF OrderInv, InOrder
  <2>5. ASSUME NEW m \in 1 .. n - 1, log[m] = made[d][i]
        PROVE  made[d][i] \in Entries(log) /\ At(made[d][i]) < At(made[d][j])
    <3>1. m \in DOMAIN log
      BY <1>1, <2>2, LenProperties DEF OrderInv, IInv, OnceInLog
    <3>2. At(log[m]) = m /\ At(log[n]) = n
      BY <1>1, <3>1, AtProperty DEF OrderInv, IInv
    <3> QED  BY <2>1, <2>2, <2>5, <3>1, <3>2 DEF Entries
  <2> QED  BY <2>4, <2>5
<1> QED  BY <1>1, OrderInvHolds, PTL

\* What a device takes for acknowledged is in the log, across restarts of the
\* server, and what it has applied does not wait.
THEOREM AcknowledgementsLast ==
  ASSUME MaxDiskFaults = 0
  PROVE  Spec => []AckedIsLogged
<1>1. OrderInv => AckedIsLogged
  BY DEF OrderInv, Confirmed, Waiting, AckedIsLogged
<1> QED  BY <1>1, OrderInvHolds, PTL

\* A call of commitOp that ends well has its entry in the index, and what it
\* has queued is not lost while it runs.
THEOREM CallsKeepTheirWord ==
  ASSUME MaxDiskFaults = 0
  PROVE  Spec => []OkIsApplied
<1>1. ASSUME OrderInv  PROVE OkIsApplied
  <2>1. ASSUME NEW o \in Op, pc[o] # "idle"
        PROVE  o \in outbox[Author[o]] \cup Settled
    BY <1>1, <2>1, ConstantsAreTyped DEF OrderInv, CallsMade, Accounted
  <2>2. \A o \in Op : pc[o] \in {"catchup", "send", "confirm"} => pc[o] # "idle"
    OBVIOUS
  <2> QED  BY <1>1, <2>1, <2>2 DEF OkIsApplied, OrderInv, Waiting, Settled
<1> QED  BY <1>1, OrderInvHolds, PTL

\* The base of an entry is a part of the log before it that its author still
\* has, so applyEntry never refuses the log of honest clients.
THEOREM BasesLieBehind ==
  ASSUME MaxDiskFaults = 0
  PROVE  Spec => []BaseIsBehind
<1>1. ASSUME OrderInv  PROVE BaseIsBehind
  <2> SUFFICES ASSUME NEW n \in DOMAIN log
               PROVE  base[log[n]] < At(log[n]) /\ base[log[n]] <= Len(applied[Author[log[n]]])
    BY DEF BaseIsBehind, Entries
  <2>1. At(log[n]) = n
    BY <1>1, AtProperty DEF OrderInv, IInv
  <2>2. log[n] \in Op
    BY <1>1, LenProperties, ElementOfSeq DEF OrderInv, IInv, OnceInLog
  <2> QED  BY <1>1, <2>1, <2>2 DEF OrderInv, Based
<1> QED  BY <1>1, OrderInvHolds, PTL

\* A device whose build does not know an entry's rules never applies the entry,
\* nor what follows it.
THEOREM ReadersStop ==
  ASSUME MaxDiskFaults = 0
  PROVE  Spec => []NeverPastUnreadable
<1>1. Init => NeverPastUnreadable
  BY DEF Init, NeverPastUnreadable, Entries
<1>2. ASSUME OrderInv, NeverPastUnreadable, [Next]_vars  PROVE NeverPastUnreadable'
  <2> USE DEF server, replica, calls, history
  <2>1. CASE UNCHANGED applied
    BY <1>2, <2>1 DEF NeverPastUnreadable, Entries
  <2>2. ASSUME NEW p \in Proc, Receive(p)  PROVE NeverPastUnreadable'
    <3> DEFINE d == DeviceOf(p)
    <3>1. /\ d \in Device /\ applied \in [Device -> Seq(Op)]
          /\ Pulling(p) /\ answer[p] # None /\ Unreadable(d, Fresh(p)) = {}
          /\ applied' = [applied EXCEPT ![d] = @ \o Fresh(p)]
      BY <1>2, <2>2, ConstantsAreTyped DEF Receive, DeviceOf, Proc, OrderInv, IInv, Beginnings
    <3>2. Entries(applied[d] \o Fresh(p)) = Entries(applied[d]) \cup Entries(Fresh(p))
      BY <1>2, <3>1, FreshIsLogged
    <3> HIDE DEF d
    <3>3. \A o \in Op : o \in Entries(Fresh(p)) => Rules[o] <= Replays[d]
      <4>1. \A i \in DOMAIN Fresh(p) : ~ (Rules[Fresh(p)[i]] > Replays[d])
        BY <3>1 DEF Unreadable
      <4>2. ASSUME NEW o \in Op, o \in Entries(Fresh(p))  PROVE ~ (Rules[o] > Replays[d])
        BY <4>1, <4>2 DEF Entries
      <4>3. Replays[d] \in Nat /\ \A o \in Op : Rules[o] \in Nat
        BY <3>1, ConstantsAreTyped
      <4> QED  BY <4>2, <4>3
    <3>4. ASSUME NEW e \in Device, NEW o \in Op, o \in Entries(applied'[e])
          PROVE  Rules[o] <= Replays[e]
      <4>1. CASE e = d
        BY <1>2, <3>1, <3>2, <3>3, <3>4, <4>1 DEF NeverPastUnreadable
      <4>2. CASE e # d
        BY <1>2, <3>1, <3>4, <4>2 DEF NeverPastUnreadable
      <4> QED  BY <4>1, <4>2
    <3> QED  BY <3>4 DEF NeverPastUnreadable, Entries
  <2>3. \/ UNCHANGED applied
        \/ \E p \in Proc : Receive(p)
    BY <1>2 DEF Next, vars, Submit, RenewLease, EndLease, RestartServer, Step, ReadLog, ReceiveThrows,
                CallStep, Call, Send, AllSent, Acknowledged, Refused, Errored, Answered,
                NetworkFails, RestartDevice
  <2> QED  BY <2>1, <2>2, <2>3
<1> QED  BY <1>1, <1>2, OrderInvHolds, PTL DEF Spec
=============================================================================
