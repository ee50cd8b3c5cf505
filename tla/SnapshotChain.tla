--------------------------- MODULE SnapshotChain ---------------------------
(***************************************************************************)
(* The snapshot chain of a metadata-only account                           *)
(* (packages/metadata-client/src/snapshots.ts): segments of the log and    *)
(* bases (the whole tree), posted as messages, and the pointer, one slot   *)
(* rewritten in place that names the last segment and the kept bases. What *)
(* the pointer reaches is what the rescue kit brings back with no server.  *)
(*                                                                         *)
(* Each device has its own SnapshotScheduler. Discord offers no compare-   *)
(* and-swap: a write of the pointer reads it, compares, and writes. Steps  *)
(* of several devices interleave at every call to Discord, and any call    *)
(* may fail. A device may also move the chain to another channel           *)
(* (rehomeChain), after which the vault names another pointer, and delete  *)
(* the old chain when the move has been retained for long enough           *)
(* (finishDrain in channels.ts).                                           *)
(*                                                                         *)
(* A message is its number. A base is one message. Sizes and the clock of  *)
(* decideSnapshot are choices; the copies of the Safe that the pointer     *)
(* also lists are left out.                                                *)
(***************************************************************************)
EXTENDS Integers, Sequences, FiniteSets, FiniteSetsExt

CONSTANTS
  Device, None,
  Unmetered,   \* the devices that may write bases
  DailyBases, WeeklyBases, DaysPerWeek,
  MaxHead,     \* the length of the log
  MaxDay,      \* how many days pass
  MaxRevision, \* how often the backend list changes
  MaxMoves     \* how often the chain is moved

ASSUME ConstantsAreTyped ==
  /\ Unmetered \subseteq Device
  /\ {DailyBases, WeeklyBases, DaysPerWeek} \subseteq Nat \ {0}
  /\ {MaxHead, MaxDay, MaxRevision, MaxMoves} \subseteq Nat

\* A base as a pointer names it, a pointer, and a drain.
Ref == [head : Nat, part : Nat, day : Nat, segment : Nat]
Pointer == [toSeq : Nat, base : Ref \cup {None}, history : SUBSET Ref,
            last : Nat, prunedUpTo : Nat, revision : Nat]

Drain == [slot : Nat, toSeq : Nat, at : Nat, todo : (SUBSET Nat) \cup {None}]

ASSUME NoneIsNoRecord == None \notin Ref \cup Pointer \cup Drain

VARIABLES
  log,      \* the server's log: the day each entry was made
  day,
  messages, \* segments and bases as posted: [from, to, prev, live]
  slots,    \* the pointers, in the order made; None: deleted
  vault,    \* what the vault says: [pointer, revision]
  drain,    \* the pointer a move left behind, or None: [slot, toSeq, at]
  device,   \* of each device: its index, its scheduler and what runs
  mover,    \* the chain is being moved: [by, from, to, read], or None
  crossed,  \* (history) a pointer was replaced whose chain had changed since its
            \* writer read it to build the next
  removed,  \* (history) messages were deleted
  anchor    \* (history) the day of the first base, or None

world == <<log, day>>
discord == <<messages, slots>>
vars == <<world, discord, vault, drain, device, mover, crossed, removed, anchor>>

Slot == DOMAIN slots
HeadSeq == Len(log)
Now == vault.revision

\* emptyPointer
EmptyPointer ==
  [toSeq |-> 0, base |-> None, history |-> {}, last |-> 0, prunedUpTo |-> 0, revision |-> 0]

\* A scheduler that has not been made yet: no location, no pointer read.
Fresh(seen) == [seen |-> seen, slot |-> 0, known |-> None, op |-> None]

Init ==
  /\ log = <<>> /\ day = 0 /\ messages = <<>>
  /\ slots = <<EmptyPointer>>
  /\ vault = [pointer |-> 1, revision |-> 0]
  /\ drain = None /\ mover = None
  /\ device = [d \in Device |-> Fresh(0)]
  /\ crossed = FALSE /\ removed = FALSE /\ anchor = None

-----------------------------------------------------------------------------
(* Messages, pointers and what can be restored                             *)

Live(m) == messages[m].live
Post(segment) == Append(messages, segment)

\* (mutant) A segment begins one entry late.
LateSegment(from, to, prev) == [from |-> from + 1, to |-> to, prev |-> prev, live |-> TRUE]

Segment(from, to, prev) == [from |-> from, to |-> to, prev |-> prev, live |-> TRUE]
Base(at) == [from |-> 0, to |-> at, prev |-> 0, live |-> TRUE]
Without(gone) == [m \in DOMAIN messages |-> [messages[m] EXCEPT !.live = @ /\ m \notin gone]]

Bases(p) == (IF p.base = None THEN {} ELSE {p.base}) \cup p.history
HeadOf(b) == IF b = None THEN -1 ELSE b.head

\* The segments reached from one, walking back until one ends at the floor.
Walk(last, floor) ==
  LET back[m \in 0..Len(messages)] ==
        IF m = 0 \/ messages[m].to <= floor THEN {} ELSE {m} \cup back[messages[m].prev]
  IN  back[last]

\* chainObjects: every message a pointer reaches.
ChainSegments(p) == Walk(p.last, p.prunedUpTo)
Reached(p) == ChainSegments(p) \cup {b.part : b \in Bases(p)}

\* restoreFromDiscord: from the newest base at or before the target, along
\* segments that are there and leave no gap.
Restores(p, target) ==
  LET below == {b \in Bases(p) : b.head <= target}
      floor == IF below = {} THEN 0 ELSE Max({b.head : b \in below})
      walk == Walk(p.last, floor)
  IN  /\ below = {} => p.prunedUpTo = 0
      /\ \A b \in below : b.head = floor => Live(b.part)
      /\ \A m \in walk : Live(m)
      /\ (floor + 1)..p.toSeq \subseteq UNION {messages[m].from..messages[m].to : m \in walk}

Oldest(p) == IF Bases(p) = {} THEN 0 ELSE Min({b.head : b \in Bases(p)})

-----------------------------------------------------------------------------
(* Retention                                                               *)

Week(x) == (x + 3) \div DaysPerWeek
Newest(S) == CHOOSE b \in S : \A c \in S : c.head <= b.head

\* (mutant) The bases are sorted the other way round.
FirstReversed(S) == Newest(S)

First(S) == CHOOSE b \in S : \A c \in S : b.head <= c.head

\* The bases of the n most recent groups (days, weeks) that have any.
Recent(S, group(_), n) ==
  LET of(g) == {b \in S : group(b) = g}
      groups == {group(b) : b \in S}
      later(g) == {h \in groups : Newest(of(h)).head > Newest(of(g)).head}
  IN  {of(g) : g \in {h \in groups : Cardinality(later(h)) < n}}

\* (mutant) The newest base of each week is kept.
RetainsNewest(S) ==
  LET dayOf(b) == b.day
      weekOf(b) == Week(b.day)
      daily == {Newest(g) : g \in Recent(S, dayOf, DailyBases)}
      before == {b \in S : \A c \in daily : b.day < c.day}
  IN  daily \cup {Newest(g) : g \in Recent(before, weekOf, WeeklyBases)}

\* selectRetained: the newest base of each of the last days, and the oldest
\* of each of the last weeks before those days.
Retained(S) ==
  LET dayOf(b) == b.day
      weekOf(b) == Week(b.day)
      daily == {Newest(g) : g \in Recent(S, dayOf, DailyBases)}
      before == {b \in S : \A c \in daily : b.day < c.day}
  IN  daily \cup {First(g) : g \in Recent(before, weekOf, WeeklyBases)}

-----------------------------------------------------------------------------
(* The world around                                                        *)

LogEntry ==
  /\ HeadSeq < MaxHead
  /\ log' = Append(log, day)
  /\ UNCHANGED <<day, discord, vault, drain, device, mover, crossed, removed, anchor>>

NextDay ==
  /\ day < MaxDay
  /\ day' = day + 1
  /\ UNCHANGED <<log, discord, vault, drain, device, mover, crossed, removed, anchor>>

Pull(d) ==
  /\ device[d].seen < HeadSeq
  /\ device' = [device EXCEPT ![d].seen = HeadSeq]
  /\ UNCHANGED <<world, discord, vault, drain, mover, crossed, removed, anchor>>

\* A channel is added or removed: the vault's backend list changes.
ChangeBackends ==
  /\ vault.revision < MaxRevision
  /\ vault' = [vault EXCEPT !.revision = @ + 1]
  /\ UNCHANGED <<world, discord, drain, device, mover, crossed, removed, anchor>>

\* The client closes and is started again: a new scheduler.
Reopen(d) ==
  /\ device[d].slot # 0
  /\ device' = [device EXCEPT ![d] = Fresh(@.seen)]
  /\ mover' = IF mover # None /\ mover.by = d THEN None ELSE mover
  /\ UNCHANGED <<world, discord, vault, drain, crossed, removed, anchor>>

-----------------------------------------------------------------------------
(* The scheduler: one tick writes at most one snapshot, then prunes        *)

\* The location is the vault's when the scheduler is made, and stays.
Place(d) == IF device[d].slot = 0 THEN vault.pointer ELSE device[d].slot
Read(d) == slots[Place(d)]
Known(d) == IF device[d].known = None THEN Read(d) ELSE device[d].known

Idle(d, known) ==
  device' = [device EXCEPT ![d] = [@ EXCEPT !.slot = Place(d), !.known = known, !.op = None]]

\* A write of the pointer that is about to read what it replaces.
Op(kind, from, next, drop) ==
  [kind |-> kind, at |-> "check", from |-> from, next |-> next, drop |-> drop]

Runs(d, op) ==
  device' = [device EXCEPT ![d] = [@ EXCEPT !.slot = Place(d), !.known = Known(d), !.op = op]]

\* decideSnapshot; sizes and clocks leave the choice between the two kinds.
Decides(d, kind) ==
  /\ device[d].seen > Known(d).toSeq
  /\ kind = "base" => d \in Unmetered
  /\ d \in Unmetered /\ Known(d).base = None => kind = "base"

\* writeSnapshot: the pointer is read, the segment and the base are posted.
TickWrites(d, kind) ==
  LET cur == Read(d)
      at == device[d].seen
      grows == at > cur.toSeq
      based == kind = "base" /\ HeadOf(cur.base) < at
      posted == IF grows THEN Post(Segment(cur.toSeq + 1, at, cur.last)) ELSE messages
      last == IF grows THEN Len(posted) ELSE cur.last
      base == [head |-> at, part |-> Len(posted) + 1, day |-> day, segment |-> last]
      kept == IF based /\ cur.base # None THEN {cur.base} ELSE {}
  IN
  /\ device[d].op = None /\ cur # None /\ Decides(d, kind)
  /\ messages' = IF based THEN Append(posted, Base(at)) ELSE posted
  /\ IF grows \/ based
     THEN Runs(d, Op("write", cur,
                     [cur EXCEPT !.toSeq = IF grows THEN at ELSE @, !.last = last,
                                 !.base = IF based THEN base ELSE @, !.history = @ \cup kept,
                                 !.revision = Now], {}))
     ELSE Idle(d, cur)
  /\ UNCHANGED <<world, slots, vault, drain, mover, crossed, removed, anchor>>

\* refreshBackends: the pointer it knows with the list of now.
TickRefreshes(d) ==
  /\ device[d].op = None /\ Read(d) # None
  /\ device[d].seen <= Known(d).toSeq /\ Known(d).revision < Now
  /\ Runs(d, Op("refresh", Known(d), [Known(d) EXCEPT !.revision = Now], {}))
  /\ UNCHANGED <<world, discord, vault, drain, mover, crossed, removed, anchor>>

\* writePointer compares with the pointer as it is now.
MayReplace(kind, cur, next) ==
  IF kind = "write"
  THEN /\ cur.toSeq <= next.toSeq
       /\ cur.toSeq = next.toSeq => HeadOf(next.base) > HeadOf(cur.base)
  ELSE cur.toSeq = next.toSeq /\ HeadOf(cur.base) = HeadOf(next.base)

SameChain(p, q) == [p EXCEPT !.revision = 0] = [q EXCEPT !.revision = 0]

\* A newer backend list stays.
WithList(cur, next) == [next EXCEPT !.revision = IF cur.revision > @ THEN cur.revision ELSE @]

Checks(d) ==
  LET op == device[d].op
      cur == Read(d)
  IN
  /\ op # None /\ op.at = "check" /\ cur # None
  /\ IF MayReplace(op.kind, cur, op.next)
     THEN device' = [device EXCEPT ![d].op.at = "land", ![d].op.next = WithList(cur, @)]
     ELSE Idle(d, cur)
  /\ UNCHANGED <<world, discord, vault, drain, mover, crossed, removed, anchor>>

\* The slot is rewritten. A base that is written is followed by a prune.
Lands(d) ==
  LET op == device[d].op
      based == op.kind = "write" /\ op.next.base # op.from.base
  IN
  /\ op # None /\ op.at = "land" /\ Read(d) # None
  /\ slots' = [slots EXCEPT ![Place(d)] = op.next]
  /\ crossed' = (crossed \/ ~SameChain(Read(d), op.from))
  /\ anchor' = IF anchor = None /\ op.next.base # None /\ Place(d) = vault.pointer THEN op.next.base.day ELSE anchor
  /\ IF based THEN device' = [device EXCEPT ![d].known = op.next, ![d].op.at = "prune"]
     ELSE IF op.drop # {} THEN device' = [device EXCEPT ![d].op.at = "remove"]
     ELSE Idle(d, op.next)
  /\ UNCHANGED <<world, messages, vault, drain, mover, removed>>

\* The segments up to the oldest kept base that an earlier prune has left.
OldSegments(p, keep) ==
  IF keep = {} THEN {}
  ELSE {m \in Walk(First(keep).segment, p.prunedUpTo) : messages[m].to <= First(keep).head}

\* pruneSnapshots: the bases that are not retained, and the old segments, which
\* are read on the way.
TickPrunes(d) ==
  LET cur == Read(d)
      keep == Retained(Bases(cur))
      segments == OldSegments(cur, keep)
      drop == {b.part : b \in Bases(cur) \ keep} \cup segments
  IN
  /\ device[d].op # None /\ device[d].op.at = "prune" /\ cur # None
  /\ \A m \in segments : Live(m)
  /\ IF drop = {} THEN Idle(d, cur)
     ELSE Runs(d, Op("prune", cur,
                     [cur EXCEPT !.history = keep \ {cur.base}, !.revision = Now,
                                 !.prunedUpTo = IF segments = {} THEN @
                                                ELSE Max({@, First(keep).head})], drop))
  /\ UNCHANGED <<world, discord, vault, drain, mover, crossed, removed, anchor>>

\* The messages go one by one.
Removes(d) ==
  LET op == device[d].op IN
  /\ op # None /\ op.at = "remove"
  /\ \E m \in op.drop :
       /\ messages' = Without({m})
       /\ IF op.drop = {m} THEN Idle(d, Read(d))
          ELSE device' = [device EXCEPT ![d].op.drop = @ \ {m}]
  /\ removed' = TRUE
  /\ UNCHANGED <<world, slots, vault, drain, mover, crossed, anchor>>

\* A call fails and ends the tick. What the scheduler knew it still knows.
Fails(d) ==
  /\ device[d].op # None
  /\ device' = [device EXCEPT ![d].op = None]
  /\ UNCHANGED <<world, discord, vault, drain, mover, crossed, removed, anchor>>

-----------------------------------------------------------------------------
(* Moving the chain to another channel                                     *)

\* rehomeChain: everything the pointer reaches is posted again, the segments
\* from the oldest, and named by a new pointer.
Rehome(d) ==
  LET p == slots[vault.pointer]
      todo == Reached(p)
      new[m \in {0} \cup DOMAIN messages] ==
        IF m \in todo THEN Len(messages) + Cardinality({n \in todo : n <= m}) ELSE m
      copy(k) == LET m == CHOOSE n \in todo : new[n] = k
                 IN  [messages[m] EXCEPT !.prev = new[@]]
      moved(b) == [b EXCEPT !.part = new[@], !.segment = new[@]]
  IN
  /\ mover = None /\ drain = None /\ Len(slots) <= MaxMoves /\ p # None
  /\ \A m \in todo : Live(m)
  /\ messages' = messages \o [i \in 1..Cardinality(todo) |-> copy(Len(messages) + i)]
  /\ slots' = Append(slots, [p EXCEPT !.base = IF @ = None THEN None ELSE moved(@),
                                       !.history = {moved(b) : b \in @},
                                       !.last = new[@], !.revision = Now])
  /\ mover' = [by |-> d, from |-> vault.pointer, to |-> Len(slots) + 1, read |-> p]
  /\ UNCHANGED <<world, vault, drain, device, crossed, removed, anchor>>

\* The vault names the new pointer, and (right after) drains the channel.
SwitchPointer(d) ==
  /\ mover # None /\ mover.by = d
  /\ vault' = [pointer |-> mover.to, revision |-> vault.revision + 1]
  /\ drain' = [slot |-> mover.from, toSeq |-> HeadSeq, at |-> day, todo |-> None]
  /\ mover' = None
  /\ crossed' = (crossed \/ slots[mover.from] # mover.read)
  /\ UNCHANGED <<world, discord, device, removed, anchor>>

\* finishDrain: once the retention has passed and every kept base is newer,
\* the old chain is listed ...
DrainLists ==
  LET old == slots[drain.slot]
      p == slots[vault.pointer]
  IN
  /\ drain # None /\ drain.todo = None
  /\ day > drain.at /\ p # None /\ (Bases(p) # {} => Oldest(p) >= drain.toSeq)
  /\ old # None => \A m \in ChainSegments(old) : Live(m)
  /\ drain' = [drain EXCEPT !.todo = IF old = None THEN {} ELSE Reached(old)]
  /\ UNCHANGED <<world, discord, vault, device, mover, crossed, removed, anchor>>

\* ... deleted message by message ...
DrainDeletes ==
  /\ drain # None /\ drain.todo # None
  /\ \E m \in drain.todo : messages' = Without({m}) /\ drain' = [drain EXCEPT !.todo = @ \ {m}]
  /\ removed' = TRUE
  /\ UNCHANGED <<world, slots, vault, device, mover, crossed, anchor>>

\* (mutant) The pointer that is removed is the vault's.
DrainRemovesCurrent ==
  /\ drain # None /\ drain.todo = {}
  /\ slots' = [slots EXCEPT ![vault.pointer] = None]
  /\ drain' = None
  /\ vault' = [vault EXCEPT !.revision = @ + 1]
  /\ UNCHANGED <<world, messages, device, mover, crossed, removed, anchor>>

\* ... and the old pointer last; then the channel leaves the vault.
DrainFinishes ==
  /\ drain # None /\ drain.todo = {}
  /\ slots' = [slots EXCEPT ![drain.slot] = None]
  /\ drain' = None
  /\ vault' = [vault EXCEPT !.revision = @ + 1]
  /\ UNCHANGED <<world, messages, device, mover, crossed, removed, anchor>>

DrainFails ==
  /\ drain # None /\ drain.todo # None
  /\ drain' = [drain EXCEPT !.todo = None]
  /\ UNCHANGED <<world, discord, vault, device, mover, crossed, removed, anchor>>

-----------------------------------------------------------------------------

Tick(d) ==
  \/ \E kind \in {"segment", "base"} : TickWrites(d, kind)
  \/ TickRefreshes(d) \/ TickPrunes(d)
  \/ Checks(d) \/ Lands(d) \/ Removes(d) \/ Fails(d)

Moving ==
  \/ \E d \in Device : Rehome(d) \/ SwitchPointer(d)
  \/ DrainLists \/ DrainDeletes \/ DrainFinishes \/ DrainFails

Next ==
  \/ LogEntry \/ NextDay \/ ChangeBackends
  \/ \E d \in Device : Pull(d) \/ Reopen(d) \/ Tick(d)
  \/ Moving

Spec == Init /\ [][Next]_vars
-----------------------------------------------------------------------------
(* What must hold                                                          *)

Current == slots[vault.pointer]

\* Every variable has its type.
TypeOK ==
  LET Seqs == 0..MaxHead
      Message == 0..Len(messages)
      Kept == [head : Seqs, part : Message, day : 0..MaxDay, segment : Message]
      Slotted == [toSeq : Seqs, base : Kept \cup {None}, history : SUBSET Kept,
                  last : Message, prunedUpTo : Seqs, revision : Nat]
  IN
  /\ log \in Seq(0..MaxDay) /\ day \in 0..MaxDay
  /\ \A m \in DOMAIN messages :
       messages[m] \in [from : Seqs, to : Seqs, prev : 0..(m - 1), live : BOOLEAN]
  /\ \A l \in DOMAIN slots : slots[l] = None \/ slots[l] \in Slotted
  /\ vault \in [pointer : DOMAIN slots, revision : Nat] /\ Current # None
  /\ (drain = None \/ (drain \in Drain /\ drain.slot \in DOMAIN slots))
  /\ \A d \in Device :
       LET op == device[d].op IN
       /\ device[d].seen \in 0..HeadSeq /\ device[d].slot \in {0} \cup DOMAIN slots
       /\ device[d].known = None \/ device[d].known \in Slotted
       /\ op # None => /\ op.kind \in {"write", "refresh", "prune"}
                       /\ op.at \in {"check", "land", "prune", "remove"}
                       /\ op.next \in Slotted

\* As long as no writer built on a pointer that had changed, every state since
\* the oldest kept base comes back from what the account's pointer reaches, and
\* every state at all while nothing has been pruned: no prune, no drain and no
\* run that was cut has deleted what it needs.
RestoresSinceOldest ==
  ~crossed => \A s \in Oldest(Current)..Current.toSeq : Restores(Current, s)

\* Writers that cross may cost coverage, but as long as nothing is deleted the
\* pointer they leave is one whole chain.
CrossingKeepsChain == ~removed => Restores(Current, Current.toSeq)

\* Retention keeps every state of the last days, and of full weeks before
\* them, from the day after the first base.
RetentionWindow ==
  ~crossed /\ anchor # None /\ Bases(Current) # {} =>
    \A s \in 1..Current.toSeq :
      log[s] > anchor /\ Week(log[s]) > Week(day - DailyBases) - WeeklyBases + 1
        => Oldest(Current) <= s
=============================================================================
