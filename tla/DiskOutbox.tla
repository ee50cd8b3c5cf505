----------------------------- MODULE DiskOutbox -----------------------------
(***************************************************************************)
(* Writing on the virtual disk (apps/desktop/src/vdisk.ts, class Outbox,   *)
(* and the requests of its helper): a file closed on the disk is queued as *)
(* a local copy with the place it is for, and uploaded later, one at a     *)
(* time, into the account (app-core.ts, vdiskUpload, vdiskRename,          *)
(* vdiskRemove). Files are renamed and removed on the disk while they wait *)
(* and while they are uploaded; uploads fail and are tried again; the app  *)
(* ends and starts again with the copies it finds.                         *)
(*                                                                         *)
(* One folder of the disk, on one computer. The helper has one request     *)
(* under way at a time, and of a request that reaches the account only the *)
(* answer comes later; the loop of the queue runs beside it. A save is the *)
(* number of its copy, which stands for its content. The account keeps the *)
(* content a file has now: what new content replaces is released           *)
(* (IndexRules.tla). Copies are numbered by the clock, which is taken not  *)
(* to go back.                                                             *)
(*                                                                         *)
(* Left out: times, previews and progress, folders' own requests, and      *)
(* other devices' changes, but for a folder that takes a name.             *)
(***************************************************************************)
EXTENDS Naturals, FiniteSets

CONSTANTS
  Name,       \* names of files
  Temp,       \* those kept on this computer (localOnlyName)
  Spare,      \* a name the account makes up for a file whose name is taken
  Stuck,      \* saves whose upload may fail for ever
  MaxSaves,   \* files closed on the disk
  MaxMoves,   \* renames and removals
  MaxFails,   \* other calls that fail
  MaxCrashes, \* ends of the app
  MaxFolders  \* folders other devices make

ASSUME TempAreNames == Temp \subseteq Name
ASSUME SpareIsNoName == Spare \notin Name
ASSUME BoundsAreNumbers == {MaxSaves, MaxMoves, MaxFails, MaxCrashes, MaxFolders} \subseteq Nat

VARIABLES
  items,   \* the queue: per copy its name, and whether it is trashed, fresh, or late
  disk,    \* what is on this computer: per copy q-<n>, the name in q-<n>.json
  running, \* whether the loop runs
  upload,  \* the upload under way: its step, its copy, the name and node it goes to
  call,    \* the account's part of the helper's request
  after,   \* the account's part of what follows an upload
  nodes,   \* the account: per node its name, whether it is live, its content
  folders, \* names that are folders of the account
  count,   \* saves, moves, failures, crashes so far
  want,    \* history: what the user last put under each name, 0 for nothing
  troubled \* history: whether anything happened that the queue need not survive

vars == <<items, disk, running, upload, call, after, nodes, folders, count, want, troubled>>

Save == 1 .. MaxSaves
NoUpload == [step |-> "none", n |-> 0, name |-> Spare, node |-> 0]
NoCall == [op |-> "none", node |-> 0, there |-> 0, to |-> Spare]
Zero == [saves |-> 0, moves |-> 0, fails |-> 0, crashes |-> 0]

Without(f, S) == [k \in DOMAIN f \ S |-> f[k]]
With(f, k, v) == [j \in DOMAIN f \cup {k} |-> IF j = k THEN v ELSE f[j]]

-----------------------------------------------------------------------------
(* The account                                                             *)

\* The live file of that name, 0 when there is none.
Child(ns, x) == LET there == {i \in DOMAIN ns : ns[i].live /\ ns[i].name = x}
                IN  IF there = {} THEN 0 ELSE CHOOSE i \in there : TRUE

FreeName(ns, i, x) == IF Child(ns, x) \in {0, i} /\ x \notin folders THEN x ELSE Spare

Trashed(ns, i) == IF i = 0 THEN ns ELSE [ns EXCEPT ![i].live = FALSE]

Renamed(ns, i, x) == [ns EXCEPT ![i].name = IF ns[i].live THEN FreeName(ns, i, x) ELSE x]

\* Content n for the node i, which it brings back from the trash, or a new file.
Stored(ns, i, x, n) ==
  IF i = 0
  THEN With(ns, Cardinality(DOMAIN ns) + 1, [name |-> FreeName(ns, 0, x), live |-> TRUE, content |-> n])
  ELSE [ns EXCEPT ![i] = [live |-> TRUE, content |-> n,
                          name |-> IF @.live THEN @.name ELSE FreeName(ns, i, @.name)]]

Performed(ns, c) ==
  IF c.op = "remove" THEN Trashed(ns, c.node) ELSE Renamed(Trashed(ns, c.there), c.node, c.to)

\* (a rename trashes what had the name first, and may fail after that)
PerformedInPart(ns, c) == {ns} \cup IF c.op = "rename" THEN {Trashed(ns, c.there)} ELSE {}

ToRemove(x) == [op |-> "remove", node |-> Child(nodes, x), there |-> 0, to |-> Spare]

ToRename(x, y) ==
  LET there == Child(nodes, y)
  IN  [op |-> "rename", node |-> Child(nodes, x), to |-> y,
       there |-> IF there = Child(nodes, x) THEN 0 ELSE there]

-----------------------------------------------------------------------------
(* The queue                                                               *)

\* The copy uploading now.
Current == {upload.n} \ {0}

Pending(x) == {k \in DOMAIN items : items[k].name = x /\ ~items[k].trashed}

\* The copies an upload may be made of.
Waiting == {k \in DOMAIN items : items[k].name \notin Temp}

\* (mutant) One that failed is tried again before the others.
ReadyOrLate == Waiting

\* Those whose time has come: one that failed waits its own.
Ready == {k \in Waiting : ~items[k].late}

First == CHOOSE k \in Ready : \A j \in Ready : k <= j

Newest(S) == CHOOSE k \in S : \A j \in S : j <= k

\* What the disk shows under a name: a queued copy before the account's file.
Shown(x) == IF Pending(x) # {} THEN Newest(Pending(x))
            ELSE IF Child(nodes, x) # 0 THEN nodes[Child(nodes, x)].content ELSE 0

Drop(S) == /\ items' = Without(items, S)
           /\ disk' = Without(disk, S)

Count(what) == count' = [count EXCEPT ![what] = @ + 1]

\* Older copies of a name that a newer one replaces: those not uploading.
Replaced(x) == {k \in DOMAIN items : items[k].name = x} \ Current

\* A written file is closed: its copy enters the queue.
Add(x) ==
  LET n == count.saves + 1
  IN  /\ call = NoCall /\ n \in Save
      /\ x \notin folders
      /\ items' = With(Without(items, Replaced(x)), n,
                       [name |-> x, trashed |-> FALSE, fresh |-> TRUE, late |-> FALSE])
      /\ disk' = With(Without(disk, Replaced(x)), n, x)
      /\ running' = TRUE
      /\ Count("saves")
      /\ want' = [want EXCEPT ![x] = n]
      /\ UNCHANGED <<upload, call, after, nodes, folders, troubled>>

\* (mutant) The new name is not written next to the copy.
RenameInMemory(x, y) ==
  /\ items' = [k \in DOMAIN items |-> IF k \in Pending(x) THEN [items[k] EXCEPT !.name = y] ELSE items[k]]
  /\ UNCHANGED disk
  /\ running' = (running \/ Pending(x) # {})

RenamePending(x, y) ==
  /\ items' = [k \in DOMAIN items |-> IF k \in Pending(x) THEN [items[k] EXCEPT !.name = y] ELSE items[k]]
  /\ disk' = [k \in DOMAIN disk |-> IF k \in Pending(x) THEN y ELSE disk[k]]
  /\ running' = (running \/ Pending(x) # {})

\* The one uploading goes to the trash once it is in the account.
RemovePending(x) ==
  /\ items' = Without([k \in DOMAIN items |->
                         IF k \in Pending(x) THEN [items[k] EXCEPT !.trashed = TRUE] ELSE items[k]],
                      Pending(x) \ Current)
  /\ disk' = Without(disk, Pending(x) \ Current)

-----------------------------------------------------------------------------
(* Requests                                                                *)

Moves(x) == /\ call = NoCall /\ count.moves < MaxMoves
            /\ Shown(x) # 0
            /\ Count("moves")
            /\ UNCHANGED <<upload, after, nodes, folders>>

\* A name that a copy in the queue, or the upload under way, has.
Queued(y) == y = upload.name \/ \E k \in DOMAIN items : items[k].name = y

\* The file being uploaded has been renamed or removed meanwhile, and the
\* account does not know it yet.
Changed == upload.step # "none" /\ upload.n \notin Pending(upload.name)

\* A rename or a removal is the second within one upload, or meets a file the
\* user has put elsewhere.
Crosses(x) == want[x] = 0 \/ Changed

Exchange(x, y) == [want EXCEPT ![x] = 0, ![y] = Shown(x)]

\* The queue's copies have the new name whether or not the account takes it.
Rename(x, y) ==
  /\ x # y /\ Moves(x)
  /\ RenamePending(x, y)
  /\ want' = Exchange(x, y)
  /\ \/ /\ Pending(x) # {} /\ y \in folders
        /\ troubled' = TRUE
        /\ UNCHANGED call
     \/ /\ y \notin folders
        /\ troubled' = (troubled \/ Queued(y) \/ Crosses(x))
        /\ call' = IF Child(nodes, x) = 0 THEN NoCall ELSE ToRename(x, y)

Remove(x) ==
  /\ Moves(x)
  /\ RemovePending(x)
  /\ want' = [want EXCEPT ![x] = 0]
  /\ troubled' = (troubled \/ Crosses(x))
  /\ call' = IF Child(nodes, x) = 0 THEN NoCall ELSE ToRemove(x)
  /\ UNCHANGED running

Answered ==
  /\ call # NoCall
  /\ nodes' = Performed(nodes, call)
  /\ call' = NoCall
  /\ UNCHANGED <<items, disk, running, upload, after, folders, count, want, troubled>>

Fails == /\ count.fails < MaxFails
         /\ Count("fails")
         /\ troubled' = TRUE

NotAnswered ==
  /\ call # NoCall /\ Fails
  /\ nodes' \in PerformedInPart(nodes, call)
  /\ call' = NoCall
  /\ UNCHANGED <<items, disk, running, upload, after, folders, want>>

-----------------------------------------------------------------------------
(* The loop                                                                *)

AtRest == upload = NoUpload

MayStart == running /\ AtRest /\ Ready # {} /\ ~items[First].fresh

Start ==
  /\ MayStart
  /\ upload' = [step |-> "made", n |-> First, name |-> items[First].name, node |-> 0]
  /\ UNCHANGED <<items, disk, running, call, after, nodes, folders, count, want, troubled>>

\* The file it replaces, if any, is looked up when its previews are there.
Open ==
  /\ upload.step = "made" /\ upload.name \notin folders
  /\ upload' = [upload EXCEPT !.step = "sent", !.node = Child(nodes, upload.name)]
  /\ troubled' = (troubled \/ call.to = upload.name)
  /\ UNCHANGED <<items, disk, running, call, after, nodes, folders, count, want>>

\* A name the account cannot take: the copy is dropped, with an error.
Refused ==
  /\ upload.step = "made" /\ upload.name \in folders
  /\ want' = [x \in Name |-> IF want[x] = upload.n THEN 0 ELSE want[x]]
  /\ Drop(Current)
  /\ upload' = NoUpload
  /\ UNCHANGED <<running, call, after, nodes, folders, count, troubled>>

Commit ==
  /\ upload.step = "sent"
  /\ nodes' = Stored(nodes, upload.node, upload.name, upload.n)
  /\ upload' = [upload EXCEPT !.step = "stored"]
  /\ UNCHANGED <<items, disk, running, call, after, folders, count, want, troubled>>

\* (mutant) A copy that failed is given up.
FailedForGood ==
  /\ upload.step = "sent" /\ Fails
  /\ Drop(Current)
  /\ upload' = NoUpload
  /\ UNCHANGED <<running, call, after, nodes, folders, want>>

\* The upload fails, or its answer is lost: this file again later.
Failed ==
  /\ \/ upload.step \in {"sent", "stored"} /\ Fails
     \/ upload.step = "sent" /\ upload.n \in Stuck /\ troubled' = TRUE /\ UNCHANGED count
  /\ items' = [items EXCEPT ![upload.n].late = TRUE]
  /\ upload' = NoUpload
  /\ UNCHANGED <<disk, running, call, after, nodes, folders, want>>

\* (mutant) A removal meanwhile is forgotten.
FollowsName(it) ==
  IF it.name = upload.name \/ Child(nodes, upload.name) = 0 THEN NoCall
  ELSE ToRename(upload.name, it.name)

\* What became of the file meanwhile, for the account to do now; a file that
\* is not there, or a folder, ends it.
Follows(it) ==
  CASE it.trashed -> IF Child(nodes, upload.name) = 0 THEN NoCall ELSE ToRemove(upload.name)
    [] ~it.trashed /\ it.name # upload.name ->
         IF Child(nodes, upload.name) = 0 \/ it.name \in folders THEN NoCall
         ELSE ToRename(upload.name, it.name)
    [] OTHER -> NoCall

Uploaded ==
  /\ upload.step = "stored"
  /\ after' = Follows(items[upload.n])
  /\ Drop(Current)
  /\ upload' = IF after' = NoCall THEN NoUpload ELSE [upload EXCEPT !.step = "after"]
  /\ UNCHANGED <<running, call, nodes, folders, count, want, troubled>>

Followed ==
  /\ upload.step = "after"
  /\ \/ nodes' = Performed(nodes, after) /\ UNCHANGED <<count, troubled>>
     \/ Fails /\ nodes' \in PerformedInPart(nodes, after)
  /\ after' = NoCall
  /\ upload' = NoUpload
  /\ UNCHANGED <<items, disk, running, call, folders, want>>

LoopEnds ==
  /\ running /\ AtRest /\ Waiting = {}
  /\ running' = FALSE
  /\ UNCHANGED <<items, disk, upload, call, after, nodes, folders, count, want, troubled>>

-----------------------------------------------------------------------------
(* Time, other devices, and the end of the app                             *)

\* The moment a program has to set a file's time is over.
Settles(k) ==
  /\ k \in DOMAIN items /\ items[k].fresh
  /\ items' = [items EXCEPT ![k].fresh = FALSE]
  /\ UNCHANGED <<disk, running, upload, call, after, nodes, folders, count, want, troubled>>

\* The time of a copy that failed comes while the loop waits or is at work: a
\* loop that has a copy to upload takes it at once.
ComesAgain(k) ==
  /\ k \in DOMAIN items /\ items[k].late
  /\ ~MayStart
  /\ items' = [items EXCEPT ![k].late = FALSE]
  /\ UNCHANGED <<disk, running, upload, call, after, nodes, folders, count, want, troubled>>

FolderAppears(x) ==
  /\ Cardinality(folders) < MaxFolders
  /\ Child(nodes, x) = 0
  /\ folders' = folders \cup {x}
  /\ troubled' = TRUE
  /\ UNCHANGED <<items, disk, running, upload, call, after, nodes, count, want>>

\* The app starts again with the copies it finds; the temporary ones go.
Restart ==
  LET left == {k \in DOMAIN disk : disk[k] \notin Temp}
      gone == DOMAIN disk \ left
  IN  /\ count.crashes < MaxCrashes
      /\ Count("crashes")
      /\ items' = [k \in left |-> [name |-> disk[k], trashed |-> FALSE, fresh |-> FALSE, late |-> FALSE]]
      /\ disk' = Without(disk, gone)
      /\ running' = TRUE
      /\ upload' = NoUpload /\ call' = NoCall /\ after' = NoCall
      /\ want' = [x \in Name |-> IF x \in Temp /\ want[x] \in gone THEN 0 ELSE want[x]]
      /\ troubled' = TRUE
      /\ UNCHANGED <<nodes, folders>>

-----------------------------------------------------------------------------

Init ==
  /\ items = [k \in {} |-> 0] /\ disk = items
  /\ running = FALSE
  /\ upload = NoUpload /\ call = NoCall /\ after = NoCall
  /\ folders = {} /\ count = Zero
  /\ nodes = [i \in {} |-> 0]
  /\ want = [x \in Name |-> 0]
  /\ troubled = FALSE

User == \/ \E x \in Name : Add(x) \/ Remove(x)
        \/ \E x, y \in Name : Rename(x, y)

Request == Answered \/ NotAnswered
Loop == Start \/ Open \/ Refused \/ Commit \/ Failed \/ Uploaded \/ Followed \/ LoopEnds
Passes == \E k \in Save : Settles(k) \/ ComesAgain(k)

Next == User \/ Request \/ Loop \/ Passes \/ Restart \/ \E x \in Name : FolderAppears(x)

\* The loop takes its next step, a call to the account ends, and timers fire: a
\* copy that failed has its time pass in whatever the loop does meanwhile.
Fairness ==
  /\ \A k \in Save : WF_vars(Settles(k)) /\ SF_vars(ComesAgain(k))
  /\ WF_vars(Loop) /\ WF_vars(Request)

Spec == Init /\ [][Next]_vars /\ Fairness

-----------------------------------------------------------------------------
(* Properties                                                              *)

\* The state has its shape, every queued copy is on this computer under the
\* name it has in memory, and the copy that is being uploaded is still there.
TypeOK ==
  /\ items \in [DOMAIN disk -> [name: Name, trashed: BOOLEAN, fresh: BOOLEAN, late: BOOLEAN]]
  /\ DOMAIN disk \subseteq Save /\ \A k \in DOMAIN disk : disk[k] = items[k].name
  /\ running \in BOOLEAN /\ troubled \in BOOLEAN
  /\ upload.step \in {"none", "made", "sent", "stored", "after"}
  /\ upload.step \in {"made", "sent", "stored"} => upload.n \in DOMAIN items
  /\ upload.node \in DOMAIN nodes \cup {0}
  /\ \A c \in {call, after} : {c.node, c.there} \subseteq DOMAIN nodes \cup {0}
  /\ (upload.step = "after") = (after # NoCall)
  /\ nodes \in [1 .. Cardinality(DOMAIN nodes) -> [name: Name \cup {Spare}, live: BOOLEAN, content: Save]]
  /\ folders \subseteq Name
  /\ want \in [Name -> Save \cup {0}]

\* A copy that is what the user last put under its name leaves the queue only
\* once the account holds it: whatever is renamed, removed or saved again while it is uploaded,
\* whatever fails, and across the ends of the app ("the queue survives a
\* restart of the app", vdisk.ts 227).
LeavesUploaded ==
  [][\A k \in DOMAIN items \ DOMAIN items' :
       want[items[k].name] = k /\ want'[items[k].name] = k
          => \E i \in DOMAIN nodes' : nodes'[i].content = k]_vars

\* The queue is done and so are the calls to the account.
Settled == Waiting = {} /\ AtRest /\ call = NoCall

\* When nothing fails and no rename takes a name that is still in the queue,
\* the account ends with what the user put on the disk, whatever was renamed,
\* removed or saved again before, during and after its upload.
UndisturbedSettles ==
  ~troubled /\ Settled =>
    \A x \in Name \ Temp :
      LET i == Child(nodes, x)
      IN  IF want[x] = 0 THEN i = 0 ELSE i # 0 /\ nodes[i].content = want[x]

\* What the user last put under a name is on this computer or in the account,
\* at worst in its trash or under another name ("a newer copy of the same name
\* replaces one not started yet", vdisk.ts 307).
SavedIsKept ==
  \A x \in Name \ Temp :
    want[x] # 0 => want[x] \in DOMAIN disk \/ \E i \in DOMAIN nodes : nodes[i].content = want[x]

\* "One file never holds the queue" (vdisk.ts 392): every other copy leaves it,
\* also when the uploads of one fail for ever.
OneNeverHoldsOthers ==
  \A k \in Save \ Stuck : k \in Waiting ~> k \notin Waiting
=============================================================================
