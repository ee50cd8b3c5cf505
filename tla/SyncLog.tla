------------------------------ MODULE SyncLog ------------------------------
(***************************************************************************)
(* How an operation gets from a device into the log and back to every      *)
(* device: the server's arbiter (packages/sync-core/src/sequencer.ts and   *)
(* packages/metadata-client/src/node/server.ts), the client's replica with *)
(* its outbox (packages/sync-core/src/replica.ts) and DriveClient.commitOp *)
(* (packages/metadata-client/src/drive-client.ts).                         *)
(*                                                                         *)
(* Each operation has its own call of commitOp, so the calls are named by  *)
(* the operations; calls of one device interleave at their awaits and send *)
(* each other's operations. A device also pulls in the background; that    *)
(* puller is named by the device. Requests travel: an operation sent is in *)
(* `requests' until the server takes it, and its answer in `answer' until  *)
(* the caller does. A read of the log reaches the server at once (a later  *)
(* one finds more) and its answer travels.                                 *)
(*                                                                         *)
(* What an entry does to the index, and so whether commitOp's operation    *)
(* had an effect, is DriveIndex.tla's subject: here a call is "ok" when    *)
(* its entry has been applied, whatever the outcome.                       *)
(***************************************************************************)
EXTENDS Integers, Sequences, FiniteSets

CONSTANTS
  Device, Op, Upload,
  Followers,   \* the devices that pull in the background (the app, not the CLI)
  None,        \* no lease, no answer, no guard
  Author,      \* the device that calls commitOp for an operation
  Guard,       \* the upload whose lease guards it, or None
  Rules,       \* the rules version it is written with
  Replays,     \* the newest rules version a device can apply
  MinRules,    \* the oldest rules versions builds of the server accept
  BatchMax,    \* the most entries one read returns
  MaxFaults,   \* how many failures of the network and restarts happen
  MaxDiskFaults \* how many INSERTs fail

ASSUME ConstantsAreTyped ==
  /\ Author \in [Op -> Device] /\ Guard \in [Op -> Upload \cup {None}]
  /\ Rules \in [Op -> Nat] /\ Replays \in [Device -> Nat]
  /\ MinRules # {} /\ MinRules \subseteq Nat
  /\ BatchMax \in Nat \ {0} /\ Followers \subseteq Device
  /\ Op \cap Device = {} /\ None \notin Op \cup Device \cup Upload

ASSUME OwnRulesAreKnown == \A o \in Op : Rules[o] <= Replays[Author[o]]

VARIABLES
  log,       \* the server's log in memory
  disk,      \* its rows in the database: [seq, op]
  lease,     \* who holds an unexpired lease on an upload
  minRules,  \* the oldest rules version the server accepts
  requests,  \* operations on their way to the server: [op, by]
  applied,   \* applied[d]: the entries in the device's index (kept on disk)
  made,      \* made[d]: the operations of a device in the order of their calls
  outbox,    \* outbox[d]: those of them waiting to be in the log
  acked,     \* acked[d]: those of them the server has acknowledged
  base,      \* base[o]: how much of the log its author had applied
  pc,        \* where the call for an operation is
  sent,      \* sent[o]: the operation that call is sending
  answer,    \* answer[p]: what the server has answered to p
  refused,   \* (history) operations dropped because the server refused them
  lost,      \* (history) operations a restart of the device found in its outbox
  faults, diskFaults

server == <<log, disk, lease, minRules>>
replica == <<applied, outbox, acked>>
calls == <<base, pc, sent, made>>
history == <<refused, lost>>
vars == <<server, replica, calls, requests, answer, history, faults, diskFaults>>

Proc == Op \cup Followers
DeviceOf(p) == IF p \in Op THEN Author[p] ELSE p
Entries(s) == {s[i] : i \in DOMAIN s}
Least(a, b) == IF a < b THEN a ELSE b

Init ==
  /\ log = <<>> /\ disk = <<>> /\ requests = {}
  /\ lease = [u \in Upload |-> None]
  /\ minRules \in MinRules
  /\ applied = [d \in Device |-> <<>>]
  /\ outbox = [d \in Device |-> {}]
  /\ acked = [d \in Device |-> {}]
  /\ base = [o \in Op |-> 0]
  /\ pc = [o \in Op |-> "idle"]
  /\ sent = [o \in Op |-> None]
  /\ answer = [p \in Proc |-> None]
  /\ made = [d \in Device |-> <<>>]
  /\ refused = {} /\ lost = {}
  /\ faults \in 0 .. MaxFaults /\ diskFaults \in 0 .. MaxDiskFaults  \* some happened before

-----------------------------------------------------------------------------
(* The server                                                              *)

\* Sequencer.submit: a known operation is confirmed, whatever else has
\* changed since; a new one needs rules the server accepts and, when it is
\* guarded, the lease of its author.
Verdict(o) ==
  IF o \in Entries(log) THEN "duplicate"
  ELSE IF Rules[o] < minRules THEN "rules_version_rejected"
  ELSE IF Guard[o] # None /\ lease[Guard[o]] # Author[o] THEN "lease_rejected"
  ELSE "accepted"

\* (mutant) A late answer is taken up.
ReplyLate(r, a) == answer' = [answer EXCEPT ![r.by] = a]

\* The answer reaches the caller if it still waits for it.
Reply(r, a) ==
  answer' = IF pc[r.by] = "send" /\ sent[r.by] = r.op
            THEN [answer EXCEPT ![r.by] = a] ELSE answer

\* The request of POST /v1/log: the entry is in memory first, then on disk. If
\* the INSERT fails the caller gets an error, and the entry stays in memory.
Submit(r) ==
  /\ requests' = requests \ {r}
  /\ \/ /\ Verdict(r.op) # "accepted"
        /\ Reply(r, Verdict(r.op))
        /\ UNCHANGED <<log, disk, diskFaults>>
     \/ /\ Verdict(r.op) = "accepted"
        /\ log' = Append(log, r.op)
        /\ \/ /\ disk' = Append(disk, [seq |-> Len(log) + 1, op |-> r.op])
              /\ Reply(r, "accepted")
              /\ UNCHANGED diskFaults
           \/ /\ diskFaults < MaxDiskFaults
              /\ diskFaults' = diskFaults + 1
              /\ Reply(r, "error")
              /\ UNCHANGED disk
  /\ UNCHANGED <<lease, minRules, replica, calls, history, faults>>

\* A device starts or renews a lease nobody else holds. The uploader does so
\* before and during an upload and when it resumes one; the cleaner takes
\* over a lease that has ended.
RenewLease(d, u) ==
  /\ lease[u] = None
  /\ lease' = [lease EXCEPT ![u] = d]
  /\ UNCHANGED <<log, disk, minRules, replica, calls, requests, answer, history, faults, diskFaults>>

\* It is released, or its time is over.
EndLease(u) ==
  /\ lease[u] # None
  /\ lease' = [lease EXCEPT ![u] = None]
  /\ UNCHANGED <<log, disk, minRules, replica, calls, requests, answer, history, faults, diskFaults>>

\* The server starts again, perhaps with a newer build: the log comes from the
\* database, which must hold it without gaps; leases are not kept.
RestartServer ==
  /\ faults < MaxFaults
  /\ faults' = faults + 1
  /\ \A i \in DOMAIN disk : disk[i].seq = i
  /\ log' = [i \in DOMAIN disk |-> disk[i].op]
  /\ lease' = [u \in Upload |-> None]
  /\ \E m \in MinRules : m >= minRules /\ minRules' = m
  /\ UNCHANGED <<disk, replica, calls, requests, answer, history, diskFaults>>

-----------------------------------------------------------------------------
(* Pulling                                                                 *)

Pulling(p) == p \in Op => pc[p] \in {"catchup", "confirm"}

\* (mutant) The background puller waits for two entries.
ReadLogBehind(p) ==
  LET after == Len(applied[DeviceOf(p)])
      upto  == Least(after + BatchMax, Len(log))
  IN  /\ Pulling(p) /\ answer[p] = None
      /\ p \in Followers => after + 1 < upto
      /\ answer' = [answer EXCEPT ![p] = [after |-> after, ops |-> SubSeq(log, after + 1, upto)]]
      /\ UNCHANGED <<server, replica, calls, requests, history, faults, diskFaults>>

\* The server answers a read of what lies behind the device's head. The
\* background puller waits until there is something.
ReadLog(p) ==
  LET after == Len(applied[DeviceOf(p)])
      upto  == Least(after + BatchMax, Len(log))
  IN  /\ Pulling(p) /\ answer[p] = None
      /\ p \in Followers => after < upto
      /\ answer' = [answer EXCEPT ![p] = [after |-> after, ops |-> SubSeq(log, after + 1, upto)]]
      /\ UNCHANGED <<server, replica, calls, requests, history, faults, diskFaults>>

\* (mutant) Everything in the batch is taken as new.
FreshAll(p) == answer[p].ops

\* What a batch holds beyond the device's head, which other pulls may have
\* moved since it was read.
Fresh(p) ==
  SubSeq(answer[p].ops, Len(applied[DeviceOf(p)]) - answer[p].after + 1, Len(answer[p].ops))

\* (mutant) Only the first entry is looked at.
UnreadableFirst(d, ops) == {i \in DOMAIN ops : i = 1 /\ Rules[ops[i]] > Replays[d]}

Unreadable(d, ops) == {i \in DOMAIN ops : Rules[ops[i]] > Replays[d]}

\* Operations leave the outbox (and `acked').
Settle(d, ops) ==
  /\ outbox' = [outbox EXCEPT ![d] = @ \ ops]
  /\ acked' = [acked EXCEPT ![d] = @ \ ops]

\* (mutant) The call does not look for its entry.
AfterPullUnchecked(o) == IF pc[o] = "catchup" THEN "send" ELSE "ok"

\* The pull ends with an empty batch: the call goes on to send, or knows how
\* it has ended.
AfterPull(o) ==
  CASE pc[o] = "catchup" -> "send"
    [] o \in Entries(applied[Author[o]]) -> "ok"
    [] OTHER -> "failed"

Receive(p) ==
  LET d == DeviceOf(p) IN
  /\ Pulling(p) /\ answer[p] # None
  /\ Unreadable(d, Fresh(p)) = {}
  /\ applied' = [applied EXCEPT ![d] = @ \o Fresh(p)]
  /\ Settle(d, Entries(Fresh(p)))
  /\ answer' = [answer EXCEPT ![p] = None]
  /\ pc' = IF p \in Op /\ answer[p].ops = <<>> THEN [pc EXCEPT ![p] = AfterPull(p)] ELSE pc
  /\ UNCHANGED <<server, base, sent, made, requests, history, faults, diskFaults>>

\* An entry with rules this build does not know: the index takes nothing of
\* the batch (one transaction), though the outbox lost what came before the
\* entry; the pull throws, and so does the call.
ReceiveThrows(p) ==
  LET d   == DeviceOf(p)
      bad == Unreadable(d, Fresh(p))
  IN  /\ Pulling(p) /\ answer[p] # None
      /\ bad # {}
      /\ Settle(d, {Fresh(p)[i] : i \in {j \in DOMAIN Fresh(p) : \A k \in bad : j < k}})
      /\ answer' = [answer EXCEPT ![p] = None]
      /\ pc' = IF p \in Op THEN [pc EXCEPT ![p] = "failed"] ELSE pc
      /\ UNCHANGED <<server, applied, base, sent, made, requests, history, faults, diskFaults>>

-----------------------------------------------------------------------------
(* commitOp                                                                *)

\* Replica.enqueue, and the first pull begins.
Call(o) ==
  LET d == Author[o] IN
  /\ pc[o] = "idle"
  /\ pc' = [pc EXCEPT ![o] = "catchup"]
  /\ base' = [base EXCEPT ![o] = Len(applied[d])]
  /\ outbox' = [outbox EXCEPT ![d] = @ \cup {o}]
  /\ made' = [made EXCEPT ![d] = Append(@, o)]
  /\ UNCHANGED <<server, applied, acked, sent, requests, answer, history, faults, diskFaults>>

\* (mutant) Any operation that is not acknowledged may go next.
UnsentAny(d) == outbox[d] \ acked[d]

\* The oldest operation the server has not acknowledged (nextToSend), or none.
Unsent(d) ==
  {made[d][i] : i \in {j \in DOMAIN made[d] :
      /\ made[d][j] \in outbox[d] \ acked[d]
      /\ \A k \in 1 .. j - 1 : made[d][k] \notin outbox[d] \ acked[d]}}

\* The call for o sends what is next, its own operation or another's.
Send(o) ==
  /\ pc[o] = "send" /\ sent[o] = None
  /\ \E x \in Unsent(Author[o]) :
       /\ sent' = [sent EXCEPT ![o] = x]
       /\ requests' = requests \cup {[op |-> x, by |-> o]}
  /\ UNCHANGED <<server, replica, base, pc, made, answer, history, faults, diskFaults>>

\* Nothing is left to send: the last pull.
AllSent(o) ==
  /\ pc[o] = "send" /\ sent[o] = None
  /\ Unsent(Author[o]) = {}
  /\ pc' = [pc EXCEPT ![o] = "confirm"]
  /\ UNCHANGED <<server, replica, base, sent, made, requests, answer, history, faults, diskFaults>>

Answered(o, statuses) ==
  /\ pc[o] = "send" /\ answer[o] # None /\ answer[o] \in statuses
  /\ sent' = [sent EXCEPT ![o] = None]
  /\ answer' = [answer EXCEPT ![o] = None]
  /\ UNCHANGED <<server, applied, base, made, requests, lost, faults, diskFaults>>

\* (mutant) A duplicate is not taken for an acknowledgement.
AcknowledgedOnce(o) ==
  /\ Answered(o, {"accepted", "duplicate"})
  /\ acked' = IF answer[o] = "accepted"
              THEN [acked EXCEPT ![Author[o]] = @ \cup {sent[o]}] ELSE acked
  /\ UNCHANGED <<outbox, pc, refused>>

Acknowledged(o) ==
  /\ Answered(o, {"accepted", "duplicate"})
  /\ acked' = [acked EXCEPT ![Author[o]] = @ \cup {sent[o]}]
  /\ UNCHANGED <<outbox, pc, refused>>

\* A refused operation is dropped; the call goes on unless it was its own.
Refused(o) ==
  /\ Answered(o, {"rules_version_rejected", "lease_rejected"})
  /\ Settle(Author[o], {sent[o]})
  /\ refused' = refused \cup {sent[o]}
  /\ pc' = IF sent[o] = o THEN [pc EXCEPT ![o] = "failed"] ELSE pc

\* An error of the server is thrown by the call; the operation stays in the
\* outbox.
Errored(o) ==
  /\ Answered(o, {"error"})
  /\ pc' = [pc EXCEPT ![o] = "failed"]
  /\ UNCHANGED <<outbox, acked, refused>>

-----------------------------------------------------------------------------
(* Failures                                                                *)

\* The network fails a call: its request is lost, arrives all the same, or
\* has arrived. The operation stays in the outbox.
NetworkFails(o) ==
  /\ faults < MaxFaults
  /\ faults' = faults + 1
  /\ pc[o] \in {"catchup", "send", "confirm"}
  /\ pc' = [pc EXCEPT ![o] = "failed"]
  /\ sent' = [sent EXCEPT ![o] = None]
  /\ answer' = [answer EXCEPT ![o] = None]
  /\ \/ UNCHANGED requests
     \/ requests' = requests \ {[op |-> sent[o], by |-> o]}
  /\ UNCHANGED <<server, replica, base, made, history, diskFaults>>

\* The device's program ends: its index stays, its outbox and its calls go.
\* What it had sent may still arrive.
RestartDevice(d) ==
  LET gone == {o \in Op : Author[o] = d /\ pc[o] # "idle"} IN
  /\ faults < MaxFaults
  /\ faults' = faults + 1
  /\ lost' = lost \cup outbox[d]
  /\ outbox' = [outbox EXCEPT ![d] = {}]
  /\ acked' = [acked EXCEPT ![d] = {}]
  /\ pc' = [o \in Op |-> IF o \in gone /\ pc[o] # "ok" THEN "failed" ELSE pc[o]]
  /\ sent' = [o \in Op |-> IF o \in gone THEN None ELSE sent[o]]
  /\ answer' = [p \in Proc |-> IF p \in gone \cup {d} THEN None ELSE answer[p]]
  /\ UNCHANGED <<server, applied, base, made, requests, refused, diskFaults>>

-----------------------------------------------------------------------------

Step(p) == ReadLog(p) \/ Receive(p) \/ ReceiveThrows(p)

CallStep(o) == Send(o) \/ AllSent(o) \/ Acknowledged(o) \/ Refused(o) \/ Errored(o)

Next ==
  \/ \E r \in requests : Submit(r)
  \/ \E d \in Device, u \in Upload : RenewLease(d, u)
  \/ \E u \in Upload : EndLease(u)
  \/ RestartServer
  \/ \E p \in Proc : Step(p)
  \/ \E o \in Op : Call(o) \/ CallStep(o) \/ NetworkFails(o)
  \/ \E d \in Device : RestartDevice(d)

Spec == Init /\ [][Next]_vars

\* The server takes every request that is not lost, calls that are not failed
\* go on, and the followers keep pulling.
Fairness ==
  /\ \A o, b \in Op : WF_vars([op |-> o, by |-> b] \in requests /\ Submit([op |-> o, by |-> b]))
  /\ \A p \in Proc : WF_vars(Step(p))
  /\ \A o \in Op : WF_vars(CallStep(o))

FairSpec == Spec /\ Fairness

-----------------------------------------------------------------------------
(* Properties                                                              *)

Statuses == {"accepted", "duplicate", "rules_version_rejected", "lease_rejected", "error"}
Batch == [after : Nat, ops : Seq(Op)]

\* The types. An operation's base lies before its place in the log.
TypeOK ==
  /\ log \in Seq(Op)
  /\ disk \in Seq([seq : Nat, op : Op])
  /\ lease \in [Upload -> Device \cup {None}]
  /\ minRules \in MinRules
  /\ requests \subseteq [op : Op, by : Op]
  /\ applied \in [Device -> Seq(Op)]
  /\ outbox \in [Device -> SUBSET Op]
  /\ acked \in [Device -> SUBSET Op]
  /\ base \in [Op -> Nat]
  /\ pc \in [Op -> {"idle", "catchup", "send", "confirm", "ok", "failed"}]
  /\ sent \in [Op -> Op \cup {None}]
  /\ \A p \in Proc : answer[p] # None =>
       IF Pulling(p) THEN answer[p] \in Batch ELSE pc[p] = "send" /\ answer[p] \in Statuses
  /\ made \in [Device -> Seq(Op)]
  /\ refused \cup lost \subseteq Op

\* What devices share: a log that only grows, with every operation at most
\* once however often it is sent, of which every device has applied a
\* beginning, whatever pulls overlapped.
Shared == INSTANCE SharedLog WITH known <- applied
SharesLog == Shared!Spec

At(o) == CHOOSE i \in DOMAIN log : log[i] = o

\* A device's operations are in the log in the order of their calls: when one
\* is there, so is every earlier one, before it, unless the server refused
\* that or it was lost with the outbox.
OwnOrder ==
  \A d \in Device : \A j \in DOMAIN made[d] : \A i \in 1 .. j - 1 :
    made[d][j] \in Entries(log) =>
      \/ made[d][i] \in Entries(log) /\ At(made[d][i]) < At(made[d][j])
      \/ made[d][i] \in refused \cup lost

\* An entry's base is a part of the log before it (the envelope check of
\* applyEntry), and its author still has that part.
BaseIsBehind ==
  \A o \in Entries(log) : base[o] < At(o) /\ base[o] <= Len(applied[Author[o]])

\* What the client takes for acknowledged is in the log, across restarts of
\* the server; and an operation that waits has not been applied.
AckedIsLogged ==
  \A d \in Device : /\ acked[d] \subseteq Entries(log)
                    /\ outbox[d] \cap Entries(applied[d]) = {}

\* A call that ends well has its entry in the author's index for good; what a
\* device has queued is not lost before it is in the log or refused (until
\* the device restarts).
OkIsApplied ==
  \A o \in Op :
    /\ pc[o] = "ok" => o \in Entries(applied[Author[o]])
    /\ pc[o] \in {"catchup", "send", "confirm"} =>
         o \in outbox[Author[o]] \cup Entries(log) \cup refused \cup lost

\* No device applies an entry with rules it does not know.
NeverPastUnreadable ==
  \A d \in Device, o \in Op : o \in Entries(applied[d]) => Rules[o] <= Replays[d]

\* sequencer.ts:45-47: the log a restart reads "Must be contiguous from seq 1".
DiskIsContiguous == \A i \in DOMAIN disk : disk[i].seq = i

\* Every call ends, whatever other calls of the device do to the outbox.
CallsEnd == \A o \in Op : pc[o] \in {"catchup", "send", "confirm"} ~> pc[o] \in {"ok", "failed"}

\* In the end every device that follows the log has applied all of it.
Converges == \A d \in Followers : <>[](applied[d] = log)
=============================================================================
