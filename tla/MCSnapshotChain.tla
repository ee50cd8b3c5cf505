-------------------------- MODULE MCSnapshotChain --------------------------
(* Small instances of SnapshotChain for TLC. A run has three scenes: two    *)
(* devices write at once; one device writes while the chain is moved and    *)
(* the old one drained; one device writes a base after an entry,            *)
(* undisturbed, on any of many days.                                        *)
EXTENDS SnapshotChain, TLC

CONSTANTS ShortLog, FewDays, FewMessages, Writer

VARIABLE scene

MCInit == Init /\ scene \in {"devices", "move", "days"}

Resting == device[Writer].op = None
Alone == \A d \in Device \ {Writer} : device'[d] = device[d]
Short == Len(log') <= ShortLog /\ day' <= FewDays /\ Len(messages') <= FewMessages

Devices ==
  /\ Short /\ day' = day /\ Len(messages') < FewMessages
  /\ Len(slots') = 1 /\ \A d \in Device : device'[d].slot >= device[d].slot

Move ==
  /\ Short /\ Alone
  /\ vault'.revision # vault.revision => vault'.pointer # vault.pointer \/ drain' # drain

Days ==
  /\ Alone /\ vault' = vault /\ Len(slots') = 1
  /\ device'[Writer].slot >= device[Writer].slot
  /\ world' # world => Resting /\ Current.toSeq = HeadSeq
  /\ ~Resting /\ device'[Writer].op = None =>
       slots' # slots \/ messages' # messages \/ device[Writer].op.at = "prune"
  /\ Resting /\ device'[Writer].op # None => device'[Writer].op.next.base # Current.base

MCNext ==
  /\ Next
  /\ UNCHANGED scene
  /\ scene = "devices" => Devices
  /\ scene = "move" => Move
  /\ scene = "days" => Days

MCSpec == MCInit /\ [][MCNext]_<<vars, scene>>
=============================================================================
