--------------------------- MODULE MCDirectBlobs ---------------------------
(* Small instances of DirectBlobs for TLC. A run has three scenes: a device *)
(* moves a webhook while another uploads; it moves one while versions are   *)
(* released and cleaned; two devices move two webhooks at once.             *)
EXTENDS DirectBlobs, TLC

CONSTANTS Mover, Moved, AlsoMoved, Few

VARIABLE scene

MCInit == Init /\ scene \in {"upload", "release", "moves"}

MovesOnly(d, h) == mover'[d].hook \in {None, h}
MoverMoves == \A d \in Device : MovesOnly(d, IF d = Mover THEN Moved ELSE None)
MoverCleans == \A d \in Device \ {Mover} : cleaner'[d] = None
NoUpload == upload' = upload
NoRelease == \A i \in DOMAIN log' : log'[i].ended = {}
TwoHooks == \A m \in DOMAIN messages' : messages'[m].hook \in {Moved, AlsoMoved}

UploadScene == MoverMoves /\ MoverCleans /\ TwoHooks /\ NoRelease /\ upload'[Mover] = None

ReleaseScene == MoverMoves /\ TwoHooks /\ NoUpload

CopiesTogether ==
  Len(messages') = Len(messages) + 2 => messages'[Len(messages) + 1].hook = messages'[Len(messages) + 2].hook

MovesScene ==
  /\ \A d \in Device : MovesOnly(d, IF d = Mover THEN Moved ELSE AlsoMoved)
  /\ MoverCleans /\ NoUpload /\ NoRelease /\ CopiesTogether /\ missed' = {}
  /\ faults' = 0 /\ Len(messages') <= Few + 2 /\ Len(log') <= Few

MCNext ==
  /\ Next
  /\ UNCHANGED scene
  /\ Cardinality({d \in Device : cleaner'[d] # None}) <= 1 /\ Cardinality(bases') <= 2
  /\ scene = "upload" => UploadScene
  /\ scene = "release" => ReleaseScene
  /\ scene = "moves" => MovesScene

MCSpec == MCInit /\ [][MCNext]_<<vars, scene>>
=============================================================================
