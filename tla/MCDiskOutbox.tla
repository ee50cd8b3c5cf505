---------------------------- MODULE MCDiskOutbox ----------------------------
(***************************************************************************)
(* Small instances of DiskOutbox for TLC: three saves while nothing fails, *)
(* and two, of which the first may fail for ever, while other calls fail   *)
(* and the app ends, or while a folder takes a name. Fairness is the       *)
(* specification's own: in every scene its actions can be taken when the   *)
(* scene's can.                                                            *)
(***************************************************************************)
EXTENDS DiskOutbox, TLC

CONSTANTS A, B, T

VARIABLE scene

Calm == INSTANCE DiskOutbox WITH
  Stuck <- {}, MaxFails <- 0, MaxCrashes <- 0, MaxFolders <- 0

Rough == INSTANCE DiskOutbox WITH MaxSaves <- 2, MaxFolders <- 0

Taken == INSTANCE DiskOutbox WITH
  Stuck <- {}, MaxSaves <- 2, MaxMoves <- 1, MaxFails <- 0

DiskSpec ==
  /\ scene \in {"calm", "rough", "taken"} /\ Init
  /\ [][/\ \/ scene = "calm" /\ Calm!Next
           \/ scene = "rough" /\ Rough!Next
           \/ scene = "taken" /\ Taken!Next
        /\ UNCHANGED scene]_<<scene, vars>>
  /\ Fairness
=============================================================================
