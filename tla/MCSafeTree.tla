----------------------------- MODULE MCSafeTree -----------------------------
(***************************************************************************)
(* Small instances of SafeTree for TLC: a folder that moves into the Safe, *)
(* one that moves out of it, and files that come and go while cleanups     *)
(* run.                                                                    *)
(***************************************************************************)
EXTENDS SafeTree, TLC

CONSTANTS n1, n2, u1, d1, d2

Devices == {d1, d2}
Nodes == {n1, n2} \cup (Devices \X (1 .. 4))
Uploads == {u1} \cup (Devices \X (1 .. 4))
OneName == {<<"a", <<>>>>}
OneFold == [w \in {"a"} |-> "a"]
NoPlain == [u \in Upload |-> None]

Scene(inSafe, kinds, edits, faults) ==
  [inSafe |-> inSafe, kinds |-> kinds, jobs |-> 2, edits |-> edits, faults |-> faults]

\* The third has a move out of the folder that a move in is filling.
FiveScenes ==
  {Scene(FALSE, {"in", "delete"}, 0, 1),
   Scene(FALSE, {"in"}, 1, 0),
   Scene(FALSE, {"in", "out"}, 0, 0),
   Scene(TRUE, {"out", "add", "delete"}, 0, 1),
   Scene(TRUE, {"add", "delete", "sweep"}, 0, 2)}

Symmetry == Permutations(Device)
=============================================================================
