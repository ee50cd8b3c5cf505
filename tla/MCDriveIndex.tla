---------------------------- MODULE MCDriveIndex ----------------------------
(***************************************************************************)
(* Small instances of DriveIndex for TLC. A run explores several, its      *)
(* scenes: each is an instance of the specification with smaller constants *)
(* than the run's own, to which the properties refer.                      *)
(***************************************************************************)
EXTENDS DriveIndex, TLC

CONSTANTS u1, u2, u3, l1

VARIABLE scene

\* Two words that fold to the same key.
CaseNames == {<<"a", <<>>>>, <<"A", <<>>>>}
CaseFold == [w \in {"a", "A"} |-> "a"]

\* A word, and the name rule 2 would make of it.
SuffixNames == {<<"a", <<>>>>, <<"a", <<2>>>>}
OneName == {<<"a", <<>>>>}
OneFold == [w \in {"a"} |-> "a"]

\* The first and the last upload carry the same plaintext.
TwoPlain == [u \in Upload |-> IF u = u2 THEN "q" ELSE "p"]
NoPlain == [u \in Upload |-> None]

-----------------------------------------------------------------------------
(* Folders: names that collide and selections, the two spaces, or a folder *)
(* and its content                                                         *)

Folders == INSTANCE DriveIndex WITH
  Upload <- {}, Plain <- <<>>, Started <- {}, RulesVersion <- {3}

Spaces == INSTANCE DriveIndex WITH
  Upload <- {}, Plain <- <<>>, Started <- {}, UserName <- OneName, Selections <- FALSE

Content == INSTANCE DriveIndex WITH
  RulesVersion <- {3}, UserName <- OneName, Selections <- FALSE

TreeSpec ==
  /\ \/ scene \in {"names", "spaces"} /\ Folders!Init
     \/ scene = "content" /\ Init
  /\ [][/\ \/ scene = "names" /\ Folders!Next
           \/ scene = "spaces" /\ Spaces!Next
           \/ scene = "content" /\ Content!Next
        /\ UNCHANGED scene]_<<scene, vars>>

-----------------------------------------------------------------------------
(* One file: versions that conflict, or versions that are relocated        *)

Versions == INSTANCE DriveIndex WITH Loc <- {l1}, RulesVersion <- {3}

Moved == INSTANCE DriveIndex WITH
  Upload <- {u1, u2}, Plain <- [u \in {u1, u2} |-> None],
  Started <- {u1}, RulesVersion <- {2, 3}

FileSpec ==
  /\ \/ scene = "versions" /\ Init
     \/ scene = "relocation" /\ Moved!Init
  /\ [][/\ \/ scene = "versions" /\ Versions!Next
           \/ scene = "relocation" /\ Moved!Next
        /\ UNCHANGED scene]_<<scene, vars>>

\* The last entry is only read by the action properties, which TLC evaluates
\* on every step; it does not tell states apart.
IndexView == <<scene, index, head>>
DeviceSymmetry == Permutations(Device)
Symmetry == Permutations(Device) \cup Permutations(UserNode)
=============================================================================
