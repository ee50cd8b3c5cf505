----------------------------- MODULE MCSyncLog -----------------------------
(* Small instances of SyncLog for TLC.                                     *)
EXTENDS SyncLog, TLC

CONSTANTS a, b, c, d1, d2, u

\* Two operations of the first device, one of the second.
TwoAndOne == [o \in Op |-> IF o = c THEN d2 ELSE d1]

NoGuard == [o \in Op |-> None]
FirstGuarded == [o \in Op |-> IF o = a THEN u ELSE None]
SecondGuarded == [o \in Op |-> IF o = b THEN u ELSE None]

SameRules == [o \in Op |-> 3]
EveryReader == [d \in Device |-> 3]

\* The second device runs a newer build than the first.
NewerRules == [o \in Op |-> IF o = c THEN 4 ELSE 3]
OldReader == [d \in Device |-> IF d = d1 THEN 3 ELSE 4]
=============================================================================
