----------------------------- MODULE SharedLog -----------------------------
(***************************************************************************)
(* What the log of an account promises its devices: one sequence that only *)
(* grows, holds every operation at most once, and of which each device     *)
(* knows a beginning that only grows. SyncLog.tla implements it.           *)
(***************************************************************************)
EXTENDS Integers, Sequences

CONSTANTS Device, Op

VARIABLES
  log,    \* the operations of the account, in order
  known   \* known[d]: the operations device d has applied, in order

vars == <<log, known>>

Init ==
  /\ log = <<>>
  /\ known = [d \in Device |-> <<>>]

\* An operation that is not in the log joins it.
Add(o) ==
  /\ \A i \in DOMAIN log : log[i] # o
  /\ log' = Append(log, o)
  /\ UNCHANGED known

\* A device learns how the log goes on, up to position n.
Learn(d, n) ==
  /\ n > Len(known[d])
  /\ known' = [known EXCEPT ![d] = SubSeq(log, 1, n)]
  /\ UNCHANGED log

Next ==
  \/ \E o \in Op : Add(o)
  \/ \E d \in Device, n \in DOMAIN log : Learn(d, n)

Spec == Init /\ [][Next]_vars
=============================================================================
