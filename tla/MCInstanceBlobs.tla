-------------------------- MODULE MCInstanceBlobs --------------------------
(* Small instances of InstanceBlobs for TLC. A run has two scenes: in one   *)
(* a channel is moved while the server works on one put at a time, in the   *)
(* other there are two puts at once and no channel changes.                 *)
EXTENDS InstanceBlobs, TLC

VARIABLE scene

MCInit == Init /\ scene \in {"move", "puts"}

MCNext ==
  /\ Next
  /\ UNCHANGED scene
  /\ scene = "move" => /\ Cardinality({p \in Put : put'[p] # None}) <= 1
                       /\ torn' = {}
                       /\ \A u \in Upload : client'[u].session = 1
  /\ scene = "puts" => /\ hooks' = hooks /\ restarts' = 0
                       /\ Cardinality({messages'[m].hook : m \in DOMAIN messages'}) <= 1

MCSpec == MCInit /\ [][MCNext]_<<vars, scene>>

HookSymmetry == Permutations(Hook) \cup Permutations(Put)
=============================================================================
