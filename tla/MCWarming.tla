----------------------------- MODULE MCWarming -----------------------------
(* Instances of WarmingRooms for TLC. *)
EXTENDS WarmingRooms, TLC

CONSTANTS r1, w1, w2

Replicas == Permutations({w1, w2})
=============================================================================
