-------------------------- MODULE MCCommandQueue --------------------------
(***************************************************************************)
(* Instances of CommandQueue for TLC.  The code's capacities (4 runs on    *)
(* the main lane, 20 messages per session) are scaled down so that a lane  *)
(* is full and a queue overflows within a few messages.                    *)
(***************************************************************************)
EXTENDS CommandQueue, TLC

OneLane == {"main"}
TwoLanes == {"main", "cron"}

OneEach == [l \in Lanes |-> 1]
TwoEach == [l \in Lanes |-> 2]

SessionSymmetry == Permutations(Sessions)
=============================================================================
