--------------------------- MODULE MCSessionLanes ---------------------------
(***************************************************************************)
(* Instances of SessionLanes for TLC.  Jobs and lanes are interchangeable. *)
(***************************************************************************)
EXTENDS SessionLanes, TLC

Identical == Permutations(Jobs) \cup Permutations(Lanes)
=============================================================================
