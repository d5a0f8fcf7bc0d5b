-------------------------- MODULE MCSignalingServer --------------------------
(* SignalingServer on small instances. *)
EXTENDS SignalingServer, TLC

CONSTANTS c1, c2, c3, r1, r2

MCSymmetry == Permutations(Clients)
==============================================================================
