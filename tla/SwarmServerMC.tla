--------------------------- MODULE SwarmServerMC ---------------------------
(* SwarmServer with two connections, their ids distinct. *)
EXTENDS SwarmServer, TLC

CONSTANTS c1, c2, i1, i2

TwoIds == c1 :> i1 @@ c2 :> i2
LowFds == 1 .. 2
=============================================================================
