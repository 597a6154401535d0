---------------------------- MODULE MCGpsControl ----------------------------
(* Small instances of GpsControl for TLC. *)
EXTENDS GpsControl, TLC

CONSTANTS w1, w2

Threads == {w1, w2}
Symmetry == Permutations(Threads)

NoFaults  == {}
Hangup    == {"hangup"}
EveryFault == AllFaults
=============================================================================
