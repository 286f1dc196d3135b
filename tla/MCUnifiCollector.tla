-------------------------- MODULE MCUnifiCollector --------------------------
(* Instances of UnifiCollector for TLC.                                     *)
EXTENDS UnifiCollector, TLC

CONSTANTS c1, c2, p1, p2

OneClock == {0}
=============================================================================
