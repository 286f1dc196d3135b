------------------------- MODULE MCNetboxZabbixSync -------------------------
(* Instances of NetboxZabbixSync for TLC.                                   *)
EXTENDS NetboxZabbixSync, TLC

NameSymmetry == Permutations(Names)
=============================================================================
