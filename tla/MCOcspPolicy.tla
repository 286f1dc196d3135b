---------------------------- MODULE MCOcspPolicy ----------------------------
(* Instances of OcspPolicy for TLC.                                         *)
EXTENDS OcspPolicy, TLC

CONSTANTS c1, c2, p1, p2

(* The local clock may be ahead, and may be set back.                       *)
TwoClocks == {0, 1}

Sym == Permutations(Certs) \union Permutations(Checks)
=============================================================================
