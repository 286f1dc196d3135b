----------------------- MODULE MCWindowsServicePolicy -----------------------
(* Instances of WindowsServicePolicy for TLC.                               *)
EXTENDS WindowsServicePolicy, TLC

CONSTANTS h1, h2, i1, i2, t1, t2, o1, o2

OneTarget == <<h1>>
TwoTargets == <<h1, h2>>
OneItem == <<i1>>
TwoItems == <<i1, i2>>
OneTrigger == <<t1>>
TwoTriggers == <<t1, t2>>

ProcessSymmetry == Permutations(Processes)
=============================================================================
