---------------------------- MODULE MCGlpiBridge ----------------------------
(* Instances of GlpiBridge for TLC.                                         *)
EXTENDS GlpiBridge, TLC

CONSTANT e1

Alert(e, k, b) == [event |-> e, kind |-> k, body |-> b]

(* One event: its problem, the same problem with another payload, recovery. *)
OneEvent == {Alert(e1, "problem", 1), Alert(e1, "problem", 2), Alert(e1, "recovery", 1)}

(* One event, with the two notifications of the managed Zabbix action.      *)
OnePair == {Alert(e1, "problem", 1), Alert(e1, "recovery", 1)}

ThreadSymmetry == Permutations(Threads)
=============================================================================
