--------------------------- MODULE MCOcspRollout ---------------------------
(* Instances of OcspRollout for TLC.                                        *)
EXTENDS OcspRollout, TLC

CONSTANTS stock, plain, capable

Strict == [algorithm |-> "sha256", profile |-> "strict", accepted |-> FALSE,
           age |-> 3600, given |-> TRUE, ttl |-> 300, timeout |-> 5, limit |-> 65536,
           entries |-> 128, skew |-> 120]

Bounded == [Strict EXCEPT !.profile = "bounded-24h", !.accepted = TRUE, !.age = 86400]

(* Two settings to be accepted, and what is just beside the limits.         *)
Boundary ==
  {Strict, Bounded}
  \union {[Strict EXCEPT !.age = a] : a \in {0, 299, 3601}}
  \union {[Bounded EXCEPT !.age = a] : a \in {3600, 86401}}
  \union {[s EXCEPT !.accepted = ~s.accepted] : s \in {Strict, Bounded}}
  \union {[Strict EXCEPT !.ttl = n] : n \in {0, 301}}
  \union {[Strict EXCEPT !.timeout = n] : n \in {0, 6}}
  \union {[Strict EXCEPT !.limit = n] : n \in {0, 65537}}
  \union {[Strict EXCEPT !.entries = n] : n \in {0, 129}}
  \union {[Strict EXCEPT !.skew = n] : n \in {-1, 121}}
  \union {[Bounded EXCEPT !.given = FALSE], [Strict EXCEPT !.algorithm = "md5"]}
=============================================================================
