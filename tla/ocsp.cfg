SPECIFICATION Spec
CONSTANTS
  c1 = c1
  c2 = c2
  p1 = p1
  p2 = p2
  NoCheck = NoCheck
  NoCert = NoCert
  Certs = {c1, c2}
  Checks = {p1, p2}
  MaxAge = 1
  Skew = 0
  Ttl = 1
  Entries = 1
  JournalLimit = 1
  Life = 3
  CertEnds = 9
  Offsets <- TwoClocks
  LastTick = 1
  Flaws = {"signature"}
  Failures = {"timeout"}
  Faults = {"kill", "disk", "power", "metrics"}
SYMMETRY Sym
INVARIANTS
  CacheFits
  JournalIsTrue
  ConfirmedIsDurable
PROPERTIES
  RefusedForever
  BoundedStaleness
