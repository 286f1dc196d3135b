SPECIFICATION FairCollectorSpec
CONSTANTS
  c1 = c1
  c2 = c2
  p1 = p1
  p2 = p2
  NoCheck = NoCheck
  NoCert = NoCert
  Certs = {c1}
  Checks = {p1, p2}
  MaxAge = 1
  Skew = 0
  Ttl = 1
  Entries = 1
  JournalLimit = 2
  Life = 3
  CertEnds = 9
  Offsets <- OneClock
  LastTick = 1
  Flaws = {"signature"}
  Failures = {"timeout"}
  Faults = {"kill", "disk", "power", "metrics"}
  Collectors = {"unpoller", "ap_counts"}
  Requests = 2
INVARIANTS
  CollectorTypeOK
  SuccessIsVerified
PROPERTIES
  NoBytesToRevoked
  EveryRunEnds
