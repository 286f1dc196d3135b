SPECIFICATION Spec
CONSTANTS
  stock = stock
  plain = plain
  capable = capable
  Images = {stock, plain, capable}
  Enforcing = {plain, capable}
  Optional = {capable}
  StockImage = stock
  Issuers = {i1, i2}
  Trusts = {t1, t2}
  Settings <- Boundary
  OldSettings <- Strict
  Certs = {c1}
  Faults = {"failure", "loss"}
  None = None
INVARIANTS
  TrustIsApplied
