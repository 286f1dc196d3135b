SPECIFICATION Spec
CONSTANTS
  Services <- AllServices
  Processes = {p1}
  MaxBackups = 2
  Faults = {"fail", "late", "swallow", "signal", "kill"}
CHECK_DEADLOCK FALSE
INVARIANTS
  PublishedIsWhole
  ServiceComesBack
PROPERTIES
  SuccessServes
