SPECIFICATION Spec
CONSTANTS
  e1 = e1
  NoThread = NoThread
  NoAlert = NoAlert
  Events = {e1}
  Alerts <- OneEvent
  Threads = {t1, t2}
  MaxAttempts = 2
  Faults = {"glpi", "late", "crash"}
SYMMETRY ThreadSymmetry
INVARIANTS
  TypeOK
  RecoveredIsClosed
PROPERTIES
  RecoveredIsFinal
