SPECIFICATION FairSpec
CONSTANTS
  e1 = e1
  NoThread = NoThread
  NoAlert = NoAlert
  Events = {e1}
  Alerts <- OnePair
  Threads = {t1, t2}
  MaxAttempts = 2
  Faults = {"timeout", "glpi", "late", "crash"}
INVARIANTS
  OnlyFaultsDuplicate
  AcknowledgedIsRecorded
  FollowupsAccounted
PROPERTIES
  ImplementsLedger
  EveryAlertSettles
  LockIsReleased
