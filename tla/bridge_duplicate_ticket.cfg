SPECIFICATION Spec
CONSTANTS
  e1 = e1
  NoThread = NoThread
  NoAlert = NoAlert
  Events = {e1}
  Alerts <- OnePair
  Threads = {t1, t2}
  MaxAttempts = 3
  Faults = {"glpi"}
INVARIANTS
  OneTicketPerEvent
