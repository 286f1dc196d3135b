SPECIFICATION Spec
CONSTANTS
  h1 = h1
  h2 = h2
  i1 = i1
  i2 = i2
  t1 = t1
  t2 = t2
  o1 = o1
  o2 = o2
  Targets <- OneTarget
  ItemDefs <- OneItem
  TriggerDefs <- OneTrigger
  Legacy = {o1}
  Processes = {p1, p2}
  Faults = {}
  MaxLate = 1
PROPERTIES
  ObserveAfterRollback
