SPECIFICATION Spec
CONSTANTS
  h1 = h1
  h2 = h2
  i1 = i1
  i2 = i2
  t1 = t1
  t2 = t2
  o1 = o1
  o2 = o2
  Targets <- OneTarget
  ItemDefs <- TwoItems
  TriggerDefs <- TwoTriggers
  Legacy = {o1, o2}
  Processes = {p1, p2}
  Faults = {"error", "kill"}
  MaxLate = 1
SYMMETRY ProcessSymmetry
INVARIANTS
  TypeOK
  JournalMatches
  RollbackPossible
  RolledBackIsOriginal
PROPERTIES
  RetireOnlyCovered
  SuccessIsReal
