SPECIFICATION FairSpec
CONSTANTS
  Devices = {d}
  VMs = {v}
  Names = {a, b}
  Addresses = {ip}
  Groups = {g}
  LocalTags = {l}
  Edits = {"select", "rename", "address", "status", "field", "profile", "local", "switch", "regroup", "delete"}
  MaxEdits = 2
  Faults = {"interrupt", "late"}
  MaxFaults = 1
  NoObject = NoObject
  NoAddress = NoAddress
  NoGroup = NoGroup
  NoHost = NoHost
INVARIANTS
  TypeOK
  OneHostPerObject
  StoredIsOwn
  TechnicalNamesForeseen
PROPERTIES
  ManagedOnly
  SecondRunIsSilent
  Converges
