SPECIFICATION Spec
CONSTANTS
  Uent = {1, 2}
  MaxPosition = 7
  Base = 2
  Guid = {1, 2}
  IDEV = {1}
  CommandLines <- SlotLines
  InitialConfig <- Contents
  MaxUnplug = 0
INVARIANTS AccessesNamedEntity
