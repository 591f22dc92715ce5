\* The manual's promise about the diagram, on a fabric that does not change.
CONSTANTS
  N = 2
  PortNum = {1}
  MaxChurn = 0
  Cablings <- AllCablings
SPECIFICATION Spec
INVARIANTS AllEntitiesShown
