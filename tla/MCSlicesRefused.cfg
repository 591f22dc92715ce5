\* A selection given in two -s options, refused as too large.
SPECIFICATION Spec
CONSTANTS
  MaxSlice = 6
  CountRange = 6
  LsMaxSlice = 2
  PortNum = 2
  Decoded <- SmallDecoded
  VerboseCfg0 = {1, 2}
  PortDefault = {1, 2}
  Bitmaps <- SomeBitmaps
  CommandLines <- AllLines
INVARIANT RefusedOnlyAboveLimit
