\* Selections in one and in two -s options, with -v and with -x.
SPECIFICATION Spec
CONSTANTS
  MaxSlice = 6
  CountRange = 6
  LsMaxSlice = 2
  PortNum = 2
  Decoded <- SmallDecoded
  VerboseCfg0 = {1, 2}
  PortDefault = {1, 2}
  Bitmaps <- SomeBitmaps
  CommandLines <- AllLines
INVARIANTS
  TypeOK
  ShownExactly
  HexSole
  PortSlicesNeedPort
