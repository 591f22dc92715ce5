\* Three entities, one pair of ports free at most, one change of the fabric between two reads.
CONSTANTS
  N = 3
  PortNum = {1, 2}
  MaxChurn = 1
  Cablings <- DenseCablings
SPECIFICATION Spec
INVARIANTS TypeOK Forest MarkedIsReachable DiagramComplete RecursionFollowsParents ChainTerminated LinksAreSymmetric
PROPERTIES ParentDecidedOnce MarkingSpec RunEnds
