SPECIFICATION Spec
CONSTANTS
  Selected <- SomeSlices
  Sizes <- SomeSizes
  Slots <- SomeSlots
INVARIANTS TypeOK OwnWords WholeOrNothing
