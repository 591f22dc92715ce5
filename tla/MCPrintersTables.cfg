SPECIFICATION Spec
CONSTANTS
  Selected <- SomeSlices
  Sizes <- SomeSizes
  Slots <- SomeSlots
INVARIANT BasicWithinData
