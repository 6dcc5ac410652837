SPECIFICATION InlinerSpec
CONSTANTS
  HeapAddressTag = 256
  MaxHeapSlots = 4
  Modules <- BranchingModules
  MaxCallDepth = 6
  HalfLimit = 16
  ArgCount = 1
  LocalIndexLimit = 15
INVARIANTS
  BehaviorPreserved
\* Preparation and the run end.
CHECK_DEADLOCK FALSE
