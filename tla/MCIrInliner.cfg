SPECIFICATION InlinerSpec
CONSTANTS
  HeapAddressTag = 256
  MaxHeapSlots = 4
  Modules <- InlinerModules
  MaxCallDepth = 6
  HalfLimit = 16
  ArgCount = 1
  LocalIndexLimit = 15
INVARIANTS
  CountsExact
  NoLeafCallLeft
  InlinedSame
\* Preparation and the run end.
CHECK_DEADLOCK FALSE
