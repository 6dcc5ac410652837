SPECIFICATION TraceSpec
CONSTANTS
  HeapAddressTag = 64
  MaxHeapSlots = 4
  Modules <- NegativeModules
  MaxCallDepth = 3
  HalfLimit = 32
  ArgCount = 1
  BreakpointRequests = {}
  HookSets <- NoHooks
  SequenceLimit = 64
  Targets <- AllTargets
INVARIANTS
  TraceReplayable
\* The recording process ends, and a refused program leaves no trace.
CHECK_DEADLOCK FALSE
