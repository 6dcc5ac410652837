SPECIFICATION FairTraceSpec
CONSTANTS
  HeapAddressTag = 64
  MaxHeapSlots = 4
  Modules <- TracedModules
  MaxCallDepth = 3
  HalfLimit = 32
  ArgCount = 1
  BreakpointRequests = {}
  HookSets <- NoHooks
  SequenceLimit = 64
  Targets <- AllTargets
INVARIANTS
  ReplayRestoresThePast
  ReplayMirrorsExit
PROPERTIES
  RecordingEnds
\* The recording process ends, and a refused program leaves no trace.
CHECK_DEADLOCK FALSE
