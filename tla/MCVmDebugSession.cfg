SPECIFICATION FairSpec
CONSTANTS
  HeapAddressTag = 64
  MaxHeapSlots = 4
  Modules <- SessionModules
  MaxCallDepth = 3
  HalfLimit = 16
  ArgCount = 1
  BreakpointRequests <- SessionBreakpoints
  HookSets <- AllHooks
  SequenceLimit = 4
INVARIANTS
  TypeOK
  StateMatchesProgram
  CallersAtCallSites
PROPERTIES
  NoBreakpointMissed
  PauseNotOvertaken
  HookOrder
  ImplementsKernel
  CallsReturn
