SPECIFICATION DapSpec
CONSTANTS
  HeapAddressTag = 64
  MaxHeapSlots = 4
  Modules <- DapModules
  MaxCallDepth = 3
  HalfLimit = 16
  ArgCount = 1
  BreakpointRequests <- DapBreakpoints
  HookSets <- NoHooks
  SequenceLimit = 4
  SourceRequests <- DapSourceRequests
  InstructionRequests <- DapInstructionRequests
  FrameIds <- DapFrameIds
  References <- DapReferences
INVARIANTS
  DapTypeOK
  BreakpointsAsAnswered
  ShownWhereAsked
  TraceAtCallSites
  ScopesAnswerable
  ResultAsTold
PROPERTIES
  VerifiedBreakpointStops
  ExitReportedOnce
  PauseBetweenRequests
\* runVmDebugDapSession returns.
CHECK_DEADLOCK FALSE
