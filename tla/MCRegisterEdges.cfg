SPECIFICATION PassesSpec
CONSTANTS
  VirtualRegisters = {0, 1, 2, 3, 4, 5, 6, 7, 8, 9, 10, 11, 12, 13, 14, 15, 16, 17, 18, 19}
  RangeLists <- MCRangeLists
  RegisterCounts = {0, 1, 2}
  Codes <- MCEdgeCodes
  GivenRanges <- MCGivenRanges
  MaxBlocksRun = 8
INVARIANTS
  EdgeSafe
\* A run ends, or a pass refuses the function.
CHECK_DEADLOCK FALSE
