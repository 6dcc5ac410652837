SPECIFICATION Spec
CONSTANTS
  MaxDefinitions = 3
  WorkerCounts = {1, 2}
  Publications <- MCPublications
INVARIANT SameVerdict
CHECK_DEADLOCK FALSE
