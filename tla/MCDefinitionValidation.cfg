SPECIFICATION FairSpec
CONSTANTS
  MaxDefinitions = 4
  WorkerCounts = {1, 2, 3}
  Publications <- MCPublications
INVARIANTS
  TypeOK
  SameAsSerial
  NeverMorePermissive
  PublicationIndependent
PROPERTY Terminates
\* A finished pass stays finished.
CHECK_DEADLOCK FALSE
