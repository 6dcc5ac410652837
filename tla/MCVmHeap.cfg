SPECIFICATION Spec
CONSTANTS
  HeapAddressTag = 64
  MaxHeapSlots = 4
  Addresses <- MCAddresses
  SlotCounts <- MCSlotCounts
  Values <- MCValues
INVARIANTS
  TypeOK
  AllocationsOrdered
  LiveAllocationsDisjoint
  FreedSlotsStayZero
PROPERTIES
  RecordsNeverReused
  ImplementsObjects
\* A fault ends the program.
CHECK_DEADLOCK FALSE
