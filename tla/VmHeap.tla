------------------------------- MODULE VmHeap -------------------------------
(***************************************************************************)
(* The VM's heap under any program: every HeapAlloc, HeapFree, HeapRealloc *)
(* and indirect load or store a program can execute, with any of the words *)
(* it can put on the operand stack.  The interpreters of VmKernel and      *)
(* VmDebugSession reach the heap through these operations alone, and stop  *)
(* at the first that faults.                                               *)
(***************************************************************************)
EXTENDS VmHeapHelpers

CONSTANTS
  Addresses,    \* words used as addresses
  SlotCounts,   \* words used as slot counts
  Values        \* words stored

ASSUME ProgramWords ==
  /\ Addresses \subseteq Word
  /\ SlotCounts \subseteq Word
  /\ Values \subseteq Word

VARIABLES
  heapSlots,         \* std::vector<uint64_t> heapSlots_
  heapAllocations,   \* std::vector<HeapAllocation> heapAllocations_
  reply              \* what the latest operation gave the program

vars == <<heapSlots, heapAllocations, reply>>

heap == [slots |-> heapSlots, allocations |-> heapAllocations]

Init ==
  /\ heapSlots = <<>>
  /\ heapAllocations = <<>>
  /\ reply = [op |-> "none", ok |-> TRUE, value |-> 0]

Apply(op, r) ==
  /\ heapSlots' = r.heap.slots
  /\ heapAllocations' = r.heap.allocations
  /\ reply' = [op |-> op, ok |-> r.ok, value |-> r.address]

HeapAlloc(slotCount) == Apply("alloc", AllocateVmHeapSlots(slotCount, heap))

HeapFree(address) == Apply("free", FreeVmHeapSlots(address, heap))

HeapRealloc(address, slotCount) ==
  Apply("realloc", ReallocVmHeapSlots(address, slotCount, heap))

LoadIndirect(address) ==
  LET slot == ResolveIndirectAddress(address, 0, heap) IN
  /\ reply' = [op |-> "load", ok |-> slot.ok,
               value |-> IF slot.ok THEN heapSlots[slot.index] ELSE 0]
  /\ UNCHANGED <<heapSlots, heapAllocations>>

StoreIndirect(address, value) ==
  LET slot == ResolveIndirectAddress(address, 0, heap) IN
  /\ heapSlots' = IF slot.ok THEN [heapSlots EXCEPT ![slot.index] = value]
                             ELSE heapSlots
  /\ reply' = [op |-> "store", ok |-> slot.ok,
               value |-> IF slot.ok THEN value ELSE 0]
  /\ UNCHANGED heapAllocations

Next ==
  /\ reply.ok
  /\ \/ \E n \in SlotCounts : HeapAlloc(n)
     \/ \E a \in Addresses : HeapFree(a)
     \/ \E a \in Addresses, n \in SlotCounts : HeapRealloc(a, n)
     \/ \E a \in Addresses : LoadIndirect(a)
     \/ \E a \in Addresses, v \in Values : StoreIndirect(a, v)

Spec == Init /\ [][Next]_vars

-----------------------------------------------------------------------------
(***************************************************************************)
(* Properties.                                                             *)
(***************************************************************************)

Ops == {"none", "alloc", "free", "realloc", "load", "store"}

\* The vectors hold words and allocation records, and the heap never exceeds
\* what the host can hold (allocateVmHeapSlots).
TypeOK ==
  /\ HeapType(heap)
  /\ reply \in [op : Ops, ok : BOOLEAN, value : Word]

\* Records, dead ones included, never overlap and never leave the vector, so a
\* base names one record and the first match of freeVmHeapSlots is the only one.
AllocationsOrdered == Ordered(heap)

\* Two live allocations never share a slot: a store through one pointer is
\* never seen through another (resolveIndirectAddress, allocateVmHeapSlots).
LiveAllocationsDisjoint ==
  \A i, j \in DOMAIN heapAllocations, k \in 0 .. (Len(heapSlots) - 1) :
    Covers(heapAllocations[i], k) /\ Covers(heapAllocations[j], k) => i = j

\* What a program leaves in an allocation is gone once it is freed or moved,
\* and no later store reaches it (freeVmHeapSlots, reallocVmHeapSlots).
FreedSlotsStayZero == Scrubbed(heap)

\* No step revives a freed allocation, moves or resizes a record or drops one:
\* an address freed once faults for ever after (no slot is reused).
RecordsNeverReused ==
  [][\A i \in DOMAIN heapAllocations :
       /\ i \in DOMAIN heapAllocations'
       /\ heapAllocations'[i].baseIndex = heapAllocations[i].baseIndex
       /\ heapAllocations'[i].slotCount = heapAllocations[i].slotCount
       /\ heapAllocations'[i].live => heapAllocations[i].live]_vars

(***************************************************************************)
(* The slot vector implements separate objects: an object is a live        *)
(* record's part of the vector.                                            *)
(***************************************************************************)
LiveBases == {heapAllocations[i].baseIndex :
                i \in {j \in DOMAIN heapAllocations : heapAllocations[j].live}}

Contents(base) ==
  LET allocation == heapAllocations[FirstAt(base, heap)] IN
  [k \in 1 .. allocation.slotCount |-> heapSlots[base + k]]

Abstract == INSTANCE AbstractHeap WITH
  objects <- [base \in LiveBases |-> Contents(base)],
  used <- 0 .. (Len(heapSlots) - 1)

\* Every operation does to the program's objects what AbstractHeap says: it
\* changes the object it names and no other, a resized object keeps its
\* prefix, and a dead, interior or foreign address faults.
ImplementsObjects == Abstract!Spec
=============================================================================
