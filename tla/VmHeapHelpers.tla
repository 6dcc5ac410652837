---------------------------- MODULE VmHeapHelpers ----------------------------
(***************************************************************************)
(* The heap of the PrimeStruct VM: src/src/runtime/VmHeapHelpers.cpp.      *)
(*                                                                         *)
(* The heap is one vector of slots that only grows and one list of         *)
(* allocation records that only grows.  An address is a machine word: with *)
(* the tag bit set it names a heap slot, without it a slot of the current  *)
(* frame's locals, and the word 0 is the null heap address.  These are the *)
(* pure operations; VmHeap, VmKernel and VmDebugSession apply them to      *)
(* their own state.                                                        *)
(*                                                                         *)
(* A heap is a record [slots, allocations].  An operation returns a record *)
(* [ok, address, heap]; a failed one leaves the heap as it was, which is   *)
(* how the code orders its checks and its writes.                          *)
(***************************************************************************)
EXTENDS Integers, Sequences

CONSTANTS
  HeapAddressTag,   \* kVmHeapAddressTag: 2^63 in the code, scaled down here
  MaxHeapSlots      \* the most slots the vector can hold

(***************************************************************************)
(* IrSlotBytes of include/primec/Ir.h:196.                                 *)
(***************************************************************************)
SlotBytes == 16

(***************************************************************************)
(* Words have one bit above the tag bit's position, so a word is below     *)
(* 2 * HeapAddressTag.  A vector of HeapAddressTag / 16 slots would take   *)
(* 2^62 bytes, more than any host maps, so the addressable range never     *)
(* runs out before memory does.                                            *)
(***************************************************************************)
ASSUME HeapAssumption ==
  /\ HeapAddressTag \in Nat \ {0}
  /\ HeapAddressTag % SlotBytes = 0
  /\ MaxHeapSlots \in Nat
  /\ MaxHeapSlots * SlotBytes <= HeapAddressTag

WordLimit == 2 * HeapAddressTag
Word == 0 .. (WordLimit - 1)

Allocation == [baseIndex : Nat, slotCount : Nat \ {0}, live : BOOLEAN]
EmptyHeap == [slots |-> <<>>, allocations |-> <<>>]

IsVmHeapAddress(address) == address >= HeapAddressTag
SlotIndex(address) == (address - HeapAddressTag) \div SlotBytes
HeapAddress(baseIndex) == HeapAddressTag + baseIndex * SlotBytes
MaxAddressableIndex == (WordLimit - 1 - HeapAddressTag) \div SlotBytes

Failed(heap) == [ok |-> FALSE, address |-> 0, heap |-> heap]
Done(address, heap) == [ok |-> TRUE, address |-> address, heap |-> heap]

\* The test by which an indirect access finds its allocation.  CoversAny also
\* accepts a dead one.
CoversAny(allocation, index) ==
  /\ index >= allocation.baseIndex
  /\ index < allocation.baseIndex + allocation.slotCount

Covers(allocation, index) ==
  /\ allocation.live
  /\ index >= allocation.baseIndex
  /\ index < allocation.baseIndex + allocation.slotCount

(***************************************************************************)
(* resolveIndirectAddress: where an indirect load or store goes, or that   *)
(* it faults.  A heap slot outside every live allocation is not            *)
(* accessible; a local address is resolved in the frame running now.       *)
(***************************************************************************)
ResolveIndirectAddress(address, localCount, heap) ==
  LET index == SlotIndex(address)
      local == address \div SlotBytes IN
  IF address % SlotBytes = 0 /\ IsVmHeapAddress(address)
       /\ index < Len(heap.slots)
       /\ \E i \in DOMAIN heap.allocations : Covers(heap.allocations[i], index)
    THEN [ok |-> TRUE, space |-> "heap", index |-> index + 1]
  ELSE IF address % SlotBytes = 0 /\ ~IsVmHeapAddress(address) /\ local < localCount
    THEN [ok |-> TRUE, space |-> "local", index |-> local + 1]
  ELSE [ok |-> FALSE, space |-> "none", index |-> 0]

\* allocateVmHeapSlots' limits: the vector's, then the addressable index's.
\* TooLargeAlone forgets the slots already there.
TooLargeAlone(slotCount, baseIndex) == slotCount > MaxHeapSlots
TooLarge(slotCount, baseIndex) ==
  slotCount > MaxHeapSlots - baseIndex \/ baseIndex > MaxAddressableIndex

\* The record of a new allocation.  RecordAfterResize takes the base when the
\* vector has already grown; RecordOneMore counts one slot too many.
RecordAfterResize(base, count) ==
  [baseIndex |-> base + count, slotCount |-> count, live |-> TRUE]
RecordOneMore(base, count) ==
  [baseIndex |-> base, slotCount |-> count + 1, live |-> TRUE]
NewRecord(base, count) ==
  [baseIndex |-> base, slotCount |-> count, live |-> TRUE]

(***************************************************************************)
(* allocateVmHeapSlots: a bump allocation of zeroed slots at the end.      *)
(***************************************************************************)
AllocateVmHeapSlots(slotCount, heap) ==
  LET baseIndex == Len(heap.slots) IN
  IF slotCount = 0 THEN Done(0, heap)
  ELSE IF TooLarge(slotCount, baseIndex) THEN Failed(heap)
  ELSE Done(HeapAddress(baseIndex),
            [slots |-> heap.slots \o [i \in 1 .. slotCount |-> 0],
             allocations |-> Append(heap.allocations, NewRecord(baseIndex, slotCount))])

(***************************************************************************)
(* Both free and realloc take the first allocation record with the given   *)
(* base and fail when it is dead; FirstAt is that record's position.       *)
(***************************************************************************)
HasBase(baseIndex, heap) ==
  \E i \in DOMAIN heap.allocations : heap.allocations[i].baseIndex = baseIndex

FirstAt(baseIndex, heap) ==
  CHOOSE i \in DOMAIN heap.allocations :
    /\ heap.allocations[i].baseIndex = baseIndex
    /\ \A j \in 1 .. (i - 1) : heap.allocations[j].baseIndex # baseIndex

Owned(address, heap) ==
  /\ IsVmHeapAddress(address)
  /\ address % SlotBytes = 0
  /\ HasBase(SlotIndex(address), heap)
  /\ LET allocation == heap.allocations[FirstAt(SlotIndex(address), heap)] IN
       /\ allocation.live
       /\ allocation.baseIndex + allocation.slotCount <= Len(heap.slots)

\* Drop the record instead of marking it dead.
Erase(i, heap) ==
  [slots |-> heap.slots,
   allocations |-> SubSeq(heap.allocations, 1, i - 1)
                     \o SubSeq(heap.allocations, i + 1, Len(heap.allocations))]

\* Zero the slots of the allocation at position i and mark it dead.
Release(i, heap) ==
  LET allocation == heap.allocations[i] IN
  [slots |-> [k \in DOMAIN heap.slots |->
                IF k > allocation.baseIndex
                     /\ k <= allocation.baseIndex + allocation.slotCount
                  THEN 0 ELSE heap.slots[k]],
   allocations |-> [heap.allocations EXCEPT ![i].live = FALSE]]

(***************************************************************************)
(* freeVmHeapSlots: freeing 0 does nothing, freeing anything but the base  *)
(* of a live allocation fails.                                             *)
(***************************************************************************)
FreeVmHeapSlots(address, heap) ==
  IF address = 0 THEN Done(0, heap)
  ELSE IF ~Owned(address, heap) THEN Failed(heap)
  ELSE Done(0, Release(FirstAt(SlotIndex(address), heap), heap))

\* Leave the new allocation zeroed.
CopyNothing(oldBase, newBase, copySlots, heap) == heap

\* Copy the first copySlots slots of the allocation at oldBase to newBase.
CopySlots(oldBase, newBase, copySlots, heap) ==
  [slots |-> [k \in DOMAIN heap.slots |->
                IF k > newBase /\ k <= newBase + copySlots
                  THEN heap.slots[oldBase + (k - newBase)] ELSE heap.slots[k]],
   allocations |-> heap.allocations]

(***************************************************************************)
(* reallocVmHeapSlots: always moves.  The new allocation is made first, so *)
(* when it does not fit the old one is kept; then the common prefix is     *)
(* copied and the old allocation is zeroed and marked dead.                *)
(***************************************************************************)
ReallocVmHeapSlots(address, slotCount, heap) ==
  IF address = 0 THEN AllocateVmHeapSlots(slotCount, heap)
  ELSE IF slotCount = 0 THEN FreeVmHeapSlots(address, heap)
  ELSE IF ~Owned(address, heap) THEN Failed(heap)
  ELSE LET i == FirstAt(SlotIndex(address), heap)
           old == heap.allocations[i]
           fresh == AllocateVmHeapSlots(slotCount, heap)
           copySlots == IF old.slotCount < slotCount THEN old.slotCount ELSE slotCount
       IN IF ~fresh.ok THEN Failed(heap)
          ELSE Done(fresh.address,
                    Release(i, CopySlots(old.baseIndex, SlotIndex(fresh.address),
                                         copySlots, fresh.heap)))

-----------------------------------------------------------------------------
(***************************************************************************)
(* What the operations keep true of a heap.                                *)
(***************************************************************************)
EndOf(allocation) == allocation.baseIndex + allocation.slotCount

HeapType(h) ==
  /\ h \in [slots : Seq(Word), allocations : Seq(Allocation)]
  /\ Len(h.slots) <= MaxHeapSlots

\* The records lie in the vector from left to right without overlap.
Ordered(h) ==
  /\ \A i \in DOMAIN h.allocations : EndOf(h.allocations[i]) <= Len(h.slots)
  /\ \A i, j \in DOMAIN h.allocations :
       i < j => EndOf(h.allocations[i]) <= h.allocations[j].baseIndex

\* The slots of dead records are zero.
Scrubbed(h) ==
  \A i \in DOMAIN h.allocations :
    ~h.allocations[i].live =>
      \A k \in DOMAIN h.slots :
        h.allocations[i].baseIndex < k /\ k <= EndOf(h.allocations[i]) => h.slots[k] = 0
=============================================================================
