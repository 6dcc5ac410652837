------------------------ MODULE VmHeapHelpers_proofs ------------------------
(***************************************************************************)
(* Lemmas about the pure operations of VmHeapHelpers, for every heap size  *)
(* and tag: each takes a heap that is well formed, ordered and scrubbed to *)
(* such a heap.  The proofs about the heap, the interpreters and the       *)
(* inliner build on them.                                                  *)
(***************************************************************************)
EXTENDS VmHeapHelpers, TLAPS

HeapOK(h) == HeapType(h) /\ Ordered(h) /\ Scrubbed(h)

\* The new heap keeps the records of the old one, and revives none.
Keeps(h, g) ==
  \A i \in DOMAIN h.allocations :
    /\ i \in DOMAIN g.allocations
    /\ g.allocations[i].baseIndex = h.allocations[i].baseIndex
    /\ g.allocations[i].slotCount = h.allocations[i].slotCount
    /\ g.allocations[i].live => h.allocations[i].live

-----------------------------------------------------------------------------
\* An address made from a base is a word and gives the base back (HeapAddress
\* and SlotIndex are inverse).
LEMMA AddressRoundTrip ==
  ASSUME NEW b \in Nat, b < MaxHeapSlots
  PROVE  HeapAddress(b) \in Word /\ SlotIndex(HeapAddress(b)) = b
BY HeapAssumption, SMT DEF HeapAddress, SlotIndex, Word, WordLimit, SlotBytes

\* In an ordered heap the record found for a base is a record with that base
\* (the search loops of freeVmHeapSlots and reallocVmHeapSlots).
LEMMA FirstAtFinds ==
  ASSUME NEW h, HeapOK(h), NEW b \in Nat, HasBase(b, h)
  PROVE  /\ FirstAt(b, h) \in DOMAIN h.allocations
         /\ h.allocations[FirstAt(b, h)].baseIndex = b
<1>1. PICK i \in DOMAIN h.allocations : h.allocations[i].baseIndex = b
  BY DEF HasBase
<1>2. h.allocations \in Seq(Allocation)
  BY DEF HeapOK, HeapType
<1>3. ASSUME NEW j \in 1 .. (i - 1)
      PROVE  h.allocations[j].baseIndex # b
  <2>1. j \in DOMAIN h.allocations /\ j < i
    BY <1>1, <1>2, SMT
  <2>2. EndOf(h.allocations[j]) <= b
    BY <1>1, <2>1 DEF HeapOK, Ordered
  <2>3. h.allocations[j] \in Allocation
    BY <1>2, <2>1
  <2> QED BY <2>2, <2>3, SMT DEF EndOf, Allocation
<1> QED BY <1>1, <1>3 DEF FirstAt

-----------------------------------------------------------------------------
\* What allocating n slots in the heap h may answer.
Allocated(h, n, r) ==
  /\ HeapOK(r.heap)
  /\ Keeps(h, r.heap)
  /\ r.address \in Word
  /\ r.ok /\ n # 0 =>
       /\ r.address = HeapAddress(Len(h.slots))
       /\ Len(h.slots) < MaxHeapSlots
       /\ Len(r.heap.slots) = Len(h.slots) + n
       /\ Len(r.heap.allocations) = Len(h.allocations) + 1
       /\ \A i \in DOMAIN h.allocations : r.heap.allocations[i] = h.allocations[i]
       /\ r.heap.allocations[Len(h.allocations) + 1].live
       /\ r.heap.allocations[Len(h.allocations) + 1].baseIndex = Len(h.slots)
       /\ r.heap.allocations[Len(h.allocations) + 1].slotCount = n

\* allocateVmHeapSlots appends a zeroed live record, or changes nothing.
LEMMA AllocateOK ==
  ASSUME NEW h, HeapOK(h), NEW n \in Word
  PROVE  Allocated(h, n, AllocateVmHeapSlots(n, h))
<1> DEFINE r == AllocateVmHeapSlots(n, h)
           zeros == [i \in 1 .. n |-> 0]
           record == [baseIndex |-> Len(h.slots), slotCount |-> n, live |-> TRUE]
           g == [slots |-> h.slots \o zeros, allocations |-> Append(h.allocations, record)]
<1>1. /\ h.slots \in Seq(Word)
      /\ h.allocations \in Seq(Allocation)
      /\ Len(h.slots) <= MaxHeapSlots
      /\ n \in Nat
      /\ MaxHeapSlots \in Nat
      /\ 0 \in Word
  BY HeapAssumption, SMT DEF HeapOK, HeapType, Word, WordLimit
<1>2. CASE n = 0 \/ n > MaxHeapSlots - Len(h.slots) \/ Len(h.slots) > MaxAddressableIndex
  <2>1. r.heap = h /\ r.address = 0 /\ (n # 0 => ~r.ok)
    BY <1>2 DEF AllocateVmHeapSlots, TooLarge, Done, Failed
  <2>2. Keeps(h, h)
    BY DEF Keeps
  <2> QED BY <1>1, <2>1, <2>2 DEF Allocated
<1>3. CASE ~(n = 0 \/ n > MaxHeapSlots - Len(h.slots) \/ Len(h.slots) > MaxAddressableIndex)
  <2>1. r = Done(HeapAddress(Len(h.slots)), g)
    BY <1>3 DEF AllocateVmHeapSlots, TooLarge, NewRecord
  <2>2. r.ok /\ r.heap = g /\ r.address = HeapAddress(Len(h.slots))
    BY <2>1 DEF Done
  <2>3. /\ n > 0
        /\ Len(h.slots) \in Nat
        /\ Len(h.slots) + n <= MaxHeapSlots
        /\ Len(h.slots) < MaxHeapSlots
    BY <1>1, <1>3, SMT
  <2>4. record \in Allocation
    BY <2>3, <1>1 DEF Allocation
  <2>5. zeros \in Seq(Word) /\ Len(zeros) = n
    BY <1>1, SMT
  <2>6. /\ h.slots \o zeros \in Seq(Word)
        /\ Len(h.slots \o zeros) = Len(h.slots) + n
        /\ \A k \in DOMAIN h.slots : (h.slots \o zeros)[k] = h.slots[k]
    BY <1>1, <2>5, SMT
  <2>7. /\ g.allocations \in Seq(Allocation)
        /\ Len(g.allocations) = Len(h.allocations) + 1
        /\ \A i \in DOMAIN h.allocations : g.allocations[i] = h.allocations[i]
        /\ g.allocations[Len(h.allocations) + 1] = record
        /\ DOMAIN g.allocations = DOMAIN h.allocations \cup {Len(h.allocations) + 1}
    BY <1>1, <2>4, SMT
  <2>8. HeapType(g)
    BY <2>3, <2>6, <2>7 DEF HeapType
  <2>9. Ordered(g)
    <3>1. ASSUME NEW i \in DOMAIN g.allocations
          PROVE  EndOf(g.allocations[i]) <= Len(g.slots)
      <4>1. CASE i \in DOMAIN h.allocations
        <5>1. EndOf(h.allocations[i]) <= Len(h.slots)
          BY <4>1 DEF HeapOK, Ordered
        <5>2. h.allocations[i] \in Allocation
          BY <4>1, <1>1
        <5> QED BY <5>1, <5>2, <4>1, <2>3, <2>6, <2>7, <1>1, SMTT(30) DEF EndOf, Allocation
      <4>2. CASE i = Len(h.allocations) + 1
        BY <4>2, <2>6, <2>7, <1>1, SMT DEF EndOf
      <4> QED BY <4>1, <4>2, <2>7
    <3>2. ASSUME NEW i \in DOMAIN g.allocations, NEW j \in DOMAIN g.allocations, i < j
          PROVE  EndOf(g.allocations[i]) <= g.allocations[j].baseIndex
      <4>1. i \in DOMAIN h.allocations
        BY <3>2, <2>7, <1>1, SMT
      <4>2. CASE j \in DOMAIN h.allocations
        BY <3>2, <4>1, <4>2, <2>7 DEF HeapOK, Ordered
      <4>3. CASE j = Len(h.allocations) + 1
        BY <4>1, <4>3, <2>7 DEF HeapOK, Ordered
      <4> QED BY <4>2, <4>3, <2>7
    <3> QED BY <3>1, <3>2 DEF Ordered
  <2>10. Scrubbed(g)
    <3> SUFFICES ASSUME NEW i \in DOMAIN g.allocations, ~g.allocations[i].live,
                        NEW k \in DOMAIN g.slots,
                        g.allocations[i].baseIndex < k, k <= EndOf(g.allocations[i])
                 PROVE  g.slots[k] = 0
      BY DEF Scrubbed
    <3>1. i \in DOMAIN h.allocations /\ g.allocations[i] = h.allocations[i]
      BY <2>7
    <3>2. EndOf(h.allocations[i]) <= Len(h.slots) /\ h.allocations[i] \in Allocation
      BY <3>1, <1>1 DEF HeapOK, Ordered
    <3>3. k \in DOMAIN h.slots
      BY <3>1, <3>2, <2>6, <1>1, SMTT(30) DEF EndOf, Allocation
    <3>4. h.slots[k] = 0
      BY <3>1, <3>3 DEF HeapOK, Scrubbed
    <3> QED BY <3>3, <3>4, <2>6
  <2>11. Keeps(h, g)
    BY <2>7 DEF Keeps
  <2>12. HeapAddress(Len(h.slots)) \in Word
    BY <2>3, AddressRoundTrip
  <2>13. /\ Len(g.slots) = Len(h.slots) + n
         /\ g.allocations[Len(h.allocations) + 1].live
         /\ g.allocations[Len(h.allocations) + 1].baseIndex = Len(h.slots)
         /\ g.allocations[Len(h.allocations) + 1].slotCount = n
    <3>1. Len(g.slots) = Len(h.slots) + n
      BY <2>6
    <3>2. record.live /\ record.baseIndex = Len(h.slots) /\ record.slotCount = n
      OBVIOUS
    <3> HIDE DEF g, record
    <3> QED BY <3>1, <3>2, <2>7
  <2>14. HeapOK(g)
    BY <2>8, <2>9, <2>10 DEF HeapOK
  <2> HIDE DEF g, record, zeros
  <2> QED BY <2>2, <2>3, <2>7, <2>11, <2>12, <2>13, <2>14 DEF Allocated
<1> QED BY <1>2, <1>3

\* Zeroing and killing the record at i (the ends of freeVmHeapSlots and
\* reallocVmHeapSlots).
LEMMA ReleaseOK ==
  ASSUME NEW h, HeapOK(h), NEW i \in DOMAIN h.allocations
  PROVE  HeapOK(Release(i, h)) /\ Keeps(h, Release(i, h))
<1> DEFINE dead == h.allocations[i]
           g == Release(i, h)
<1>1. /\ h.slots \in Seq(Word)
      /\ h.allocations \in Seq(Allocation)
      /\ Len(h.slots) <= MaxHeapSlots
      /\ 0 \in Word
  BY HeapAssumption, SMT DEF HeapOK, HeapType, Word, WordLimit
<1>2. dead \in Allocation
  BY <1>1
<1>3. /\ g.slots \in Seq(Word)
      /\ Len(g.slots) = Len(h.slots)
      /\ DOMAIN g.slots = DOMAIN h.slots
  BY <1>1, <1>2, SMT DEF Release
<1>4. \A k \in DOMAIN h.slots :
        g.slots[k] = IF k > dead.baseIndex /\ k <= EndOf(dead) THEN 0 ELSE h.slots[k]
  BY DEF Release, EndOf
<1>5. /\ g.allocations \in Seq(Allocation)
      /\ DOMAIN g.allocations = DOMAIN h.allocations
      /\ \A j \in DOMAIN h.allocations :
           /\ g.allocations[j].baseIndex = h.allocations[j].baseIndex
           /\ g.allocations[j].slotCount = h.allocations[j].slotCount
           /\ j # i => g.allocations[j] = h.allocations[j]
      /\ ~g.allocations[i].live
  <2>1. g.allocations = [h.allocations EXCEPT ![i].live = FALSE]
    BY DEF Release
  <2>2. [dead EXCEPT !.live = FALSE] \in Allocation
    BY <1>2 DEF Allocation
  <2>3. \A j \in DOMAIN h.allocations : h.allocations[j] \in Allocation
    BY <1>1
  <2>4. g.allocations \in Seq(Allocation) /\ DOMAIN g.allocations = DOMAIN h.allocations
    BY <2>1, <2>2, <1>1, SMT
  <2>5. g.allocations[i] = [dead EXCEPT !.live = FALSE]
    BY <2>1
  <2>6. /\ g.allocations[i].baseIndex = dead.baseIndex
        /\ g.allocations[i].slotCount = dead.slotCount
        /\ ~g.allocations[i].live
    BY <2>5, <1>2 DEF Allocation
  <2>7. \A j \in DOMAIN h.allocations : j # i => g.allocations[j] = h.allocations[j]
    BY <2>1
  <2> HIDE DEF g
  <2> QED BY <2>4, <2>6, <2>7
<1>6. g = [slots |-> g.slots, allocations |-> g.allocations]
  BY DEF Release
<1> HIDE DEF g
<1>7. \A j \in DOMAIN h.allocations : EndOf(g.allocations[j]) = EndOf(h.allocations[j])
  BY <1>5 DEF EndOf
<1>8. HeapType(g)
  BY <1>1, <1>3, <1>5, <1>6 DEF HeapType
<1>9. Ordered(g)
  BY <1>3, <1>5, <1>7 DEF HeapOK, Ordered
<1>10. Scrubbed(g)
  <2> SUFFICES ASSUME NEW j \in DOMAIN g.allocations, ~g.allocations[j].live,
                      NEW k \in DOMAIN g.slots,
                      g.allocations[j].baseIndex < k, k <= EndOf(g.allocations[j])
               PROVE  g.slots[k] = 0
    BY DEF Scrubbed
  <2>1. CASE j = i
    BY <2>1, <1>3, <1>4, <1>5, <1>7
  <2>2. CASE j # i
    <3>1. ~h.allocations[j].live
      BY <2>2, <1>5
    <3>2. h.slots[k] = 0
      BY <3>1, <1>3, <1>5, <1>7 DEF HeapOK, Scrubbed
    <3> QED BY <3>2, <1>3, <1>4
  <2> QED BY <2>1, <2>2
<1>11. Keeps(h, g)
  BY <1>5 DEF Keeps
<1> QED BY <1>8, <1>9, <1>10, <1>11 DEF HeapOK, g

-----------------------------------------------------------------------------
\* Writing a slot that belongs to a live record (StoreIndirect).
LEMMA StoreOK ==
  ASSUME NEW h, HeapOK(h), NEW slots \in Seq(Word), Len(slots) = Len(h.slots),
         NEW i \in DOMAIN h.allocations, h.allocations[i].live,
         \A k \in DOMAIN h.slots :
           k <= h.allocations[i].baseIndex \/ k > EndOf(h.allocations[i])
             => slots[k] = h.slots[k]
  PROVE  LET g == [slots |-> slots, allocations |-> h.allocations]
         IN HeapOK(g) /\ Keeps(h, g)
<1> DEFINE g == [slots |-> slots, allocations |-> h.allocations]
<1>1. h.allocations \in Seq(Allocation) /\ h.slots \in Seq(Word)
  BY DEF HeapOK, HeapType
<1>2. HeapType(g)
  BY <1>1 DEF HeapOK, HeapType
<1>3. Ordered(g)
  BY DEF HeapOK, Ordered
<1>4. Scrubbed(g)
  <2> SUFFICES ASSUME NEW j \in DOMAIN h.allocations, ~h.allocations[j].live,
                      NEW k \in DOMAIN slots,
                      h.allocations[j].baseIndex < k, k <= EndOf(h.allocations[j])
               PROVE  slots[k] = 0
    BY DEF Scrubbed
  <2>1. k \in DOMAIN h.slots
    BY <1>1, SMT
  <2>2. h.slots[k] = 0
    BY <2>1 DEF HeapOK, Scrubbed
  <2>3. /\ h.allocations[i] \in Allocation
        /\ h.allocations[j] \in Allocation
        /\ i \in Int /\ j \in Int /\ k \in Int /\ i # j
    BY <1>1, <2>1, SMT
  <2>4. i < j => EndOf(h.allocations[i]) <= h.allocations[j].baseIndex
    BY DEF HeapOK, Ordered
  <2>5. j < i => EndOf(h.allocations[j]) <= h.allocations[i].baseIndex
    BY DEF HeapOK, Ordered
  <2>6. k <= h.allocations[i].baseIndex \/ k > EndOf(h.allocations[i])
    BY <2>3, <2>4, <2>5, SMT DEF EndOf, Allocation
  <2> QED BY <2>1, <2>2, <2>6
<1>5. Keeps(h, g)
  BY DEF Keeps
<1> QED BY <1>2, <1>3, <1>4, <1>5 DEF HeapOK

-----------------------------------------------------------------------------
\* A heap operation keeps the heap well formed and its records, and answers a
\* word.
OperationOK(h, r) == HeapOK(r.heap) /\ Keeps(h, r.heap) /\ r.address \in Word

\* An operation that fails leaves the heap as it was.
LEMMA UnchangedOK ==
  ASSUME NEW h, HeapOK(h), NEW r, r.heap = h, r.address = 0
  PROVE  OperationOK(h, r)
<1>1. Keeps(h, h)
  BY DEF Keeps
<1>2. 0 \in Word
  BY HeapAssumption, SMT DEF Word, WordLimit
<1> QED BY <1>1, <1>2 DEF OperationOK

\* Records kept by two operations in turn are kept by both.
LEMMA KeepsTransitive ==
  ASSUME NEW f, NEW g, NEW h, Keeps(f, g), Keeps(g, h)
  PROVE  Keeps(f, h)
BY DEF Keeps

\* An address that owns an allocation names a live record of the heap.
LEMMA OwnedRecord ==
  ASSUME NEW h, HeapOK(h), NEW a \in Word, Owned(a, h)
  PROVE  /\ SlotIndex(a) \in Nat
         /\ FirstAt(SlotIndex(a), h) \in DOMAIN h.allocations
         /\ h.allocations[FirstAt(SlotIndex(a), h)].baseIndex = SlotIndex(a)
<1>1. SlotIndex(a) \in Nat
  BY HeapAssumption, SMT DEF Owned, IsVmHeapAddress, SlotIndex, Word, WordLimit, SlotBytes
<1>2. HasBase(SlotIndex(a), h)
  BY DEF Owned
<1> QED BY <1>1, <1>2, FirstAtFinds

\* freeVmHeapSlots.
LEMMA FreeOK ==
  ASSUME NEW h, HeapOK(h), NEW a \in Word
  PROVE  OperationOK(h, FreeVmHeapSlots(a, h))
<1>1. CASE a = 0 \/ ~Owned(a, h)
  BY <1>1, UnchangedOK DEF FreeVmHeapSlots, Done, Failed
<1>2. CASE a # 0 /\ Owned(a, h)
  <2> DEFINE i == FirstAt(SlotIndex(a), h)
  <2>1. FreeVmHeapSlots(a, h) = Done(0, Release(i, h))
    BY <1>2 DEF FreeVmHeapSlots
  <2>2. HeapOK(Release(i, h)) /\ Keeps(h, Release(i, h))
    BY <1>2, OwnedRecord, ReleaseOK
  <2>3. 0 \in Word
    BY HeapAssumption, SMT DEF Word, WordLimit
  <2> HIDE DEF i
  <2> QED BY <2>1, <2>2, <2>3 DEF Done, OperationOK
<1> QED BY <1>1, <1>2

\* Copying a record's prefix into a live record that lies to its right (the
\* copy loop of reallocVmHeapSlots).
LEMMA CopyOK ==
  ASSUME NEW h, HeapOK(h),
         NEW i \in DOMAIN h.allocations, NEW j \in DOMAIN h.allocations,
         h.allocations[j].live, NEW c \in Nat,
         c <= h.allocations[i].slotCount, c <= h.allocations[j].slotCount
  PROVE  LET g == CopySlots(h.allocations[i].baseIndex, h.allocations[j].baseIndex, c, h)
         IN HeapOK(g) /\ Keeps(h, g)
<1> DEFINE old == h.allocations[i]
           new == h.allocations[j]
           g == CopySlots(old.baseIndex, new.baseIndex, c, h)
           slots == [k \in DOMAIN h.slots |->
                       IF k > new.baseIndex /\ k <= new.baseIndex + c
                         THEN h.slots[old.baseIndex + (k - new.baseIndex)] ELSE h.slots[k]]
<1>1. /\ h.slots \in Seq(Word)
      /\ h.allocations \in Seq(Allocation)
      /\ h = [slots |-> h.slots, allocations |-> h.allocations]
      /\ old \in Allocation /\ new \in Allocation
  <2>1. /\ h \in [slots : Seq(Word), allocations : Seq(Allocation)]
        /\ h.allocations \in Seq(Allocation)
    BY DEF HeapOK, HeapType
  <2> QED BY <2>1
<1>2. /\ old.baseIndex + old.slotCount <= Len(h.slots)
      /\ old.baseIndex \in Nat /\ old.slotCount \in Nat
      /\ new.baseIndex \in Nat /\ new.slotCount \in Nat
      /\ Len(h.slots) \in Nat
      /\ DOMAIN h.slots = 1 .. Len(h.slots)
  BY <1>1 DEF HeapOK, Ordered, EndOf, Allocation
<1>3. g = [slots |-> slots, allocations |-> h.allocations]
  BY DEF CopySlots
<1>4. slots \in Seq(Word) /\ Len(slots) = Len(h.slots)
  <2>1. ASSUME NEW k \in DOMAIN h.slots
        PROVE  slots[k] \in Word
    <3>1. CASE k > new.baseIndex /\ k <= new.baseIndex + c
      <4> HIDE DEF old, new
      <4>1. old.baseIndex + (k - new.baseIndex) \in DOMAIN h.slots
        <5>1. k \in Int /\ k - new.baseIndex >= 1 /\ k - new.baseIndex <= old.slotCount
          BY <3>1, <1>2, SMT DEF old
        <5> QED BY <5>1, <1>2, SMTT(30)
      <4>2. slots[k] = h.slots[old.baseIndex + (k - new.baseIndex)]
        BY <3>1
      <4> HIDE DEF slots
      <4> QED BY <4>1, <4>2, <1>1
    <3>2. CASE ~(k > new.baseIndex /\ k <= new.baseIndex + c)
      BY <3>2, <1>1
    <3> QED BY <3>1, <3>2
  <2>2. DOMAIN slots = 1 .. Len(h.slots) /\ Len(h.slots) \in Nat
    BY <1>1, SMT
  <2>3. slots \in [1 .. Len(h.slots) -> Word]
    BY <2>1, <2>2, <1>2
  <2> HIDE DEF slots
  <2> QED BY <2>2, <2>3, SMT
<1>5. \A k \in DOMAIN h.slots :
        k <= new.baseIndex \/ k > EndOf(new) => slots[k] = h.slots[k]
  <2> SUFFICES ASSUME NEW k \in DOMAIN h.slots, k <= new.baseIndex \/ k > EndOf(new)
               PROVE  ~(k > new.baseIndex /\ k <= new.baseIndex + c)
    OBVIOUS
  <2>1. k \in Int
    BY <1>1, SMT
  <2> QED BY <2>1, <1>1, SMTT(30) DEF EndOf, Allocation
<1> HIDE DEF slots, g
<1>6. LET f == [slots |-> slots, allocations |-> h.allocations] IN HeapOK(f) /\ Keeps(h, f)
  BY <1>4, <1>5, StoreOK
<1> QED BY <1>3, <1>6 DEF g

\* reallocVmHeapSlots.
LEMMA ReallocOK ==
  ASSUME NEW h, HeapOK(h), NEW a \in Word, NEW n \in Word
  PROVE  OperationOK(h, ReallocVmHeapSlots(a, n, h))
<1> DEFINE i == FirstAt(SlotIndex(a), h)
           old == h.allocations[i]
           fresh == AllocateVmHeapSlots(n, h)
           c == IF old.slotCount < n THEN old.slotCount ELSE n
           copied == CopySlots(old.baseIndex, SlotIndex(fresh.address), c, fresh.heap)
<1>0. n \in Nat
  BY HeapAssumption, SMT DEF Word, WordLimit
<1>1. CASE a = 0
  <2>1. ReallocVmHeapSlots(a, n, h) = fresh
    BY <1>1 DEF ReallocVmHeapSlots
  <2>2. Allocated(h, n, fresh)
    BY AllocateOK
  <2> QED BY <2>1, <2>2 DEF Allocated, OperationOK
<1>2. CASE a # 0 /\ n = 0
  BY <1>2, FreeOK DEF ReallocVmHeapSlots
<1>3. CASE a # 0 /\ n # 0 /\ (~Owned(a, h) \/ ~fresh.ok)
  BY <1>3, UnchangedOK DEF ReallocVmHeapSlots, Failed
<1>4. CASE a # 0 /\ n # 0 /\ Owned(a, h) /\ fresh.ok
  <2>1. ReallocVmHeapSlots(a, n, h) = Done(fresh.address, Release(i, copied))
    BY <1>4 DEF ReallocVmHeapSlots
  <2>2. i \in DOMAIN h.allocations /\ old \in Allocation
    BY <1>4, OwnedRecord DEF HeapOK, HeapType
  <2>3. Allocated(h, n, fresh)
    BY AllocateOK
  <2> DEFINE j == Len(h.allocations) + 1
             f == fresh.heap
  <2>4. /\ HeapOK(f)
        /\ Keeps(h, f)
        /\ fresh.address \in Word
        /\ fresh.address = HeapAddress(Len(h.slots))
        /\ Len(h.slots) < MaxHeapSlots
        /\ Len(f.allocations) = Len(h.allocations) + 1
        /\ f.allocations[i] = old
        /\ f.allocations[j].live
        /\ f.allocations[j].baseIndex = Len(h.slots)
        /\ f.allocations[j].slotCount = n
    BY <1>4, <2>2, <2>3 DEF Allocated
  <2>5. /\ i \in DOMAIN f.allocations /\ j \in DOMAIN f.allocations
        /\ Len(h.slots) \in Nat
    <3>1. f.allocations \in Seq(Allocation) /\ h.allocations \in Seq(Allocation)
             /\ h.slots \in Seq(Word)
      BY <2>4 DEF HeapOK, HeapType
    <3> QED BY <3>1, <2>2, <2>4, SMT
  <2>6. SlotIndex(fresh.address) = f.allocations[j].baseIndex
    BY <2>4, <2>5, AddressRoundTrip
  <2>7. c \in Nat /\ c <= f.allocations[i].slotCount /\ c <= f.allocations[j].slotCount
    BY <1>0, <2>2, <2>4, SMT DEF Allocation
  <2>8. copied = CopySlots(f.allocations[i].baseIndex, f.allocations[j].baseIndex, c, f)
    BY <2>4, <2>6
  <2> HIDE DEF i, old, fresh, c, copied, j, f
  <2>9. HeapOK(copied) /\ Keeps(f, copied)
    BY <2>4, <2>5, <2>7, <2>8, CopyOK
  <2>10. i \in DOMAIN copied.allocations
    BY <2>5, <2>9 DEF Keeps
  <2>11. HeapOK(Release(i, copied)) /\ Keeps(copied, Release(i, copied))
    BY <2>9, <2>10, ReleaseOK
  <2>12. Keeps(h, Release(i, copied))
    BY <2>4, <2>9, <2>11, KeepsTransitive
  <2> QED BY <2>1, <2>4, <2>11, <2>12 DEF Done, OperationOK
<1> QED BY <1>1, <1>2, <1>3, <1>4

-----------------------------------------------------------------------------
(***************************************************************************)
(* What an interpreter's indirect loads and stores rely on.                *)
(***************************************************************************)
\* Words are bounded natural numbers, whatever the tag.
LEMMA Words ==
  /\ WordLimit \in Nat \ {0}
  /\ Word = 0 .. (WordLimit - 1)
  /\ 0 \in Word
  /\ \A w \in Word : w \in Nat
BY HeapAssumption, SMT DEF Word, WordLimit

\* The heap a run starts with is in order.
LEMMA EmptyHeapOK == HeapOK(EmptyHeap)
<1>1. HeapType(EmptyHeap)
  BY HeapAssumption, SMT DEF HeapType, EmptyHeap
<1>2. Ordered(EmptyHeap) /\ Scrubbed(EmptyHeap)
  BY SMT DEF Ordered, Scrubbed, EmptyHeap
<1> QED BY <1>1, <1>2 DEF HeapOK

\* A store through an indirect address reaches a slot of a live record.
LEMMA HeapSlotType ==
  ASSUME NEW h, HeapOK(h), NEW a \in Word, NEW n \in Nat,
         ResolveIndirectAddress(a, n, h).ok
  PROVE  LET slot == ResolveIndirectAddress(a, n, h) IN
         \/ /\ slot.space = "heap"
            /\ slot.index \in 1 .. Len(h.slots)
            /\ \E i \in DOMAIN h.allocations : Covers(h.allocations[i], slot.index - 1)
         \/ slot.space = "local" /\ slot.index \in 1 .. n
<1> DEFINE slot == ResolveIndirectAddress(a, n, h)
           index == SlotIndex(a)
           local == a \div SlotBytes
<1>1. CASE /\ a % SlotBytes = 0 /\ IsVmHeapAddress(a)
           /\ index < Len(h.slots)
           /\ \E i \in DOMAIN h.allocations : Covers(h.allocations[i], index)
  <2>1. slot.space = "heap" /\ slot.index = index + 1
    BY <1>1 DEF ResolveIndirectAddress
  <2>2. index \in Nat
    BY <1>1, HeapAssumption, SMT DEF IsVmHeapAddress, SlotIndex, Word, WordLimit, SlotBytes
  <2>3. Len(h.slots) \in Nat
    BY DEF HeapOK, HeapType
  <2> HIDE DEF slot, index
  <2>4. slot.index \in 1 .. Len(h.slots) /\ slot.index - 1 = index
    BY <1>1, <2>1, <2>2, <2>3, SMT
  <2> QED BY <1>1, <2>1, <2>4 DEF slot, index
<1>2. CASE ~(/\ a % SlotBytes = 0 /\ IsVmHeapAddress(a)
             /\ index < Len(h.slots)
             /\ \E i \in DOMAIN h.allocations : Covers(h.allocations[i], index))
  <2>1. /\ a % SlotBytes = 0 /\ ~IsVmHeapAddress(a) /\ local < n
        /\ slot.space = "local" /\ slot.index = local + 1
    BY <1>2 DEF ResolveIndirectAddress
  <2>2. local \in Nat
    BY Words, SMT DEF SlotBytes
  <2> HIDE DEF slot, local
  <2>3. slot.index \in 1 .. n
    BY <2>1, <2>2, SMT
  <2> QED BY <2>1, <2>3 DEF slot
<1> QED BY <1>1, <1>2

\* Storing a word in a slot leaves a heap.
LEMMA StoreSlotOK ==
  ASSUME NEW h, HeapOK(h), NEW at \in 1 .. Len(h.slots), NEW word \in Word,
         \E i \in DOMAIN h.allocations : Covers(h.allocations[i], at - 1)
  PROVE  HeapOK([h EXCEPT !.slots[at] = word])
<1>1. /\ h.slots \in Seq(Word) /\ h.allocations \in Seq(Allocation)
      /\ h \in [slots : Seq(Word), allocations : Seq(Allocation)]
  BY DEF HeapOK, HeapType
<1>2. PICK i \in DOMAIN h.allocations : Covers(h.allocations[i], at - 1)
  OBVIOUS
<1> DEFINE slots == [h.slots EXCEPT ![at] = word]
<1>3. slots \in Seq(Word) /\ Len(slots) = Len(h.slots)
  BY <1>1, SMT
<1>4. ASSUME NEW k \in DOMAIN h.slots,
             k <= h.allocations[i].baseIndex \/ k > EndOf(h.allocations[i])
      PROVE  slots[k] = h.slots[k]
  <2>1. h.allocations[i] \in Allocation /\ k \in Int /\ at \in Int
    BY <1>1, SMT
  <2>2. k # at
    BY <1>2, <1>4, <2>1, SMT DEF Covers, EndOf, Allocation
  <2> QED BY <2>2
<1>5. h.allocations[i].live
  BY <1>2 DEF Covers
<1>6. [h EXCEPT !.slots[at] = word] = [slots |-> slots, allocations |-> h.allocations]
  <2>1. [h EXCEPT !.slots[at] = word] = [h EXCEPT !.slots = slots]
    OBVIOUS
  <2> HIDE DEF slots
  <2>2. [h EXCEPT !.slots = slots] = [slots |-> slots, allocations |-> h.allocations]
    BY <1>1
  <2> QED BY <2>1, <2>2
<1> HIDE DEF slots
<1>7. HeapOK([slots |-> slots, allocations |-> h.allocations])
  BY <1>3, <1>4, <1>5, StoreOK
<1> QED BY <1>6, <1>7
=============================================================================
