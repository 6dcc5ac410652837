---------------------------- MODULE VmHeap_proofs ----------------------------
(***************************************************************************)
(* The heap invariants for every heap size, tag and program, from the      *)
(* lemmas about the heap's operations in VmHeapHelpers_proofs.             *)
(***************************************************************************)
EXTENDS VmHeap, VmHeapHelpers_proofs

\* What the program's calls keep true of the heap and of the latest reply.
Inv == HeapOK(heap) /\ reply \in [op : Ops, ok : BOOLEAN, value : Word]

\* The empty heap.
LEMMA InitInv == Init => Inv
<1> SUFFICES ASSUME Init PROVE Inv
  OBVIOUS
<1>1. 0 \in Word /\ MaxHeapSlots \in Nat
  BY HeapAssumption, SMT DEF Word, WordLimit
<1>2. heapSlots = <<>> /\ heapAllocations = <<>>
  BY DEF Init
<1>3. HeapType(heap)
  BY <1>1, <1>2, SMT DEF HeapType, heap
<1>4. Ordered(heap) /\ Scrubbed(heap)
  BY <1>2, SMT DEF Ordered, Scrubbed, heap
<1> QED BY <1>1, <1>3, <1>4 DEF Init, Inv, HeapOK, Ops

\* Applying the answer of an operation that is OK keeps the invariant.
LEMMA ApplyInv ==
  ASSUME NEW op \in Ops, NEW r, OperationOK(heap, r), r.ok \in BOOLEAN, Apply(op, r), Inv
  PROVE  Inv' /\ Keeps(heap, heap')
<1>1. HeapOK(r.heap) /\ Keeps(heap, r.heap) /\ r.address \in Word
  BY DEF OperationOK
<1>2. r.heap \in [slots : Seq(Word), allocations : Seq(Allocation)]
  BY <1>1 DEF HeapOK, HeapType
<1>3. heap' = r.heap
  BY <1>2 DEF Apply, heap
<1> QED BY <1>1, <1>3 DEF Apply, Inv

\* An operation succeeds or it does not.
LEMMA OkBoolean ==
  ASSUME NEW h, NEW a, NEW n
  PROVE  /\ AllocateVmHeapSlots(n, h).ok \in BOOLEAN
         /\ FreeVmHeapSlots(a, h).ok \in BOOLEAN
         /\ ReallocVmHeapSlots(a, n, h).ok \in BOOLEAN
<1>1. /\ AllocateVmHeapSlots(n, h).ok \in BOOLEAN
      /\ FreeVmHeapSlots(a, h).ok \in BOOLEAN
  BY DEF AllocateVmHeapSlots, FreeVmHeapSlots, Done, Failed
<1>2. ReallocVmHeapSlots(a, n, h).ok \in BOOLEAN
  BY <1>1 DEF ReallocVmHeapSlots, Done, Failed
<1> QED BY <1>1, <1>2

\* A store reaches a slot of one live record, or nothing.
LEMMA StoreInv ==
  ASSUME NEW a \in Word, NEW v \in Word, StoreIndirect(a, v), Inv
  PROVE  Inv' /\ Keeps(heap, heap')
<1> DEFINE slot == ResolveIndirectAddress(a, 0, heap)
           at == SlotIndex(a)
<1>1. /\ heapSlots \in Seq(Word) /\ heapAllocations \in Seq(Allocation)
      /\ HeapOK(heap)
      /\ heap.slots = heapSlots /\ heap.allocations = heapAllocations
  BY DEF Inv, HeapOK, HeapType, heap
<1>2. heap' = [slots |-> heapSlots', allocations |-> heapAllocations]
  BY DEF StoreIndirect, heap
<1>3. 0 \in Word /\ v \in Word
  BY HeapAssumption, SMT DEF Word, WordLimit
<1>4. slot.ok \in BOOLEAN
  BY DEF ResolveIndirectAddress
<1>5. reply' \in [op : Ops, ok : BOOLEAN, value : Word]
  BY <1>3, <1>4 DEF StoreIndirect, Ops
<1>6. CASE ~slot.ok
  <2>1. heapSlots' = heapSlots /\ heapAllocations' = heapAllocations
    BY <1>6 DEF StoreIndirect
  <2>2. heap' = heap
    BY <2>1 DEF heap
  <2> QED BY <2>2, <1>1, <1>5 DEF Inv, Keeps
<1>7. CASE slot.ok
  <2>1. /\ IsVmHeapAddress(a) /\ at < Len(heapSlots)
        /\ \E i \in DOMAIN heapAllocations : Covers(heapAllocations[i], at)
        /\ slot.index = at + 1
    <3>1. ~(a % SlotBytes = 0 /\ ~IsVmHeapAddress(a) /\ a \div SlotBytes < 0)
      BY HeapAssumption, SMT DEF Word, WordLimit, SlotBytes
    <3> QED BY <3>1, <1>1, <1>7 DEF ResolveIndirectAddress
  <2>2. PICK i \in DOMAIN heapAllocations : Covers(heapAllocations[i], at)
    BY <2>1
  <2>3. at \in Nat
    BY <2>1, HeapAssumption, SMT DEF IsVmHeapAddress, SlotIndex, Word, WordLimit, SlotBytes
  <2>4. heapSlots' = [heapSlots EXCEPT ![at + 1] = v]
    BY <1>7, <2>1 DEF StoreIndirect
  <2> HIDE DEF at
  <2>5. heapSlots' \in Seq(Word) /\ Len(heapSlots') = Len(heapSlots)
    BY <1>1, <1>3, <2>1, <2>3, <2>4, SMT
  <2>6. ASSUME NEW k \in DOMAIN heapSlots,
               k <= heapAllocations[i].baseIndex \/ k > EndOf(heapAllocations[i])
        PROVE  heapSlots'[k] = heapSlots[k]
    <3>1. heapAllocations[i] \in Allocation /\ k \in Int
      BY <1>1, SMT
    <3>2. k # at + 1
      BY <2>2, <2>3, <2>6, <3>1, SMT DEF Covers, EndOf, Allocation
    <3> QED BY <3>2, <2>4
  <2>7. heapAllocations[i].live
    BY <2>2 DEF Covers
  <2>8. HeapOK(heap') /\ Keeps(heap, heap')
    BY <1>1, <1>2, <2>5, <2>6, <2>7, StoreOK
  <2> QED BY <2>8, <1>5 DEF Inv
<1> QED BY <1>6, <1>7

\* A load changes nothing but the reply, which is the word loaded.
LEMMA LoadInv ==
  ASSUME NEW a \in Word, LoadIndirect(a), Inv
  PROVE  Inv' /\ Keeps(heap, heap')
<1> DEFINE slot == ResolveIndirectAddress(a, 0, heap)
<1>1. heap' = heap /\ Keeps(heap, heap)
  BY DEF LoadIndirect, heap, Keeps
<1>2. heapSlots \in Seq(Word) /\ heap.slots = heapSlots
  BY DEF Inv, HeapOK, HeapType, heap
<1>3. slot.ok \in BOOLEAN
  BY DEF ResolveIndirectAddress
<1>4. slot.ok => heapSlots[slot.index] \in Word
  <2> SUFFICES ASSUME slot.ok PROVE slot.index \in 1 .. Len(heapSlots)
    BY <1>2
  <2>1. ~(a % SlotBytes = 0 /\ ~IsVmHeapAddress(a) /\ a \div SlotBytes < 0)
    BY HeapAssumption, SMT DEF Word, WordLimit, SlotBytes
  <2>2. IsVmHeapAddress(a) /\ SlotIndex(a) < Len(heapSlots) /\ slot.index = SlotIndex(a) + 1
    BY <2>1, <1>2 DEF ResolveIndirectAddress
  <2>3. SlotIndex(a) \in Nat
    BY <2>2, HeapAssumption, SMT DEF IsVmHeapAddress, SlotIndex, Word, WordLimit, SlotBytes
  <2> QED BY <2>2, <2>3, <1>2, SMT
<1>5. 0 \in Word
  BY HeapAssumption, SMT DEF Word, WordLimit
<1>6. reply' \in [op : Ops, ok : BOOLEAN, value : Word]
  BY <1>3, <1>4, <1>5 DEF LoadIndirect, Ops
<1> QED BY <1>1, <1>6 DEF Inv

\* Every opcode keeps the invariant.
LEMMA NextInv ==
  ASSUME Inv, [Next]_vars
  PROVE  Inv' /\ Keeps(heap, heap')
<1>0. HeapOK(heap) /\ {"alloc", "free", "realloc"} \subseteq Ops
  BY DEF Inv, Ops
<1>1. ASSUME NEW n \in SlotCounts, HeapAlloc(n)
      PROVE  Inv' /\ Keeps(heap, heap')
  <2>1. OperationOK(heap, AllocateVmHeapSlots(n, heap))
    BY <1>0, ProgramWords, AllocateOK DEF OperationOK, Allocated
  <2> QED BY <1>1, <2>1, <1>0, OkBoolean, ApplyInv DEF HeapAlloc
<1>2. ASSUME NEW a \in Addresses, HeapFree(a)
      PROVE  Inv' /\ Keeps(heap, heap')
  <2>1. OperationOK(heap, FreeVmHeapSlots(a, heap))
    BY <1>0, ProgramWords, FreeOK
  <2> QED BY <1>2, <2>1, <1>0, OkBoolean, ApplyInv DEF HeapFree
<1>3. ASSUME NEW a \in Addresses, NEW n \in SlotCounts, HeapRealloc(a, n)
      PROVE  Inv' /\ Keeps(heap, heap')
  <2>1. OperationOK(heap, ReallocVmHeapSlots(a, n, heap))
    BY <1>0, ProgramWords, ReallocOK
  <2> QED BY <1>3, <2>1, <1>0, OkBoolean, ApplyInv DEF HeapRealloc
<1>4. ASSUME NEW a \in Addresses, LoadIndirect(a)
      PROVE  Inv' /\ Keeps(heap, heap')
  BY <1>4, ProgramWords, LoadInv
<1>5. ASSUME NEW a \in Addresses, NEW v \in Values, StoreIndirect(a, v)
      PROVE  Inv' /\ Keeps(heap, heap')
  BY <1>5, ProgramWords, StoreInv
<1>6. CASE UNCHANGED vars
  BY <1>6 DEF vars, heap, Keeps, Inv
<1> QED BY <1>1, <1>2, <1>3, <1>4, <1>5, <1>6 DEF Next

-----------------------------------------------------------------------------
\* Whatever a program allocates, frees, resizes and stores, the heap's vectors
\* stay well formed and within the host's limit (VmHeapHelpers.cpp).
THEOREM TypeCorrect == Spec => []TypeOK
<1>1. Inv => TypeOK
  BY DEF Inv, HeapOK, TypeOK
<1> QED BY <1>1, InitInv, NextInv, PTL DEF Spec

\* Records never overlap, so freeVmHeapSlots and reallocVmHeapSlots, which take
\* the first record with the base they are given, take the only one.
THEOREM RecordsOrdered == Spec => []AllocationsOrdered
<1>1. Inv => AllocationsOrdered
  BY DEF Inv, HeapOK, AllocationsOrdered
<1> QED BY <1>1, InitInv, NextInv, PTL DEF Spec

\* No two live allocations share a slot.
THEOREM NoSharedSlot == Spec => []LiveAllocationsDisjoint
<1>1. Inv => LiveAllocationsDisjoint
  <2> SUFFICES ASSUME Inv, NEW i \in DOMAIN heapAllocations, NEW j \in DOMAIN heapAllocations,
                      NEW k \in 0 .. (Len(heapSlots) - 1),
                      Covers(heapAllocations[i], k), Covers(heapAllocations[j], k),
                      i # j
               PROVE  FALSE
    BY DEF LiveAllocationsDisjoint
  <2>1. /\ heapAllocations \in Seq(Allocation)
        /\ heapSlots \in Seq(Word)
        /\ heap.allocations = heapAllocations
    BY DEF Inv, HeapOK, HeapType, heap
  <2>2. /\ i < j => EndOf(heapAllocations[i]) <= heapAllocations[j].baseIndex
        /\ j < i => EndOf(heapAllocations[j]) <= heapAllocations[i].baseIndex
    BY <2>1 DEF Inv, HeapOK, Ordered
  <2>3. /\ heapAllocations[i] \in Allocation /\ heapAllocations[j] \in Allocation
        /\ i \in Int /\ j \in Int /\ k \in Int
    BY <2>1, SMT
  <2> QED BY <2>2, <2>3, SMT DEF Covers, EndOf, Allocation
<1> QED BY <1>1, InitInv, NextInv, PTL DEF Spec

\* A freed or moved allocation's slots are zero and stay so.
THEOREM FreedStaysZero == Spec => []FreedSlotsStayZero
<1>1. Inv => FreedSlotsStayZero
  BY DEF Inv, HeapOK, FreedSlotsStayZero
<1> QED BY <1>1, InitInv, NextInv, PTL DEF Spec

\* No record is ever revived, moved, resized or dropped.
THEOREM NoReuse == Spec => RecordsNeverReused
<1>1. Inv /\ [Next]_vars =>
        [\A i \in DOMAIN heapAllocations :
           /\ i \in DOMAIN heapAllocations'
           /\ heapAllocations'[i].baseIndex = heapAllocations[i].baseIndex
           /\ heapAllocations'[i].slotCount = heapAllocations[i].slotCount
           /\ heapAllocations'[i].live => heapAllocations[i].live]_vars
  <2> SUFFICES ASSUME Inv, [Next]_vars
               PROVE  \A i \in DOMAIN heapAllocations :
                        /\ i \in DOMAIN heapAllocations'
                        /\ heapAllocations'[i].baseIndex = heapAllocations[i].baseIndex
                        /\ heapAllocations'[i].slotCount = heapAllocations[i].slotCount
                        /\ heapAllocations'[i].live => heapAllocations[i].live
    OBVIOUS
  <2> QED BY NextInv DEF Keeps, heap
<1>2. Inv /\ [Next]_vars => Inv'
  BY NextInv
<1> QED BY <1>1, <1>2, InitInv, PTL DEF Spec, RecordsNeverReused

-----------------------------------------------------------------------------
(***************************************************************************)
(* The refinement: a heap's objects as a function of the heap alone, what  *)
(* each operation does to them, and the abstract step that answers it.     *)
(***************************************************************************)
Live(h) == {i \in DOMAIN h.allocations : h.allocations[i].live}
Bases(h) == {h.allocations[i].baseIndex : i \in Live(h)}
Part(h, i) ==
  [k \in 1 .. h.allocations[i].slotCount |-> h.slots[h.allocations[i].baseIndex + k]]
Objects(h) ==
  [base \in Bases(h) |->
     [k \in 1 .. h.allocations[FirstAt(base, h)].slotCount |-> h.slots[base + k]]]

\* What is used of a well formed heap: records are apart and in the vector.
LEMMA Records ==
  ASSUME NEW h, HeapOK(h)
  PROVE  /\ h.slots \in Seq(Word) /\ h.allocations \in Seq(Allocation)
         /\ Len(h.slots) \in Nat /\ DOMAIN h.slots = 1 .. Len(h.slots)
         /\ Len(h.allocations) \in Nat /\ DOMAIN h.allocations = 1 .. Len(h.allocations)
         /\ \A i \in DOMAIN h.allocations :
              /\ h.allocations[i].baseIndex \in Nat
              /\ h.allocations[i].slotCount \in Nat \ {0}
              /\ h.allocations[i].live \in BOOLEAN
              /\ h.allocations[i].baseIndex + h.allocations[i].slotCount <= Len(h.slots)
              /\ \A j \in DOMAIN h.allocations : i # j =>
                   \/ h.allocations[i].baseIndex + h.allocations[i].slotCount
                        <= h.allocations[j].baseIndex
                   \/ h.allocations[j].baseIndex + h.allocations[j].slotCount
                        <= h.allocations[i].baseIndex
<1>1. /\ h.slots \in Seq(Word) /\ h.allocations \in Seq(Allocation)
      /\ Len(h.slots) \in Nat /\ DOMAIN h.slots = 1 .. Len(h.slots)
      /\ Len(h.allocations) \in Nat /\ DOMAIN h.allocations = 1 .. Len(h.allocations)
  BY DEF HeapOK, HeapType
<1>2. ASSUME NEW i \in DOMAIN h.allocations
      PROVE  /\ h.allocations[i].baseIndex \in Nat
             /\ h.allocations[i].slotCount \in Nat \ {0}
             /\ h.allocations[i].live \in BOOLEAN
             /\ h.allocations[i].baseIndex + h.allocations[i].slotCount <= Len(h.slots)
  <2>1. h.allocations[i] \in Allocation
    BY <1>1
  <2>2. EndOf(h.allocations[i]) <= Len(h.slots)
    BY DEF HeapOK, Ordered
  <2> QED BY <2>1, <2>2 DEF Allocation, EndOf
<1>3. ASSUME NEW i \in DOMAIN h.allocations, NEW j \in DOMAIN h.allocations, i # j
      PROVE  \/ h.allocations[i].baseIndex + h.allocations[i].slotCount
                  <= h.allocations[j].baseIndex
             \/ h.allocations[j].baseIndex + h.allocations[j].slotCount
                  <= h.allocations[i].baseIndex
  <2>1. i < j \/ j < i
    BY <1>1, <1>3, SMT
  <2> QED BY <2>1 DEF HeapOK, Ordered, EndOf
<1> QED BY <1>1, <1>2, <1>3

\* A base names one record.
LEMMA OneRecord ==
  ASSUME NEW h, HeapOK(h), NEW i \in DOMAIN h.allocations
  PROVE  FirstAt(h.allocations[i].baseIndex, h) = i
<1> DEFINE b == h.allocations[i].baseIndex
           j == FirstAt(b, h)
<1>1. b \in Nat /\ HasBase(b, h)
  BY Records DEF HasBase
<1>2. j \in DOMAIN h.allocations /\ h.allocations[j].baseIndex = b
  BY <1>1, FirstAtFinds
<1> HIDE DEF j
<1>3. /\ h.allocations[i].slotCount \in Nat \ {0} /\ h.allocations[j].slotCount \in Nat \ {0}
      /\ j # i => \/ b + h.allocations[i].slotCount <= h.allocations[j].baseIndex
                  \/ h.allocations[j].baseIndex + h.allocations[j].slotCount <= b
  BY <1>2, Records
<1>4. j = i
  BY <1>1, <1>2, <1>3, SMT
<1> QED BY <1>4 DEF j

\* The objects of a heap are its live records' parts of the vector.
LEMMA ObjectsAt ==
  ASSUME NEW h, HeapOK(h)
  PROVE  /\ DOMAIN Objects(h) = Bases(h)
         /\ \A i \in Live(h) : /\ h.allocations[i].baseIndex \in Bases(h)
                               /\ Objects(h)[h.allocations[i].baseIndex] = Part(h, i)
<1>1. ASSUME NEW i \in Live(h)
      PROVE  /\ h.allocations[i].baseIndex \in Bases(h)
             /\ Objects(h)[h.allocations[i].baseIndex] = Part(h, i)
  <2>1. i \in DOMAIN h.allocations /\ h.allocations[i].baseIndex \in Bases(h)
    BY DEF Live, Bases
  <2>2. FirstAt(h.allocations[i].baseIndex, h) = i
    BY <2>1, OneRecord
  <2> QED BY <2>1, <2>2 DEF Objects, Part
<1> QED BY <1>1 DEF Objects

\* To know a heap's objects it is enough to know its bases and live parts.
LEMMA ObjectsAre ==
  ASSUME NEW h, HeapOK(h), NEW D, NEW f, f = [b \in D |-> f[b]], D = Bases(h),
         \A i \in Live(h) : f[h.allocations[i].baseIndex] = Part(h, i)
  PROVE  Objects(h) = f
<1>1. ASSUME NEW b \in Bases(h)
      PROVE  Objects(h)[b] = f[b]
  <2>1. PICK i \in Live(h) : h.allocations[i].baseIndex = b
    BY DEF Bases
  <2> QED BY <2>1, ObjectsAt
<1>2. Objects(h) = [b \in Bases(h) |-> Objects(h)[b]]
  BY DEF Objects
<1> QED BY <1>1, <1>2

-----------------------------------------------------------------------------
\* A tagged aligned word is the address of the slot it names.
LEMMA AddressBack ==
  ASSUME NEW a \in Word, IsVmHeapAddress(a), a % SlotBytes = 0
  PROVE  SlotIndex(a) \in Nat /\ a = HeapAddress(SlotIndex(a)) /\ a # 0
BY HeapAssumption, SMT DEF HeapAddress, SlotIndex, Word, WordLimit, SlotBytes, IsVmHeapAddress

\* A slot's address is tagged, aligned and not null.
LEMMA SlotAddress ==
  ASSUME NEW b \in Nat
  PROVE  /\ IsVmHeapAddress(HeapAddress(b)) /\ HeapAddress(b) % SlotBytes = 0
         /\ SlotIndex(HeapAddress(b)) = b
         /\ HeapAddress(b) # 0
BY HeapAssumption, SMT DEF HeapAddress, SlotIndex, SlotBytes, IsVmHeapAddress

\* An address owns a record exactly when it is a live object's.
LEMMA OwnedLive ==
  ASSUME NEW h, HeapOK(h), NEW a \in Word
  PROVE  /\ Owned(a, h) => /\ FirstAt(SlotIndex(a), h) \in Live(h)
                           /\ h.allocations[FirstAt(SlotIndex(a), h)].baseIndex = SlotIndex(a)
                           /\ a = HeapAddress(SlotIndex(a))
         /\ \A b \in Bases(h) : a = HeapAddress(b) => Owned(a, h)
<1>1. ASSUME Owned(a, h)
      PROVE  /\ FirstAt(SlotIndex(a), h) \in Live(h)
             /\ h.allocations[FirstAt(SlotIndex(a), h)].baseIndex = SlotIndex(a)
             /\ a = HeapAddress(SlotIndex(a))
  BY <1>1, OwnedRecord, AddressBack DEF Owned, Live
<1>2. ASSUME NEW b \in Bases(h), a = HeapAddress(b)
      PROVE  Owned(a, h)
  <2>1. PICK i \in Live(h) : h.allocations[i].baseIndex = b
    BY DEF Bases
  <2>2. i \in DOMAIN h.allocations /\ h.allocations[i].live
    BY DEF Live
  <2>3. b \in Nat /\ b + h.allocations[i].slotCount <= Len(h.slots)
    BY <2>1, <2>2, Records
  <2>4. IsVmHeapAddress(a) /\ a % SlotBytes = 0 /\ SlotIndex(a) = b
    BY <1>2, <2>3, SlotAddress
  <2>5. FirstAt(b, h) = i /\ HasBase(b, h)
    BY <2>1, <2>2, OneRecord DEF HasBase
  <2> QED BY <2>1, <2>2, <2>3, <2>4, <2>5 DEF Owned
<1> QED BY <1>1, <1>2

\* A successful allocation adds an object of zeros at the end of the vector.
LEMMA AllocateObjects ==
  ASSUME NEW h, HeapOK(h), NEW n \in Word, n # 0, AllocateVmHeapSlots(n, h).ok
  PROVE  LET r == AllocateVmHeapSlots(n, h) IN
         /\ n \in Nat \ {0}
         /\ r.heap.slots = h.slots \o [k \in 1 .. n |-> 0]
         /\ r.heap.allocations = Append(h.allocations, NewRecord(Len(h.slots), n))
         /\ r.address = HeapAddress(Len(h.slots))
         /\ Len(h.slots) \in 0 .. (HeapAddressTag \div SlotBytes)
         /\ Len(r.heap.slots) = Len(h.slots) + n
         /\ Objects(r.heap) = Abstract!With(Objects(h), Len(h.slots), Abstract!Zeros(n))
<1> DEFINE r == AllocateVmHeapSlots(n, h)
           g == r.heap
           last == Len(h.allocations) + 1
           base == Len(h.slots)
           zeros == [k \in 1 .. n |-> 0]
<1>1. /\ n \in Nat \ {0}
      /\ g.slots = h.slots \o zeros
      /\ g.allocations = Append(h.allocations, NewRecord(base, n))
      /\ r.address = HeapAddress(base)
  <2>1. ~TooLarge(n, base)
    BY DEF AllocateVmHeapSlots, Failed
  <2>2. n \in Nat
    BY HeapAssumption, SMT DEF Word, WordLimit
  <2> QED BY <2>1, <2>2 DEF AllocateVmHeapSlots, Done
<1>2. Allocated(h, n, r)
  BY AllocateOK
<1>3. /\ HeapOK(g) /\ base < MaxHeapSlots /\ Len(g.slots) = base + n
      /\ Len(g.allocations) = last
      /\ \A i \in DOMAIN h.allocations : g.allocations[i] = h.allocations[i]
      /\ g.allocations[last].live
      /\ g.allocations[last].baseIndex = base
      /\ g.allocations[last].slotCount = n
  BY <1>2 DEF Allocated
<1>4. base \in Nat /\ DOMAIN h.slots = 1 .. base /\ h.slots \in Seq(Word)
      /\ DOMAIN h.allocations = 1 .. Len(h.allocations) /\ Len(h.allocations) \in Nat
  BY Records
<1>5. base \in 0 .. (HeapAddressTag \div SlotBytes)
  BY <1>3, <1>4, HeapAssumption, SMT DEF SlotBytes
<1>6. /\ \A k \in 1 .. base : g.slots[k] = h.slots[k]
      /\ \A k \in 1 .. n : g.slots[base + k] = 0
  <2>1. zeros \in Seq({0}) /\ Len(zeros) = n /\ \A k \in 1 .. n : zeros[k] = 0
    BY <1>1, SMT
  <2> HIDE DEF zeros
  <2> QED BY <1>1, <1>4, <2>1, SMT
<1>7. DOMAIN g.allocations = DOMAIN h.allocations \cup {last}
  <2>1. DOMAIN g.allocations = 1 .. last
    BY <1>3, Records
  <2> HIDE DEF g
  <2> QED BY <1>4, <2>1, SMT
<1>8. Live(g) = Live(h) \cup {last}
  BY <1>3, <1>7 DEF Live
<1>9. last \notin DOMAIN h.allocations
  BY <1>4, SMT
<1> HIDE DEF r, g
<1>10. Bases(g) = Bases(h) \cup {base}
  <2>1. \A i \in Live(h) : g.allocations[i].baseIndex = h.allocations[i].baseIndex
    BY <1>3 DEF Live
  <2> HIDE DEF last
  <2> QED BY <1>3, <1>8, <2>1 DEF Bases
<1> DEFINE f == Abstract!With(Objects(h), base, Abstract!Zeros(n))
           D == Bases(h) \cup {base}
<1>11. DOMAIN Objects(h) = Bases(h)
  BY ObjectsAt
<1>12. f = [b \in D |-> IF b = base THEN Abstract!Zeros(n) ELSE Objects(h)[b]]
  BY <1>11 DEF Abstract!With
<1>13. ASSUME NEW i \in Live(g)
       PROVE  f[g.allocations[i].baseIndex] = Part(g, i)
  <2>1. CASE i = last
    <3>1. g.allocations[i].baseIndex = base /\ g.allocations[i].slotCount = n
      BY <1>3, <2>1
    <3>2. Part(g, i) = [k \in 1 .. n |-> 0]
      BY <1>6, <3>1 DEF Part
    <3>3. f[base] = Abstract!Zeros(n)
      BY <1>12
    <3> QED BY <3>1, <3>2, <3>3 DEF Abstract!Zeros
  <2>2. CASE i \in Live(h)
    <3>1. i \in DOMAIN h.allocations /\ g.allocations[i] = h.allocations[i]
      BY <1>3, <2>2 DEF Live
    <3> DEFINE b == h.allocations[i].baseIndex
               c == h.allocations[i].slotCount
    <3>2. b \in Nat /\ c \in Nat \ {0} /\ b + c <= base /\ b \in Bases(h)
            /\ Objects(h)[b] = Part(h, i)
      BY <2>2, <3>1, Records, ObjectsAt
    <3> HIDE DEF b, c, base
    <3>3. b # base /\ \A k \in 1 .. c : b + k \in 1 .. base
      BY <1>4, <3>2, SMT
    <3>4. Part(g, i) = Part(h, i)
      BY <1>6, <3>1, <3>3 DEF Part, b, c
    <3> QED BY <1>12, <3>1, <3>2, <3>3, <3>4 DEF b
  <2> QED BY <1>8, <2>1, <2>2
<1>14. f = [b \in D |-> f[b]]
  BY <1>12
<1>15. HeapOK(g) /\ Bases(g) = D
  BY <1>3, <1>10
<1> HIDE DEF f, D, base
<1>16. Objects(g) = f
  BY <1>13, <1>14, <1>15, ObjectsAre
<1> QED BY <1>1, <1>3, <1>5, <1>16 DEF f, r, g, base

\* Releasing a live record takes its object away and leaves the others.
LEMMA ReleaseObjects ==
  ASSUME NEW h, HeapOK(h), NEW i \in Live(h)
  PROVE  /\ Len(Release(i, h).slots) = Len(h.slots)
         /\ Objects(Release(i, h))
              = Abstract!Without(Objects(h), h.allocations[i].baseIndex)
<1> DEFINE g == Release(i, h)
           base == h.allocations[i].baseIndex
           count == h.allocations[i].slotCount
           f == Abstract!Without(Objects(h), base)
           D == Bases(h) \ {base}
<1>1. i \in DOMAIN h.allocations
  BY DEF Live
<1>2. HeapOK(g)
  BY <1>1, ReleaseOK
<1>3. DOMAIN g.slots = DOMAIN h.slots
  BY DEF Release
<1>4. Len(g.slots) = Len(h.slots)
  <2>1. 1 .. Len(g.slots) = 1 .. Len(h.slots) /\ Len(g.slots) \in Nat /\ Len(h.slots) \in Nat
    BY <1>2, <1>3, Records
  <2> HIDE DEF g
  <2> QED BY <2>1, SMT
<1>5. \A k \in DOMAIN h.slots : ~(k > base /\ k <= base + count) => g.slots[k] = h.slots[k]
  BY DEF Release
<1>6. /\ DOMAIN g.allocations = DOMAIN h.allocations
      /\ ~g.allocations[i].live
      /\ \A j \in DOMAIN h.allocations : j # i => g.allocations[j] = h.allocations[j]
  <2>1. h.allocations[i] \in Allocation
    BY <1>1, Records
  <2>2. g.allocations = [h.allocations EXCEPT ![i].live = FALSE]
    BY DEF Release
  <2>3. g.allocations[i] = [h.allocations[i] EXCEPT !.live = FALSE]
    BY <1>1, <2>2
  <2> HIDE DEF g
  <2> QED BY <2>1, <2>2, <2>3 DEF Allocation
<1> HIDE DEF g
<1>7. Live(g) = Live(h) \ {i}
  BY <1>6 DEF Live
<1>8. \A j \in Live(g) : /\ j \in Live(h) /\ j \in DOMAIN h.allocations /\ j # i
                         /\ g.allocations[j] = h.allocations[j]
                         /\ h.allocations[j].baseIndex # base
  <2> SUFFICES ASSUME NEW j \in Live(g)
               PROVE  /\ j \in Live(h) /\ j \in DOMAIN h.allocations /\ j # i
                      /\ g.allocations[j] = h.allocations[j]
                      /\ h.allocations[j].baseIndex # base
    OBVIOUS
  <2>1. j \in Live(h) /\ j \in DOMAIN h.allocations /\ j # i
    BY <1>7 DEF Live
  <2>2. FirstAt(base, h) = i /\ FirstAt(h.allocations[j].baseIndex, h) = j
    BY <1>1, <2>1, OneRecord
  <2> QED BY <1>6, <2>1, <2>2
<1>9. Bases(g) = D
  <2> HIDE DEF base
  <2>1. \A j \in Live(h) : j # i => j \in Live(g)
    BY <1>7
  <2>2. h.allocations[i].baseIndex = base
    BY DEF base
  <2> QED BY <1>8, <2>1, <2>2 DEF Bases
<1>10. f = [b \in D |-> Objects(h)[b]]
  BY ObjectsAt DEF Abstract!Without
<1>11. ASSUME NEW j \in Live(g)
       PROVE  f[g.allocations[j].baseIndex] = Part(g, j)
  <2> DEFINE b == h.allocations[j].baseIndex
             c == h.allocations[j].slotCount
  <2>1. /\ j \in Live(h) /\ j \in DOMAIN h.allocations /\ j # i
        /\ g.allocations[j] = h.allocations[j] /\ b # base
    BY <1>8
  <2>2. /\ b \in Nat /\ c \in Nat \ {0} /\ b + c <= Len(h.slots)
        /\ base \in Nat /\ count \in Nat \ {0}
        /\ b + c <= base \/ base + count <= b
        /\ Len(h.slots) \in Nat /\ DOMAIN h.slots = 1 .. Len(h.slots)
    BY <1>1, <2>1, Records
  <2>3. b \in D /\ Objects(h)[b] = Part(h, j)
    BY <2>1, ObjectsAt
  <2> HIDE DEF b, c, base, count, D, f
  <2>4. \A k \in 1 .. c : b + k \in DOMAIN h.slots /\ ~(b + k > base /\ b + k <= base + count)
    BY <2>2, SMT
  <2>5. Part(g, j) = Part(h, j)
    BY <1>5, <2>1, <2>4 DEF Part, b, c
  <2>6. f[b] = Part(g, j)
    BY <1>10, <2>3, <2>5
  <2> QED BY <2>1, <2>6 DEF b
<1>12. f = [b \in D |-> f[b]]
  BY <1>10
<1> HIDE DEF f, D
<1>13. Objects(g) = f
  BY <1>2, <1>9, <1>11, <1>12, ObjectsAre
<1> QED BY <1>4, <1>13 DEF f, g

\* Copying into the right-hand one of two live records changes its object alone.
LEMMA CopyObjects ==
  ASSUME NEW h, HeapOK(h), NEW i \in Live(h), NEW j \in Live(h), i # j, NEW c \in Nat,
         c = h.allocations[i].slotCount \/ c = h.allocations[j].slotCount,
         c <= h.allocations[i].slotCount, c <= h.allocations[j].slotCount,
         \A k \in 1 .. h.allocations[j].slotCount :
           h.slots[h.allocations[j].baseIndex + k] = 0
  PROVE  LET old == h.allocations[i]
             new == h.allocations[j]
             g == CopySlots(old.baseIndex, new.baseIndex, c, h) IN
         /\ HeapOK(g) /\ i \in Live(g) /\ g.allocations = h.allocations
         /\ Len(g.slots) = Len(h.slots)
         /\ Objects(g) = Abstract!With(Objects(h), new.baseIndex,
                                       Abstract!Resized(Objects(h)[old.baseIndex], new.slotCount))
<1> DEFINE from == h.allocations[i].baseIndex
           n == h.allocations[i].slotCount
           to == h.allocations[j].baseIndex
           m == h.allocations[j].slotCount
           g == CopySlots(from, to, c, h)
           resized == Abstract!Resized(Objects(h)[from], m)
           f == Abstract!With(Objects(h), to, resized)
           D == Bases(h) \cup {to}
<1>1. i \in DOMAIN h.allocations /\ j \in DOMAIN h.allocations /\ h.allocations[j].live
  BY DEF Live
<1>2. HeapOK(g)
  BY <1>1, CopyOK
<1>3. /\ g.allocations = h.allocations /\ DOMAIN g.slots = DOMAIN h.slots
      /\ \A k \in DOMAIN h.slots :
           g.slots[k] = IF k > to /\ k <= to + c THEN h.slots[from + (k - to)] ELSE h.slots[k]
  BY DEF CopySlots
<1> HIDE DEF g
<1>4. Len(g.slots) = Len(h.slots)
  <2>1. 1 .. Len(g.slots) = 1 .. Len(h.slots) /\ Len(g.slots) \in Nat /\ Len(h.slots) \in Nat
    BY <1>2, <1>3, Records
  <2> QED BY <2>1, SMT
<1>5. Live(g) = Live(h) /\ Bases(g) = Bases(h)
  BY <1>3 DEF Live, Bases
<1>6. /\ from \in Nat /\ n \in Nat \ {0} /\ from + n <= Len(h.slots)
      /\ to \in Nat /\ m \in Nat \ {0} /\ to + m <= Len(h.slots)
      /\ Len(h.slots) \in Nat /\ DOMAIN h.slots = 1 .. Len(h.slots)
  BY <1>1, Records
<1>7. to \in Bases(h) /\ Bases(g) = D /\ DOMAIN Objects(h) = Bases(h)
  BY <1>5, ObjectsAt
<1>8. f = [b \in D |-> IF b = to THEN resized ELSE Objects(h)[b]]
  BY <1>7 DEF Abstract!With
<1>9. resized = [k \in 1 .. m |-> IF k \in 1 .. n THEN h.slots[from + k] ELSE 0]
  <2>1. Objects(h)[from] = Part(h, i)
    BY ObjectsAt
  <2>2. Part(h, i) = [k \in 1 .. n |-> h.slots[from + k]]
    BY DEF Part
  <2> HIDE DEF n, from, m
  <2> QED BY <2>1, <2>2 DEF Abstract!Resized
<1>10. c <= n /\ c <= m /\ (c = n \/ c = m) /\ \A k \in 1 .. m : h.slots[to + k] = 0
  OBVIOUS
<1>11. Part(g, j) = resized
  <2>1. Part(g, j) = [k \in 1 .. m |-> g.slots[to + k]]
    BY <1>3 DEF Part
  <2> HIDE DEF n, from, m, to, resized
  <2>2. ASSUME NEW k \in 1 .. m
        PROVE  g.slots[to + k] = IF k \in 1 .. n THEN h.slots[from + k] ELSE 0
    <3>1. to + k \in DOMAIN h.slots
      BY <1>6, SMT
    <3>2. /\ (to + k > to /\ to + k <= to + c) <=> k <= c
          /\ k \in 1 .. n <=> k <= c
          /\ from + ((to + k) - to) = from + k
      BY <1>6, <1>10, SMT
    <3> QED BY <1>3, <1>10, <3>1, <3>2
  <2> QED BY <1>9, <2>1, <2>2
<1>12. ASSUME NEW l \in Live(g)
       PROVE  f[g.allocations[l].baseIndex] = Part(g, l)
  <2>1. CASE l = j
    BY <1>3, <1>8, <1>11, <2>1
  <2>2. CASE l # j
    <3> DEFINE b == h.allocations[l].baseIndex
               s == h.allocations[l].slotCount
    <3>1. l \in Live(h) /\ l \in DOMAIN h.allocations
      BY <1>5 DEF Live
    <3>2. /\ b \in Nat /\ s \in Nat \ {0} /\ b + s <= Len(h.slots)
          /\ b + s <= to \/ to + m <= b
      BY <1>1, <2>2, <3>1, Records
    <3>3. b \in Bases(h) /\ Objects(h)[b] = Part(h, l)
      BY <3>1, ObjectsAt
    <3>4. Part(h, l) = [k \in 1 .. s |-> h.slots[b + k]] /\ Part(g, l) = [k \in 1 .. s |-> g.slots[b + k]]
      BY <1>3 DEF Part
    <3>5. g.allocations[l].baseIndex = b
      BY <1>3
    <3> HIDE DEF b, s, to, m, n, from, f, resized
    <3>6. ASSUME NEW k \in 1 .. s
          PROVE  g.slots[b + k] = h.slots[b + k]
      <4>1. b + k \in DOMAIN h.slots /\ ~(b + k > to /\ b + k <= to + c)
        BY <1>6, <1>10, <3>2, SMT
      <4> QED BY <1>3, <4>1
    <3>7. b # to
      BY <1>6, <3>2, SMT
    <3> QED BY <1>8, <3>3, <3>4, <3>5, <3>6, <3>7
  <2> QED BY <2>1, <2>2
<1>13. f = [b \in D |-> f[b]]
  BY <1>8
<1>14. i \in Live(g)
  BY <1>5
<1> HIDE DEF f, D
<1>15. Objects(g) = f
  BY <1>2, <1>7, <1>12, <1>13, ObjectsAre
<1> QED BY <1>2, <1>3, <1>4, <1>14, <1>15 DEF f, g

\* A successful move makes a new object of the old one's prefix and zeros, and
\* takes the old one away.
LEMMA ReallocObjects ==
  ASSUME NEW h, HeapOK(h), NEW a \in Word, NEW n \in Word, a # 0, n # 0,
         ReallocVmHeapSlots(a, n, h).ok
  PROVE  LET r == ReallocVmHeapSlots(a, n, h)
             old == SlotIndex(a)
             new == Len(h.slots) IN
         /\ n \in Nat \ {0} /\ old \in DOMAIN Objects(h) /\ a = HeapAddress(old)
         /\ r.address = HeapAddress(new)
         /\ new \in 0 .. (HeapAddressTag \div SlotBytes)
         /\ Len(r.heap.slots) = Len(h.slots) + n
         /\ Objects(r.heap) = Abstract!With(Abstract!Without(Objects(h), old), new,
                                            Abstract!Resized(Objects(h)[old], n))
<1> DEFINE r == ReallocVmHeapSlots(a, n, h)
           i == FirstAt(SlotIndex(a), h)
           fresh == AllocateVmHeapSlots(n, h)
           old == h.allocations[i]
           c == IF old.slotCount < n THEN old.slotCount ELSE n
           from == SlotIndex(a)
           to == Len(h.slots)
           f == fresh.heap
           j == Len(h.allocations) + 1
           copied == CopySlots(from, to, c, f)
<1>1. Owned(a, h) /\ fresh.ok
  BY DEF ReallocVmHeapSlots, Failed
<1>2. i \in Live(h) /\ old.baseIndex = from /\ a = HeapAddress(from)
  BY <1>1, OwnedLive
<1>3. from \in Bases(h) /\ DOMAIN Objects(h) = Bases(h)
  BY <1>2, ObjectsAt
<1>4. /\ n \in Nat \ {0}
      /\ fresh.address = HeapAddress(to)
      /\ to \in 0 .. (HeapAddressTag \div SlotBytes)
      /\ Len(f.slots) = to + n
      /\ f.slots = h.slots \o [k \in 1 .. n |-> 0]
      /\ Objects(f) = Abstract!With(Objects(h), to, Abstract!Zeros(n))
  BY <1>1, AllocateObjects
<1>5. /\ HeapOK(f)
      /\ Len(f.allocations) = Len(h.allocations) + 1
      /\ \A k \in DOMAIN h.allocations : f.allocations[k] = h.allocations[k]
      /\ f.allocations[j].live
      /\ f.allocations[j].baseIndex = to
      /\ f.allocations[j].slotCount = n
  BY <1>1, AllocateOK DEF Allocated
<1>6. /\ i \in DOMAIN h.allocations /\ old.live
      /\ from \in Nat /\ old.slotCount \in Nat \ {0} /\ from + old.slotCount <= to /\ to \in Nat
      /\ DOMAIN h.allocations = 1 .. Len(h.allocations) /\ Len(h.allocations) \in Nat
      /\ h.slots \in Seq(Word)
  <2>1. i \in DOMAIN h.allocations /\ old.live
    BY <1>2 DEF Live
  <2>2. /\ old.baseIndex \in Nat /\ old.slotCount \in Nat \ {0}
        /\ old.baseIndex + old.slotCount <= to
    BY <2>1, Records
  <2> QED BY <1>2, <2>1, <2>2, Records
<1>7. /\ i \in Live(f) /\ j \in Live(f) /\ i # j /\ f.allocations[i] = old
  <2>1. DOMAIN f.allocations = 1 .. Len(f.allocations)
    BY <1>5, Records
  <2>2. f.allocations[i] = old
    BY <1>5, <1>6
  <2> HIDE DEF f, i, old
  <2>3. i \in 1 .. Len(f.allocations) /\ j \in 1 .. Len(f.allocations) /\ i # j
    BY <1>5, <1>6, SMT
  <2> QED BY <1>5, <1>6, <2>1, <2>2, <2>3 DEF Live
<1>8. \A k \in 1 .. n : f.slots[to + k] = 0
  <2> DEFINE zeros == [k \in 1 .. n |-> 0]
  <2>1. zeros \in Seq({0}) /\ Len(zeros) = n /\ \A k \in 1 .. n : zeros[k] = 0
    BY <1>4, SMT
  <2>2. f.slots = h.slots \o zeros
    BY <1>4
  <2> HIDE DEF zeros, f
  <2> QED BY <1>4, <1>6, <2>1, <2>2, SMT
<1>9. r = Done(fresh.address, Release(i, copied))
  <2>1. SlotIndex(fresh.address) = to
    BY <1>4, <1>6, SlotAddress
  <2> QED BY <1>1, <1>2, <2>1 DEF ReallocVmHeapSlots
<1>10. /\ c \in Nat /\ c <= old.slotCount /\ c <= n /\ (c = old.slotCount \/ c = n)
  <2> HIDE DEF old
  <2> QED BY <1>4, <1>6, SMT
<1> HIDE DEF f, i, old, c, fresh, r, j
<1>11. /\ HeapOK(copied) /\ i \in Live(copied) /\ copied.allocations = f.allocations
       /\ Len(copied.slots) = Len(f.slots)
       /\ Objects(copied) = Abstract!With(Objects(f), to, Abstract!Resized(Objects(f)[from], n))
  <2>1. /\ f.allocations[i].baseIndex = from /\ f.allocations[i].slotCount = old.slotCount
        /\ f.allocations[j].baseIndex = to /\ f.allocations[j].slotCount = n
    BY <1>2, <1>5, <1>7
  <2> HIDE DEF from, to
  <2> QED BY SMTT(30), <1>5, <1>7, <1>8, <1>10, <2>1, CopyObjects
<1> HIDE DEF copied
<1>12. /\ Len(Release(i, copied).slots) = Len(copied.slots)
       /\ Objects(Release(i, copied)) = Abstract!Without(Objects(copied), from)
  <2>1. copied.allocations[i].baseIndex = from
    BY <1>2, <1>7, <1>11
  <2> QED BY <1>11, <2>1, ReleaseObjects
<1>13. from # to
  BY <1>6, SMT
<1>14. Abstract!Without(Objects(copied), from)
         = Abstract!With(Abstract!Without(Objects(h), from), to,
                         Abstract!Resized(Objects(h)[from], n))
  <2> HIDE DEF from, to
  <2>1. Objects(f)[from] = Objects(h)[from]
    BY <1>3, <1>4, <1>13 DEF Abstract!With
  <2> DEFINE resized == Abstract!Resized(Objects(h)[from], n)
  <2>2. Objects(copied) = Abstract!With(Objects(f), to, resized)
    BY <1>11, <2>1
  <2> HIDE DEF resized
  <2>3. DOMAIN Objects(f) = Bases(h) \cup {to}
    BY <1>3, <1>4 DEF Abstract!With
  <2>4. DOMAIN Objects(copied) = Bases(h) \cup {to}
    BY <2>2, <2>3 DEF Abstract!With
  <2>5. \A b \in Bases(h) : b # to => Objects(copied)[b] = Objects(h)[b]
    <3>1. \A b \in Bases(h) : b # to => Objects(f)[b] = Objects(h)[b]
      BY <1>3, <1>4 DEF Abstract!With
    <3> QED BY <2>2, <2>3, <3>1 DEF Abstract!With
  <2>6. Objects(copied)[to] = resized
    BY <2>2, <2>3 DEF Abstract!With
  <2> DEFINE left == Abstract!Without(Objects(copied), from)
             right == Abstract!With(Abstract!Without(Objects(h), from), to, resized)
             D == (Bases(h) \cup {to}) \ {from}
  <2>7. left = [b \in D |-> Objects(copied)[b]]
    BY <2>4 DEF Abstract!Without
  <2>8. right = [b \in D |-> IF b = to THEN resized ELSE Objects(h)[b]]
    <3>1. Abstract!Without(Objects(h), from) = [b \in Bases(h) \ {from} |-> Objects(h)[b]]
      BY <1>3 DEF Abstract!Without
    <3>2. (Bases(h) \ {from}) \cup {to} = D
      BY <1>13
    <3> QED BY <3>1, <3>2 DEF Abstract!With
  <2>9. \A b \in D : Objects(copied)[b] = IF b = to THEN resized ELSE Objects(h)[b]
    BY <2>5, <2>6
  <2> HIDE DEF left, right, D
  <2>10. left = right
    BY <2>7, <2>8, <2>9
  <2> QED BY <2>10 DEF left, right, resized
<1>15. r.address = HeapAddress(to) /\ Len(r.heap.slots) = to + n /\ r.heap = Release(i, copied)
  BY <1>4, <1>9, <1>11, <1>12 DEF Done
<1> QED BY <1>2, <1>3, <1>4, <1>12, <1>14, <1>15 DEF r

-----------------------------------------------------------------------------
\* The refinement mapping is Objects of the heap, before and after a step.
LEMMA Mapping ==
  /\ [base \in LiveBases |-> Contents(base)] = Objects(heap)
  /\ [base \in LiveBases |-> Contents(base)]' = Objects(heap')
BY DEF LiveBases, Contents, Objects, Bases, Live, heap

\* The heap after an operation that is answered with r.
LEMMA Applied ==
  ASSUME HeapOK(heap), NEW r, HeapOK(r.heap), NEW op, Apply(op, r)
  PROVE  /\ heap' = r.heap /\ heapSlots' = r.heap.slots /\ heap.slots = heapSlots
         /\ reply' = [op |-> op, ok |-> r.ok, value |-> r.address]
<1>1. r.heap \in [slots : Seq(Word), allocations : Seq(Allocation)]
  BY DEF HeapOK, HeapType
<1> QED BY <1>1 DEF Apply, heap

\* An answer that leaves the heap alone is no abstract change.
LEMMA NothingChanges ==
  ASSUME HeapOK(heap), heap' = heap
  PROVE  /\ [base \in LiveBases |-> Contents(base)]' = [base \in LiveBases |-> Contents(base)]
         /\ (0 .. (Len(heapSlots) - 1))' = 0 .. (Len(heapSlots) - 1)
<1>1. heapSlots' = heapSlots
  BY DEF heap
<1> QED BY <1>1, Mapping

\* HeapAlloc makes one object.
LEMMA AllocStep ==
  ASSUME HeapOK(heap), NEW op, NEW n \in Word, Apply(op, AllocateVmHeapSlots(n, heap))
  PROVE  Abstract!Alloc(op, n)
<1> DEFINE r == AllocateVmHeapSlots(n, heap)
<1>1. Allocated(heap, n, r)
  BY AllocateOK
<1>2. /\ heap' = r.heap /\ heapSlots' = r.heap.slots /\ heap.slots = heapSlots
      /\ reply' = [op |-> op, ok |-> r.ok, value |-> r.address]
  BY <1>1, Applied DEF Allocated
<1>3. CASE n = 0
  <2>1. r = Done(0, heap)
    BY <1>3 DEF AllocateVmHeapSlots
  <2>2. r.ok = TRUE /\ r.address = 0 /\ r.heap = heap
    BY <2>1 DEF Done
  <2> HIDE DEF r
  <2>3. Abstract!Ok(op, 0)
    BY <1>2, <2>2 DEF Abstract!Ok
  <2> QED BY <1>2, <1>3, <2>2, <2>3, NothingChanges DEF Abstract!Alloc
<1>4. CASE n # 0 /\ ~r.ok
  <2>1. r = Failed(heap)
    BY <1>4 DEF AllocateVmHeapSlots, Done
  <2>2. n > 0
    BY <1>4, HeapAssumption, SMT DEF Word, WordLimit
  <2> QED BY <1>2, <2>1, <2>2, NothingChanges DEF Failed, Abstract!Alloc, Abstract!Fault
<1>5. CASE n # 0 /\ r.ok
  <2> DEFINE base == Len(heapSlots)
  <2>1. /\ n \in Nat \ {0}
        /\ r.address = HeapAddress(base)
        /\ base \in 0 .. (HeapAddressTag \div SlotBytes)
        /\ Len(heapSlots') = base + n
        /\ Objects(heap') = Abstract!With(Objects(heap), base, Abstract!Zeros(n))
    BY <1>2, <1>5, AllocateObjects
  <2>2. r.ok = TRUE
    BY <1>5 DEF AllocateVmHeapSlots, Done, Failed
  <2> HIDE DEF r
  <2>3. base \in Nat
    BY <1>2, Records
  <2>4. /\ base \notin 0 .. (Len(heapSlots) - 1)
        /\ base .. (base + n - 1) \cap (0 .. (Len(heapSlots) - 1)) = {}
        /\ 0 .. (Len(heapSlots') - 1) = (0 .. (Len(heapSlots) - 1)) \cup (base .. (base + n - 1))
        /\ n > 0
    <3> HIDE DEF base
    <3>1. base = Len(heapSlots)
      BY DEF base
    <3> QED BY <2>1, <2>3, <3>1, SMT
  <2>5. base \in Abstract!FreshBase /\ Abstract!Fresh(base, n)
    BY <2>1, <2>3, <2>4 DEF Abstract!FreshBase, Abstract!Fresh, Abstract!Slots
  <2>6. Abstract!Ok(op, Abstract!Address(base))
    BY <1>2, <2>1, <2>2 DEF Abstract!Ok, Abstract!Address, HeapAddress
  <2> HIDE DEF base
  <2> QED BY <2>1, <2>4, <2>5, <2>6, Mapping DEF Abstract!Alloc, Abstract!Slots
<1> QED BY <1>3, <1>4, <1>5

\* HeapFree ends one object.
LEMMA FreeStep ==
  ASSUME HeapOK(heap), NEW op, NEW a \in Word, Apply(op, FreeVmHeapSlots(a, heap))
  PROVE  Abstract!Free(op, a)
<1> DEFINE r == FreeVmHeapSlots(a, heap)
<1>1. HeapOK(r.heap)
  BY FreeOK DEF OperationOK
<1>2. /\ heap' = r.heap /\ heapSlots' = r.heap.slots /\ heap.slots = heapSlots
      /\ reply' = [op |-> op, ok |-> r.ok, value |-> r.address]
  BY <1>1, Applied
<1>3. CASE a = 0
  <2>1. r.ok = TRUE /\ r.address = 0 /\ r.heap = heap
    BY <1>3 DEF FreeVmHeapSlots, Done
  <2> HIDE DEF r
  <2>2. Abstract!Ok(op, 0)
    BY <1>2, <2>1 DEF Abstract!Ok
  <2> QED BY <1>2, <1>3, <2>1, <2>2, NothingChanges DEF Abstract!Free
<1>4. CASE a # 0 /\ ~Owned(a, heap)
  <2>1. r.ok = FALSE /\ r.address = 0 /\ r.heap = heap
    BY <1>4 DEF FreeVmHeapSlots, Failed
  <2> HIDE DEF r
  <2>2. Abstract!Fault(op)
    BY <1>2, <2>1, NothingChanges DEF Abstract!Fault
  <2>3. \A b \in DOMAIN Objects(heap) : a # Abstract!Address(b)
    BY <1>4, OwnedLive, ObjectsAt DEF Abstract!Address, HeapAddress
  <2> QED BY <1>4, <2>2, <2>3, Mapping DEF Abstract!Free
<1>5. CASE a # 0 /\ Owned(a, heap)
  <2> DEFINE i == FirstAt(SlotIndex(a), heap)
             base == SlotIndex(a)
  <2>1. r.ok = TRUE /\ r.address = 0 /\ r.heap = Release(i, heap)
    BY <1>5 DEF FreeVmHeapSlots, Done
  <2>2. i \in Live(heap) /\ heap.allocations[i].baseIndex = base /\ a = HeapAddress(base)
    BY <1>5, OwnedLive
  <2> HIDE DEF r, i, base
  <2>3. /\ Len(heapSlots') = Len(heapSlots)
        /\ Objects(heap') = Abstract!Without(Objects(heap), base)
    BY <1>2, <2>1, <2>2, ReleaseObjects
  <2>4. base \in DOMAIN Objects(heap)
    BY <2>2, ObjectsAt
  <2>5. Abstract!Ok(op, 0) /\ a = Abstract!Address(base)
    BY <1>2, <2>1, <2>2 DEF Abstract!Ok, Abstract!Address, HeapAddress
  <2> QED BY <2>3, <2>4, <2>5, Mapping DEF Abstract!Free
<1> QED BY <1>3, <1>4, <1>5

\* HeapRealloc moves one object.
LEMMA ReallocStep ==
  ASSUME HeapOK(heap), NEW a \in Word, NEW n \in Word, HeapRealloc(a, n)
  PROVE  Abstract!Realloc(a, n)
<1> DEFINE r == ReallocVmHeapSlots(a, n, heap)
<1>1. CASE a = 0
  <2>1. HeapRealloc(a, n) => Apply("realloc", AllocateVmHeapSlots(n, heap))
    BY <1>1 DEF HeapRealloc, ReallocVmHeapSlots
  <2> QED BY <1>1, <2>1, AllocStep DEF Abstract!Realloc
<1>2. CASE a # 0 /\ n = 0
  <2>1. HeapRealloc(a, n) => Apply("realloc", FreeVmHeapSlots(a, heap))
    BY <1>2 DEF HeapRealloc, ReallocVmHeapSlots
  <2> QED BY <1>2, <2>1, FreeStep DEF Abstract!Realloc
<1>3. HeapOK(r.heap)
  BY ReallocOK DEF OperationOK
<1>4. /\ heap' = r.heap /\ heapSlots' = r.heap.slots /\ heap.slots = heapSlots
      /\ reply' = [op |-> "realloc", ok |-> r.ok, value |-> r.address]
  BY <1>3, Applied DEF HeapRealloc
<1>5. n # 0 => n > 0
  BY HeapAssumption, SMT DEF Word, WordLimit
<1>6. CASE a # 0 /\ n # 0 /\ ~r.ok
  <2>1. r = Failed(heap)
    BY <1>6 DEF ReallocVmHeapSlots, Done
  <2>2. r.ok = FALSE /\ r.address = 0 /\ r.heap = heap
    BY <2>1 DEF Failed
  <2> HIDE DEF r
  <2>3. Abstract!Fault("realloc")
    BY <1>4, <2>2, NothingChanges DEF Abstract!Fault
  <2> QED BY <1>5, <1>6, <2>3 DEF Abstract!Realloc
<1>7. CASE a # 0 /\ n # 0 /\ r.ok
  <2> DEFINE old == SlotIndex(a)
             base == Len(heapSlots)
  <2>1. /\ n \in Nat \ {0} /\ old \in DOMAIN Objects(heap) /\ a = HeapAddress(old)
        /\ r.address = HeapAddress(base)
        /\ base \in 0 .. (HeapAddressTag \div SlotBytes)
        /\ Len(heapSlots') = base + n
        /\ Objects(heap') = Abstract!With(Abstract!Without(Objects(heap), old), base,
                                          Abstract!Resized(Objects(heap)[old], n))
    BY <1>4, <1>7, ReallocObjects
  <2>2. r.ok = TRUE
    BY <1>7, OkBoolean
  <2> HIDE DEF r, old
  <2>3. base \in Nat
    BY <1>4, Records
  <2>4. /\ base \notin 0 .. (Len(heapSlots) - 1)
        /\ base .. (base + n - 1) \cap (0 .. (Len(heapSlots) - 1)) = {}
        /\ 0 .. (Len(heapSlots') - 1) = (0 .. (Len(heapSlots) - 1)) \cup (base .. (base + n - 1))
    <3> HIDE DEF base
    <3>1. base = Len(heapSlots)
      BY DEF base
    <3> QED BY <2>1, <2>3, <3>1, SMT
  <2>5. base \in Abstract!FreshBase /\ Abstract!Fresh(base, n)
    BY <2>1, <2>3, <2>4 DEF Abstract!FreshBase, Abstract!Fresh, Abstract!Slots
  <2>6. Abstract!Ok("realloc", Abstract!Address(base)) /\ a = Abstract!Address(old)
    BY <1>4, <2>1, <2>2 DEF Abstract!Ok, Abstract!Address, HeapAddress
  <2> HIDE DEF base
  <2> QED BY <1>5, <1>7, <2>1, <2>4, <2>5, <2>6, Mapping DEF Abstract!Realloc, Abstract!Slots
<1> QED BY <1>1, <1>2, <1>6, <1>7

\* A heap address is resolved exactly when it names a slot of an object, and
\* to that slot; no local is in reach of a frame without any.
LEMMA Resolved ==
  ASSUME NEW h, HeapOK(h), NEW a \in Word
  PROVE  LET slot == ResolveIndirectAddress(a, 0, h)
             at == SlotIndex(a) IN
         /\ slot.ok \in BOOLEAN
         /\ slot.ok => /\ a = HeapAddress(at) /\ at \in Nat /\ at < Len(h.slots)
                       /\ slot.index = at + 1
                       /\ \E i \in DOMAIN h.allocations : Covers(h.allocations[i], at)
         /\ \A i \in Live(h) : \A k \in 1 .. h.allocations[i].slotCount :
              a = HeapAddress(h.allocations[i].baseIndex + k - 1) => slot.ok
<1> DEFINE slot == ResolveIndirectAddress(a, 0, h)
           at == SlotIndex(a)
<1>1. slot.ok \in BOOLEAN
  BY DEF ResolveIndirectAddress
<1>2. ~(a % SlotBytes = 0 /\ ~IsVmHeapAddress(a) /\ a \div SlotBytes < 0)
  BY HeapAssumption, SMT DEF Word, WordLimit, SlotBytes
<1>3. ASSUME slot.ok
      PROVE  /\ a = HeapAddress(at) /\ at \in Nat /\ at < Len(h.slots)
             /\ slot.index = at + 1
             /\ \E i \in DOMAIN h.allocations : Covers(h.allocations[i], at)
  <2>1. /\ a % SlotBytes = 0 /\ IsVmHeapAddress(a) /\ at < Len(h.slots)
        /\ \E i \in DOMAIN h.allocations : Covers(h.allocations[i], at)
        /\ slot.index = at + 1
    BY <1>2, <1>3 DEF ResolveIndirectAddress
  <2> QED BY <2>1, AddressBack
<1>4. ASSUME NEW i \in Live(h), NEW k \in 1 .. h.allocations[i].slotCount,
             a = HeapAddress(h.allocations[i].baseIndex + k - 1)
      PROVE  slot.ok
  <2> DEFINE b == h.allocations[i].baseIndex
             c == h.allocations[i].slotCount
  <2>1. i \in DOMAIN h.allocations /\ h.allocations[i].live
    BY DEF Live
  <2>2. b \in Nat /\ c \in Nat \ {0} /\ b + c <= Len(h.slots) /\ Len(h.slots) \in Nat
    BY <2>1, Records
  <2> HIDE DEF b, c
  <2>3. b + k - 1 \in Nat /\ b + k - 1 >= b /\ b + k - 1 < b + c /\ b + k - 1 < Len(h.slots)
    <3>1. k \in 1 .. c
      BY DEF c
    <3> QED BY <2>2, <3>1, SMT
  <2>4. IsVmHeapAddress(a) /\ a % SlotBytes = 0 /\ at = b + k - 1
    <3>1. a = HeapAddress(b + k - 1)
      BY <1>4 DEF b
    <3> QED BY <2>3, <3>1, SlotAddress
  <2>5. Covers(h.allocations[i], at)
    BY <2>1, <2>3, <2>4 DEF Covers, b, c
  <2> QED BY <2>1, <2>3, <2>4, <2>5 DEF ResolveIndirectAddress
<1> QED BY <1>1, <1>3, <1>4

\* The object and the position in it a slot belongs to.
LEMMA SlotOfObject ==
  ASSUME NEW h, HeapOK(h), NEW at \in Nat,
         NEW i \in DOMAIN h.allocations, Covers(h.allocations[i], at)
  PROVE  LET b == h.allocations[i].baseIndex
             k == at - b + 1 IN
         /\ i \in Live(h) /\ b \in DOMAIN Objects(h) /\ Objects(h)[b] = Part(h, i)
         /\ k \in 1 .. h.allocations[i].slotCount
         /\ k \in DOMAIN Objects(h)[b]
         /\ b \in Nat /\ b + k = at + 1 /\ b + k - 1 = at
         /\ Objects(h)[b][k] = h.slots[at + 1]
<1> DEFINE b == h.allocations[i].baseIndex
           c == h.allocations[i].slotCount
           k == at - b + 1
<1>1. i \in Live(h)
  BY DEF Live, Covers
<1>2. b \in DOMAIN Objects(h) /\ Objects(h)[b] = Part(h, i) /\ b \in Nat /\ c \in Nat
  BY <1>1, ObjectsAt, Records
<1>3. at >= b /\ at < b + c
  BY DEF Covers
<1>4. k \in 1 .. c /\ b + k = at + 1 /\ b + k - 1 = at
  <2> HIDE DEF b, c
  <2> QED BY <1>2, <1>3, SMT
<1>5. Part(h, i) = [l \in 1 .. c |-> h.slots[b + l]]
  BY DEF Part
<1> HIDE DEF b, c, k
<1>6. k \in DOMAIN Objects(h)[b] /\ Objects(h)[b][k] = h.slots[at + 1]
  BY <1>2, <1>4, <1>5
<1> QED BY <1>1, <1>2, <1>4, <1>6 DEF b, c, k

\* What is not resolved is no object's.
LEMMA Unbound ==
  ASSUME HeapOK(heap), NEW a \in Word, ~ResolveIndirectAddress(a, 0, heap).ok
  PROVE  ~Abstract!Bound(a)
<1> SUFFICES ASSUME NEW b \in DOMAIN Objects(heap), NEW k \in DOMAIN Objects(heap)[b],
                    a = Abstract!Address(b + k - 1)
             PROVE  FALSE
  BY Mapping DEF Abstract!Bound, Abstract!Names
<1>0. b \in Bases(heap)
  BY ObjectsAt
<1>1. PICK i \in Live(heap) : heap.allocations[i].baseIndex = b
  BY <1>0 DEF Bases
<1>2. Objects(heap)[b] = Part(heap, i)
  BY <1>1, ObjectsAt
<1>3. k \in 1 .. heap.allocations[i].slotCount
  BY <1>2 DEF Part
<1>4. a = HeapAddress(heap.allocations[i].baseIndex + k - 1)
  BY <1>1 DEF Abstract!Address, HeapAddress
<1> QED BY <1>1, <1>3, <1>4, Resolved

\* LoadIndirect reads one object.
LEMMA LoadStep ==
  ASSUME HeapOK(heap), NEW a \in Word, LoadIndirect(a)
  PROVE  Abstract!Load(a)
<1> DEFINE slot == ResolveIndirectAddress(a, 0, heap)
           at == SlotIndex(a)
<1>1. slot.ok \in BOOLEAN
  BY Resolved
<1>2. heap' = heap /\ heap.slots = heapSlots
  BY DEF LoadIndirect, heap
<1>3. reply' = [op |-> "load", ok |-> slot.ok, value |-> IF slot.ok THEN heapSlots[slot.index] ELSE 0]
  BY DEF LoadIndirect
<1>4. CASE ~slot.ok
  <2>1. Abstract!Fault("load")
    BY <1>1, <1>2, <1>3, <1>4, NothingChanges DEF Abstract!Fault
  <2>2. ~Abstract!Bound(a)
    BY <1>4, Unbound
  <2> QED BY <2>1, <2>2 DEF Abstract!Load
<1>5. CASE slot.ok
  <2>1. /\ a = HeapAddress(at) /\ at \in Nat
        /\ slot.index = at + 1
        /\ \E i \in DOMAIN heap.allocations : Covers(heap.allocations[i], at)
    BY <1>5, Resolved
  <2>2. PICK i \in DOMAIN heap.allocations : Covers(heap.allocations[i], at)
    BY <2>1
  <2> DEFINE b == heap.allocations[i].baseIndex
             k == at - b + 1
  <2> HIDE DEF slot, at
  <2>3. /\ b \in DOMAIN Objects(heap) /\ k \in DOMAIN Objects(heap)[b] /\ b + k - 1 = at
        /\ Objects(heap)[b][k] = heap.slots[at + 1]
    BY <2>1, <2>2, SlotOfObject
  <2> HIDE DEF b, k
  <2>4. Abstract!Names(a, b, k)
    BY <2>1, <2>3, Mapping DEF Abstract!Names, Abstract!Address, HeapAddress
  <2>5. Abstract!Ok("load", Objects(heap)[b][k])
    BY <1>1, <1>2, <1>3, <1>5, <2>1, <2>3 DEF Abstract!Ok
  <2> QED BY <1>2, <2>3, <2>4, <2>5, Mapping, NothingChanges DEF Abstract!Load
<1> QED BY <1>1, <1>4, <1>5

\* StoreIndirect writes one object.
LEMMA StoreStep ==
  ASSUME HeapOK(heap), HeapOK(heap'), NEW a \in Word, NEW v \in Word, StoreIndirect(a, v)
  PROVE  Abstract!Store(a, v)
<1> DEFINE slot == ResolveIndirectAddress(a, 0, heap)
           at == SlotIndex(a)
<1>1. slot.ok \in BOOLEAN
  BY Resolved
<1>2. /\ heap.slots = heapSlots /\ heap.allocations = heapAllocations
      /\ heap'.slots = heapSlots' /\ heap'.allocations = heapAllocations
      /\ heapAllocations' = heapAllocations
  BY DEF StoreIndirect, heap
<1>3. /\ heapSlots' = IF slot.ok THEN [heapSlots EXCEPT ![slot.index] = v] ELSE heapSlots
      /\ reply' = [op |-> "store", ok |-> slot.ok, value |-> IF slot.ok THEN v ELSE 0]
  BY DEF StoreIndirect
<1>4. CASE ~slot.ok
  <2>1. heap' = heap
    BY <1>2, <1>3, <1>4 DEF heap
  <2>2. Abstract!Fault("store")
    BY <1>1, <1>3, <1>4, <2>1, NothingChanges DEF Abstract!Fault
  <2>3. ~Abstract!Bound(a)
    BY <1>4, Unbound
  <2> QED BY <2>2, <2>3 DEF Abstract!Store
<1>5. CASE slot.ok
  <2>1. /\ a = HeapAddress(at) /\ at \in Nat /\ at < Len(heap.slots)
        /\ slot.index = at + 1
        /\ \E i \in DOMAIN heap.allocations : Covers(heap.allocations[i], at)
    BY <1>5, Resolved
  <2>2. PICK i \in DOMAIN heap.allocations : Covers(heap.allocations[i], at)
    BY <2>1
  <2> DEFINE b == heap.allocations[i].baseIndex
             c == heap.allocations[i].slotCount
             k == at - b + 1
  <2>3. heapSlots' = [heapSlots EXCEPT ![at + 1] = v]
    BY <1>3, <1>5, <2>1
  <2> HIDE DEF slot, at
  <2>4. /\ i \in Live(heap) /\ b \in DOMAIN Objects(heap) /\ Objects(heap)[b] = Part(heap, i)
        /\ k \in 1 .. c /\ k \in DOMAIN Objects(heap)[b]
        /\ b \in Nat /\ b + k = at + 1 /\ b + k - 1 = at
    BY <2>1, <2>2, SlotOfObject
  <2>5. Abstract!Names(a, b, k)
    <3> HIDE DEF b, k
    <3> QED BY <2>1, <2>4, Mapping DEF Abstract!Names, Abstract!Address, HeapAddress
  <2>6. Abstract!Ok("store", v)
    BY <1>1, <1>3, <1>5 DEF Abstract!Ok
  <2>7. Live(heap') = Live(heap) /\ Bases(heap') = Bases(heap)
    BY <1>2 DEF Live, Bases
  <2>8. Len(heapSlots') = Len(heapSlots)
    <3>1. heapSlots \in Seq(Word)
      BY <1>2, Records
    <3> QED BY <2>3, <3>1, SMT
  <2> DEFINE O == Objects(heap)
             f == [O EXCEPT ![b] = [O[b] EXCEPT ![k] = v]]
             D == Bases(heap)
  <2>9. DOMAIN O = D /\ f = [x \in D |-> IF x = b THEN [O[b] EXCEPT ![k] = v] ELSE O[x]]
    BY <2>4, ObjectsAt
  <2>10. ASSUME NEW j \in Live(heap')
         PROVE  f[heap'.allocations[j].baseIndex] = Part(heap', j)
    <3>1. j \in Live(heap) /\ j \in DOMAIN heap.allocations /\ i \in DOMAIN heap.allocations
      BY <2>7 DEF Live
    <3> DEFINE s == heap.allocations[j].baseIndex
               m == heap.allocations[j].slotCount
    <3>2. /\ s \in D /\ O[s] = Part(heap, j)
          /\ Part(heap, j) = [l \in 1 .. m |-> heapSlots[s + l]]
          /\ Part(heap', j) = [l \in 1 .. m |-> heapSlots'[s + l]]
          /\ heap'.allocations[j].baseIndex = s
      BY <1>2, <3>1, ObjectsAt DEF Part
    <3>3. /\ s \in Nat /\ m \in Nat \ {0} /\ s + m <= Len(heapSlots) /\ Len(heapSlots) \in Nat
          /\ c \in Nat \ {0} /\ DOMAIN heapSlots = 1 .. Len(heapSlots)
          /\ j # i => s + m <= b \/ b + c <= s
      BY <1>2, <3>1, Records
    <3>4. CASE j = i
      <4>1. s = b /\ m = c
        BY <3>4
      <4> HIDE DEF s, m, b, c, k, O, f, D
      <4>2. ASSUME NEW l \in 1 .. c
            PROVE  heapSlots'[b + l] = IF l = k THEN v ELSE heapSlots[b + l]
        <5>1. b + l \in DOMAIN heapSlots /\ (b + l = at + 1 <=> l = k)
          BY <2>4, <3>3, <4>1, SMT
        <5> QED BY <2>3, <5>1
      <4>3. O[b] = [l \in 1 .. c |-> heapSlots[b + l]]
        BY <3>2, <4>1
      <4>4. [O[b] EXCEPT ![k] = v] = [l \in 1 .. c |-> IF l = k THEN v ELSE heapSlots[b + l]]
        BY <4>3
      <4>5. Part(heap', j) = [l \in 1 .. c |-> heapSlots'[b + l]]
        BY <3>2, <4>1
      <4>6. f[b] = [O[b] EXCEPT ![k] = v]
        BY <2>9, <3>2, <4>1
      <4>7. f[b] = Part(heap', j)
        BY <4>2, <4>4, <4>5, <4>6
      <4> QED BY <3>2, <4>1, <4>7
    <3>5. CASE j # i
      <4>1. j # i => s + m <= b \/ b + c <= s
        BY <3>3
      <4> HIDE DEF s, m, b, c, k, O, f, D
      <4>2. s # b
        BY <2>4, <3>3, <3>5, <4>1, SMT
      <4>3. ASSUME NEW l \in 1 .. m
            PROVE  heapSlots'[s + l] = heapSlots[s + l]
        <5>1. s + l \in DOMAIN heapSlots /\ s + l # at + 1
          BY <2>1, <2>4, <3>3, <3>5, <4>1, SMTT(30)
        <5> QED BY <2>3, <5>1
      <4> QED BY <2>9, <3>2, <4>2, <4>3
    <3> QED BY <3>4, <3>5
  <2>11. f = [x \in D |-> f[x]]
    BY <2>9
  <2>12. D = Bases(heap')
    BY <2>7
  <2> HIDE DEF f, D
  <2>13. Objects(heap') = f
    BY <2>10, <2>11, <2>12, ObjectsAre
  <2>14. f = [O EXCEPT ![b][k] = v]
    BY DEF f
  <2> HIDE DEF b, k, O
  <2>15. [base \in LiveBases |-> Contents(base)]'
           = [[base \in LiveBases |-> Contents(base)] EXCEPT ![b][k] = v]
    BY <2>13, <2>14, Mapping DEF O
  <2> QED BY <2>4, <2>5, <2>6, <2>8, <2>15, Mapping DEF Abstract!Store
<1> QED BY <1>1, <1>4, <1>5

\* The empty heap has no objects.
LEMMA InitObjects == Init => Abstract!Init
<1> SUFFICES ASSUME Init PROVE Abstract!Init
  OBVIOUS
<1>1. heapSlots = <<>> /\ heapAllocations = <<>>
  BY DEF Init
<1>2. LiveBases = {}
  BY <1>1 DEF LiveBases
<1>3. [base \in LiveBases |-> Contents(base)] = <<>>
  BY <1>2
<1>4. 0 .. (Len(heapSlots) - 1) = {}
  BY <1>1, SMT
<1> QED BY <1>3, <1>4 DEF Init, Abstract!Init

\* Every opcode is a step of AbstractHeap.
LEMMA NextObjects ==
  ASSUME Inv, Inv', [Next]_vars
  PROVE  [Abstract!Next]_(Abstract!vars)
<1>1. HeapOK(heap) /\ HeapOK(heap')
  BY DEF Inv
<1>2. ASSUME NEW n \in SlotCounts, HeapAlloc(n)
      PROVE  Abstract!Alloc("alloc", n)
  BY <1>1, <1>2, ProgramWords, AllocStep DEF HeapAlloc
<1>3. ASSUME NEW a \in Addresses, HeapFree(a)
      PROVE  Abstract!Free("free", a)
  BY <1>1, <1>3, ProgramWords, FreeStep DEF HeapFree
<1>4. ASSUME NEW a \in Addresses, NEW n \in SlotCounts, HeapRealloc(a, n)
      PROVE  Abstract!Realloc(a, n)
  BY <1>1, <1>4, ProgramWords, ReallocStep
<1>5. ASSUME NEW a \in Addresses, LoadIndirect(a)
      PROVE  Abstract!Load(a)
  BY <1>1, <1>5, ProgramWords, LoadStep
<1>6. ASSUME NEW a \in Addresses, NEW v \in Values, StoreIndirect(a, v)
      PROVE  Abstract!Store(a, v)
  BY <1>1, <1>6, ProgramWords, StoreStep
<1>7. CASE UNCHANGED vars
  <2>1. heap' = heap /\ reply' = reply
    BY <1>7 DEF vars, heap
  <2> QED BY <1>1, <2>1, NothingChanges DEF Abstract!vars
<1> QED BY <1>2, <1>3, <1>4, <1>5, <1>6, <1>7 DEF Next, Abstract!Next

\* The slot vector and its records implement separate objects: whatever a
\* program allocates, frees, resizes, loads and stores, each operation does to
\* the object it names what AbstractHeap says, and to no other.
THEOREM HeapIsObjects == Spec => ImplementsObjects
<1>1. Inv /\ [Next]_vars => Inv'
  BY NextInv
<1>2. Inv /\ Inv' /\ [Next]_vars => [Abstract!Next]_(Abstract!vars)
  BY NextObjects
<1> QED BY InitInv, InitObjects, <1>1, <1>2, PTL DEF Spec, ImplementsObjects, Abstract!Spec
=============================================================================
