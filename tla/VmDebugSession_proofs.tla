------------------------ MODULE VmDebugSession_proofs ------------------------
(***************************************************************************)
(* The session's invariants for every set of modules, breakpoints and      *)
(* hooks: whatever the client calls and whenever a hook lets it call, the  *)
(* session's state, the program's frames and the call in flight agree.     *)
(***************************************************************************)
EXTENDS VmDebugSession, VmHeapHelpers_proofs, WellFoundedInduction

(***************************************************************************)
(* What one instruction does to the machine, for every module, word size,  *)
(* heap limit and call depth: it keeps words words, the heap ordered and   *)
(* frames frames, and it changes the frames in one of four ways.           *)
(***************************************************************************)
MachineOK ==
  /\ module \in Modules \cup {NoModule}
  /\ frames \in Seq(FrameType)
  /\ stack \in Seq(Word)
  /\ HeapOK(heap)
  /\ result \in Word
  /\ \A i \in DOMAIN frames : frames[i].functionIndex < Len(module.functions)

\* The top frame changes in its ip and its locals, the others not at all.
TopChanges ==
  /\ frames' \in Seq(FrameType)
  /\ Len(frames') = Len(frames)
  /\ \A i \in DOMAIN frames :
       /\ frames'[i].functionIndex = frames[i].functionIndex
       /\ frames'[i].returnValueToCaller = frames[i].returnValueToCaller
       /\ i # Len(frames) => frames'[i] = frames[i]

\* A call pushes a frame and moves its caller past the call.
FramePushed ==
  /\ frames' \in Seq(FrameType)
  /\ Len(frames') = Len(frames) + 1
  /\ Len(frames) < MaxCallDepth
  /\ Inst.op \in Calls
  /\ Inst.imm < Len(module.functions)
  /\ \A i \in DOMAIN frames :
       /\ frames'[i].functionIndex = frames[i].functionIndex
       /\ frames'[i].returnValueToCaller = frames[i].returnValueToCaller
       /\ i # Len(frames) => frames'[i] = frames[i]
  /\ frames'[Len(frames)].ip = Frame.ip + 1
  /\ frames'[Len(frames) + 1].functionIndex = Inst.imm
  /\ frames'[Len(frames) + 1].returnValueToCaller = (Inst.op = "Call")

FramePopped ==
  /\ Len(frames) > 1
  /\ frames' \in Seq(FrameType)
  /\ Len(frames') = Len(frames) - 1
  /\ \A i \in DOMAIN frames' : i \in DOMAIN frames /\ frames'[i] = frames[i]

\* What an instruction with a given outcome does to the frames.
FramesAfter(o) ==
  \/ o = "Fault" /\ frames' = frames
  \/ o = "Exit" /\ Len(frames) = 1 /\ frames' = <<>>
  \/ o = "Continue" /\ (TopChanges \/ FramePushed \/ FramePopped)

-----------------------------------------------------------------------------
\* A set of natural numbers has a least element, and a bounded one a largest.
LEMMA LeastNatural ==
  ASSUME NEW U \in SUBSET Nat, U # {}
  PROVE  \E u \in U : \A v \in U : u <= v
<1> DEFINE R == {pair \in Nat \X Nat : pair[1] < pair[2]}
<1>1. IsWellFoundedOn(R, Nat)
  BY NatLessThanWellFounded DEF OpToRel
<1>2. PICK u \in U : \A v \in U : <<v, u>> \notin R
  BY <1>1, WFMin
<1>3. \A v \in U : ~(v < u)
  BY <1>2, Zenon
<1> QED BY <1>3, SMT

\* A bounded set of natural numbers has a largest element.
LEMMA LargestNatural ==
  ASSUME NEW S \in SUBSET Nat, S # {}, NEW b \in Nat, \A s \in S : s <= b
  PROVE  \E n \in S : \A s \in S : s <= n
<1> DEFINE U == {n \in Nat : \A s \in S : s <= n}
<1>1. PICK u \in U : \A v \in U : u <= v
  <2> HIDE DEF U
  <2>1. b \in U /\ U \in SUBSET Nat
    BY DEF U
  <2> QED BY <2>1, LeastNatural
<1>2. ASSUME u \notin S PROVE FALSE
  <2>1. \A s \in S : s <= u /\ s # u
    BY <1>2
  <2>2. PICK e \in S : TRUE
    OBVIOUS
  <2>3. u \in Nat /\ u - 1 \in Nat /\ \A s \in S : s <= u - 1
    BY <2>1, <2>2, SMT
  <2>4. u - 1 \in U
    BY <2>3, SMT
  <2> HIDE DEF U
  <2> QED BY <2>3, <2>4, <1>1, SMT
<1> QED BY <1>1, <1>2

-----------------------------------------------------------------------------
\* Sign extension gives a word.
LEMMA SignExtendType ==
  ASSUME NEW v \in Nat
  PROVE  SignExtend(v) \in Word
<1>1. HalfLimit \in Nat \ {0} /\ HalfLimit <= WordLimit
  BY Words, MachineAssumption, SMT
<1>2. v % HalfLimit \in 0 .. (HalfLimit - 1)
  BY <1>1, SMT
<1> QED BY <1>1, <1>2, Words, SMT DEF SignExtend

\* The locals a function names are finitely many (computeVmKernelLocalCount).
LEMMA LocalCountType ==
  ASSUME NEW code, IsCode(code)
  PROVE  LocalCount(code) \in Nat
<1> DEFINE sizes == {0} \cup {code[i].imm + 1 : i \in {j \in DOMAIN code : code[j].op \in LocalOps}}
<1>1. \A i \in DOMAIN code : code[i].imm \in Word
  BY DEF IsCode
<1>2. \A s \in sizes : s \in Nat /\ s <= WordLimit
  BY <1>1, Words, SMT
<1>3. 0 \in sizes
  OBVIOUS
<1>4. LocalCount(code) = CHOOSE n \in sizes : \A k \in sizes : k <= n
  BY DEF LocalCount
<1> HIDE DEF sizes
<1>5. \E n \in sizes : \A k \in sizes : k <= n
  BY <1>2, <1>3, Words, LargestNatural
<1> QED BY <1>2, <1>4, <1>5

\* A new frame has words for its locals.
LEMMA NewFrameType ==
  ASSUME NEW functions, NEW f \in Nat, IsCode(functions[f + 1]),
         NEW returns \in BOOLEAN
  PROVE  /\ NewFrame(functions, f, returns) \in FrameType
         /\ NewFrame(functions, f, returns).functionIndex = f
         /\ NewFrame(functions, f, returns).returnValueToCaller = returns
<1>1. LocalCount(functions[f + 1]) \in Nat
  BY LocalCountType
<1> DEFINE locals == [i \in 1 .. LocalCount(functions[f + 1]) |-> 0]
<1>3. locals \in Seq(Word)
  BY <1>1, Words, SMT
<1> HIDE DEF locals
<1>4. NewFrame(functions, f, returns)
        = [functionIndex |-> f, ip |-> 0, locals |-> locals, returnValueToCaller |-> returns]
  BY DEF NewFrame, locals
<1> QED BY <1>3, <1>4 DEF FrameType

\* Entering a module: initFromModule and the head of executeVmKernel.
LEMMA EnterOK ==
  ASSUME NEW m \in Modules, Enter(m)
  PROVE  /\ MachineOK'
         /\ module' = m /\ m # NoModule
         /\ Len(frames') = 1
         /\ frames'[1].functionIndex = m.entryIndex
         /\ ~frames'[1].returnValueToCaller
<1>1. /\ m.entryIndex \in Int
      /\ Len(m.functions) \in Nat
      /\ \A f \in 1 .. Len(m.functions) : IsCode(m.functions[f])
  BY MachineAssumption
<1>2. /\ m.entryIndex \in Nat
      /\ m.entryIndex < Len(m.functions)
      /\ IsCode(m.functions[m.entryIndex + 1])
  BY <1>1, SMT DEF Enter, ValidEntry
<1>3. m # NoModule
  BY <1>2, SMT DEF NoModule
<1> DEFINE f == NewFrame(m.functions, m.entryIndex, FALSE)
<1>4. f \in FrameType /\ f.functionIndex = m.entryIndex /\ f.returnValueToCaller = FALSE
  BY <1>2, NewFrameType
<1>5. frames' = <<f>> /\ module' = m /\ stack' = <<>> /\ heap' = EmptyHeap /\ result' = 0
  BY DEF Enter
<1> HIDE DEF f
<1>6. HeapOK(EmptyHeap)
  BY EmptyHeapOK
<1>7. HeapOK(heap')
  BY <1>5, <1>6
<1>8. frames' \in Seq(FrameType) /\ Len(frames') = 1 /\ frames'[1] = f
  BY <1>4, <1>5, SMT
<1>9. \A i \in DOMAIN frames' : frames'[i].functionIndex < Len(module'.functions)
  BY <1>2, <1>4, <1>5, <1>8, SMT
<1> QED BY <1>3, <1>4, <1>5, <1>7, <1>8, <1>9, Words, SMT DEF MachineOK

-----------------------------------------------------------------------------
\* The instruction about to execute exists and has a word for its immediate.
LEMMA RunningType ==
  ASSUME MachineOK, frames # <<>>
  PROVE  /\ module \in Modules
         /\ Len(frames) \in Nat \ {0}
         /\ Len(frames) \in DOMAIN frames
         /\ Frame \in FrameType /\ Frame = frames[Len(frames)]
         /\ Depth = Len(frames)
         /\ Frame.functionIndex < Len(module.functions)
         /\ IsCode(Code(Frame.functionIndex))
         /\ \A f \in 1 .. Len(module.functions) : IsCode(module.functions[f])
         /\ Len(module.functions) \in Nat
         /\ Frame.functionIndex \in Nat /\ Frame.ip \in Nat
         /\ Frame.locals \in Seq(Word) /\ Frame.returnValueToCaller \in BOOLEAN
         /\ ~AtEnd => Inst.imm \in Word
<1>1. Len(frames) \in Nat \ {0} /\ Len(frames) \in DOMAIN frames /\ Depth = Len(frames)
  BY SMT DEF MachineOK, Depth
<1>2. Frame \in FrameType /\ Frame = frames[Len(frames)]
  BY <1>1 DEF MachineOK, Frame, Depth
<1>3. Frame.functionIndex < Len(module.functions)
  BY <1>1, <1>2 DEF MachineOK
<1>4. /\ Frame.functionIndex \in Nat /\ Frame.ip \in Nat
      /\ Frame.locals \in Seq(Word) /\ Frame.returnValueToCaller \in BOOLEAN
  BY <1>2 DEF FrameType
<1>5. module # NoModule
  <2> SUFFICES ASSUME module = NoModule PROVE FALSE
    OBVIOUS
  <2>1. Len(module.functions) = 0
    BY SMT DEF NoModule
  <2> QED BY <2>1, <1>3, <1>4, SMT
<1>6. module \in Modules
  BY <1>5 DEF MachineOK
<1>7. Len(module.functions) \in Nat
        /\ \A f \in 1 .. Len(module.functions) : IsCode(module.functions[f])
  BY <1>6, MachineAssumption
<1>8. IsCode(Code(Frame.functionIndex))
  <2>1. Frame.functionIndex + 1 \in 1 .. Len(module.functions)
    BY <1>3, <1>4, <1>7, SMT
  <2> QED BY <2>1, <1>7 DEF Code
<1>9. ASSUME ~AtEnd PROVE Inst.imm \in Word
  <2> DEFINE code == Code(Frame.functionIndex)
  <2>1. Inst = code[Frame.ip + 1] /\ ~(Frame.ip >= Len(code))
    BY <1>9 DEF Inst, AtEnd
  <2>2. Len(code) \in Nat /\ DOMAIN code = 1 .. Len(code)
           /\ \A i \in DOMAIN code : code[i].imm \in Word
    BY <1>8 DEF IsCode
  <2> HIDE DEF code
  <2> QED BY <2>1, <2>2, <1>4, SMT
<1> QED BY <1>1, <1>2, <1>3, <1>4, <1>6, <1>7, <1>8, <1>9

\* Replacing the top frame by one of the same function.
LEMMA SetTop ==
  ASSUME MachineOK, frames # <<>>, NEW f \in FrameType,
         f.functionIndex = Frame.functionIndex,
         f.returnValueToCaller = Frame.returnValueToCaller,
         frames' = [frames EXCEPT ![Depth] = f]
  PROVE  TopChanges
BY RunningType, SMT DEF MachineOK, TopChanges

\* Changing the top frame's ip leaves a frame.
LEMMA MoveOK ==
  ASSUME MachineOK, frames # <<>>, NEW ip \in Nat, MoveTo(ip)
  PROVE  TopChanges
<1> DEFINE f == [Frame EXCEPT !.ip = ip]
<1>1. frames' = [frames EXCEPT ![Depth] = f]
  BY DEF MoveTo, Frame
<1>2. f \in FrameType /\ f.functionIndex = Frame.functionIndex
         /\ f.returnValueToCaller = Frame.returnValueToCaller
  BY RunningType DEF FrameType
<1> HIDE DEF f
<1> QED BY <1>1, <1>2, SetTop

\* Storing a word in a local leaves a frame.
LEMMA SetLocalOK ==
  ASSUME MachineOK, frames # <<>>, NEW index \in 1 .. Len(Frame.locals), NEW word \in Word,
         SetLocal(index, word)
  PROVE  TopChanges
<1> DEFINE locals == [Frame.locals EXCEPT ![index] = word]
           f == [Frame EXCEPT !.locals = locals, !.ip = Frame.ip + 1]
<1>1. frames' = [frames EXCEPT ![Depth] = f]
  BY RunningType DEF SetLocal, Frame, MachineOK, Depth
<1>2. locals \in Seq(Word)
  BY RunningType, SMT
<1>3. Frame.ip + 1 \in Nat
  BY RunningType, SMT
<1>4. f \in FrameType /\ f.functionIndex = Frame.functionIndex
         /\ f.returnValueToCaller = Frame.returnValueToCaller
  <2> HIDE DEF locals
  <2> QED BY RunningType, <1>2, <1>3 DEF FrameType
<1> HIDE DEF f, locals
<1> QED BY <1>1, <1>4, SetTop

\* The operands an instruction may take are words, and so is what is left.
LEMMA OperandType ==
  ASSUME stack \in Seq(Word), NEW n \in Nat, n < Len(stack)
  PROVE  Operand(n) \in Word
BY SMT DEF Operand

\* Dropping operands leaves operands.
LEMMA DropType ==
  ASSUME stack \in Seq(Word), NEW n \in Nat, n <= Len(stack)
  PROVE  Drop(n) \in Seq(Word)
BY SMT DEF Drop

\* Replacing operands by a word leaves operands.
LEMMA ReplaceOK ==
  ASSUME stack \in Seq(Word), NEW n \in Nat, n <= Len(stack),
         NEW words \in Seq(Word), ReplaceOperands(n, words)
  PROVE  stack' \in Seq(Word)
BY DropType, SMT DEF ReplaceOperands

-----------------------------------------------------------------------------
\* What it takes to keep the machine well formed when the top frame moves.
LEMMA TopChangesOK ==
  ASSUME MachineOK, TopChanges, stack' \in Seq(Word), HeapOK(heap'),
         UNCHANGED <<module, result>>
  PROVE  MachineOK'
<1>1. \A i \in DOMAIN frames' : i \in DOMAIN frames
  BY SMT DEF MachineOK, TopChanges
<1>2. \A i \in DOMAIN frames' : frames'[i].functionIndex < Len(module'.functions)
  BY <1>1 DEF MachineOK, TopChanges
<1> QED BY <1>2 DEF MachineOK, TopChanges

\* An instruction that does not fault finds its operands.
LEMMA OperandsThere ==
  ASSUME MachineOK, ~Faults
  PROVE  /\ Len(stack) \in Nat
         /\ Inst.op \in Unary => 1 <= Len(stack)
         /\ Inst.op \in Binary => 2 <= Len(stack)
         /\ Operands(Inst.op) \in Nat /\ Operands(Inst.op) <= Len(stack)
         /\ ~BadInstruction
<1>1. ~Underflow /\ ~BadInstruction
  BY DEF Faults
<1>2. Len(stack) \in Nat
  BY DEF MachineOK
<1>3. Unary \cap Binary = {}
  BY DEF Unary, Binary, Numerics
<1> QED BY <1>1, <1>2, <1>3, SMT DEF Underflow, Operands

\* What an instruction that does not fault may rely on.
LEMMA Sound ==
  ASSUME ~BadInstruction
  PROVE  /\ Inst.op \in LocalOps => ~(Inst.imm >= Len(Frame.locals))
         /\ Inst.op \in Jumps => ~(Inst.imm > Len(Code(Frame.functionIndex)))
         /\ Inst.op \in Calls => ~(Inst.imm >= Len(module.functions)) /\ ~(Depth >= MaxCallDepth)
         /\ Inst.op = "DivU64" => Operand(0) # 0
         /\ Inst.op \in {"LoadIndirect", "StoreIndirect"} => IndirectSlot.ok
BY DEF BadInstruction

\* Push opcodes.
LEMMA PushOK ==
  ASSUME MachineOK, frames # <<>>, ~AtEnd, Push, UNCHANGED <<module, result>>
  PROVE  MachineOK' /\ TopChanges
<1> DEFINE word == CASE Inst.op = "PushI32" -> SignExtend(Inst.imm)
                     [] Inst.op = "PushI64" -> Inst.imm
                     [] Inst.op = "PushArgc" -> SignExtend(ArgCount)
<1>1. Inst.imm \in Word /\ Inst.imm \in Nat
  BY RunningType, Words
<1>2. SignExtend(Inst.imm) \in Word /\ SignExtend(ArgCount) \in Word
  BY <1>1, MachineAssumption, SignExtendType
<1>3. word \in Word
  BY <1>1, <1>2 DEF Push, Constants
<1>4. stack' = Append(stack, word)
  BY DEF Push
<1> HIDE DEF word
<1>5. stack' \in Seq(Word)
  BY <1>3, <1>4 DEF MachineOK
<1>6. TopChanges
  <2>1. Frame.ip + 1 \in Nat
    BY RunningType, SMT
  <2> QED BY <2>1, MoveOK DEF Push, Advance
<1>7. HeapOK(heap')
  BY DEF Push, MachineOK
<1> QED BY <1>5, <1>6, <1>7, TopChangesOK

\* Opcodes that only advance.
LEMMA AdvanceOK ==
  ASSUME MachineOK, frames # <<>>, Advance
  PROVE  TopChanges
<1>1. Frame.ip + 1 \in Nat
  BY RunningType, SMT
<1> QED BY <1>1, MoveOK DEF Advance

\* LoadLocal.
LEMMA LoadLocalOK ==
  ASSUME MachineOK, frames # <<>>, ~AtEnd, ~Faults, LoadLocal, UNCHANGED <<module, result>>
  PROVE  MachineOK' /\ TopChanges
<1> DEFINE word == IF Inst.op = "LoadLocal" THEN Frame.locals[Inst.imm + 1]
                   ELSE (Inst.imm * SlotBytes) % WordLimit
<1>1. Inst.imm \in Nat /\ ~(Inst.imm >= Len(Frame.locals)) /\ Frame.locals \in Seq(Word)
  BY RunningType, Words, OperandsThere, Sound DEF LocalOps, LoadLocal
<1>2. Frame.locals[Inst.imm + 1] \in Word
  BY <1>1, SMT
<1>3. (Inst.imm * SlotBytes) % WordLimit \in Word
  BY <1>1, Words, SMT DEF SlotBytes
<1>4. word \in Word
  BY <1>2, <1>3
<1>5. stack' = Append(stack, word)
  BY DEF LoadLocal
<1> HIDE DEF word
<1>6. stack' \in Seq(Word)
  BY <1>4, <1>5 DEF MachineOK
<1>7. TopChanges
  BY AdvanceOK DEF LoadLocal
<1> QED BY <1>6, <1>7, TopChangesOK DEF LoadLocal, MachineOK

\* StoreLocal.
LEMMA StoreLocalOK ==
  ASSUME MachineOK, frames # <<>>, ~AtEnd, ~Faults, StoreLocal, UNCHANGED <<module, result>>
  PROVE  MachineOK' /\ TopChanges
<1>1. /\ Inst.imm \in Nat /\ ~(Inst.imm >= Len(Frame.locals)) /\ Frame.locals \in Seq(Word)
      /\ 1 <= Len(stack)
  BY RunningType, Words, OperandsThere, Sound DEF LocalOps, StoreLocal, Unary
<1>2. Operand(0) \in Word
  BY <1>1, OperandType, SMT DEF MachineOK
<1>3. stack' \in Seq(Word)
  <2>1. 1 \in Nat /\ <<>> \in Seq(Word) /\ ReplaceOperands(1, <<>>) /\ stack \in Seq(Word)
    BY DEF StoreLocal, MachineOK
  <2> QED BY <1>1, <2>1, ReplaceOK
<1>4. Inst.imm + 1 \in 1 .. Len(Frame.locals)
  BY <1>1, SMT
<1>5. TopChanges
  BY <1>2, <1>4, SetLocalOK DEF StoreLocal
<1> QED BY <1>3, <1>5, TopChangesOK DEF StoreLocal, MachineOK

\* The words an indirect access addresses are those of a slot there is.
LEMMA IndirectType ==
  ASSUME MachineOK, frames # <<>>, ~Faults, Inst.op \in {"LoadIndirect", "StoreIndirect"}
  PROVE  \/ /\ IndirectSlot.space = "heap"
            /\ IndirectSlot.index \in 1 .. Len(heap.slots)
            /\ \E i \in DOMAIN heap.allocations :
                 Covers(heap.allocations[i], IndirectSlot.index - 1)
         \/ IndirectSlot.space = "local" /\ IndirectSlot.index \in 1 .. Len(Frame.locals)
<1>1. IndirectSlot.ok
  BY OperandsThere, Sound
<1> DEFINE n == IF Inst.op = "StoreIndirect" THEN 1 ELSE 0
<1>2. n \in Nat /\ n < Len(stack)
  BY OperandsThere, SMT DEF Unary, Binary
<1> HIDE DEF n
<1>3. Operand(n) \in Word
  BY <1>2, OperandType DEF MachineOK
<1>4. Len(Frame.locals) \in Nat
  BY RunningType
<1>5. IndirectSlot = ResolveIndirectAddress(Operand(n), Len(Frame.locals), heap)
  BY DEF IndirectSlot, n
<1> QED BY <1>1, <1>3, <1>4, <1>5, HeapSlotType DEF MachineOK

\* LoadIndirect.
LEMMA LoadIndirectOK ==
  ASSUME MachineOK, frames # <<>>, ~AtEnd, ~Faults, LoadIndirect, UNCHANGED <<module, result>>
  PROVE  MachineOK' /\ TopChanges
<1> DEFINE word == IF IndirectSlot.space = "heap" THEN heap.slots[IndirectSlot.index]
                   ELSE Frame.locals[IndirectSlot.index]
<1>1. heap.slots \in Seq(Word) /\ Frame.locals \in Seq(Word)
  BY RunningType DEF MachineOK, HeapOK, HeapType
<1>2. word \in Word
  <2>1. CASE IndirectSlot.space = "heap" /\ IndirectSlot.index \in 1 .. Len(heap.slots)
    BY <1>1, <2>1, SMT
  <2>2. CASE IndirectSlot.space = "local" /\ IndirectSlot.index \in 1 .. Len(Frame.locals)
    BY <1>1, <2>2, SMT
  <2> QED BY <2>1, <2>2, IndirectType DEF LoadIndirect
<1>3. 1 <= Len(stack)
  BY OperandsThere DEF LoadIndirect, Unary
<1>4. ReplaceOperands(1, <<word>>)
  BY DEF LoadIndirect
<1> HIDE DEF word
<1>5. stack' \in Seq(Word)
  <2>1. 1 \in Nat /\ <<word>> \in Seq(Word) /\ stack \in Seq(Word)
    BY <1>2 DEF MachineOK
  <2> QED BY <1>3, <1>4, <2>1, ReplaceOK
<1>6. TopChanges
  BY AdvanceOK DEF LoadIndirect
<1> QED BY <1>5, <1>6, TopChangesOK DEF LoadIndirect, MachineOK

\* StoreIndirect.
LEMMA StoreIndirectOK ==
  ASSUME MachineOK, frames # <<>>, ~AtEnd, ~Faults, StoreIndirect, UNCHANGED <<module, result>>
  PROVE  MachineOK' /\ TopChanges
<1>1. 2 <= Len(stack)
  BY OperandsThere DEF StoreIndirect, Binary
<1>2. Operand(0) \in Word
  BY <1>1, OperandType, SMT DEF MachineOK
<1>3. stack' \in Seq(Word)
  <2>1. /\ 2 \in Nat /\ <<Operand(0)>> \in Seq(Word) /\ stack \in Seq(Word)
        /\ ReplaceOperands(2, <<Operand(0)>>)
    BY <1>2 DEF StoreIndirect, MachineOK
  <2> QED BY <1>1, <2>1, ReplaceOK
<1>4. CASE IndirectSlot.space = "heap"
  <2>1. /\ heap' = [heap EXCEPT !.slots[IndirectSlot.index] = Operand(0)]
        /\ Advance
    BY <1>4 DEF StoreIndirect
  <2>2. HeapOK(heap')
    BY <1>2, <1>4, <2>1, IndirectType, StoreSlotOK DEF StoreIndirect, MachineOK
  <2> QED BY <1>3, <2>1, <2>2, AdvanceOK, TopChangesOK
<1>5. CASE IndirectSlot.space = "local"
  <2>1. SetLocal(IndirectSlot.index, Operand(0)) /\ heap' = heap
    BY <1>5 DEF StoreIndirect
  <2>2. IndirectSlot.index \in 1 .. Len(Frame.locals)
    BY <1>5, IndirectType DEF StoreIndirect
  <2>3. TopChanges
    BY <1>2, <2>1, <2>2, SetLocalOK
  <2> QED BY <1>3, <2>1, <2>3, TopChangesOK DEF MachineOK
<1> QED BY <1>4, <1>5 DEF StoreIndirect

\* The heap's opcodes.
LEMMA HeapOpOK ==
  ASSUME MachineOK, frames # <<>>, ~AtEnd, ~Faults, HeapOp, UNCHANGED <<module, result>>
  PROVE  MachineOK' /\ TopChanges
<1> DEFINE n == Operands(Inst.op)
           words == IF Inst.op = "HeapFree" THEN <<>> ELSE <<HeapResult.address>>
<1>1. Inst.op \in {"HeapAlloc", "HeapFree", "HeapRealloc"}
  BY DEF HeapOp, HeapOps
<1>2. 1 <= Len(stack) /\ (Inst.op = "HeapRealloc" => 2 <= Len(stack))
  BY <1>1, OperandsThere, SMT DEF Unary, Binary
<1>3. Operand(0) \in Word /\ (Inst.op = "HeapRealloc" => Operand(1) \in Word)
  <2>1. stack \in Seq(Word) /\ Len(stack) \in Nat
    BY DEF MachineOK
  <2> QED BY <1>2, <2>1, OperandType, SMT
<1>4. OperationOK(heap, HeapResult)
  <2>1. HeapOK(heap)
    BY DEF MachineOK
  <2>2. CASE Inst.op = "HeapAlloc"
    <3>1. HeapResult = AllocateVmHeapSlots(Operand(0), heap)
      BY <2>2 DEF HeapResult
    <3>2. Allocated(heap, Operand(0), AllocateVmHeapSlots(Operand(0), heap))
      BY <1>3, <2>1, AllocateOK
    <3> QED BY <3>1, <3>2 DEF Allocated, OperationOK
  <2>3. CASE Inst.op = "HeapFree"
    <3>1. HeapResult = FreeVmHeapSlots(Operand(0), heap)
      BY <2>3 DEF HeapResult
    <3> QED BY <1>3, <2>1, <3>1, FreeOK
  <2>4. CASE Inst.op = "HeapRealloc"
    <3>1. HeapResult = ReallocVmHeapSlots(Operand(1), Operand(0), heap)
      BY <2>4 DEF HeapResult
    <3> QED BY <1>3, <2>1, <2>4, <3>1, ReallocOK
  <2> QED BY <1>1, <2>2, <2>3, <2>4
<1>5. HeapOK(HeapResult.heap) /\ HeapResult.address \in Word
  BY <1>4 DEF OperationOK
<1>6. words \in Seq(Word)
  BY <1>5
<1>7. ReplaceOperands(n, words) /\ heap' = HeapResult.heap /\ Advance
  BY DEF HeapOp
<1>8. n \in Nat /\ n <= Len(stack)
  BY OperandsThere
<1> HIDE DEF n, words
<1>9. stack' \in Seq(Word)
  BY <1>6, <1>7, <1>8, ReplaceOK DEF MachineOK
<1> QED BY <1>5, <1>7, <1>9, AdvanceOK, TopChangesOK

\* Opcodes on operands alone.
LEMMA ShuffleOK ==
  ASSUME MachineOK, frames # <<>>, ~AtEnd, ~Faults, Shuffle, UNCHANGED <<module, result>>
  PROVE  MachineOK' /\ TopChanges
<1>1. TopChanges /\ heap' = heap
  BY AdvanceOK DEF Shuffle
<1>2. stack \in Seq(Word) /\ Len(stack) \in Nat /\ WordLimit \in Nat \ {0}
  BY Words DEF MachineOK
<1>3. \A w \in Word : w \in Nat
  BY Words
<1>4. CASE Inst.op = "Dup" /\ ReplaceOperands(0, <<Operand(0)>>)
  <2>1. 1 <= Len(stack)
    BY <1>4, OperandsThere DEF Unary
  <2>2. <<Operand(0)>> \in Seq(Word) /\ 0 \in Nat /\ 0 <= Len(stack)
    BY <1>2, <2>1, OperandType, SMT
  <2>3. stack' \in Seq(Word)
    BY <1>2, <1>4, <2>2, ReplaceOK
  <2> QED BY <1>1, <2>3, TopChangesOK DEF MachineOK, Shuffle
<1>5. CASE Inst.op \in {"Pop", "PrintI32"} /\ ReplaceOperands(1, <<>>)
  <2>1. 1 <= Len(stack) /\ 1 \in Nat /\ <<>> \in Seq(Word)
    BY <1>5, OperandsThere DEF Unary
  <2>2. stack' \in Seq(Word)
    BY <1>2, <1>5, <2>1, ReplaceOK
  <2> QED BY <1>1, <2>2, TopChangesOK DEF MachineOK, Shuffle
<1>6. CASE \/ /\ Inst.op = "SubI64"
              /\ ReplaceOperands(2, <<(Operand(1) - Operand(0)) % WordLimit>>)
           \/ /\ Inst.op = "DivU64"
              /\ ReplaceOperands(2, <<Operand(1) \div Operand(0)>>)
  <2>1. 2 <= Len(stack) /\ 2 \in Nat
    BY <1>6, OperandsThere DEF Binary, Numerics
  <2>2. Operand(0) \in Word /\ Operand(1) \in Word
    BY <1>2, <2>1, OperandType, SMT
  <2>3. (Operand(1) - Operand(0)) % WordLimit \in Word
    BY <1>2, <1>3, <2>2, Words, SMT
  <2>4. Operand(0) # 0 => Operand(1) \div Operand(0) \in Word
    <3>1. ASSUME NEW a \in Word, NEW b \in Word, b # 0
          PROVE  a \div b \in Word
      <4>1. a \in Nat /\ b \in Nat /\ a <= WordLimit - 1
        BY <1>2, Words, SMT
      <4>2. a \div b \in Nat /\ a \div b <= a
        BY <3>1, <4>1, SMT
      <4> QED BY <1>2, <4>1, <4>2, Words, SMT
    <3> QED BY <2>2, <3>1
  <2>5. Inst.op = "DivU64" => Operand(0) # 0
    BY OperandsThere, Sound
  <2>6. PICK word \in Word : ReplaceOperands(2, <<word>>)
    BY <1>6, <2>3, <2>4, <2>5
  <2>7. <<word>> \in Seq(Word)
    OBVIOUS
  <2>8. stack' \in Seq(Word)
    BY <1>2, <2>1, <2>6, <2>7, ReplaceOK
  <2> QED BY <1>1, <2>8, TopChangesOK DEF MachineOK, Shuffle
<1> QED BY <1>4, <1>5, <1>6 DEF Shuffle

\* Jumps.
LEMMA JumpOK ==
  ASSUME MachineOK, frames # <<>>, ~AtEnd, ~Faults, Jump, UNCHANGED <<module, result>>
  PROVE  MachineOK' /\ TopChanges
<1>1. Inst.imm \in Nat /\ Frame.ip + 1 \in Nat
  <2>1. Inst.imm \in Word /\ Frame.ip \in Nat
    BY RunningType
  <2> QED BY <2>1, Words, SMT
<1>2. CASE Inst.op = "Jump" /\ MoveTo(Inst.imm) /\ UNCHANGED <<stack, heap>>
  BY <1>1, <1>2, MoveOK, TopChangesOK DEF MachineOK
<1>3. CASE /\ Inst.op = "JumpIfZero"
           /\ MoveTo(IF Operand(0) = 0 THEN Inst.imm ELSE Frame.ip + 1)
           /\ ReplaceOperands(1, <<>>)
           /\ UNCHANGED heap
  <2>1. TopChanges
    BY <1>1, <1>3, MoveOK
  <2>2. 1 <= Len(stack) /\ 1 \in Nat /\ <<>> \in Seq(Word)
    BY <1>3, OperandsThere DEF Unary
  <2>3. stack' \in Seq(Word)
    BY <1>3, <2>2, ReplaceOK DEF MachineOK
  <2> QED BY <1>3, <2>1, <2>3, TopChangesOK DEF MachineOK
<1> QED BY <1>2, <1>3 DEF Jump

\* Calls push a frame and leave the caller behind its call.
LEMMA CallOK ==
  ASSUME MachineOK, frames # <<>>, ~AtEnd, ~Faults, Call, UNCHANGED <<module, result>>
  PROVE  MachineOK' /\ FramePushed
<1> DEFINE caller == [Frame EXCEPT !.ip = Frame.ip + 1]
           callee == NewFrame(module.functions, Inst.imm, Inst.op = "Call")
           callers == [frames EXCEPT ![Depth] = caller]
<1>1. /\ Inst.imm \in Nat /\ Inst.imm < Len(module.functions)
      /\ Len(frames) < MaxCallDepth
      /\ IsCode(module.functions[Inst.imm + 1])
  <2>1. /\ ~(Inst.imm >= Len(module.functions)) /\ ~(Depth >= MaxCallDepth)
    BY OperandsThere, Sound DEF Call
  <2>2. /\ Inst.imm \in Nat /\ Len(module.functions) \in Nat
        /\ \A f \in 1 .. Len(module.functions) : IsCode(module.functions[f])
        /\ Depth = Len(frames) /\ Len(frames) \in Nat /\ MaxCallDepth \in Nat
    BY RunningType, Words, MachineAssumption
  <2>3. /\ Inst.imm < Len(module.functions) /\ Len(frames) < MaxCallDepth
        /\ Inst.imm + 1 \in 1 .. Len(module.functions)
    BY <2>1, <2>2, SMT
  <2> QED BY <2>2, <2>3
<1>2. /\ callee \in FrameType /\ callee.functionIndex = Inst.imm
      /\ callee.returnValueToCaller = (Inst.op = "Call")
  BY <1>1, NewFrameType
<1>3. frames' = Append(callers, callee)
  BY DEF Call, Callers, Frame
<1>4. /\ Len(frames) \in Nat \ {0} /\ Len(frames) \in DOMAIN frames /\ Depth = Len(frames)
      /\ frames \in Seq(FrameType) /\ Frame \in FrameType /\ Frame = frames[Len(frames)]
      /\ Frame.ip + 1 \in Nat
  BY RunningType DEF MachineOK
<1>5. /\ caller \in FrameType /\ caller.functionIndex = Frame.functionIndex
      /\ caller.returnValueToCaller = Frame.returnValueToCaller
      /\ caller.ip = Frame.ip + 1
  BY <1>4 DEF FrameType
<1> HIDE DEF caller, callee
<1>6. /\ callers \in Seq(FrameType) /\ Len(callers) = Len(frames)
      /\ callers[Len(frames)] = caller
      /\ \A i \in DOMAIN frames : i # Len(frames) => callers[i] = frames[i]
  BY <1>4, <1>5, SMT
<1> HIDE DEF callers
<1>7. /\ frames' \in Seq(FrameType)
      /\ Len(frames') = Len(frames) + 1
      /\ \A i \in DOMAIN frames : frames'[i] = callers[i]
      /\ frames'[Len(frames) + 1] = callee
      /\ DOMAIN frames' = DOMAIN frames \cup {Len(frames) + 1}
  BY <1>2, <1>3, <1>4, <1>6, SMT
<1>8. FramePushed
  BY <1>1, <1>2, <1>4, <1>5, <1>6, <1>7 DEF FramePushed, Call
<1>9. \A i \in DOMAIN frames' : frames'[i].functionIndex < Len(module'.functions)
  BY <1>1, <1>2, <1>7, <1>8 DEF FramePushed, MachineOK
<1> QED BY <1>7, <1>8, <1>9 DEF MachineOK, Call

\* What a return hands over is a word.
LEMMA ReturnValueType ==
  ASSUME MachineOK, ~Faults, Inst.op \in Returns
  PROVE  ReturnValue \in Word
<1>1. Inst.op # "ReturnVoid" => Operand(0) \in Word
  <2>1. Inst.op # "ReturnVoid" => 1 <= Len(stack)
    BY OperandsThere DEF Returns, Unary
  <2> QED BY <2>1, OperandType, OperandsThere, SMT DEF MachineOK
<1>2. \A w \in Word : SignExtend(w) \in Word
  BY Words, SignExtendType
<1>3. \A w \in Word : w % HalfLimit \in Word
  <2>1. HalfLimit \in Nat \ {0} /\ HalfLimit <= WordLimit
    BY Words, MachineAssumption, SMT
  <2>2. \A w \in Word : w % HalfLimit \in 0 .. (HalfLimit - 1)
    BY <2>1, Words, SMT
  <2>3. 0 .. (HalfLimit - 1) \subseteq Word
    BY <2>1, Words, SMT
  <2> QED BY <2>2, <2>3
<1>4. CASE Inst.op = "ReturnVoid"
  BY <1>4, Words DEF ReturnValue
<1>5. CASE Inst.op = "ReturnI32"
  BY <1>1, <1>2, <1>5 DEF ReturnValue
<1>6. CASE Inst.op = "ReturnI64"
  BY <1>1, <1>6 DEF ReturnValue
<1>7. CASE Inst.op = "ReturnF32"
  BY <1>1, <1>3, <1>7 DEF ReturnValue
<1> QED BY <1>4, <1>5, <1>6, <1>7 DEF Returns

\* Returns pop a frame.
LEMMA ReturnOK ==
  ASSUME MachineOK, frames # <<>>, ~AtEnd, ~Faults, Return, UNCHANGED <<module, result>>
  PROVE  MachineOK' /\ FramePopped
<1>1. Len(frames) \in Nat /\ Len(frames) > 1 /\ frames \in Seq(FrameType)
      /\ frames' = SubSeq(frames, 1, Len(frames) - 1)
  BY RunningType DEF Return, MachineOK
<1>2. FramePopped
  BY <1>1, SMT DEF FramePopped
<1> DEFINE words == IF Frame.returnValueToCaller THEN <<ReturnValue>> ELSE <<>>
           n == Operands(Inst.op)
<1>3. words \in Seq(Word) /\ n \in Nat /\ n <= Len(stack) /\ ReplaceOperands(n, words)
  BY ReturnValueType, OperandsThere DEF Return
<1> HIDE DEF words, n
<1>4. stack' \in Seq(Word)
  BY <1>3, ReplaceOK DEF MachineOK
<1>5. \A i \in DOMAIN frames' : frames'[i].functionIndex < Len(module'.functions)
  BY <1>2 DEF FramePopped, MachineOK
<1> QED BY <1>2, <1>4, <1>5 DEF FramePopped, MachineOK, Return

\* The entry function's return ends the program.
LEMMA ExitOK ==
  ASSUME MachineOK, frames # <<>>, ~AtEnd, ~Faults, Exit
  PROVE  MachineOK' /\ Len(frames) = 1 /\ frames' = <<>>
<1>1. Len(frames) = 1 /\ frames' = <<>> /\ module' = module /\ heap' = heap
  BY RunningType DEF Exit
<1>2. result' \in Word
  BY ReturnValueType DEF Exit
<1> DEFINE n == Operands(Inst.op)
<1>3. <<>> \in Seq(Word) /\ n \in Nat /\ n <= Len(stack) /\ ReplaceOperands(n, <<>>)
  BY OperandsThere DEF Exit
<1> HIDE DEF n
<1>4. stack' \in Seq(Word)
  BY <1>3, ReplaceOK DEF MachineOK
<1>5. frames' \in Seq(FrameType) /\ DOMAIN frames' = {}
  BY <1>1, SMT
<1> QED BY <1>1, <1>2, <1>4, <1>5 DEF MachineOK

\* A fault pops operands at most.
LEMMA FaultOK ==
  ASSUME MachineOK, Fault
  PROVE  MachineOK' /\ frames' = frames
<1>1. frames' = frames /\ module' = module /\ heap' = heap /\ result' = result
  BY DEF Fault
<1>2. stack' \in Seq(Word)
  <2>1. CASE stack' = stack
    BY <2>1 DEF MachineOK
  <2>2. CASE ~Underflow /\ stack' = Drop(Operands(Inst.op))
    <3>1. Len(stack) \in Nat /\ Operands(Inst.op) \in Nat
      BY SMT DEF MachineOK, Operands
    <3>2. Operands(Inst.op) <= Len(stack)
      BY <2>2, <3>1, SMT DEF Underflow
    <3> QED BY <2>2, <3>1, <3>2, DropType DEF MachineOK
  <2> QED BY <2>1, <2>2 DEF Fault
<1> QED BY <1>1, <1>2 DEF MachineOK

\* One instruction keeps the machine well formed and changes the frames as its
\* outcome says (stepInstruction, executeVmKernel).
LEMMA ExecuteOK ==
  ASSUME MachineOK, frames # <<>>, ~AtEnd, NEW o, Execute(o)
  PROVE  MachineOK' /\ FramesAfter(o) /\ module' = module
<1>1. CASE o = "Fault" /\ Fault
  BY <1>1, FaultOK DEF FramesAfter, Fault
<1>2. CASE o = "Exit" /\ ~Faults /\ Exit
  BY <1>2, ExitOK DEF FramesAfter, Exit
<1>3. CASE o = "Continue" /\ ~Faults /\ Proceed
  <2>1. UNCHANGED <<module, result>>
    BY <1>3 DEF Proceed
  <2>2. MachineOK' /\ (TopChanges \/ FramePushed \/ FramePopped)
    BY <1>3, <2>1, PushOK, LoadLocalOK, StoreLocalOK, LoadIndirectOK, StoreIndirectOK,
       HeapOpOK, ShuffleOK, JumpOK, CallOK, ReturnOK DEF Proceed
  <2> QED BY <1>3, <2>1, <2>2 DEF FramesAfter
<1> QED BY <1>1, <1>2, <1>3 DEF Execute

-----------------------------------------------------------------------------
(***************************************************************************)
(* The session around the machine.                                         *)
(***************************************************************************)
ControlType ==
  /\ state \in {"Idle", "Running", "Paused", "Faulted", "Exited"}
  /\ pauseRequested \in BOOLEAN
  /\ lastStopWasBreakpoint \in BOOLEAN
  /\ breakpoints \subseteq BreakpointRequests
  /\ command \in {"none", "step", "continue"}
  /\ phase \in {"idle", "loop", "execute", "after", "finish"}
  /\ (command = "none") <=> (phase = "idle")
  /\ skipCurrentBreakpoint \in BOOLEAN
  /\ outcome \in {"None", "Continue", "Exit", "Fault"}
  /\ inHook \in BOOLEAN
  /\ stopReason \in {"None", "Breakpoint", "Step", "Pause", "Fault", "Exit"}
  /\ moved \in BOOLEAN

HookType ==
  /\ nextHookSequence \in 0 .. (SequenceLimit - 1)
  /\ hooks \subseteq HookKinds
  /\ event \in [kind : HookKinds \cup {"none"}, sequence : Nat, depth : Nat, pushed : BOOLEAN]

\* What each phase of a call, and each state between calls, knows of the latest
\* instruction, of the hook and of what would stop the call.
CallProgress ==
  /\ phase \in {"loop", "execute"} => outcome \in {"None", "Continue"}
  /\ phase = "after" => outcome \in {"Continue", "Exit"}
  /\ phase = "finish" => outcome \in {"Continue", "Exit", "Fault"}
  /\ phase = "execute" => ~AtEnd
  /\ phase \in {"idle", "loop"} => ~inHook
  /\ state = "Idle" => outcome = "None"
  /\ state = "Paused" => outcome \in {"None", "Continue"}
  /\ state = "Faulted" => outcome = "Fault"
  /\ state = "Exited" => outcome = "Exit"
  /\ command = "continue" => ~lastStopWasBreakpoint
  /\ command = "continue" /\ phase # "loop" => ~skipCurrentBreakpoint
  /\ command = "continue" /\ phase = "loop" => ~pauseRequested

Inv ==
  /\ MachineOK
  /\ ControlType
  /\ HookType
  /\ StateMatchesProgram
  /\ CallersAtCallSites
  /\ SkipOnlyWhereStopped
  /\ CallProgress

-----------------------------------------------------------------------------
\* The invariant includes the types.
LEMMA InvType == Inv => TypeOK
<1> SUFFICES ASSUME Inv PROVE TypeOK
  OBVIOUS
<1>1. heap \in [slots : Seq(Word), allocations : Seq(Allocation)]
  BY DEF Inv, MachineOK, HeapOK, HeapType
<1> QED BY <1>1 DEF Inv, MachineOK, ControlType, HookType, TypeOK

\* The initial states.
LEMMA InitInv == Init => Inv
<1> SUFFICES ASSUME Init PROVE Inv
  OBVIOUS
<1>1. MachineOK
  BY EmptyHeapOK, Words, SMT DEF Init, MachineOK
<1>2. ControlType
  BY DEF Init, ControlType
<1>3. HookType
  BY ClientAssumption, SMT DEF Init, HookType, NoEvent, HookKinds
<1>4. StateMatchesProgram
  BY DEF Init, StateMatchesProgram
<1>5. CallersAtCallSites
  BY MachineAssumption, SMT DEF Init, CallersAtCallSites
<1>6. SkipOnlyWhereStopped /\ CallProgress
  BY DEF Init, SkipOnlyWhereStopped, CallProgress
<1> QED BY <1>1, <1>2, <1>3, <1>4, <1>5, <1>6 DEF Inv

-----------------------------------------------------------------------------
\* The facts about the program are kept by whatever leaves the program alone.
LEMMA MachineKept ==
  ASSUME Inv, UNCHANGED machine
  PROVE  MachineOK' /\ CallersAtCallSites' /\ (AtEnd <=> AtEnd')
<1>1. /\ module' = module /\ frames' = frames /\ stack' = stack /\ heap' = heap
      /\ result' = result
  BY DEF machine
<1>2. MachineOK'
  BY <1>1 DEF Inv, MachineOK
<1>3. CallersAtCallSites'
  BY <1>1 DEF Inv, CallersAtCallSites, Code
<1>4. AtEnd <=> AtEnd'
  BY <1>1 DEF AtEnd, Frame, Code, Depth
<1> QED BY <1>2, <1>3, <1>4

\* Steps that leave module and breakpoints alone keep breakpoints at instructions.
LEMMA BreakpointsKept ==
  ASSUME Inv, module' = module, breakpoints' \subseteq breakpoints
  PROVE  \A location \in breakpoints' : InProgram(location)'
BY DEF Inv, StateMatchesProgram, InProgram, Code

\* The client's calls between instructions.
LEMMA StartInv ==
  ASSUME Inv, NEW m \in Modules, Start(m)
  PROVE  Inv'
<1>1. /\ MachineOK' /\ module' = m /\ m # NoModule /\ Len(frames') = 1
      /\ frames'[1].functionIndex = m.entryIndex /\ ~frames'[1].returnValueToCaller
  BY EnterOK DEF Start
<1>2. ControlType'
  BY DEF Start, Reset, StateAfterStop, Inv, ControlType
<1>3. HookType'
  BY ClientAssumption, SMT DEF Start, Reset, Inv, HookType, NoEvent, HookKinds
<1>4. frames' # <<>>
  BY <1>1
<1>5. StateMatchesProgram'
  BY <1>1, <1>4 DEF Start, Reset, StateAfterStop, StateMatchesProgram
<1>6. CallersAtCallSites'
  <2>1. Len(frames') <= MaxCallDepth /\ 1 .. (Len(frames') - 1) = {}
    BY <1>1, MachineAssumption, SMT
  <2> QED BY <1>1, <2>1 DEF CallersAtCallSites
<1>7. SkipOnlyWhereStopped'
  BY DEF Start, Reset, SkipOnlyWhereStopped, Inv, ControlType
<1>8. CallProgress'
  BY DEF Start, Reset, StateAfterStop, CallProgress, Inv, ControlType
<1> QED BY <1>1, <1>2, <1>3, <1>5, <1>6, <1>7, <1>8 DEF Inv

\* step begins.
LEMMA StepInv ==
  ASSUME Inv, Step
  PROVE  Inv'
<1>1. MachineOK' /\ CallersAtCallSites' /\ module' = module /\ frames' = frames
  BY MachineKept DEF Step, machine
<1>2. ControlType' /\ HookType'
  BY DEF Step, Inv, ControlType, HookType, hooking, seen
<1>3. StateMatchesProgram'
  BY <1>1, BreakpointsKept DEF Step, Inv, StateMatchesProgram, CallProgress
<1>4. SkipOnlyWhereStopped' /\ CallProgress'
  BY DEF Step, Inv, SkipOnlyWhereStopped, CallProgress, ControlType
<1> QED BY <1>1, <1>2, <1>3, <1>4 DEF Inv

\* continueExecution begins.
LEMMA ContinueInv ==
  ASSUME Inv, Continue
  PROVE  Inv'
<1>1. MachineOK' /\ CallersAtCallSites' /\ module' = module /\ frames' = frames
  BY MachineKept DEF Continue, machine
<1>2. ControlType' /\ HookType'
  BY DEF Continue, PauseFirst, Stop, StateAfterStop, RemembersStop, Inv, ControlType,
         HookType, hooking, seen
<1>3. StateMatchesProgram'
  BY <1>1, BreakpointsKept DEF Continue, PauseFirst, Stop, StateAfterStop, Inv,
         StateMatchesProgram, CallProgress
<1>4. SkipOnlyWhereStopped'
  BY DEF Continue, PauseFirst, Stop, RemembersStop, Inv, SkipOnlyWhereStopped, CallProgress,
         ControlType, seen
<1>5. CallProgress'
  BY DEF Continue, PauseFirst, Stop, StateAfterStop, RemembersStop, Inv, CallProgress, ControlType
<1> QED BY <1>1, <1>2, <1>3, <1>4, <1>5 DEF Inv

-----------------------------------------------------------------------------
\* A call in flight, part by part.
LEMMA EmitType ==
  ASSUME Inv, NEW kind \in HookKinds \cup {"none"}, NEW depth \in Nat, NEW pushed \in BOOLEAN,
         Emit(kind, depth, pushed), kind \in HookKinds \/ kind \notin hooks
  PROVE  HookType' /\ inHook' \in BOOLEAN
<1>1. nextHookSequence \in Nat /\ nextHookSequence' \in 0 .. (SequenceLimit - 1)
  BY ClientAssumption, SMT DEF Emit, SequenceAfter, Inv, HookType
<1>2. event' \in [kind : HookKinds \cup {"none"}, sequence : Nat, depth : Nat, pushed : BOOLEAN]
  BY <1>1 DEF Emit, Inv, HookType
<1>3. hooks' \subseteq HookKinds /\ inHook' \in BOOLEAN
  BY DEF Emit, Inv, HookType
<1> QED BY <1>1, <1>2, <1>3 DEF HookType

\* The loop stops at a breakpoint.
LEMMA StopAtBreakpointInv ==
  ASSUME Inv, StopAtBreakpoint
  PROVE  Inv'
<1>1. MachineOK' /\ CallersAtCallSites' /\ module' = module /\ frames' = frames
  BY MachineKept DEF StopAtBreakpoint, machine
<1>2. ControlType' /\ HookType'
  BY DEF StopAtBreakpoint, Stop, StateAfterStop, RemembersStop, Inv, ControlType, HookType, hooking
<1>3. StateMatchesProgram'
  BY <1>1, BreakpointsKept DEF StopAtBreakpoint, AtBreakpoint, Stop, StateAfterStop, Inv,
         StateMatchesProgram, CallProgress
<1>4. SkipOnlyWhereStopped' /\ CallProgress'
  BY DEF StopAtBreakpoint, AtBreakpoint, Stop, StateAfterStop, RemembersStop, Inv,
         SkipOnlyWhereStopped, CallProgress, ControlType
<1> QED BY <1>1, <1>2, <1>3, <1>4 DEF Inv

\* While a call is in flight and its latest instruction neither returned from
\* the entry function nor is yet to be found at the end, there is a frame.
LEMMA InFlight ==
  ASSUME Inv, phase \in {"loop", "execute"}
  PROVE  /\ frames # <<>> /\ state = "Running" /\ command # "none"
         /\ Depth \in Nat \ {0}
<1>1. frames # <<>> /\ state = "Running" /\ command # "none"
  BY DEF Inv, ControlType, StateMatchesProgram, CallProgress
<1> QED BY <1>1, RunningType DEF Inv

\* The before-hook is called.
LEMMA BeginInstructionInv ==
  ASSUME Inv, BeginInstruction
  PROVE  Inv'
<1>1. /\ MachineOK' /\ CallersAtCallSites' /\ (AtEnd <=> AtEnd')
      /\ module' = module /\ frames' = frames
  BY MachineKept DEF BeginInstruction, machine
<1>2. frames # <<>> /\ state = "Running" /\ command # "none" /\ Depth \in Nat
  BY InFlight DEF BeginInstruction
<1>3. HookType' /\ inHook' \in BOOLEAN
  <2>1. CASE hooking' = hooking /\ inHook' = FALSE
    BY <2>1 DEF hooking, Inv, HookType
  <2>2. CASE Emit("before", Depth, FALSE)
    BY <1>2, <2>2, EmitType DEF HookKinds
  <2> QED BY <2>1, <2>2 DEF BeginInstruction
<1>4. ControlType'
  BY <1>3 DEF BeginInstruction, Inv, ControlType, session, seen
<1>5. StateMatchesProgram'
  BY <1>1, <1>2, BreakpointsKept DEF BeginInstruction, Inv, StateMatchesProgram, session, CallProgress
<1>6. SkipOnlyWhereStopped' /\ CallProgress'
  BY <1>1, <1>2 DEF BeginInstruction, Inv, SkipOnlyWhereStopped, CallProgress, ControlType,
         session, seen
<1> QED BY <1>1, <1>3, <1>4, <1>5, <1>6 DEF Inv

\* What an instruction does to the frames keeps every frame below the top at
\* its call.
LEMMA CallersKept ==
  ASSUME Inv, frames # <<>>, ~AtEnd, NEW o, FramesAfter(o), MachineOK', module' = module
  PROVE  CallersAtCallSites'
<1>1. /\ frames \in Seq(FrameType) /\ Len(frames) \in Nat \ {0} /\ Len(frames) <= MaxCallDepth
      /\ DOMAIN frames = 1 .. Len(frames) /\ MaxCallDepth \in Nat
      /\ Depth = Len(frames) /\ Frame = frames[Len(frames)]
  BY RunningType, MachineAssumption DEF Inv, MachineOK, CallersAtCallSites
<1>2. /\ frames' \in Seq(FrameType) /\ Len(frames') \in Nat
      /\ DOMAIN frames' = 1 .. Len(frames')
  BY DEF MachineOK
<1>3. \A f : Code(f)' = Code(f)
  BY DEF Code
<1> DEFINE AtCall(below, above) ==
             /\ below.ip \in 1 .. Len(Code(below.functionIndex))
             /\ Code(below.functionIndex)[below.ip].op \in Calls
             /\ Code(below.functionIndex)[below.ip].imm = above.functionIndex
             /\ above.returnValueToCaller
                  = (Code(below.functionIndex)[below.ip].op = "Call")
<1>4. \A i \in 1 .. (Len(frames) - 1) : AtCall(frames[i], frames[i + 1])
  BY DEF Inv, CallersAtCallSites
<1>5. frames[1].functionIndex = module.entryIndex /\ ~frames[1].returnValueToCaller
  BY DEF Inv, CallersAtCallSites
<1>6. ASSUME Len(frames') <= MaxCallDepth,
             \A i \in 1 .. (Len(frames') - 1) : AtCall(frames'[i], frames'[i + 1]),
             frames' # <<>> => /\ frames'[1].functionIndex = module.entryIndex
                               /\ ~frames'[1].returnValueToCaller
      PROVE  CallersAtCallSites'
  BY <1>3, <1>6 DEF CallersAtCallSites
<1>7. ASSUME NEW below, NEW above, NEW other, AtCall(below, above),
             other.functionIndex = above.functionIndex,
             other.returnValueToCaller = above.returnValueToCaller
      PROVE  AtCall(below, other)
  BY <1>7
<1>8. CASE frames' = frames
  <2> HIDE DEF AtCall
  <2> QED BY <1>1, <1>4, <1>5, <1>6, <1>8
<1>9. CASE frames' = <<>>
  <2>1. Len(frames') = 0
    BY <1>9
  <2> HIDE DEF AtCall
  <2> QED BY <1>1, <1>6, <1>9, <2>1, SMT
<1>10. CASE TopChanges
  <2>1. Len(frames') = Len(frames)
    BY <1>10 DEF TopChanges
  <2>2. ASSUME NEW i \in 1 .. (Len(frames') - 1)
        PROVE  AtCall(frames'[i], frames'[i + 1])
    <3>1. i \in DOMAIN frames /\ i + 1 \in DOMAIN frames /\ i # Len(frames)
             /\ i \in 1 .. (Len(frames) - 1)
      <4>1. i \in 1 .. (Len(frames) - 1) /\ Len(frames) \in Nat
        BY <1>1, <2>1
      <4>2. i \in 1 .. Len(frames) /\ i + 1 \in 1 .. Len(frames) /\ i # Len(frames)
        BY <4>1, SMT
      <4> QED BY <1>1, <4>1, <4>2
    <3>2. /\ frames'[i] = frames[i]
          /\ frames'[i + 1].functionIndex = frames[i + 1].functionIndex
          /\ frames'[i + 1].returnValueToCaller = frames[i + 1].returnValueToCaller
      BY <1>10, <3>1 DEF TopChanges
    <3> HIDE DEF AtCall
    <3> QED BY <1>4, <1>7, <3>1, <3>2
  <2>3. /\ frames'[1].functionIndex = module.entryIndex
        /\ ~frames'[1].returnValueToCaller
    <3>1. 1 \in DOMAIN frames
      BY <1>1, SMT
    <3> QED BY <1>5, <1>10, <3>1 DEF TopChanges
  <2> HIDE DEF AtCall
  <2> QED BY <1>1, <1>6, <2>1, <2>2, <2>3
<1>11. CASE FramePushed
  <2>1. Len(frames') = Len(frames) + 1 /\ Len(frames') <= MaxCallDepth
    BY <1>1, <1>11, SMT DEF FramePushed
  <2>2. ASSUME NEW i \in 1 .. (Len(frames') - 1), i # Len(frames)
        PROVE  AtCall(frames'[i], frames'[i + 1])
    <3>1. i \in DOMAIN frames /\ i + 1 \in DOMAIN frames /\ i \in 1 .. (Len(frames) - 1)
      <4>1. i \in 1 .. (Len(frames') - 1) /\ Len(frames) \in Nat
        BY <1>1, <2>2
      <4>2. i \in 1 .. (Len(frames) - 1)
        BY <2>1, <2>2, <4>1, SMT
      <4>3. i \in 1 .. Len(frames) /\ i + 1 \in 1 .. Len(frames)
        BY <4>1, <4>2, SMT
      <4> QED BY <1>1, <4>2, <4>3
    <3>2. /\ frames'[i] = frames[i]
          /\ frames'[i + 1].functionIndex = frames[i + 1].functionIndex
          /\ frames'[i + 1].returnValueToCaller = frames[i + 1].returnValueToCaller
      BY <1>11, <2>2, <3>1 DEF FramePushed
    <3> HIDE DEF AtCall
    <3> QED BY <1>4, <1>7, <3>1, <3>2
  <2>3. AtCall(frames'[Len(frames)], frames'[Len(frames) + 1])
    <3>1. /\ frames'[Len(frames)].ip = Frame.ip + 1
          /\ frames'[Len(frames)].functionIndex = Frame.functionIndex
          /\ frames'[Len(frames) + 1].functionIndex = Inst.imm
          /\ frames'[Len(frames) + 1].returnValueToCaller = (Inst.op = "Call")
          /\ Inst.op \in Calls
      <4>1. Len(frames) \in DOMAIN frames
        BY <1>1, SMT
      <4> QED BY <1>1, <1>11, <4>1 DEF FramePushed
    <3>2. Frame.ip + 1 \in 1 .. Len(Code(Frame.functionIndex))
      <4>1. Frame.ip \in Nat /\ IsCode(Code(Frame.functionIndex))
        BY RunningType DEF Inv
      <4>2. ~(Frame.ip >= Len(Code(Frame.functionIndex)))
        BY DEF AtEnd
      <4>3. Len(Code(Frame.functionIndex)) \in Nat
        BY <4>1 DEF IsCode
      <4> QED BY <4>1, <4>2, <4>3, SMT
    <3>3. Inst = Code(Frame.functionIndex)[Frame.ip + 1]
      BY DEF Inst
    <3> QED BY <3>1, <3>2, <3>3
  <2>4. \A i \in 1 .. (Len(frames') - 1) : AtCall(frames'[i], frames'[i + 1])
    <3> HIDE DEF AtCall
    <3> QED BY <2>2, <2>3
  <2>5. /\ frames'[1].functionIndex = module.entryIndex
        /\ ~frames'[1].returnValueToCaller
    <3>1. 1 \in DOMAIN frames
      BY <1>1, SMT
    <3> QED BY <1>5, <1>11, <3>1 DEF FramePushed
  <2> HIDE DEF AtCall
  <2> QED BY <1>6, <2>1, <2>4, <2>5
<1>12. CASE FramePopped
  <2>1. Len(frames') = Len(frames) - 1 /\ Len(frames) > 1
    BY <1>12 DEF FramePopped
  <2>2. ASSUME NEW i \in 1 .. (Len(frames') - 1)
        PROVE  AtCall(frames'[i], frames'[i + 1])
    <3>1. i \in DOMAIN frames' /\ i + 1 \in DOMAIN frames' /\ i \in 1 .. (Len(frames) - 1)
      BY <1>1, <1>2, <2>1, SMT
    <3>2. frames'[i] = frames[i] /\ frames'[i + 1] = frames[i + 1]
      BY <1>12, <3>1 DEF FramePopped
    <3> HIDE DEF AtCall
    <3> QED BY <1>4, <3>1, <3>2
  <2>3. 1 \in DOMAIN frames' /\ Len(frames') <= MaxCallDepth
    BY <1>1, <1>2, <2>1, SMT
  <2>4. frames'[1] = frames[1]
    BY <1>12, <2>3 DEF FramePopped
  <2> HIDE DEF AtCall
  <2> QED BY <1>5, <1>6, <2>2, <2>3, <2>4
<1> HIDE DEF AtCall
<1> QED BY <1>8, <1>9, <1>10, <1>11, <1>12 DEF FramesAfter

\* Only returning from the entry function leaves no frame.
LEMMA FramesLeft ==
  ASSUME MachineOK, frames # <<>>, NEW o, FramesAfter(o)
  PROVE  /\ (frames' = <<>>) <=> (o = "Exit")
         /\ o \in {"Continue", "Exit", "Fault"}
<1>1. Len(frames) \in Nat \ {0}
  BY RunningType
<1>2. CASE o = "Fault" /\ frames' = frames
  BY <1>2
<1>3. CASE o = "Exit" /\ frames' = <<>>
  BY <1>3
<1>4. CASE o = "Continue" /\ (TopChanges \/ FramePushed \/ FramePopped)
  <2>1. Len(frames') > 0
    BY <1>1, <1>4, SMT DEF TopChanges, FramePushed, FramePopped
  <2>2. frames' # <<>>
    BY <2>1, SMT
  <2> QED BY <1>4, <2>2
<1> QED BY <1>2, <1>3, <1>4 DEF FramesAfter

\* The instruction is executed and its hook called.
LEMMA ExecuteInstructionInv ==
  ASSUME Inv, ExecuteInstruction
  PROVE  Inv'
<1>1. frames # <<>> /\ state = "Running" /\ command # "none" /\ ~AtEnd /\ Frame.returnValueToCaller \in BOOLEAN
  BY InFlight, RunningType DEF ExecuteInstruction, Inv, CallProgress
<1>2. PICK o \in {"Continue", "Exit", "Fault"} :
         /\ Execute(o)
         /\ outcome' = o
         /\ phase' = PhaseAfter(o)
         /\ Emit(EffectHook(o), Len(frames'),
                 IF EffectHook(o) = "callPush" THEN Inst.op = "Call"
                 ELSE EffectHook(o) = "callPop" /\ Frame.returnValueToCaller)
  BY DEF ExecuteInstruction
<1>3. MachineOK' /\ FramesAfter(o) /\ module' = module
  BY <1>1, <1>2, ExecuteOK DEF Inv
<1>4. CallersAtCallSites'
  BY <1>1, <1>3, CallersKept
<1>5. HookType' /\ inHook' \in BOOLEAN
  <2> DEFINE pushed == IF EffectHook(o) = "callPush" THEN Inst.op = "Call"
                       ELSE EffectHook(o) = "callPop" /\ Frame.returnValueToCaller
  <2>1. Len(frames') \in Nat
    BY <1>3 DEF MachineOK
  <2>2. EffectHook(o) \in HookKinds \cup {"none"}
    BY DEF EffectHook, HookKinds
  <2>3. pushed \in BOOLEAN
    BY <1>1
  <2>4. "none" \notin hooks
    BY DEF Inv, HookType, HookKinds
  <2>5. Emit(EffectHook(o), Len(frames'), pushed)
    BY <1>2
  <2> HIDE DEF pushed
  <2> QED BY <2>1, <2>2, <2>3, <2>4, <2>5, EmitType
<1>6. (frames' = <<>>) <=> (o = "Exit")
  BY <1>1, <1>3, FramesLeft DEF Inv
<1>7. phase' \in {"after", "finish"} /\ (phase' = "after" => o # "Fault")
  BY <1>2 DEF PhaseAfter
<1>8. ControlType'
  BY <1>1, <1>2, <1>5, <1>7 DEF ExecuteInstruction, Inv, ControlType, session
<1>9. StateMatchesProgram'
  <2>1. \A location \in breakpoints' : InProgram(location)'
    BY <1>3, BreakpointsKept DEF ExecuteInstruction, session
  <2> QED BY <1>1, <1>2, <1>3, <1>6, <2>1 DEF ExecuteInstruction, Inv, StateMatchesProgram, session
<1>10. SkipOnlyWhereStopped' /\ CallProgress'
  BY <1>1, <1>2, <1>7 DEF ExecuteInstruction, Inv, SkipOnlyWhereStopped, CallProgress,
     ControlType, session
<1> QED BY <1>3, <1>4, <1>5, <1>8, <1>9, <1>10 DEF Inv

\* The after-hook is called.
LEMMA EndInstructionInv ==
  ASSUME Inv, EndInstruction
  PROVE  Inv'
<1>1. MachineOK' /\ CallersAtCallSites' /\ module' = module /\ frames' = frames
  BY MachineKept DEF EndInstruction, machine
<1>2. HookType' /\ inHook' \in BOOLEAN
  <2>1. Depth \in Nat
    BY DEF Inv, MachineOK, Depth
  <2> QED BY <2>1, EmitType DEF EndInstruction, HookKinds
<1>3. ControlType'
  BY <1>2 DEF EndInstruction, Inv, ControlType, session, seen
<1>4. StateMatchesProgram'
  BY <1>1, BreakpointsKept DEF EndInstruction, Inv, StateMatchesProgram, session
<1>5. SkipOnlyWhereStopped' /\ CallProgress'
  BY DEF EndInstruction, Inv, SkipOnlyWhereStopped, CallProgress, ControlType,
     StateMatchesProgram, session, seen
<1> QED BY <1>1, <1>2, <1>3, <1>4, <1>5 DEF Inv

\* The call ends.
LEMMA StopAfterInstructionInv ==
  ASSUME Inv, StopAfterInstruction
  PROVE  Inv'
<1>1. MachineOK' /\ CallersAtCallSites' /\ module' = module /\ frames' = frames
  BY MachineKept DEF StopAfterInstruction, machine
<1>2. ControlType' /\ HookType'
  BY DEF StopAfterInstruction, Stop, StateAfterStop, RemembersStop, Inv, ControlType,
         HookType, hooking
<1>3. StateMatchesProgram'
  BY <1>1, BreakpointsKept DEF StopAfterInstruction, Stop, StateAfterStop, Inv,
         StateMatchesProgram, CallProgress, ControlType
<1>4. SkipOnlyWhereStopped' /\ CallProgress'
  BY DEF StopAfterInstruction, Stop, StateAfterStop, RemembersStop, Inv,
         SkipOnlyWhereStopped, CallProgress, ControlType
<1> QED BY <1>1, <1>2, <1>3, <1>4 DEF Inv

\* continueExecution goes on.
LEMMA NextInstructionInv ==
  ASSUME Inv, NextInstruction
  PROVE  Inv'
<1>1. MachineOK' /\ CallersAtCallSites' /\ module' = module /\ frames' = frames
  BY MachineKept DEF NextInstruction, machine
<1>2. ControlType' /\ HookType'
  BY DEF NextInstruction, GoesOn, Inv, ControlType, HookType, hooking, session, seen
<1>3. StateMatchesProgram'
  BY <1>1, BreakpointsKept DEF NextInstruction, Inv, StateMatchesProgram, session
<1>4. SkipOnlyWhereStopped' /\ CallProgress'
  BY DEF NextInstruction, GoesOn, Inv, SkipOnlyWhereStopped, CallProgress, ControlType,
         StateMatchesProgram, session, seen
<1> QED BY <1>1, <1>2, <1>3, <1>4 DEF Inv

-----------------------------------------------------------------------------
\* The calls a client may also make from a hook leave the call in flight alone.
LEMMA ClientCallInv ==
  ASSUME Inv, UNCHANGED <<machine, state, control, seen>>,
         HookType', pauseRequested' \in BOOLEAN,
         breakpoints' \subseteq BreakpointRequests,
         \A location \in breakpoints' : InProgram(location)',
         lastStopWasBreakpoint' \in BOOLEAN,
         lastStopWasBreakpoint' => lastStopWasBreakpoint,
         pauseRequested' => pauseRequested \/ ClientMayCall
  PROVE  Inv'
<1>1. /\ MachineOK' /\ CallersAtCallSites' /\ (AtEnd <=> AtEnd')
      /\ module' = module /\ frames' = frames
  BY MachineKept DEF machine
<1>2. ControlType'
  BY DEF Inv, ControlType, control, seen
<1>3. StateMatchesProgram'
  BY <1>1 DEF Inv, StateMatchesProgram, control
<1>4. SkipOnlyWhereStopped'
  BY DEF Inv, SkipOnlyWhereStopped, ControlType, control, seen
<1>5. CallProgress'
  BY <1>1 DEF Inv, CallProgress, ControlType, ClientMayCall, control, seen
<1> QED BY <1>1, <1>2, <1>3, <1>4, <1>5 DEF Inv

\* Changing the hooks leaves the program and the call in flight alone.
LEMMA HooksKept ==
  ASSUME Inv, UNCHANGED hooking
  PROVE  HookType'
BY DEF Inv, HookType, hooking

\* What the client may call at a stop or from a hook.
LEMMA ClientInv ==
  ASSUME Inv, Client
  PROVE  Inv'
<1>0. /\ pauseRequested \in BOOLEAN /\ lastStopWasBreakpoint \in BOOLEAN
      /\ breakpoints \subseteq BreakpointRequests
  BY DEF Inv, ControlType
<1>1. CASE \E m \in Modules : Start(m)
  BY <1>1, StartInv
<1>2. CASE Step
  BY <1>2, StepInv
<1>3. CASE Continue
  BY <1>3, ContinueInv
<1>4. CASE Pause
  <2>1. module' = module /\ breakpoints' = breakpoints
    BY <1>4 DEF Pause, machine
  <2>2. \A location \in breakpoints' : InProgram(location)'
    BY <2>1, BreakpointsKept
  <2> QED BY <1>0, <1>4, <2>1, <2>2, HooksKept, ClientCallInv DEF Pause
<1>5. CASE ClearBreakpoints
  <2>1. breakpoints' = {}
    BY <1>5 DEF ClearBreakpoints
  <2> QED BY <1>0, <1>5, <2>1, HooksKept, ClientCallInv DEF ClearBreakpoints
<1>6. ASSUME NEW location \in BreakpointRequests, AddBreakpoint(location)
      PROVE  Inv'
  <2>1. module' = module /\ breakpoints' = breakpoints \cup {location} /\ InProgram(location)
    BY <1>6 DEF AddBreakpoint, machine
  <2>2. \A other \in breakpoints' : InProgram(other)'
    BY <2>1 DEF Inv, StateMatchesProgram, InProgram, Code
  <2> QED BY <1>0, <1>6, <2>1, <2>2, HooksKept, ClientCallInv DEF AddBreakpoint
<1>7. ASSUME NEW location \in BreakpointRequests, RemoveBreakpoint(location)
      PROVE  Inv'
  <2>1. module' = module /\ breakpoints' \subseteq breakpoints
    BY <1>7 DEF RemoveBreakpoint, machine
  <2>2. \A other \in breakpoints' : InProgram(other)'
    BY <2>1, BreakpointsKept
  <2> QED BY <1>0, <1>7, <2>1, <2>2, HooksKept, ClientCallInv DEF RemoveBreakpoint
<1>8. ASSUME NEW kinds \in HookSets, SetHooks(kinds)
      PROVE  Inv'
  <2>1. module' = module /\ breakpoints' = breakpoints
    BY <1>8 DEF SetHooks, machine, session
  <2>2. \A location \in breakpoints' : InProgram(location)'
    BY <2>1, BreakpointsKept
  <2>3. HookType'
    BY <1>8, ClientAssumption DEF SetHooks, Inv, HookType
  <2>4. UNCHANGED <<machine, state, control, seen>>
          /\ pauseRequested' = pauseRequested /\ lastStopWasBreakpoint' = lastStopWasBreakpoint
    BY <1>8 DEF SetHooks, session
  <2> QED BY <1>0, <2>1, <2>2, <2>3, <2>4, ClientCallInv
<1> QED BY <1>1, <1>2, <1>3, <1>4, <1>5, <1>6, <1>7, <1>8 DEF Client

\* Every step keeps the invariant.
LEMMA NextInv ==
  ASSUME Inv, [Next]_vars
  PROVE  Inv'
<1>1. CASE Client
  BY <1>1, ClientInv
<1>2. CASE Run
  BY <1>2, StopAtBreakpointInv, BeginInstructionInv, ExecuteInstructionInv,
     EndInstructionInv, StopAfterInstructionInv, NextInstructionInv DEF Run
<1>3. CASE UNCHANGED vars
  <2>1. UNCHANGED <<machine, state, control, seen>> /\ UNCHANGED <<session, hooking>>
    BY <1>3 DEF vars, session
  <2>2. /\ module' = module /\ breakpoints' = breakpoints
        /\ pauseRequested' = pauseRequested /\ lastStopWasBreakpoint' = lastStopWasBreakpoint
    BY <2>1 DEF machine, session
  <2>3. \A location \in breakpoints' : InProgram(location)'
    BY <2>2, BreakpointsKept
  <2>4. /\ pauseRequested \in BOOLEAN /\ lastStopWasBreakpoint \in BOOLEAN
        /\ breakpoints \subseteq BreakpointRequests
    BY DEF Inv, ControlType
  <2> QED BY <2>1, <2>2, <2>3, <2>4, HooksKept, ClientCallInv
<1> QED BY <1>1, <1>2, <1>3 DEF Next

\* Inv holds whatever the client does.
LEMMA Invariant == Spec => []Inv
<1>1. Inv /\ [Next]_vars => Inv'
  BY NextInv
<1> QED BY InitInv, <1>1, PTL DEF Spec

-----------------------------------------------------------------------------
\* The session's members always hold what their C++ types allow, no two calls
\* are in flight, and a call in flight is somewhere in its loop.
THEOREM TypeCorrect == Spec => []TypeOK
BY Invariant, InvType, PTL

\* Whatever the client calls, there is a frame to run exactly while the program
\* can go on, and breakpoints are instructions of the module being run.
THEOREM StateConsistent == Spec => []StateMatchesProgram
<1>1. Inv => StateMatchesProgram
  BY DEF Inv
<1> QED BY Invariant, <1>1, PTL

\* Every suspended frame stands just after the call that pushed the one above
\* it, and the call depth is never exceeded (Call, Return).
THEOREM CallStackSound == Spec => []CallersAtCallSites
<1>1. Inv => CallersAtCallSites
  BY DEF Inv
<1> QED BY Invariant, <1>1, PTL

\* continueExecution passes a breakpoint only where a breakpoint stop has just
\* been reported.
THEOREM BreakpointsHold == Spec => NoBreakpointMissed
<1>1. ASSUME Inv, [Next]_vars
      PROVE  [Started /\ command = "continue" /\ Location \in breakpoints => ~moved]_vars
  <2>1. SUFFICES ASSUME Started, command = "continue", Location \in breakpoints
                 PROVE  ~moved
    BY DEF vars
  <2>2. phase = "loop" /\ phase' # "loop" /\ command' # "none"
    BY <2>1 DEF Started
  <2>3. CASE Client
    BY <2>1, <2>2, <2>3 DEF Client, Start, Step, Continue, Pause, ClearBreakpoints, AddBreakpoint,
       RemoveBreakpoint, SetHooks, control
  <2>4. CASE Run
    <3>1. BeginInstruction
      BY <2>2, <2>4 DEF Run, StopAtBreakpoint, Stop, ExecuteInstruction, EndInstruction,
         StopAfterInstruction, NextInstruction
    <3>2. skipCurrentBreakpoint
      BY <2>1, <3>1 DEF BeginInstruction, AtBreakpoint
    <3> QED BY <1>1, <2>1, <2>2, <3>2 DEF Inv, SkipOnlyWhereStopped
  <2>5. CASE UNCHANGED vars
    BY <2>2, <2>5 DEF vars, control
  <2> QED BY <1>1, <2>3, <2>4, <2>5 DEF Next
<1>2. Spec => [][Next]_vars
  BY DEF Spec
<1> QED BY Invariant, <1>1, <1>2, PTL DEF NoBreakpointMissed

\* Once a pause is requested, continueExecution executes no further instruction,
\* and only the pause it reports, or a restart, clears the request.
THEOREM PausesHold == Spec => PauseNotOvertaken
<1>1. ASSUME Inv, [Next]_vars
      PROVE  [Started /\ command = "continue" => ~pauseRequested]_vars
  BY <1>1 DEF Inv, CallProgress, Started
<1>2. ASSUME Inv, [Next]_vars
      PROVE  [pauseRequested /\ ~pauseRequested' => stopReason' \in {"Pause", "None"}]_vars
  <2>1. SUFFICES ASSUME pauseRequested, ~pauseRequested'
                 PROVE  stopReason' \in {"Pause", "None"}
    BY DEF vars
  <2>2. CASE Client
    BY <2>1, <2>2 DEF Client, Start, Reset, Step, Continue, Stop, Pause, ClearBreakpoints,
       AddBreakpoint, RemoveBreakpoint, SetHooks, session
  <2>3. CASE Run
    BY <2>1, <2>3 DEF Run, StopAtBreakpoint, BeginInstruction, ExecuteInstruction,
       EndInstruction, StopAfterInstruction, NextInstruction, Stop, session
  <2>4. CASE UNCHANGED vars
    BY <2>1, <2>4 DEF vars, session
  <2> QED BY <1>2, <2>2, <2>3, <2>4 DEF Next
<1>3. Spec => [][Next]_vars
  BY DEF Spec
<1> QED BY Invariant, <1>1, <1>2, <1>3, PTL DEF PauseNotOvertaken
-----------------------------------------------------------------------------
\* With every hook installed from its first call on, the latest event tells
\* where in its instruction a call in flight is; between calls an instruction
\* has been reported to its end, or has faulted.
HookProgress ==
  /\ hooks \in {{}, HookKinds}
  /\ hooks = {} => event = NoEvent /\ ~inHook
  /\ hooks = HookKinds =>
       /\ phase \in {"idle", "loop"} /\ outcome # "Fault" => event.kind \in {"none", "after"}
       /\ phase = "execute" => event.kind = "before" /\ event.depth = Depth
       /\ phase = "after" => event.kind \in {"before", "callPush", "callPop"}
       /\ phase = "finish" /\ outcome # "Fault" => event.kind = "after"
       /\ event.kind = "fault" => phase \in {"idle", "finish"} /\ outcome = "Fault"

\* The initial states have reported nothing.
LEMMA HookProgressInit == Init => HookProgress
BY DEF Init, HookProgress, NoEvent, HookKinds

\* What leaves the call in flight, the hooks and their events alone.
LEMMA HookProgressKept ==
  ASSUME HookProgress, UNCHANGED <<machine, control, hooking>>
  PROVE  HookProgress'
BY DEF HookProgress, machine, control, hooking, Depth

\* What a hook reports.
LEMMA EmitProgress ==
  ASSUME HookProgress, NEW kind, NEW depth, NEW pushed, Emit(kind, depth, pushed)
  PROVE  /\ hooks' = hooks
         /\ hooks = {} => event' = NoEvent /\ ~inHook'
         /\ hooks = HookKinds /\ kind \in HookKinds => event'.kind = kind /\ event'.depth = depth
         /\ kind \notin HookKinds => event' = event
<1>1. hooks = {} \/ hooks = HookKinds
  BY DEF HookProgress
<1> QED BY <1>1 DEF Emit, HookProgress, HookKinds

\* An instruction that succeeds and is reported as a call pushed a frame, one
\* reported as a return popped one.
LEMMA EffectOnDepth ==
  ASSUME MachineOK, frames # <<>>, ~AtEnd, NEW o \in {"Continue", "Exit", "Fault"}, Execute(o)
  PROVE  /\ EffectHook(o) = "callPush" => Len(frames') = Depth + 1
         /\ EffectHook(o) = "callPop" => Depth \in Nat \ {0} /\ Len(frames') = Depth - 1
         /\ EffectHook(o) \in {"callPush", "callPop", "none", "fault"}
         /\ EffectHook(o) = "fault" <=> o = "Fault"
<1>1. frames \in Seq(FrameType) /\ Len(frames) \in Nat \ {0} /\ Depth = Len(frames)
  BY RunningType DEF MachineOK
<1>2. /\ EffectHook(o) \in {"callPush", "callPop", "none", "fault"}
      /\ EffectHook(o) = "fault" <=> o = "Fault"
  BY DEF EffectHook
<1>3. ASSUME EffectHook(o) = "callPush"
      PROVE  Len(frames') = Depth + 1
  <2>1. Inst.op \in Calls /\ o # "Fault"
    BY <1>3 DEF EffectHook
  <2>2. Call
    BY <2>1 DEF Execute, Proceed, Exit, Push, Constants, LoadLocal, StoreLocal, LoadIndirect,
       StoreIndirect, HeapOp, HeapOps, Shuffle, Jump, Return, Returns, Calls
  <2>3. /\ Callers \in Seq(FrameType) /\ Len(Callers) = Len(frames)
    <3>1. Frame \in FrameType /\ [Frame EXCEPT !.ip = Frame.ip + 1] \in FrameType
      BY RunningType DEF FrameType
    <3>2. Callers = [frames EXCEPT ![Depth] = [Frame EXCEPT !.ip = Frame.ip + 1]]
      BY DEF Callers, Frame
    <3> QED BY <1>1, <3>1, <3>2, SMT
  <2> QED BY <1>1, <2>2, <2>3, SMT DEF Call
<1>4. ASSUME EffectHook(o) = "callPop"
      PROVE  Len(frames') = Depth - 1
  <2>1. Inst.op \in Returns /\ o # "Fault"
    BY <1>4 DEF EffectHook
  <2>2. Return \/ Exit
    BY <2>1 DEF Execute, Proceed, Push, Constants, LoadLocal, StoreLocal, LoadIndirect,
       StoreIndirect, HeapOp, HeapOps, Shuffle, Jump, Call, Returns, Calls
  <2>3. CASE Return
    BY <1>1, <2>3, SMT DEF Return
  <2>4. CASE Exit
    <3>1. Len(frames') = 0 /\ Depth = 1
      BY <2>4 DEF Exit
    <3> QED BY <3>1, SMT
  <2> QED BY <2>2, <2>3, <2>4
<1> QED BY <1>1, <1>2, <1>3, <1>4

\* An executed instruction reports at most once between before and after.
LEMMA ExecuteProgress ==
  ASSUME Inv, HookProgress, ExecuteInstruction
  PROVE  /\ HookProgress'
         /\ hooks = HookKinds =>
              /\ event'.kind \in {"before", "callPush", "callPop", "fault"}
              /\ event.kind = "before"
              /\ event'.kind = "before" => event' = event
              /\ event'.kind = "callPush" => event'.depth = event.depth + 1
              /\ event'.kind = "callPop" => /\ event.depth \in Nat \ {0}
                                            /\ event'.depth = event.depth - 1
<1>1. phase = "execute" /\ frames # <<>> /\ ~AtEnd /\ MachineOK
  BY InFlight DEF ExecuteInstruction, Inv, CallProgress
<1>2. PICK o \in {"Continue", "Exit", "Fault"} :
         /\ Execute(o)
         /\ outcome' = o
         /\ phase' = PhaseAfter(o)
         /\ Emit(EffectHook(o), Len(frames'),
                 IF EffectHook(o) = "callPush" THEN Inst.op = "Call"
                 ELSE EffectHook(o) = "callPop" /\ Frame.returnValueToCaller)
  BY DEF ExecuteInstruction
<1>3. /\ EffectHook(o) = "callPush" => Len(frames') = Depth + 1
      /\ EffectHook(o) = "callPop" => Depth \in Nat \ {0} /\ Len(frames') = Depth - 1
      /\ EffectHook(o) \in {"callPush", "callPop", "none", "fault"}
      /\ EffectHook(o) = "fault" <=> o = "Fault"
  BY <1>1, <1>2, EffectOnDepth
<1>4. /\ hooks' = hooks
      /\ hooks = {} => event' = NoEvent /\ ~inHook'
      /\ hooks = HookKinds /\ EffectHook(o) \in HookKinds
           => event'.kind = EffectHook(o) /\ event'.depth = Len(frames')
      /\ EffectHook(o) \notin HookKinds => event' = event
  BY <1>2, EmitProgress
<1>5. hooks = HookKinds => event.kind = "before" /\ event.depth = Depth
  BY <1>1 DEF HookProgress
<1>6. /\ EffectHook(o) = "none" => EffectHook(o) \notin HookKinds
      /\ EffectHook(o) # "none" => EffectHook(o) \in HookKinds
  BY <1>3 DEF HookKinds
<1>7. /\ o = "Fault" => phase' = "finish"
      /\ o # "Fault" => phase' = "after"
  BY <1>2 DEF PhaseAfter
<1>8. hooks = {} \/ hooks = HookKinds
  BY DEF HookProgress
<1>9. HookProgress'
  BY <1>2, <1>3, <1>4, <1>5, <1>6, <1>7, <1>8 DEF HookProgress
<1> QED BY <1>3, <1>4, <1>5, <1>6, <1>9

\* Every step keeps the latest event in its place.
LEMMA HookProgressNext ==
  ASSUME HookSets \subseteq {HookKinds}, Inv, HookProgress, [Next]_vars
  PROVE  HookProgress'
<1>1. ASSUME NEW m \in Modules, Start(m)
      PROVE  HookProgress'
  <2>1. phase = "idle" /\ ~inHook
    BY <1>1 DEF Start, Inv, ControlType, CallProgress
  <2> QED BY <1>1, <2>1 DEF Start, HookProgress, NoEvent
<1>2. CASE Step \/ Continue
  <2>1. /\ phase = "idle" /\ outcome # "Fault" /\ ~inHook
        /\ phase' \in {"idle", "loop"} /\ outcome' = "None" /\ ~inHook'
        /\ hooks' = hooks /\ event' = event
    BY <1>2 DEF Step, Continue, Stop, hooking, Inv, ControlType, CallProgress
  <2> QED BY <2>1 DEF HookProgress
<1>3. CASE Pause \/ ClearBreakpoints
           \/ \E location \in BreakpointRequests : AddBreakpoint(location) \/ RemoveBreakpoint(location)
  BY <1>3, HookProgressKept DEF Pause, ClearBreakpoints, AddBreakpoint, RemoveBreakpoint
<1>4. ASSUME NEW kinds \in HookSets, SetHooks(kinds)
      PROVE  HookProgress'
  <2>1. hooks' = HookKinds /\ event' = event /\ UNCHANGED <<machine, control>>
    BY <1>4 DEF SetHooks
  <2>2. hooks = {} => phase = "idle"
    BY <1>4 DEF SetHooks, ClientMayCall, HookProgress, Inv, ControlType
  <2>3. Depth' = Depth
    BY <2>1 DEF Depth, machine
  <2>4. NoEvent.kind = "none"
    BY DEF NoEvent
  <2>5. phase' = phase /\ outcome' = outcome /\ inHook' = inHook
    BY <2>1 DEF control
  <2>6. hooks = {} \/ hooks = HookKinds
    BY DEF HookProgress
  <2>7. HookKinds # {}
    BY DEF HookKinds
  <2> QED BY <2>1, <2>2, <2>3, <2>4, <2>5, <2>6, <2>7 DEF HookProgress
<1>5. CASE StopAtBreakpoint
  <2>1. /\ phase = "loop" /\ phase' = "idle" /\ outcome' = outcome /\ ~inHook'
        /\ hooks' = hooks /\ event' = event
    BY <1>5 DEF StopAtBreakpoint, Stop, hooking
  <2> QED BY <2>1 DEF HookProgress
<1>6. CASE BeginInstruction
  <2>0. phase = "loop" /\ outcome # "Fault" /\ ~inHook /\ Depth' = Depth
    BY <1>6 DEF BeginInstruction, Inv, CallProgress, Depth, machine
  <2>1. CASE outcome' = "Fault" /\ phase' = "finish" /\ inHook' = FALSE /\ UNCHANGED hooking
    BY <2>0, <2>1 DEF HookProgress, hooking
  <2>2. CASE phase' = "execute" /\ Emit("before", Depth, FALSE) /\ outcome' = outcome
    <3>1. "before" \in HookKinds /\ (hooks = {} \/ hooks = HookKinds)
      BY DEF HookKinds, HookProgress
    <3>2. /\ hooks' = hooks
          /\ hooks = {} => event' = NoEvent /\ ~inHook'
          /\ hooks = HookKinds => event'.kind = "before" /\ event'.depth = Depth
      BY <2>2, <3>1, EmitProgress
    <3> QED BY <2>0, <2>2, <3>1, <3>2 DEF HookProgress
  <2> QED BY <1>6, <2>1, <2>2 DEF BeginInstruction
<1>7. CASE ExecuteInstruction
  BY <1>7, ExecuteProgress
<1>8. CASE EndInstruction
  <2>1. /\ phase = "after" /\ phase' = "finish" /\ outcome' = outcome /\ outcome # "Fault"
        /\ Emit("after", Depth, FALSE)
    BY <1>8 DEF EndInstruction, Inv, CallProgress
  <2>2. "after" \in HookKinds /\ (hooks = {} \/ hooks = HookKinds)
    BY DEF HookKinds, HookProgress
  <2>3. /\ hooks' = hooks
        /\ hooks = {} => event' = NoEvent /\ ~inHook'
        /\ hooks = HookKinds => event'.kind = "after"
    BY <2>1, <2>2, EmitProgress
  <2> QED BY <2>1, <2>2, <2>3 DEF HookProgress
<1>9. CASE StopAfterInstruction
  <2>1. /\ phase = "finish" /\ phase' = "idle" /\ outcome' = outcome /\ ~inHook'
        /\ hooks' = hooks /\ event' = event
    BY <1>9 DEF StopAfterInstruction, Stop, hooking
  <2> QED BY <2>1 DEF HookProgress
<1>10. CASE NextInstruction
  <2>1. /\ phase = "finish" /\ phase' = "loop" /\ outcome' = outcome /\ outcome = "Continue"
        /\ ~inHook' /\ hooks' = hooks /\ event' = event
    BY <1>10 DEF NextInstruction, GoesOn, hooking
  <2> QED BY <2>1 DEF HookProgress
<1>11. CASE UNCHANGED vars
  BY <1>11, HookProgressKept DEF vars
<1> QED BY <1>1, <1>2, <1>3, <1>4, <1>5, <1>6, <1>7, <1>8, <1>9, <1>10, <1>11 DEF Next, Client, Run

\* When every hook is installed, an instruction reports before, then at most
\* one call event with the depth it leaves, then after; a faulted one reports
\* before, then fault, and its fault is the session's last event.
THEOREM HooksInOrder ==
  ASSUME HookSets \subseteq {HookKinds}
  PROVE  Spec => HookOrder
<1> DEFINE InOrder(e, f) ==
      /\ f # e /\ f.kind = "before" => e.kind \in {"none", "after"}
      /\ f # e /\ f.kind \in {"callPush", "callPop", "fault"} => e.kind = "before"
      /\ f # e /\ f.kind = "after" => e.kind \in {"before", "callPush", "callPop"}
      /\ f # e /\ f.kind = "callPush" => f.depth = e.depth + 1
      /\ f # e /\ f.kind = "callPop" => f.depth = IF e.depth = 1 THEN 0 ELSE e.depth - 1
      /\ e.kind = "fault" => f \in {e, NoEvent}
<1>1. ASSUME Inv, HookProgress, [Next]_vars
      PROVE  [hooks = HookKinds => InOrder(event, event')]_vars
  <2>1. SUFFICES ASSUME hooks = HookKinds PROVE InOrder(event, event')
    OBVIOUS
  <2>2. CASE event' = event
    BY <2>2
  <2>3. CASE event' = NoEvent
    BY <2>3 DEF NoEvent
  <2>4. CASE BeginInstruction /\ event' # event
    <3>1. /\ phase = "loop" /\ outcome # "Fault" /\ Emit("before", Depth, FALSE)
      BY <1>1, <2>4 DEF BeginInstruction, Inv, CallProgress, hooking
    <3>2. event'.kind = "before"
      BY <1>1, <2>1, <3>1, EmitProgress DEF HookKinds
    <3>3. event.kind \in {"none", "after"}
      BY <1>1, <2>1, <3>1 DEF HookProgress
    <3> QED BY <3>2, <3>3
  <2>5. CASE ExecuteInstruction
    <3>1. /\ event'.kind \in {"before", "callPush", "callPop", "fault"}
          /\ event.kind = "before"
          /\ event'.kind = "before" => event' = event
          /\ event'.kind = "callPush" => event'.depth = event.depth + 1
          /\ event'.kind = "callPop" => /\ event.depth \in Nat \ {0}
                                        /\ event'.depth = event.depth - 1
      BY <1>1, <2>1, <2>5, ExecuteProgress
    <3>2. event'.kind = "callPop"
            => event'.depth = IF event.depth = 1 THEN 0 ELSE event.depth - 1
      BY <3>1, SMT
    <3> QED BY <3>1, <3>2
  <2>6. CASE EndInstruction
    <3>1. phase = "after" /\ Emit("after", Depth, FALSE)
      BY <2>6 DEF EndInstruction
    <3>2. event'.kind = "after"
      BY <1>1, <2>1, <3>1, EmitProgress DEF HookKinds
    <3>3. event.kind \in {"before", "callPush", "callPop"}
      BY <1>1, <2>1, <3>1 DEF HookProgress
    <3> QED BY <3>2, <3>3
  <2>7. Client => event' \in {event, NoEvent}
    BY DEF Client, Start, Step, Continue, Pause, ClearBreakpoints, AddBreakpoint,
       RemoveBreakpoint, SetHooks, hooking
  <2>8. Run => event' = event \/ BeginInstruction \/ ExecuteInstruction \/ EndInstruction
    BY DEF Run, StopAtBreakpoint, StopAfterInstruction, NextInstruction, hooking
  <2>9. UNCHANGED vars => event' = event
    BY DEF vars, hooking
  <2> HIDE DEF InOrder
  <2> QED BY <1>1, <2>2, <2>3, <2>4, <2>5, <2>6, <2>7, <2>8, <2>9 DEF Next
<1>2. Inv /\ HookProgress /\ [Next]_vars => HookProgress'
  BY HookProgressNext
<1>3. ASSUME [hooks = HookKinds => InOrder(event, event')]_vars
      PROVE  [hooks = HookKinds =>
       /\ Reports("before") => event.kind \in {"none", "after"}
       /\ Reports("callPush") \/ Reports("callPop") \/ Reports("fault") => event.kind = "before"
       /\ Reports("after") => event.kind \in {"before", "callPush", "callPop"}
       /\ Reports("callPush") => event'.depth = event.depth + 1
       /\ Reports("callPop") => event'.depth = IF event.depth = 1 THEN 0 ELSE event.depth - 1
       /\ event.kind = "fault" => event' \in {event, NoEvent}]_vars
  BY <1>3 DEF Reports
<1>4. Spec => [][Next]_vars /\ Init
  BY DEF Spec
<1> HIDE DEF InOrder
<1> QED BY Invariant, HookProgressInit, <1>1, <1>2, <1>3, <1>4, PTL DEF HookOrder

-----------------------------------------------------------------------------
(***************************************************************************)
(* The session implements the kernel: debugging a program does not change  *)
(* what it does.  The refinement mapping is the identity on the machine    *)
(* and KernelStatus; the two specifications then only have to agree step   *)
(* by step.                                                                *)
(***************************************************************************)
\* The kernel the session is compared with has the session's heap and machine:
\* each of its definitions is the one of VmMachine.
LEMMA KernelHeap ==
  /\ Kernel!Word = Word /\ Kernel!WordLimit = WordLimit
  /\ Kernel!SlotBytes = SlotBytes
  /\ \A a, h : Kernel!AllocateVmHeapSlots(a, h) = AllocateVmHeapSlots(a, h)
  /\ \A a, h : Kernel!FreeVmHeapSlots(a, h) = FreeVmHeapSlots(a, h)
  /\ \A a, n, h : Kernel!ReallocVmHeapSlots(a, n, h) = ReallocVmHeapSlots(a, n, h)
  /\ \A a, n, h : Kernel!ResolveIndirectAddress(a, n, h) = ResolveIndirectAddress(a, n, h)
<1>1. /\ Kernel!Word = Word /\ Kernel!WordLimit = WordLimit /\ Kernel!SlotBytes = SlotBytes
      /\ Kernel!MaxAddressableIndex = MaxAddressableIndex
  BY DEF Kernel!Word, Word, Kernel!WordLimit, WordLimit, Kernel!SlotBytes, SlotBytes,
     Kernel!MaxAddressableIndex, MaxAddressableIndex
<1>2. /\ \A a : Kernel!SlotIndex(a) = SlotIndex(a)
      /\ \A a : Kernel!HeapAddress(a) = HeapAddress(a)
      /\ \A a : Kernel!IsVmHeapAddress(a) <=> IsVmHeapAddress(a)
      /\ \A h : Kernel!Failed(h) = Failed(h)
      /\ \A a, h : Kernel!Done(a, h) = Done(a, h)
      /\ \A a, i : Kernel!Covers(a, i) <=> Covers(a, i)
      /\ \A b, n : Kernel!NewRecord(b, n) = NewRecord(b, n)
      /\ \A b, n : Kernel!TooLarge(b, n) <=> TooLarge(b, n)
      /\ \A b, h : Kernel!HasBase(b, h) <=> HasBase(b, h)
      /\ \A b, h : Kernel!FirstAt(b, h) = FirstAt(b, h)
  BY <1>1 DEF Kernel!SlotIndex, SlotIndex, Kernel!HeapAddress, HeapAddress, Kernel!IsVmHeapAddress,
     IsVmHeapAddress, Kernel!Failed, Failed, Kernel!Done, Done, Kernel!Covers, Covers,
     Kernel!NewRecord, NewRecord, Kernel!TooLarge, TooLarge, Kernel!HasBase, HasBase,
     Kernel!FirstAt, FirstAt
<1>3. \A a, h : Kernel!AllocateVmHeapSlots(a, h) = AllocateVmHeapSlots(a, h)
  BY <1>2 DEF Kernel!AllocateVmHeapSlots, AllocateVmHeapSlots
<1>4. \A a, h : Kernel!Owned(a, h) <=> Owned(a, h)
  BY <1>1, <1>2 DEF Kernel!Owned, Owned
<1>5. /\ \A i, h : Kernel!Release(i, h) = Release(i, h)
      /\ \A b, n, c, h : Kernel!CopySlots(b, n, c, h) = CopySlots(b, n, c, h)
  BY DEF Kernel!Release, Release, Kernel!CopySlots, CopySlots
<1>6. \A a, h : Kernel!FreeVmHeapSlots(a, h) = FreeVmHeapSlots(a, h)
  BY <1>2, <1>4, <1>5 DEF Kernel!FreeVmHeapSlots, FreeVmHeapSlots
<1>7. \A a, n, h : Kernel!ReallocVmHeapSlots(a, n, h) = ReallocVmHeapSlots(a, n, h)
  BY <1>2, <1>3, <1>4, <1>5, <1>6 DEF Kernel!ReallocVmHeapSlots, ReallocVmHeapSlots
<1>8. \A a, n, h : Kernel!ResolveIndirectAddress(a, n, h) = ResolveIndirectAddress(a, n, h)
  <2> TAKE a, n, h
  <2>1. /\ Kernel!SlotIndex(a) = SlotIndex(a) /\ Kernel!SlotBytes = SlotBytes
        /\ Kernel!IsVmHeapAddress(a) <=> IsVmHeapAddress(a)
    BY <1>1, <1>2
  <2>2. (\E i \in DOMAIN h.allocations : Kernel!Covers(h.allocations[i], SlotIndex(a)))
          <=> (\E i \in DOMAIN h.allocations : Covers(h.allocations[i], SlotIndex(a)))
    BY <1>2
  <2> QED BY <2>1, <2>2 DEF Kernel!ResolveIndirectAddress, ResolveIndirectAddress
<1> QED BY <1>1, <1>3, <1>6, <1>7, <1>8

\* The instruction about to execute is the same, and so is what it finds.
LEMMA KernelInstruction ==
  /\ Kernel!AtEnd <=> AtEnd
  /\ Kernel!Inst = Inst /\ Kernel!Frame = Frame /\ Kernel!Depth = Depth
  /\ \A f : Kernel!Code(f) = Code(f)
  /\ \A n : Kernel!Operand(n) = Operand(n) /\ Kernel!Drop(n) = Drop(n)
  /\ \A v : Kernel!SignExtend(v) = SignExtend(v)
  /\ \A fs, f, r : Kernel!NewFrame(fs, f, r) = NewFrame(fs, f, r)
  /\ Kernel!Callers = Callers
  /\ Kernel!ReturnValue = ReturnValue
  /\ Kernel!HeapResult = HeapResult
  /\ Kernel!IndirectSlot = IndirectSlot
  /\ \A op : Kernel!Operands(op) = Operands(op)
  /\ Kernel!Underflow <=> Underflow
  /\ Kernel!Faults <=> Faults
<1>1. /\ Kernel!Inst = Inst /\ Kernel!Frame = Frame /\ Kernel!Depth = Depth
      /\ \A f : Kernel!Code(f) = Code(f)
      /\ \A n : Kernel!Operand(n) = Operand(n) /\ Kernel!Drop(n) = Drop(n)
      /\ Kernel!AtEnd <=> AtEnd
  BY DEF Kernel!Inst, Inst, Kernel!Frame, Frame, Kernel!Code, Code, Kernel!Depth, Depth,
     Kernel!Operand, Operand, Kernel!Drop, Drop, Kernel!AtEnd, AtEnd
<1>2. /\ Kernel!LocalOps = LocalOps /\ Kernel!Calls = Calls /\ Kernel!Jumps = Jumps
      /\ Kernel!HeapOps = HeapOps /\ Kernel!Unary = Unary /\ Kernel!Binary = Binary
      /\ Kernel!Opcodes = Opcodes
      /\ \A op : Kernel!Operands(op) = Operands(op)
  BY DEF Kernel!LocalOps, LocalOps, Kernel!Calls, Calls, Kernel!Jumps, Jumps, Kernel!HeapOps, HeapOps,
     Kernel!Unary, Unary, Kernel!Binary, Binary, Kernel!Numerics, Numerics, Kernel!Opcodes, Opcodes,
     Kernel!Constants, Constants, Kernel!Operands, Operands
<1>3. \A v : Kernel!SignExtend(v) = SignExtend(v)
  BY KernelHeap DEF Kernel!SignExtend, SignExtend
<1>4. \A code : Kernel!LocalCount(code) = LocalCount(code)
  BY <1>2 DEF Kernel!LocalCount, LocalCount
<1>5. \A fs, f, r : Kernel!NewFrame(fs, f, r) = NewFrame(fs, f, r)
  BY <1>4 DEF Kernel!NewFrame, NewFrame
<1>6. Kernel!Callers = Callers
  BY <1>1 DEF Kernel!Callers, Callers
<1>7. Kernel!ReturnValue = ReturnValue
  BY <1>1, <1>3 DEF Kernel!ReturnValue, ReturnValue
<1>8. Kernel!HeapResult = HeapResult
  BY <1>1, KernelHeap DEF Kernel!HeapResult, HeapResult
<1>9. Kernel!IndirectSlot = IndirectSlot
  BY <1>1, KernelHeap DEF Kernel!IndirectSlot, IndirectSlot
<1>10. Kernel!Underflow <=> Underflow
  BY <1>1, <1>2 DEF Kernel!Underflow, Underflow
<1>11. Kernel!BadInstruction <=> BadInstruction
  BY <1>1, <1>2, <1>8, <1>9 DEF Kernel!BadInstruction, BadInstruction
<1>12. Kernel!Faults <=> Faults
  BY <1>10, <1>11 DEF Kernel!Faults, Faults
<1> QED BY <1>1, <1>2, <1>3, <1>5, <1>6, <1>7, <1>8, <1>9, <1>10, <1>12

\* An instruction of the session is one of the kernel.
LEMMA KernelExecute ==
  ASSUME NEW o
  PROVE  Execute(o) => Kernel!Execute(o)
<1>1. /\ \A ip : MoveTo(ip) => Kernel!MoveTo(ip)
      /\ Advance => Kernel!Advance
      /\ \A n, words : ReplaceOperands(n, words) => Kernel!ReplaceOperands(n, words)
      /\ \A index, word : SetLocal(index, word) => Kernel!SetLocal(index, word)
  BY KernelInstruction DEF MoveTo, Kernel!MoveTo, Advance, Kernel!Advance, ReplaceOperands,
     Kernel!ReplaceOperands, SetLocal, Kernel!SetLocal
<1>2. Push => Kernel!Push
  BY <1>1, KernelInstruction DEF Push, Kernel!Push, Constants, Kernel!Constants
<1>3. LoadLocal => Kernel!LoadLocal
  BY <1>1, KernelInstruction, KernelHeap DEF LoadLocal, Kernel!LoadLocal
<1>4. StoreLocal => Kernel!StoreLocal
  BY <1>1, KernelInstruction DEF StoreLocal, Kernel!StoreLocal
<1>5. LoadIndirect => Kernel!LoadIndirect
  BY <1>1, KernelInstruction DEF LoadIndirect, Kernel!LoadIndirect
<1>6. StoreIndirect => Kernel!StoreIndirect
  BY <1>1, KernelInstruction DEF StoreIndirect, Kernel!StoreIndirect
<1>7. HeapOp => Kernel!HeapOp
  BY <1>1, KernelInstruction DEF HeapOp, Kernel!HeapOp, HeapOps, Kernel!HeapOps
<1>8. Shuffle => Kernel!Shuffle
  BY <1>1, KernelInstruction, KernelHeap DEF Shuffle, Kernel!Shuffle
<1>9. Jump => Kernel!Jump
  BY <1>1, KernelInstruction DEF Jump, Kernel!Jump
<1>10. Call => Kernel!Call
  BY KernelInstruction DEF Call, Kernel!Call, Calls, Kernel!Calls
<1>11. Return => Kernel!Return
  BY <1>1, KernelInstruction DEF Return, Kernel!Return, Returns, Kernel!Returns
<1>12. Exit => Kernel!Exit
  BY <1>1, KernelInstruction DEF Exit, Kernel!Exit, Returns, Kernel!Returns
<1>13. Fault => Kernel!Fault
  BY KernelInstruction DEF Fault, Kernel!Fault
<1>14. Proceed => Kernel!Proceed
  BY <1>2, <1>3, <1>4, <1>5, <1>6, <1>7, <1>8, <1>9, <1>10, <1>11
     DEF Proceed, Kernel!Proceed
<1> QED BY <1>12, <1>13, <1>14, KernelInstruction DEF Execute, Kernel!Execute

\* Both enter a module with the same frame.
LEMMA KernelEnter ==
  ASSUME NEW m, Enter(m)
  PROVE  Kernel!Enter(m)
<1>1. Kernel!EmptyHeap = EmptyHeap /\ (Kernel!ValidEntry(m) <=> ValidEntry(m))
  BY DEF Kernel!EmptyHeap, EmptyHeap, Kernel!ValidEntry, ValidEntry
<1> QED BY <1>1, KernelInstruction DEF Enter, Kernel!Enter

-----------------------------------------------------------------------------
\* The initial states are the kernel's.
LEMMA InitImplements == Init => Kernel!Init
BY DEF Init, Kernel!Init, KernelStatus, EmptyHeap, Kernel!EmptyHeap, NoModule, Kernel!NoModule

\* A step that leaves the program and its outcome alone is a stutter.
LEMMA Stutter ==
  ASSUME UNCHANGED machine, KernelStatus' = KernelStatus
  PROVE  UNCHANGED Kernel!vars
BY DEF machine, Kernel!vars, Kernel!machine

\* While the latest outcome is not an end, the program is running.
LEMMA StatusRunning ==
  ASSUME Inv, state \notin {"Idle", "Exited", "Faulted"}, outcome \in {"None", "Continue"}
  PROVE  KernelStatus = "running"
BY DEF Inv, StateMatchesProgram, KernelStatus

\* An executed instruction is one of the kernel's.
LEMMA ExecuteImplements ==
  ASSUME Inv, Inv', ExecuteInstruction
  PROVE  Kernel!Instruction
<1>1. frames # <<>> /\ state = "Running" /\ ~AtEnd /\ outcome \in {"None", "Continue"}
  BY InFlight DEF ExecuteInstruction, Inv, CallProgress
<1>2. PICK o \in {"Continue", "Exit", "Fault"} : Execute(o) /\ outcome' = o
  BY DEF ExecuteInstruction
<1>3. KernelStatus = "running"
  BY <1>1, StatusRunning
<1>4. module' = module /\ module # NoModule
  BY <1>1, <1>2, ExecuteOK DEF Inv, StateMatchesProgram
<1>5. KernelStatus' = CASE o = "Continue" -> "running"
                        [] o = "Exit" -> "returned"
                        [] o = "Fault" -> "failed"
  BY <1>2, <1>4 DEF KernelStatus
<1>6. Kernel!Execute(o) /\ ~Kernel!AtEnd
  BY <1>1, <1>2, KernelExecute, KernelInstruction
<1> QED BY <1>3, <1>5, <1>6 DEF Kernel!Instruction

\* A start is the kernel's.
LEMMA BeginImplements ==
  ASSUME Inv, Inv', BeginInstruction
  PROVE  Kernel!MissingReturn \/ UNCHANGED Kernel!vars
<1>1. state = "Running" /\ outcome \in {"None", "Continue"}
  BY InFlight DEF BeginInstruction, Inv, CallProgress
<1>2. UNCHANGED machine /\ module' = module /\ module # NoModule
  BY <1>1 DEF BeginInstruction, Inv, StateMatchesProgram, machine
<1>3. CASE AtEnd /\ outcome' = "Fault"
  <2>1. KernelStatus = "running" /\ KernelStatus' = "failed"
    BY <1>1, <1>2, <1>3, StatusRunning DEF KernelStatus
  <2> QED BY <1>2, <1>3, <2>1, KernelInstruction DEF Kernel!MissingReturn, machine, Kernel!machine
<1>4. CASE outcome' = outcome
  BY <1>2, <1>4, Stutter DEF KernelStatus
<1> QED BY <1>3, <1>4 DEF BeginInstruction

\* Every step is the kernel's or a stutter.
LEMMA NextImplements ==
  ASSUME Inv, Inv', [Next]_vars
  PROVE  [Kernel!Next]_(Kernel!vars)
<1>1. ASSUME NEW m \in Modules, Start(m)
      PROVE  Kernel!Next
  <2>1. Kernel!Enter(m)
    BY <1>1, KernelEnter DEF Start
  <2>2. KernelStatus' = "running"
    <3>1. module' # NoModule /\ outcome' = "None"
      BY <1>1, EnterOK DEF Start
    <3> QED BY <3>1 DEF KernelStatus
  <2> QED BY <2>1, <2>2 DEF Kernel!Next, Kernel!Start
<1>2. CASE Step \/ Continue
  <2>1. state = "Paused" /\ UNCHANGED machine /\ module' = module /\ outcome' = "None"
    BY <1>2 DEF Step, Continue, machine
  <2>2. KernelStatus = "running" /\ KernelStatus' = "running"
    <3>1. outcome \in {"None", "Continue"} /\ module # NoModule
      BY <2>1 DEF Inv, CallProgress, StateMatchesProgram
    <3> QED BY <2>1, <3>1 DEF KernelStatus
  <2> QED BY <2>1, <2>2, Stutter
<1>3. CASE UNCHANGED <<machine, outcome>>
  BY <1>3, Stutter DEF machine, KernelStatus
<1>4. CASE ExecuteInstruction
  BY <1>4, ExecuteImplements DEF Kernel!Next
<1>5. CASE BeginInstruction
  BY <1>5, BeginImplements DEF Kernel!Next
<1>6. Client => (\E m \in Modules : Start(m)) \/ Step \/ Continue \/ UNCHANGED <<machine, outcome>>
  BY DEF Client, Pause, ClearBreakpoints, AddBreakpoint, RemoveBreakpoint, SetHooks, control
<1>7. Run => BeginInstruction \/ ExecuteInstruction \/ UNCHANGED <<machine, outcome>>
  BY DEF Run, StopAtBreakpoint, EndInstruction, StopAfterInstruction, NextInstruction
<1>8. CASE UNCHANGED vars
  BY <1>3, <1>8 DEF vars, control
<1> QED BY <1>1, <1>2, <1>3, <1>4, <1>5, <1>6, <1>7, <1>8 DEF Next

\* Whatever is stepped, continued, paused and hooked, the program's frames,
\* operands, heap and result go through the states Vm::execute takes them
\* through, one kernel step for each instruction.
THEOREM DebuggingIsTransparent == Spec => ImplementsKernel
<1>1. Inv /\ Inv' /\ [Next]_vars => [Kernel!Next]_(Kernel!vars)
  BY NextImplements
<1>2. Spec => Init /\ [][Next]_vars
  BY DEF Spec
<1> QED BY Invariant, InitImplements, <1>1, <1>2, PTL DEF ImplementsKernel, Kernel!Spec
=============================================================================
