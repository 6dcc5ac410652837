------------------------------ MODULE VmMachine ------------------------------
(***************************************************************************)
(* The instructions of the PrimeStruct IR as the VM executes them: the     *)
(* state both interpreters keep (frames, one operand stack shared by all   *)
(* frames, the heap, the result) and one action per family of opcodes.     *)
(* VmKernel (Vm::execute) and VmDebugSession (the debugger) run them.      *)
(*                                                                         *)
(* Both interpreters call handleSharedVmControlFlowOpcode and              *)
(* executePureNumericOpcode; for the other opcodes each has a switch of    *)
(* its own (VmExecutionKernel.cpp:155-363 and                              *)
(* VmDebugSessionInstruction.cpp:130-463) with the same cases.             *)
(* Strings, printing of text and files are left out; PrintI32 stands for   *)
(* the opcodes that only consume an operand, SubI64 and DivU64 for the     *)
(* numeric opcodes that cannot and that can fault.                         *)
(***************************************************************************)
EXTENDS VmHeapHelpers

CONSTANTS
  Modules,        \* the IrModules that may be run
  MaxCallDepth,   \* 4096 in the code
  HalfLimit,      \* 2^32 where WordLimit is 2^64
  ArgCount        \* the argument count a run is started with

(***************************************************************************)
(* An IrModule is [entryIndex, functions]; a function is its sequence of   *)
(* instructions [op, imm].  Indices count from 0, as in the code.          *)
(***************************************************************************)
IsCode(code) ==
  /\ Len(code) \in Nat
  /\ DOMAIN code = 1 .. Len(code)
  /\ \A i \in DOMAIN code : code[i].imm \in Word

ASSUME MachineAssumption ==
  /\ \A m \in Modules :
       /\ m.entryIndex \in Int
       /\ Len(m.functions) \in Nat
       /\ \A f \in 1 .. Len(m.functions) : IsCode(m.functions[f])
  /\ MaxCallDepth \in Nat \ {0}
  /\ HalfLimit \in 1 .. WordLimit
  /\ ArgCount \in Nat

NoModule == [entryIndex |-> 0, functions |-> <<>>]

Returns == {"ReturnVoid", "ReturnI32", "ReturnI64", "ReturnF32"}
Calls == {"Call", "CallVoid"}
Jumps == {"Jump", "JumpIfZero"}
LocalOps == {"LoadLocal", "StoreLocal", "AddressOfLocal"}

HeapOps == {"HeapAlloc", "HeapFree", "HeapRealloc"}
Constants == {"PushI32", "PushI64", "PushArgc"}
Numerics == {"SubI64", "DivU64"}

\* The opcodes that take one and two operands from the stack.
Unary == {"StoreLocal", "LoadIndirect", "HeapAlloc", "HeapFree", "Dup", "Pop",
          "PrintI32", "JumpIfZero", "ReturnI32", "ReturnI64", "ReturnF32"}
Binary == {"StoreIndirect", "HeapRealloc"} \cup Numerics
Opcodes == Unary \cup Binary \cup Constants \cup Calls \cup LocalOps
             \cup {"Jump", "ReturnVoid"}

Operands(op) == IF op \in Binary THEN 2 ELSE IF op \in Unary THEN 1 ELSE 0

VARIABLES
  module,   \* the module being run
  frames,   \* std::vector<Frame>: the last one is running
  stack,    \* the operand stack
  heap,     \* [slots, allocations]
  result    \* what the entry function returned

machine == <<module, frames, stack, heap, result>>

FrameType == [functionIndex : Nat, ip : Nat, locals : Seq(Word),
              returnValueToCaller : BOOLEAN]
-----------------------------------------------------------------------------
\* The same with the sign kept as a negative number.
SignExtendUnbounded(v) ==
  IF 2 * (v % HalfLimit) >= HalfLimit THEN (v % HalfLimit) - HalfLimit ELSE v % HalfLimit

\* static_cast<int64_t>(static_cast<int32_t>(v)) as an unsigned word.
SignExtend(v) ==
  LET low == v % HalfLimit IN
  IF 2 * low >= HalfLimit THEN low + WordLimit - HalfLimit ELSE low

\* vmDebugLocalCount / computeVmKernelLocalCount: the slots a function names.
LocalCount(code) ==
  LET sizes == {0} \cup {code[i].imm + 1 : i \in {j \in DOMAIN code : code[j].op \in LocalOps}}
  IN CHOOSE n \in sizes : \A k \in sizes : k <= n

Code(functionIndex) == module.functions[functionIndex + 1]

NewFrame(functions, functionIndex, returnValueToCaller) ==
  [functionIndex |-> functionIndex,
   ip |-> 0,
   locals |-> [i \in 1 .. LocalCount(functions[functionIndex + 1]) |-> 0],
   returnValueToCaller |-> returnValueToCaller]

Depth == Len(frames)
Frame == frames[Depth]
AtEnd == Frame.ip >= Len(Code(Frame.functionIndex))
Inst == Code(Frame.functionIndex)[Frame.ip + 1]

Drop(n) == SubSeq(stack, 1, Len(stack) - n)
Operand(n) == stack[Len(stack) - n]      \* Operand(0) is the top

MoveTo(ip) == frames' = [frames EXCEPT ![Depth].ip = ip]
Advance == MoveTo(Frame.ip + 1)
ReplaceOperands(n, words) == stack' = Drop(n) \o words

(***************************************************************************)
(* What makes an instruction fault.  The operand count is checked first,   *)
(* then (the operands popped) what they say; only StoreLocal checks its    *)
(* index before it looks at the stack, and pops nothing when it is bad.    *)
(***************************************************************************)
Underflow == Len(stack) < Operands(Inst.op)

HeapResult ==
  CASE Inst.op = "HeapAlloc" -> AllocateVmHeapSlots(Operand(0), heap)
    [] Inst.op = "HeapFree" -> FreeVmHeapSlots(Operand(0), heap)
    [] Inst.op = "HeapRealloc" -> ReallocVmHeapSlots(Operand(1), Operand(0), heap)

IndirectSlot ==
  ResolveIndirectAddress(Operand(IF Inst.op = "StoreIndirect" THEN 1 ELSE 0),
                         Len(Frame.locals), heap)

BadInstruction ==
  \/ Inst.op \in LocalOps /\ Inst.imm >= Len(Frame.locals)
  \/ Inst.op \in Jumps /\ Inst.imm > Len(Code(Frame.functionIndex))
  \/ Inst.op \in Calls /\ (Inst.imm >= Len(module.functions) \/ Depth >= MaxCallDepth)
  \/ Inst.op = "DivU64" /\ Operand(0) = 0
  \/ Inst.op \in {"LoadIndirect", "StoreIndirect"} /\ ~IndirectSlot.ok
  \/ Inst.op \in HeapOps /\ ~HeapResult.ok
  \/ Inst.op \notin Opcodes

Faults == IF Underflow THEN TRUE ELSE BadInstruction

Fault ==
  /\ Faults
  /\ stack' = IF Underflow \/ Inst.op = "StoreLocal" THEN stack ELSE Drop(Operands(Inst.op))
  /\ UNCHANGED <<module, frames, heap, result>>

-----------------------------------------------------------------------------
(***************************************************************************)
(* The instructions that do not fault.                                     *)
(***************************************************************************)
Push ==
  /\ Inst.op \in Constants
  /\ stack' = Append(stack, CASE Inst.op = "PushI32" -> SignExtend(Inst.imm)
                              [] Inst.op = "PushI64" -> Inst.imm
                              [] Inst.op = "PushArgc" -> SignExtend(ArgCount))
  /\ Advance
  /\ UNCHANGED heap

LoadLocal ==
  /\ Inst.op \in {"LoadLocal", "AddressOfLocal"}
  /\ stack' = Append(stack, IF Inst.op = "LoadLocal" THEN Frame.locals[Inst.imm + 1]
                            ELSE (Inst.imm * SlotBytes) % WordLimit)
  /\ Advance
  /\ UNCHANGED heap

SetLocal(index, word) ==
  frames' = [frames EXCEPT ![Depth].locals[index] = word, ![Depth].ip = @ + 1]

StoreLocal ==
  /\ Inst.op = "StoreLocal"
  /\ SetLocal(Inst.imm + 1, Operand(0))
  /\ ReplaceOperands(1, <<>>)
  /\ UNCHANGED heap

LoadIndirect ==
  /\ Inst.op = "LoadIndirect"
  /\ ReplaceOperands(1, <<IF IndirectSlot.space = "heap" THEN heap.slots[IndirectSlot.index]
                          ELSE Frame.locals[IndirectSlot.index]>>)
  /\ Advance
  /\ UNCHANGED heap

\* The stored value stays on the stack.
StoreIndirect ==
  /\ Inst.op = "StoreIndirect"
  /\ ReplaceOperands(2, <<Operand(0)>>)
  /\ \/ /\ IndirectSlot.space = "heap"
        /\ heap' = [heap EXCEPT !.slots[IndirectSlot.index] = Operand(0)]
        /\ Advance
     \/ /\ IndirectSlot.space = "local"
        /\ SetLocal(IndirectSlot.index, Operand(0))
        /\ UNCHANGED heap

HeapOp ==
  /\ Inst.op \in HeapOps
  /\ ReplaceOperands(Operands(Inst.op),
                     IF Inst.op = "HeapFree" THEN <<>> ELSE <<HeapResult.address>>)
  /\ heap' = HeapResult.heap
  /\ Advance

\* Dup, Pop, an opcode that consumes its operand, and the numeric opcodes,
\* whose words wrap.
Shuffle ==
  /\ \/ Inst.op = "Dup" /\ ReplaceOperands(0, <<Operand(0)>>)
     \/ Inst.op \in {"Pop", "PrintI32"} /\ ReplaceOperands(1, <<>>)
     \/ Inst.op = "SubI64" /\ ReplaceOperands(2, <<(Operand(1) - Operand(0)) % WordLimit>>)
     \/ Inst.op = "DivU64" /\ ReplaceOperands(2, <<Operand(1) \div Operand(0)>>)
  /\ Advance
  /\ UNCHANGED heap

Jump ==
  \/ /\ Inst.op = "Jump"
     /\ MoveTo(Inst.imm)
     /\ UNCHANGED <<stack, heap>>
  \/ /\ Inst.op = "JumpIfZero"
     /\ MoveTo(IF Operand(0) = 0 THEN Inst.imm ELSE Frame.ip + 1)
     /\ ReplaceOperands(1, <<>>)
     /\ UNCHANGED heap

\* The caller's ip moves past the call before the callee's frame is pushed.
\* CallersLeft leaves it at the call.
CallersLeft == frames
Callers == [frames EXCEPT ![Depth].ip = @ + 1]

Call ==
  /\ Inst.op \in Calls
  /\ frames' = Append(Callers,
                      NewFrame(module.functions, Inst.imm, Inst.op = "Call"))
  /\ UNCHANGED <<stack, heap>>

ReturnValue ==
  CASE Inst.op = "ReturnVoid" -> 0
    [] Inst.op = "ReturnI32" -> SignExtend(Operand(0))
    [] Inst.op = "ReturnI64" -> Operand(0)
    [] Inst.op = "ReturnF32" -> Operand(0) % HalfLimit

Return ==
  /\ Inst.op \in Returns
  /\ Depth > 1
  /\ frames' = SubSeq(frames, 1, Depth - 1)
  /\ ReplaceOperands(Operands(Inst.op),
                     IF Frame.returnValueToCaller THEN <<ReturnValue>> ELSE <<>>)
  /\ UNCHANGED heap

Exit ==
  /\ Inst.op \in Returns
  /\ Depth = 1
  /\ frames' = <<>>
  /\ ReplaceOperands(Operands(Inst.op), <<>>)
  /\ result' = ReturnValue
  /\ UNCHANGED <<module, heap>>

Proceed ==
  /\ Push \/ LoadLocal \/ StoreLocal \/ LoadIndirect \/ StoreIndirect
       \/ HeapOp \/ Shuffle \/ Jump \/ Call \/ Return
  /\ UNCHANGED <<module, result>>

\* One instruction, with the outcome the interpreter's loop sees.
Execute(outcome) ==
  \/ outcome = "Fault" /\ Fault
  \/ outcome = "Exit" /\ ~Faults /\ Exit
  \/ outcome = "Continue" /\ ~Faults /\ Proceed

\* A run's first state; false for a module without its entry function.
ValidEntry(m) == m.entryIndex >= 0 /\ m.entryIndex < Len(m.functions)

Enter(m) ==
  /\ ValidEntry(m)
  /\ module' = m
  /\ frames' = <<NewFrame(m.functions, m.entryIndex, FALSE)>>
  /\ stack' = <<>>
  /\ heap' = EmptyHeap
  /\ result' = 0
=============================================================================
