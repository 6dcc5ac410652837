-------------------------- MODULE MCVmDebugSession --------------------------
(***************************************************************************)
(* The programs the debugger is checked with.  Between them they execute   *)
(* every opcode of VmMachine, call, recurse past the call depth, return    *)
(* values of every width, run off a function's end and fault in every way. *)
(***************************************************************************)
EXTENDS VmDebugSession

I(op, imm) == [op |-> op, imm |-> imm]
Main(functions) == [entryIndex |-> 0, functions |-> functions]

\* main calls f for a value and g for none, in a loop of two rounds.
Loop == Main(<<
  << I("PushI32", 2), I("StoreLocal", 0),
     I("Call", 1), I("Pop", 0), I("CallVoid", 2),
     I("LoadLocal", 0), I("PushI64", 1), I("SubI64", 0), I("Dup", 0), I("StoreLocal", 0),
     I("JumpIfZero", 12), I("Jump", 2),
     I("PushArgc", 0), I("ReturnI32", 0) >>,
  << I("PushI64", 17), I("ReturnF32", 0) >>,
  << I("ReturnVoid", 0) >> >>)

\* One short function of each ending.
Quick == Main(<< << I("CallVoid", 1), I("PushI32", 15), I("ReturnI32", 0) >>,
                 << I("ReturnVoid", 0) >> >>)

\* Heap and pointers: allocate, store, load, grow, free; a pointer to a local.
Heap == Main(<< <<
     I("PushI64", 1), I("HeapAlloc", 0), I("Dup", 0), I("PushI64", 5), I("StoreIndirect", 0),
     I("PrintI32", 0), I("PushI64", 2), I("HeapRealloc", 0), I("StoreLocal", 1),
     I("LoadLocal", 1), I("LoadIndirect", 0), I("StoreLocal", 0),
     I("AddressOfLocal", 0), I("Dup", 0), I("LoadIndirect", 0), I("StoreIndirect", 0),
     I("LoadLocal", 1), I("HeapFree", 0),
     I("DivU64", 0), I("ReturnI64", 0) >> >>)

\* A load through a freed pointer.
Dangling == Main(<< <<
     I("PushI64", 1), I("HeapAlloc", 0), I("Dup", 0), I("HeapFree", 0),
     I("LoadIndirect", 0), I("ReturnI64", 0) >> >>)

\* Recursion without end: faults at the call depth.
Recursion == Main(<< << I("Call", 0), I("ReturnI64", 0) >> >>)

\* A callee without a return.
NoReturn == Main(<< << I("CallVoid", 1), I("ReturnVoid", 0) >>, << I("PushI32", 1) >> >>)

\* A jump past the end, to the end, a bad local, an unknown opcode, a
\* missing operand, a division by zero.
BadJump == Main(<< << I("PushI64", 0), I("JumpIfZero", 9) >> >>)
ToEnd == Main(<< << I("Jump", 1) >> >>)
Unknown == Main(<< << I("Unsupported", 0) >> >>)
Missing == Main(<< << I("PushI64", 1), I("StoreIndirect", 0) >> >>)
DivideByZero == Main(<< << I("PushI64", 1), I("PushI64", 0), I("DivU64", 0), I("ReturnI64", 0) >> >>)

\* No entry function: start refuses it.
NoEntry == [entryIndex |-> 1, functions |-> << <<I("ReturnVoid", 0)>> >>]

\* Runs for ever.
Forever == Main(<< << I("CallVoid", 1), I("Jump", 0) >>, << I("ReturnVoid", 0) >> >>)

SessionModules == {Loop, Quick, Heap, Dangling, Recursion, NoReturn, BadJump, ToEnd, Unknown,
                   Missing, DivideByZero, NoEntry, Forever}
SessionBreakpoints == {<<0, 2>>, <<1, 0>>}
AllHooks == {HookKinds}
=============================================================================
