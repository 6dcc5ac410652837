---------------------------- MODULE MCIrInliner ----------------------------
(***************************************************************************)
(* Modules of a main function, a leaf or a function that is none, and one  *)
(* between them; and single modules with longer chains and cycles of calls.*)
(***************************************************************************)
EXTENDS IrInliner

I(op, imm) == [op |-> op, imm |-> imm]
Main(functions) == [entryIndex |-> 0, functions |-> functions]

\* Calls both functions, twice and for a value or none, with locals of its own.
Mains ==
  { << I("Call", 1), I("Call", 1), I("SubI64", 0), I("ReturnI64", 0) >>,
    << I("PushI64", 9), I("StoreLocal", 1), I("Call", 2), I("CallVoid", 1), I("PrintI32", 0),
       I("LoadLocal", 1), I("Call", 2), I("PrintI32", 0), I("ReturnI64", 0) >>,
    << I("PushI32", 3), I("CallVoid", 2), I("CallVoid", 2), I("ReturnI32", 0) >> }

\* Locals that start at 0 and are changed, a pointer to one, the heap, a value
\* that sign extension changes, a return that is not the last, jumps.
Leaves ==
  { << I("LoadLocal", 0), I("Dup", 0), I("PrintI32", 0), I("PushI64", 5), I("StoreLocal", 0),
       I("ReturnI64", 0) >>,
    << I("AddressOfLocal", 1), I("PushI64", 6), I("StoreIndirect", 0), I("Pop", 0),
       I("LoadLocal", 1), I("ReturnI64", 0) >>,
    << I("PushI64", 1), I("HeapAlloc", 0), I("PushI64", 7), I("StoreIndirect", 0),
       I("ReturnI64", 0) >>,
    << I("ReturnVoid", 0) >>,
    << I("PushI64", 17), I("ReturnF32", 0) >>,
    << I("PushI64", 2), I("ReturnI64", 0), I("PushI64", 4), I("ReturnI64", 0) >>,
    << I("PushArgc", 0), I("JumpIfZero", 3), I("Jump", 3), I("PushI32", 1), I("ReturnI32", 0) >>,
    << I("PushI64", 1), I("PushI64", 0), I("DivU64", 0), I("ReturnI64", 0) >>,
    << I("PushI32", 1) >> }

\* Calls the leaf, calls it with a local of its own, and calls back.
Middles ==
  { << I("Call", 1), I("ReturnI32", 0) >>,
    << I("PushI64", 8), I("StoreLocal", 0), I("CallVoid", 1), I("LoadLocal", 0),
       I("ReturnI64", 0) >>,
    << I("CallVoid", 1), I("PushArgc", 0), I("PrintI32", 0), I("ReturnVoid", 0) >>,
    << I("PushArgc", 0), I("JumpIfZero", 3), I("Jump", 4), I("Call", 2), I("PushI64", 3),
       I("ReturnI64", 0) >> }

\* Each function calls the next: one more becomes a leaf in every pass.
Chain == Main(<<
  << I("Call", 1), I("ReturnI64", 0) >>,
  << I("PushI64", 4), I("StoreLocal", 0), I("Call", 2), I("LoadLocal", 0), I("SubI64", 0),
     I("ReturnI64", 0) >>,
  << I("Call", 3), I("Call", 3), I("SubI64", 0), I("ReturnI64", 0) >>,
  << I("PushI64", 3), I("StoreLocal", 0), I("Call", 4), I("LoadLocal", 0), I("SubI64", 0),
     I("ReturnI64", 0) >>,
  << I("LoadLocal", 1), I("PushI64", 1), I("StoreLocal", 1), I("ReturnI64", 0) >> >>)

\* A function that calls itself: counts down from 2.
Recursive == Main(<<
  << I("PushI64", 2), I("Call", 1), I("ReturnI64", 0) >>,
  << I("Dup", 0), I("JumpIfZero", 9), I("Dup", 0), I("PrintI32", 0), I("PushI64", 1),
     I("SubI64", 0), I("Call", 1), I("Jump", 8), I("ReturnI64", 0), I("ReturnI64", 0) >> >>)

\* Two functions that call each other, not reached, and one that only calls.
Cycle == Main(<<
  << I("PushI64", 1), I("ReturnI64", 0) >>,
  << I("CallVoid", 2), I("CallVoid", 0), I("ReturnVoid", 0) >>,
  << I("CallVoid", 1), I("ReturnVoid", 0) >> >>)
OnlyCalls == Main(<<
  << I("PushI64", 1), I("ReturnI64", 0) >>, << I("CallVoid", 2) >>, << I("ReturnVoid", 0) >> >>)

\* Not valid, each in another way.
Invalid ==
  { [entryIndex |-> 1, functions |-> << <<I("ReturnVoid", 0)>> >>],
    Main(<< <<>> >>),
    Main(<< <<I("Unsupported", 0), I("ReturnVoid", 0)>> >>),
    Main(<< <<I("Jump", 3), I("ReturnVoid", 0)>> >>),
    Main(<< <<I("Call", 1), I("ReturnVoid", 0)>> >>),
    Main(<< <<I("LoadLocal", 16), I("ReturnI64", 0)>> >>) }

InlinerModules ==
  {Main(<<m, leaf, middle>>) : m \in Mains, leaf \in Leaves, middle \in Middles}
    \cup {Chain, Recursive, Cycle, OnlyCalls} \cup Invalid

\* if (sq(3) = 0) 1 else sq(2), where sq is a call: the jump goes over the else.
IfElse == Main(<<
  << I("PushI64", 3), I("Call", 1), I("JumpIfZero", 5), I("PushI64", 1), I("ReturnI64", 0),
     I("PushI64", 2), I("Call", 1), I("ReturnI64", 0) >>,
  << I("StoreLocal", 0), I("LoadLocal", 0), I("LoadLocal", 0), I("SubI64", 0),
     I("ReturnI64", 0) >> >>)
BranchingModules == {IfElse}
=============================================================================
