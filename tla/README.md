# A TLA+ model of PrimeStruct

PrimeStruct is a small language with a C++ compiler and a virtual machine.
Source text is filtered, lexed, parsed and validated; the typed tree is lowered
to a stack IR; the IR is either run by the VM (with a debugger and a debug
adapter over it) or handed to an emitter (C++, native code, GLSL, wasm).

This directory models the parts in which *order* matters: where a heap ages,
where a debugger's client and a running program take turns, where worker
threads' results are merged, where a trace is written by one process and read by
another, where one pass's choice constrains the next. The long sequential translations between text, trees and IR are left
to the repository's tests.

Source paths below are relative to `src/src/` unless they begin with
`include/` or `docs/`.

## 1. The system and its components

| Component | Files | Status |
| --- | --- | --- |
| VM heap | `runtime/VmHeapHelpers.cpp` | modelled, proved |
| VM interpreter | `runtime/VmExecutionKernel.cpp`, `VmControlFlowOpcodeShared.cpp`, `VmKernelBoundary.cpp` | partly |
| VM debug session | `runtime/VmDebugSession*.cpp`, `include/primec/Vm.h` | partly, proved |
| Debug trace and replay | `primevm_main.cpp` | modelled, proved |
| Debug adapter and DAP session | `runtime/VmDebugAdapter.cpp`, `VmDebugDap*.cpp`, `VmDebugHelpers.cpp` | modelled, proved |
| Parallel definition validation | `semantics/SemanticsValidatorPassesDefinitions.cpp`, `SemanticsDefinitionPartitioner.cpp`, `SemanticsWorkerSymbolMerge.cpp`, `SymbolInterner.cpp` | partly, proved |
| Linear-scan register allocator | `IrVirtualRegisterAllocator.cpp` | modelled, proved |
| Register lowering, liveness, spills, verification, scheduling | `IrVirtualRegister*.cpp` | partly |
| IR validation and inlining | `IrPreparation.cpp`, `IrValidation.cpp`, `IrInliner.cpp` | partly, proved |
| Import resolver | `ImportResolver*.cpp` | not modelled |
| Compile-time evaluation | `CompileTime*.cpp` | not modelled |
| VM text and file opcodes | `runtime/VmIoHelpers.cpp` | not modelled |
| Lexer, parser, text filters | `Lexer.cpp`, `parser/`, `text_filter/` | not modelled |
| Semantic validator | `semantics/` | not modelled |
| IR lowerer | `ir_lowerer/` | not modelled |
| Emitters | `emitter/`, `native_emitter/`, `glsl_emitter/`, `wasm_emitter/` | not modelled |
| IR serializer and printer | `IrSerializer.cpp`, `IrPrinter.cpp` | not modelled |
| Command line, pipeline, processes | `main.cpp`, `CompilePipeline.cpp`, ... | not modelled |

What each of the components worth a state model keeps, does and must not get
wrong:

**VM heap.** State: one vector of 64-bit slots and one list of allocation
records `{baseIndex, slotCount, live}`. Both only grow. Operations: allocate,
free, realloc, resolve an address (bit 63 set: heap; clear: a local of the
running frame; 0: null). Interface: the VM's opcodes `HeapAlloc`, `HeapFree`,
`HeapRealloc`, `LoadIndirect`, `StoreIndirect`; a failed operation ends the
program. Hard: pointers kept after free or realloc, realloc appending to the
vectors it iterates over, limits counted with freed slots included, addresses at
the edge of the word. Correct when live allocations are disjoint, a freed one
is never reachable again and a program sees separate objects.

**VM interpreter.** State: call frames (function, ip, locals, whether a value is
returned), one operand stack shared by all frames, the heap, the result.
Operations: one per opcode. `Vm::execute` (`executeVmKernel`) and the debugger's
`stepInstruction` are two copies of the loop and of most of the switch; both
call the shared control-flow and numeric handlers. Hard: the two copies must
agree; the order of checks (operand count, index, operand value) decides what a
fault leaves behind; call depth limit; sign extension at 32 bits.

**VM debug session.** State: the machine's, plus life-cycle state, pause
request, "last stop was a breakpoint", breakpoint set, hook set, hook sequence
number. Operations: `start`, `step`, `continueExecution`, `pause`,
`add/remove/clearBreakpoint(s)`, `setHooks`, `snapshot`. It calls the client
back (hooks) between the parts of an instruction, and the client may call the
session again from there. No threads and no locks: all interleaving is through
the hooks. Hard: breakpoints edited while running, pause requests racing
breakpoints, the one-time skip of the breakpoint stopped at, restarts on
another module, hook order on fault and exit paths.

**Debug adapter and DAP session.** State: `launched`, `disconnected`,
`observedProgramExit`, `programExitCode`, the outgoing sequence number, and the
adapter's copy of the module with its source map. Operations: one per DAP request, read from one stream and handled one at a time.
Talks to the session through its public interface only. Hard:
`setInstructionBreakpoints` replaces a set one element at a time and stops at
the first failure; a pause request is read only while the program is stopped; a
malformed frame ends the loop before the program's exit is reported.

**Parallel definition validation.** State: the partitions of the definitions,
one validator per worker with its own error string and diagnostics, and the
merged result. Operations: partition, run the workers (`std::async`), gather in
order, merge counters, facts, interned symbols and diagnostics. The
interner numbers published strings; the merge gives every string its first place
in the program. Hard: the merged outcome must equal the serial pass's for every number of workers
(`docs/Semantics_Multithread_Design.md`), including which error is first and
which records are published.

**Linear-scan allocator.** State: sorted intervals, the active set, the free
registers, the assignments. Operations: expire, assign the lowest free register,
spill an active interval or the new one. Hard: ties in start and end; intervals
that touch; zero registers. Correct when two intervals that overlap and are both
in registers have different ones, and no interval is lost.

**Register lowering, liveness, spill insertion, verification, scheduling.** State:
blocks of virtual instructions, the stack depth at each block, live-in and live-out
sets, an interval per register, a place (register or slot) for each, an order of
each block's instructions. Operations: one per pass, run one after another. Hard:
blocks that begin on a non-empty stack, the fixpoint over loops, the positions of
block ends, what two passes know of each other. Correct when every instruction
still reads what it read on the stack and effects keep their order.

**IR validation and inlining.** State: the module, the local counts and the set of
leaf functions, the pass number. Operations: validate, rewrite one function, start
another pass. Validation promises the VM that jump targets, callees and local
indices exist; inlining rewrites calls and must keep what a module computes. Hard:
counts that grow from pass to pass, cycles of calls, code that moves under jumps.

**Debug trace and replay.** State: the lines recorded so far; then a file, perhaps
cut; then the checkpoints read from it. Operations: record a hook, record a stop,
write, replay a sequence number. Hard: lines without a number of their own, files
cut anywhere, words beyond the reader's range, the exit code of a trace that has
lost its end.

**Import resolver.** A set of files already expanded; recursive.
**Compile-time evaluation.** Fixed budgets and tables of facts. Both are
sequential and about texts and values (section 7).

How they interact: the compile pipeline calls each phase once, in order, and
stops at the first error; phases communicate by the value they return. The VM
side is layered: DAP over adapter over session over machine over heap, by calls
downward and by hooks upward. Only definition validation uses threads, which
share nothing but the immutable program and are joined before the merge.

## 2. Modules

| Module | Models | State and actions |
| --- | --- | --- |
| `VmHeapHelpers` | `VmHeapHelpers.cpp`, operation by operation, as operators on a heap record `[slots, allocations]` | none |
| `VmHeap` | the heap under any sequence of opcodes | `heapSlots`, `heapAllocations`, and `reply` (what the opcode gave the program); one action per opcode |
| `AbstractHeap` | what the heap promises: objects that grow nowhere, share nothing, and never come back | objects by base, slots used up |
| `VmMachine` | the instructions, as actions on the state both interpreters share | `module`, `frames`, `stack`, `heap`, `result`; one action per opcode family; `Execute(outcome)` is one instruction |
| `VmKernel` | `executeVmKernel`: the undebugged run | the machine and `status` |
| `VmDebugSession` | the debugger | the machine, the session's members, and the call in flight (`command`, `phase`, `skipCurrentBreakpoint`, `outcome`, `inHook`) |
| `VmDebugDap` | the adapter and the DAP loop over the session | `launched`, `disconnected`, `observedProgramExit`, `programExitCode`, the request being served, the answer; one action per kind of request |
| `VmDebugTrace` | `--debug-trace` and `--debug-replay` over the session | the recorder, its lines, the file, the latest replay |
| `IrInliner` | preparation with inlining, over the kernel | the module, the counts, leaves and passes, and the module's two runs; one action rewrites one function |
| `LinearScan` | the allocator on one function | `intervals`, `pending`, `active`, `freeRegisters`, `assignments`, `nextSpillSlot`; one action builds the work items, one takes the next |
| `RegisterPasses` | all passes around the allocator, and the function run before and after them | depths, lowered function, live sets, schedule, and the four runs; one action per pass or round |
| `SymbolInterner` | the interner and the merge of the workers' snapshots, as operators | none |
| `DefinitionValidation` | the validation of definitions, serial and threaded | the main validator's and the workers' error, records and progress; one action validates one definition, others launch, finish a pass, merge and publish |
| `MCVmHeap`, `MCVmDebugSession`, `MCVmDebugDap`, `MCVmDebugTrace`, `MCIrInliner`, `MCRegisterPasses`, `MCDefinitionValidation` | the instances TLC checks | none |
| `VmHeapHelpers_proofs`, `VmHeap_proofs` | the heap's operations; the theorems about the heap | none |
| `VmDebugSession_proofs` | one lemma per opcode family (what an instruction keeps of types and frames); the theorems about the session, and its refinement of the kernel | none |
| `VmDebugDap_proofs`, `VmDebugTrace_proofs` | the theorems about the session's two clients, over those about the session | none |
| `DefinitionValidation_proofs` | the theorems about the workers' outcome | none |
| `RegisterPasses_proofs` | the theorems about the allocator, and about the passes around it | none |
| `IrInliner_proofs` | the theorems about the inlining pass | none |

`VmMachine` extends `VmHeapHelpers`; `VmKernel` and `VmDebugSession` extend
`VmMachine`; `VmDebugSession` instantiates `VmKernel` with a refinement mapping,
and `VmHeap` instantiates `AbstractHeap` with one. `VmDebugDap` and `VmDebugTrace`
extend `VmDebugSession` and are its clients; `IrInliner` extends `VmKernel`,
`RegisterPasses` extends `LinearScan`, `DefinitionValidation` extends
`SymbolInterner`. `AbstractHeap` and `VmKernel` are the abstract specifications: what
a heap promises a program, and what a run without a debugger does.

### Code and model

*Heap.* `AllocateVmHeapSlots`, `FreeVmHeapSlots`, `ReallocVmHeapSlots` and
`ResolveIndirectAddress` are the four functions of `VmHeapHelpers.cpp`. Each
returns the heap it leaves; a failed one returns it unchanged, which is what the
code's order of checks and writes amounts to. The search loops over allocations are `FirstAt` (free and
realloc take the first record with the base, then look at its `live`) and
`Covers` (an access takes any live record over the slot). The tag bit is
`HeapAddressTag`; words are `0 .. 2 * HeapAddressTag - 1`.

*Instructions.* `stepInstruction` checks operand counts, pops, checks operand
values and writes. `Faults` is the disjunction of the checks, `Fault` what a
failed one has already popped, the other actions the successful cases.
`PrintI32` stands for opcodes that only consume an operand, `SubI64` and `DivU64`
for numeric opcodes that cannot and can fault. An opcode outside the set stands
for the switch's default.

*Session.* A call to `step` or `continueExecution` is cut where the client can
act: at each hook. `phase` says what comes next: `loop` (breakpoint test,
then before-hook), `execute` (the instruction and its call, return or fault
hook), `after` (after-hook), `finish` (what the caller makes of the outcome).
`inHook` is true when the hook really was called, and only then may the client
call back. `stopReason`, `event` and `moved` are what the client has seen; no
guard reads them. Operations the session refuses return an error and change
nothing, so they are not actions.

*Adapter and DAP.* Every request of `handleRequest` is an action that answers with
`messages`; `Refuse` gathers the ones that fail before they change anything. A
`continue` or `next` is the session's call (`ContinueRequest`), its steps
(`RunProgram`) and the answer (`Respond`): the loop is not read meanwhile. A source
breakpoint is resolved as `resolveSourceBreakpoints` does it: canonical entries of
the line, one column unless one was asked for, every instruction of their debugIds.
`promised` is what the client may rely on, from requests and answers alone.

*Trace.* A line is a record of the fields of its JSON text. `Write` leaves the
whole trace or any beginning of it, the last line perhaps incomplete, because the
last flush is not checked. `Parses` is what the reader accepts, `CheckpointSequence`
gives a line without a number the last one before it, `Scan` selects.

*Inliner.* `InlineFunction` is one round of `inlineIrModuleCalls`'s inner loop,
`EndPass` of its outer one, `Validate` is `validateIrModule` before and after. To have
something to compare with, the valid module is also run between validation and
inlining, as a build without `--ir-inline` would run it. `output`, `narrowed`,
`addressed` and `expected` only observe the two runs: nothing reads them but properties.

*Register passes.* Opcodes stand for families with one stack effect. A block is
named by its first instruction, instructions by their place in the function. The
passes compute what the code computes; only the list of blocks still to be visited
in lowering is a set. To say what they are for, the function is then run block by
block: on the stack, on the assigned places in the code's order ("allocated"), on
virtual registers in the schedule's order ("scheduled"), and on the assigned places
in the schedule's order ("planned"). A value is the instruction that made it with the
number of blocks begun by then, and a branch goes either way. A spilled register's place
is its slot. On assigned places an edge's moves are the plan's operations in their order
(`AlongEdge`): a move out of a slot is a reload into the register it goes to (`Reloads`),
a move into a slot a spill of the register it comes from (`Spills`), a move between two
slots both, with a temporary of its own; all reloads come first, so a spill stores what
they left in its register (`AfterReloads`, `Handed`). The plan has no operation for a move
from one register to another: whoever applies it has to make that move, and the model
makes it in the kindest way, from what the block left. The code's register numbers have
32 bits; the model refuses functions with more registers than `VirtualRegisters`
(`RegisterTotal`, a bound).

*Allocator.* `BuildIntervalWorkItems` is the function of that name and
`Allocate(v)` one round of the scan's loop: expiry (`Expired`), then the lowest
free register (`TakeFreeRegister`), an eviction (`EvictFor`) or a spill
(`SpillNew`). The code sorts its work items, active intervals and free registers
before each use, by keys without ties; the model keeps sets and states the order
where it is used (`Before`, `Farther`).

*Definition validation.* Validating one definition is a whole subsystem; here it
is one of five behaviours, told apart by what it leaves in the error string and
the report: it passes, passes after a failed attempt whose message is cleared
again, fails, is found to contain bad calls by the pass that collecting
validators make first, or throws. `ValidateDefinition` is one round of the loop of
`validateDefinitionsFromStableIndexResolver`, `Finalize` its end, `Merge` the end of
`validateDefinitions`. Workers repeat the stages that the main validator has
passed; all that matters of them is the record they may leave (`inferred`).
`Serial` is the same loop over all definitions, as a recursive function: the outcome to
compare with.
A program that is accepted is published: texts are numbers in lexical order, and
`Intern`, `MergeSnapshots` and `AppendPublicationStrings` are the functions of
those names. With workers the merged snapshots are completed from the merged facts
(`MergeStrings`), without them the sorted facts are interned directly (`OwnStrings`).

## 3. Runs

| Run | Checks | Bounds |
| --- | --- | --- |
| `vm_heap` | type, order, disjointness, scrubbing, no reuse, and `AbstractHeap` | 4 slots; null, misaligned, local and all slot addresses; counts 0, 1, 2, 4 (fills an empty heap), 5 (never fits) |
| `debug_session` | session consistency, call frames, breakpoints, pauses, hook order and numbering; a debugged program goes through the kernel's states; calls return | 13 programs, two breakpoint locations (in an entry function and in a callee), all hooks, numbers wrap at 4 |
| `debug_dap` | breakpoints as answered and as shown, frames, scopes, the exit and its code, pauses | 3 programs (exits with a negative code after a call, runs off a callee's end, not startable) with a source map; 5 lists of source breakpoints, 4 of instruction breakpoints, frame ids and references of every kind |
| `debug_trace` | replay shows the past, exit codes, a recording ends | 5 programs (calls and returns, faults, runs off its end, empty, not startable); the file whole or cut anywhere; every target from 0 to beyond the last |
| `debug_trace_negative` | the documented replay of a captured trace, which fails | one program that returns -1 |
| `inliner` | counts and leaves exact, passes reach their end, same behaviour | 3 mains x 9 leaves x 4 functions between, a chain of 4 calls, recursion, a cycle, 6 invalid modules |
| `inliner_jumps` | the documented preservation of behaviour, which fails | one program with an if |
| `register_passes` | the allocator's type, registers apart, fewest spills; allocated and scheduled runs read the same values; clean functions accepted | 240 short functions, 10 longer ones (loop, two joins, an edge that reloads and spills, latencies, reuse, calls, a value left, an endless loop, a jump past the end), 4 that lowering refuses; 0, 1, 2 registers; at most 8 blocks run; and the allocator alone on every choice of 8 lists of live ranges for 4 registers |
| `register_schedule` | the documented order allocation, then scheduling, which fails | as `register_passes` |
| `register_edges` | the documented safety of an edge's reloads and spills, which fails | one function of two blocks; 0, 1, 2 registers |
| `definition_validation` | agreement with the serial pass, nothing accepted that it rejects, publication independent of chunks and arrival, the end of the pass | every program of 0 to 4 definitions with the 5 behaviours; 1, 2, 3 workers; every interleaving; programs of up to 3 definitions publish under every order of paths, one or two return kinds, one definition with an effect, a capability and perhaps a handler |
| `definition_verdict` | the documented parity of diagnostics with the serial pass, which fails | up to 3 definitions, 1 or 2 workers |

*Why the bounds are enough.* Heap: an allocation of each size can be made, freed,
moved and followed by another, and the limit is met from below, exactly and from
above; slots are never reused, so more of them only repeat the same cases (and
the proofs cover every size).

Session: what it does depends on the program only through the location and the
outcome of an instruction; the programs use every opcode, fault in every way, run
off a function's end and for ever, and stop at breakpoints at a function's first
and later instructions, in the caller and the callee (and the proofs cover every
program). `MaxCallDepth` 3 lets the recursion reach the limit; `HalfLimit` 16 and
`HeapAddressTag` 64 leave words on both sides of the sign bit and the tag;
`SequenceLimit` 4 makes the number wrap.

DAP: the source map has a line in two units, a line with two columns, a line with
several instructions and a synthetic entry, and a line without an instruction; lines
are asked for beyond the width they are cut to; one list has a bad entry between
good ones; references address each scope of each frame, frame 0, a frame beyond
the last, a kind that does not exist and negative numbers.

Trace: the programs end in each way that a recording can end in; `SequenceLimit` is
larger than any of them needs, because a wrapped number takes 2^64 events.

Inliner: chains need several passes; functions are met before and after their
callees; leaves use locals without writing them first, the heap, pointers, printing,
values of every width; leaf candidates that are none have jumps, an early return, a
fault or no return.

Register passes: with one and two registers there are spills within blocks, across
edges and of entry registers; two values cross a loop, and its edges spill and reload
them; one edge both reloads and spills, in registers apart; both ways of a branch leave a
value for the join; latencies reorder a block; 8 blocks are more than two rounds of
every loop. The allocator alone: two registers and four intervals give chains of
evictions through a register, an eviction while another interval stays, a newcomer
that is itself the farthest, and every tie; the proofs cover every number of both.

Validation: with 3 workers the 4 definitions make chunks of
2, 1 and 1, with 2 chunks of two; 2 definitions leave the third worker without any.
Chunks of two hold every pair of behaviours, so each one's effect on the next
is met in a worker, at the end of one and across two.

*Deadlock* is an error in every run but these: in `vm_heap` a fault ends the
program and the model stops with it; the DAP endpoint returns; a refused program
leaves no trace to replay; the inliner's and the passes' runs end or the module is
refused; a finished or published validation stays as it is.

*Fairness.* `FairSpec` of the session is `WF_vars(Run)`: a call to `step` or
`continueExecution` runs on its caller's thread, so its loop is never suspended
for ever, and a hook that is called returns. The client is never obliged to
call. Weak fairness is enough: while a call is in flight `Run` stays enabled
whatever the client does from a hook. A client that calls back from one hook for
ever is excluded by it, as a hook that does not return. `FairTraceSpec` is weak
fairness of the recording process, which nobody interrupts; nobody is obliged to
replay. For definition validation, weak fairness of launching and of each thread says
that the system schedules it (the threads are launched with `std::launch::async`
and share no lock) and that validating one definition ends; weak fairness of the
step that leaves `AllDelivered` says that the main thread, having got every future,
goes on to merge. The DAP run and the passes state safety only.

## 4. What is proved

Named assumptions on the constants, all checked by TLC on the instances of section 3:
`HeapAssumption` (the tag is a positive multiple of 16, and the slots that fit in memory
are addressable below the top of the word), `ProgramWords` (programs pass words),
`MachineAssumption` (a module is a finite list of functions, each a finite list of
instructions whose immediates are words; the half word is no larger than the word),
`ClientAssumption` (breakpoints are pairs of naturals, hook sets are sets of the five
kinds), `DapAssumption` (a client may get a breakpoint at every instruction; lists of
instruction breakpoints are lists of pairs of naturals), `TraceAssumption` (replay
numbers are naturals), `LivenessAssumption` (there are finitely many virtual
registers; registers and positions are natural numbers; a list of ranges has a first
start and a last end), `CodesAssumption` (a function is a finite list, not empty, of
instructions, each an opcode's name and a natural immediate; a list of one range within
a function, and none, may be given to the allocator; the bound on blocks run is a
natural), `InlinerAssumption` (a module's functions are sequences of
instructions, each an opcode's name and a word), `CountsAssumption` (the bound on
definitions and the numbers of workers are naturals) and `PublicationsAssumption`
(something is published of each definition, and no two definitions of a program share a
path).

**The heap.** `VmHeap_proofs` (and `VmHeapHelpers_proofs` below it), for every tag,
limit, word set and number of operations:

| Theorem | States |
| --- | --- |
| `TypeCorrect` | the vectors hold words and records, within the limit |
| `RecordsOrdered` | records, dead ones included, lie from left to right without overlap |
| `NoSharedSlot` | two live allocations share no slot |
| `FreedStaysZero` | freed slots are zero for ever |
| `NoReuse` | no step revives, moves, resizes or drops a record |
| `HeapIsObjects` | the heap implements `AbstractHeap` |

The inductive invariant is `TypeOK /\ Ordered /\ Scrubbed`. Disjointness alone is
not inductive: that a new record is disjoint from the old ones needs every old
record to end inside the vector; that free and realloc release the record that
the pointer names, and not an earlier dead one, needs bases to be unique, dead
records included; and that a store leaves freed slots alone needs live records
disjoint from dead ones. `Ordered` says all of this at once. The argument goes
bottom up: one lemma per operation of `VmHeapHelpers` (`AllocateOK`, `ReleaseOK`,
`CopyOK`, `FreeOK`, `ReallocOK`, `StoreOK`) says that it takes an ordered,
scrubbed heap to such a heap and keeps its records (`Keeps`); `NextInv` applies
them action by action; the theorems follow by temporal reasoning.

For the refinement, each live record is an object whose address is its base's. The
objects of a heap after an operation are computed first for any ordered heap
(`AllocateObjects`, `ReleaseObjects`, `CopyObjects`, `ReallocObjects`); then each action
is shown to be the abstract one (`AllocStep`, ..., `StoreStep`). What an address means
is the step that takes the most: the slot that `ResolveIndirectAddress` finds belongs to
exactly one live record, because records are ordered, and the abstract heap finds the
object of that record (`Resolved`, `SlotOfObject`, `Unbound`).

**The allocator.** `RegisterPasses_proofs`, first part, for every set of virtual registers, every finite
live-range list and every number of physical registers:

| Theorem | States |
| --- | --- |
| `TypeCorrect` | the scan's sets hold work items and registers |
| `NoRegisterLost` | each physical register is free or held by one active interval |
| `RegistersApart` | values live together and kept in registers have different ones |
| `SlotsNumbered` | spilled intervals have spill slots of their own, numbered without gaps |
| `ScanSpillsFewest` | no allocation to the same registers spills fewer intervals |

`RegistersApart` says nothing of the active set, and is not inductive. What makes
it so: `RegistersConserved` (a newcomer's register is held by nobody active),
`ByStart` and `Past` (an interval that left the active set without being spilled
ended before every interval still to come), `Apart` (the claim for hulls instead
of live ranges), `Covered` (a hull contains each of its ranges, so that ranges that
meet have hulls that meet) and `Unscanned` (an interval not reached is not
spilled).

`ScanSpillsFewest` compares the scan with every other choice of intervals to keep, by
exchange. The invariant is `NothingLost`: whatever fits into the registers can be traded
for something that fits, is no smaller, and keeps nothing that was already spilled. At
first nothing has been spilled; at the end what is traded for lies within what the scan
kept. What the scan itself keeps fits, because at any point the intervals kept there
hold different registers (`ResidentsFit`). A round that spills found no register
free, so the kept intervals that are still live and the newcomer are one more than there
are registers, and all of them meet where the newcomer starts (`KeptCounted`,
`CrowdMeets`). The interval spilled ends last among them: a choice that has it
lacks another one of them, which may take its place, because from the newcomer's start
on it ends no later, and before that only what the scan has kept counts (`Exchange`).
Eviction and the spilling of the newcomer are the same argument (`SpareOne`).

**The register passes.** `RegisterPasses_proofs`, for every function of the modelled
opcodes, every way through its blocks, every number of blocks run and every number of
physical registers:

| Theorem | States |
| --- | --- |
| `AllocationAgrees` | on the assigned registers and slots every instruction reads what it would have popped from the stack, if no edge reloads into a register that it spills |
| `SchedulesAgree` | in the schedule's order every instruction reads what it read in the code's, and effects keep their order |
| `CleanFunctionsPass` | the verifier rejects only functions that leave something on the stack at an end, or that cannot end from somewhere |
| `PassesScanWell` | the allocator's results hold for the intervals of a function: no register shared, fewest spills, slots numbered |
| `PassesTypeCorrect` | the passes name only the function's blocks and registers |

A function with more registers than `VirtualRegisters` has is not lowered
(`Lower`); that set is any finite one, so the theorems hold for functions of any size.

The inductive invariant has a part for each pass, in force from the pass that makes
it true. `DepthsInv`: the blocks not in the worklist are `Settled`, that is, nothing
underflows in them and their successors have the depth they leave. `LoweredInv` fixes
the lowered function; all that is needed of it follows from the depths alone
(`LoweredFacts`): registers are numbered without gaps or repetition (`EntryNumbers`,
`ResultNumbers`), an instruction's operands are on top of its block's stack
(`OperandFacts`), and a block reads only its entries and what it has made. `OrderInv`:
a schedule is a permutation of its block that keeps `Precedes` (`Orderly`). That the
greedy choice always finds a ready instruction, so that no block's list is short, is a
least counterexample: the first instruction not yet placed has all that precedes it behind
it. `LiveInv`: the live sets are those of the block's own registers, and a round that
has changed nothing so far has solved the blocks it went through (`LiveSolved`); the
second half is what makes the end of the fixpoint a solution. `ScanInv` is the
allocator's own invariant on the intervals of these live sets.

`SchedulesAgree` and `AllocationAgrees` are simulations (`RunInv`, `PlacesInv`): when a
block begins, the run on the stack and the one on registers agree on locals, reads
and effects, and the places of the block's entry registers hold what is on the stack.
Within a block the stack is reduced to registers first: each register of the block has
one value (`ValueFacts`), and the stack holds the values of the registers that lowering
put there (`StackRunHolds`). The schedule places an instruction behind what makes its
operands, and behind exactly the barriers that precede it in the code (`OrderFacts`);
locals and effects change at barriers only (`StackQuiet`), so a load finds what the last
store before it in the code has left (`ScheduledStep`). For the allocation the claim is
weaker, and that is why it is inductive: the places hold the values of the registers
that are still needed (`AllocatedHolds`), whatever the others hold. A result meets
everything needed after it (`ResultTogether`), entry registers that are live meet each
other (`EntriesTogether`), and registers whose intervals meet have different places
(`PlacesApart`, from the allocator's invariant); so a definition overwrites nothing that
is needed (`AllocatedStep`), nor do the moves of an edge, whose destinations are apart
(`EdgeMoves`), as long as what a spill stores is what the block left (`HandedIsLeft`).
That is `EdgesApart`: on no edge does a reload go to a register that a spill of the same
edge reads. It depends on the function and its allocation alone, so it holds in all states
of a run or in none (`EdgesFramed`), and `PlacesInv` is claimed where it holds. Without it
the claim is false, as `register_edges` shows. That every register has a place at all is what the verifier found
out before the run (`Covers`).

`CleanFunctionsPass` follows the verifier's requirement of an assignment for every
register back to liveness. Schedules never fail (`OrderVerified`). A result has a
position where it is made, so it is allocated. An entry register has one only if it is
live: a block that does not read it leaves it where it was on the stack (`EntryStays`), so
either the function ends with it (excluded) or a successor gets it as an entry.
By induction on the blocks to the nearest end (`EndingsLive`) every entry register is
live wherever an end can be reached.

**The inliner.** `IrInliner_proofs`, for every set of modules:

| Theorem | States |
| --- | --- |
| `CountsStayExact` | the numbers of locals and the leaves that the pass keeps are those of the code it leaves |
| `PassesSuffice` | the bound on passes never ends the inlining early: no call to a leaf is left |
| `RewritingSame` | what a sound module comes to from its beginning, it comes to with the calls of one function replaced by their callees |
| `InliningPreserves` | a program prints and returns after inlining what it did before (`InlinedSame`, under two more conditions) |

The code adds a callee's count for every call it inlines and counts no local again, while
the VM takes the count from the largest index in the code. The two agree because a
callee's locals are placed where the last one's ended: after some instructions the copy's
largest index is the old function's own, or the last inlined callee's that has locals
(`CopyOf`, kept by `CopyInstruction` and `CopyCallee` and put together for the whole
function by `RewrittenCopies`). For the passes, `Progress` counts leaves. A call to
inline is left behind a pass only when its callee became a leaf in that very pass, after
the caller's turn; so each pass that does not finish the work adds a leaf, and there are
no more leaves than functions. One pass more than there are functions is enough; the code
allows itself twice that number, and one.

`InliningPreserves` is a simulation of runs of any length. `Step` says what one
instruction makes of a frame, its callers, the stack, the heap and the output; `Comes(m,
s, out)` that the run of module `m` from `s` returns with outcome `out`. For one rewritten
function, `Layout` says what the copy looks like (`LaidOut`): every instruction of the old
code is kept at a known position, or is a call whose callee stands there, without its
return, its locals moved behind all locals before. `Outer` relates two states at the
same instruction: frames of the rewritten function have the old locals first and zeros
behind the callees that have run, other frames are equal, stack, heap and output are the
same. `Inner` relates a state in a callee to one with a frame fewer, where the callee's
locals are a `Window` of its caller's. That the window is all zeros on entry is why every
inlined call needs locals of its own; a rewritten function has no jumps, so it runs each
callee once. A basic instruction does the same in a window
as in its own frame (`BasicInWindow`), and a return becomes a pop, a pushed zero or
nothing at all (`InnerReturn`), so every step of the old run is one step of the new or
none (`StepFollowed`) and the outcomes are equal (`RunFollowed`, by induction on the number of steps). The
model's two runs are such runs (`PlainSteps`, `RunComes`: the machine's actions are
`Step`s, and steps have one outcome), and `SameInv` carries the expected outcome through
validation, passes and functions: as long as what `InlinedSame` asks is so, the module
being prepared is sound and comes to what the plain run came to. It also says that
inlining only takes calls away (`CallsLess`), so a function once changed never becomes
again what it was, and a function with jumps that is as it was at the end was so all the
time.

The theorem's two conditions beyond those of `InlinedSame` are real ones. `~addressed`: no
callee took the address of a local or went through one, because the address of an
inlined local is another number, which a program can print or compare; that a
pointer is only stored and loaded through, as TLC's pointer leaf does, is nothing a step
shows. `IndexesFit`: with more than 2^32 locals in one function after inlining, the second validation
rejects a module that the first accepted.

**The session.** `VmDebugSession_proofs`, for every set of modules, breakpoint
locations, hook sets and call depth:

| Theorem | States |
| --- | --- |
| `TypeCorrect` | the session's members and the machine's hold what their types allow |
| `StateConsistent` | there is a frame to run exactly while the program can go on; breakpoints are instructions of the running module |
| `CallStackSound` | suspended frames stand just after the calls that pushed the frames above |
| `BreakpointsHold` | `continueExecution` passes a breakpoint only where a stop was just reported |
| `PausesHold` | after a pause request it executes nothing more, and only the pause or a restart clears the request |
| `HooksInOrder` | an instruction's hooks come in order, and a fault's is the last, whatever clients do from inside them |
| `DebuggingIsTransparent` | the session implements `VmKernel` |

The inductive invariant is `MachineOK`, `ControlType`, `HookType`,
`StateMatchesProgram`, `CallersAtCallSites`, `SkipOnlyWhereStopped` and
`CallProgress`. `BreakpointsHold` is about a step, and needs to know that the flag
which passes one breakpoint is set only while the program still stands there
(`SkipOnlyWhereStopped`). That, and `StateMatchesProgram`, are kept only because of
what each phase of a call knows of the latest outcome, of the hook and of the pause
request (`CallProgress`): a client that calls `pause` from an after-hook, for
instance, is answered before the next instruction because in phase `loop` no request
is pending. `CallersAtCallSites` needs to know what an instruction does to the frames:
it moves the top one, pushes one behind a call, or pops one (`TopChanges`,
`FramePushed`, `FramePopped`). The first part of `VmDebugSession_proofs` shows this
with one lemma per opcode family, which `Sound` and `ExecuteOK` gather for any instruction; the same
lemmas give the type of every word. The number of locals is a largest element of a set
of naturals; that it exists follows from the well-ordering of the naturals
(`LargestNatural`).

`HookOrder` speaks of the latest event, which no guard reads: `HookProgress` ties it to
the phase of the call in flight. The theorem assumes that a client which installs hooks
installs all of them: after a change from some hooks to all, the latest event can be one
of an instruction whose other events nobody was told of, and the order of reports says
nothing.

The refinement maps the session's phase and outcome to the kernel's status: an executed
instruction is the kernel's (`ExecuteImplements`), a start is the kernel's
(`BeginImplements`), and everything else, every hook, breakpoint and stop, is a stutter
(`NextImplements`).

**The DAP endpoint.** `VmDebugDap_proofs`, for every program, source map, list of
breakpoints and reference:

| Theorem | States |
| --- | --- |
| `DapTypeCorrect` | the endpoint's members and answers are of the kinds declared |
| `BreakpointsTold` | the session's breakpoints are those the client was last told of |
| `VerifiedStops` | a verified breakpoint is passed only where the program has just stopped |
| `StopsShown` | a reported stop shows a location that a breakpoint was asked for |
| `PausesBetween` | a pause executes nothing, and a step or an exit something |
| `TracesAtCalls` | a stack trace shows callers at their calls |
| `ScopesAreAnswered` | every scope of every frame can be asked for, has a reference of its own and its announced size |
| `ExitsReportedOnce` | the exit is reported once, with its code, and nothing runs afterwards |
| `ResultsTold` | the endpoint's result agrees with what the client was told |

Nothing of the session is proved again: every action of the endpoint is an action of the
session, or clears breakpoints and adds others, or leaves the session alone, so the
session's invariant is kept. `DapInv` adds what serving one request at a time means
(`Serving`: nobody can pause or install hooks while a request runs), what has happened
since the request began (`Progress`), and what has been told (`ExitSeen`, `StopShown`).
`VerifiedStops` then follows from `BreakpointsTold` and the session's `BreakpointsHold`.
References are told apart by arithmetic (a frame's number above eight bits of scope), and
the number of them is counted with a bijection.

The first attempt at `BreakpointsTold` did not go through: `StandsFor` said of an entry
with column 0 that a line may stand for it, where `resolveSourceBreakpoints` takes
column 0 for "no column" (`runtime/VmDebugHelpers.cpp:67`). No source map of the run has
such an entry; the definition now has the condition.

**The trace.** `VmDebugTrace_proofs`, for every program and replay number:

| Theorem | States |
| --- | --- |
| `ReplaysRestoreThePast` | a replay of a whole trace shows the program as it was at the event asked for |
| `ReplaysMirrorExits` | a replay returns the program's exit code only for its end, and 0 otherwise |

`TraceInv` is the session's invariant with what the recorder is doing (`Recording`), the
form of its lines (`Shape`: after the start line one line per event, with its number and
the program of that moment, then one line for the stop, without a number), what may be on
disk (`Codes`) and what the latest replay was (`Replayed`). From `Shape` alone follows
which line `Scan` selects for each number. Both theorems assume `Len(past) <=
SequenceLimit`: after 2^64 events numbers begin again at 0 and a scan that looks for a
later one stops too early.

**Definition validation.** `DefinitionValidation_proofs`, for every bound on definitions,
every number of workers and every interleaving:

| Theorem | States |
| --- | --- |
| `WorkersAgreeWithSerial` | the verdict, the error and the collected records are the serial pass's, unless a definition throws or an attempt is taken back while diagnostics are collected |
| `WorkersNeverMorePermissive` | what the serial pass rejects, exceptions included, workers reject |
| `FactsIndependent` | a published program has each definition's facts once, in the order of the paths, whatever the chunks and the finishing order; a rejected one has none |
| `InternedAll` | an interner has each text once, with its least origin, in the order in which the texts first occur |
| `MergedTexts` | merged snapshots of disjoint sets of definitions have each of their texts once, by first places in the whole, an effect before the handler that shares its place |
| `PublicationIsIndependent` | the table of strings that workers make has the texts that the main validator interns, by their first places in the program: neither table nor facts can tell the chunks or the finishing order |
| `ValidationTypeCorrect` | the types, each worker within its chunk, and no failure without a message and, while diagnostics are collected, a record |

The argument has five parts. Chunks: they follow each other, and the last one ends with
the last definition (`ChunkOrder`, `ChunksCover`); workers with definitions are the first
ones (`WorkersCounted`). One pass: `Scanned` says what a validator that began at one
definition and has reached another knows, for the main validator, a worker and the serial
outcome alike; it is kept by one round (`StepScanned`) and by the end
(`FinalizeScanned`). What records the definitions up to some place make is a recursive
function, `FoundUpTo`. Merge: the records of chunks that follow each other, put together,
are those of the program (`MergedRecordsAll`), and the first chunk that fails holds the
first definition that does (`FirstFailureIsFirst`). Facts: sorting by path
gives each definition the number of paths not after its own as its place, and a finite
set in a strict order is numbered that way without gaps (`Ranks`); the chunks' facts end
to end are those of all definitions (`MergedFacts`); `OutcomeInv` adds that a rejected
program has published nothing and that what failed says why. Strings: `Interned` says
what an interner holds after some symbols, and is kept by interning one more
(`InternedMore`), whichever of its three cases applies. So a worker's snapshot has the
texts of its chunk with their first places there (`Snapshot`), however the worker ordered
its on-error facts; the least candidate for a text has its first place in the program
(`RepresentativePlaces`), and candidates with the same place are of one chunk, because a
place names its definition, so that the chunks' numbers never decide. Only an effect and
a handler can share a place (a summary's second field and an on-error fact's), and the
summaries come first (`EffectsFirst`). Interning the merged facts into the merged table
then finds every text there (`InternKnown`), and `TableInv` carries the table to its
publication. The provers cannot instantiate the
library's induction rules; induction over naturals is had from a least counterexample
(`LeastNatural`, `SetInduction`), and a recursive function's equations from it
(`Recursion`).

For this the model's interner and merge are written with recursive functions and ranks,
as the sorting of facts is, instead of the community modules' folds and sorts, whose
definitions the provers do not unfold. The first statement of the table's order let a
text that is an effect come before itself, so a table with such a text twice would have
passed; `TextLess` now excludes it, and the proof shows that no text is there twice.

Only model-checked: the liveness properties `CallsReturn`, `RecordingEnds` and
`Terminates`, which are outside what TLAPS can do, and `InlinedSame` for callees that
go through the address of a local.

## 5. What the checks found

`inliner_jumps`. `include/primec/IrInliner.h:9-11` says that the pass preserves runtime
behavior. It refuses callees with jumps, but it copies the jumps of the caller with
their old absolute targets (`IrInliner.cpp:120`) although every inlined call moves the
code behind it; the validation afterwards accepts the stale targets because they are
still in range. A `main` with an `if` or `while` and two calls of a helper, which
lowering keeps as calls, returns 5 when it is run plainly and ends with "VM error: IR
stack underflow" under `--ir-inline`.

`register_schedule`. `docs/PrimeStruct.md:4005-4025` has allocation before scheduling,
and constraints on the schedule that preserve observable behavior. The scheduler knows
which register is defined before it is used, and barriers, but not that two virtual
registers share a physical one (`IrVirtualRegisterScheduler.cpp:197-226`), and the
verifier does not look at physical registers either. With one register, the copy in
Push, Push, Sub, Push, Dup, Print, Print, Print moves before the first Push, which
overwrites it, and the first Print reads another value. The passes' own functions give
this very order and accept it. No back end emits code from the passes yet; the
repository's tests are their callers.

`register_edges`. `docs/PrimeStruct.md:4014-4015` says that spill insertion emits
edge-safe reloads and spills. `computeExpectedEdgeOps` makes one operation of each move
and sorts all reloads before all spills (`IrVirtualRegisterSpillInsertion.cpp:50-55`, 89).
In Push, Push, Pop, Push, Jump to the next instruction, Sub, Print, ReturnVoid with one
register, the first block leaves its first value in a slot and its third in the register;
the second block wants the first in the register and the third in a slot. The reload
overwrites the third value, the spill stores the first in its place, and Sub subtracts it
from itself. It takes little: among values that reach the end of a block together the upper
ones are spilled, at a block's start the lower ones, which live longer. In
`register_passes` the values of one join cross in this way with one and with two registers,
so `AllocatedSame` says nothing of that function there; it does of the loop, the other
join and the rest.

`debug_trace_negative`. `docs/PrimeStruct.md:5625` says that a replay restores a
checkpoint from a captured trace. The recorder writes words unsigned, the reader takes
numbers up to 2^63 - 1 (`runtime/VmDebugDapProtocol.cpp:95`) and reads a file whole or
not at all, so a trace in which any word is negative, as for a program that returns -1,
cannot be replayed.

`definition_verdict`. `docs/Semantics_Multithread_Design.md` promises that workers give
the diagnostics of the serial pass (line 22). A failed attempt that is taken back clears
the message but not the published record, and the merge counts every published record as
an error, whether or not the worker succeeded: programs among those of
`tests/unit/semantics/` are accepted by one worker and rejected by two, for instance the
one at `test_semantics_bindings_control_flow.cpp:368`.

Also different between the passes, and excluded from `SameAsSerial`: which message is the
error when diagnostics are collected (the serial pass's is cleared whenever a rejected
definition's record is moved, and can be a later definition's; the merge reports the
first record's, where line 203 promises the serial pass's first error); the stage that an
exception's message names; and that an exception loses all collected records of a serial
pass but only those of its own chunk in a threaded one. Excluded from
`PublicationIndependent`: the ids of strings. Line 184 promises equal symbol tables for
every number of workers. The serial pass interns from its sorted facts, by path and all
callables before the handlers (`OwnStrings`); a merged table is in the order of first
places, definitions as they are declared and a definition's handler before its
capabilities (`MergeStrings`). The tables hold the same strings, but the ids differ for
definitions declared against the order of their paths, and for a single definition with a
handler and a capability.

Read in the code and listed as hazards without a run: the stack effect of `HeapRealloc`
is one operand in the register lowering and two in the VM
(`IrVirtualRegisterLowering.cpp:76`); the inliner does not rebase the local that `FileReadByte` writes (`IrInliner.cpp:61`).

## 6. What is left out of the modelled components, and why

- Text and file opcodes: their effect on the machine is a pop and a push, and
  their results come from the operating system.
- The interpreter's and the debugger's copies of the instruction switch are modelled
  once (`Execute`), so that the two copies agree is read in the code, not checked.
- `start` called from inside a hook: it replaces the frames the running
  `stepInstruction` holds references to, so the code gives it no meaning.
- Memory exhaustion below the vector's maximum size (`std::bad_alloc`): the
  process ends.
- Error wording and snapshots' full contents.
- DAP: JSON and framing, texts, request and response sequence numbers, the names of
  locals and the adapter's transcript. Columns fit their 32 bits; only lines are cut.
  debugIds are unique in a source map but for a synthetic entry beside a canonical one.
- Trace: a line's JSON text is the record of its fields; whether a source file can be
  read is the operating system's affair. `--debug-json` runs the same loop and prints
  the lines.
- Inliner: names, metadata, strings and the rules of particular targets, and the
  lowering that preparation starts with. A plain run is the comparison, so
  `InlinedSame` speaks of programs that return. Its conditions are what lowering or the
  findings impose: no function with jumps was rewritten, a return is a function's last
  instruction, and no callee returned a value wider than its type. Pointers to locals
  never cross calls: an address names a local of the frame that is running.
- Definition validation: a definition that fails without a message
  (`SemanticsValidatorPassesDefinitions.cpp` guards against it with texts of its own);
  counters and benchmark output; executions' strings and the texts that the semantic
  product adds after the merged ones.
- Register passes: the spill plan's verifier, which recomputes the plan; the order of
  moves from register to register, which the plan leaves to its user; lifting back to
  stack form; faults (two instructions that can fault may change places between barriers,
  which would change the message); functions without instructions; `HeapRealloc`.

## 7. Not modelled, and what remains

Not modelled: the import resolver and compile-time evaluation, whose control is a
recursive walk with a set of visited files or a budget and whose promises are about
paths, texts and values; the lexer, parser and text filters, the semantic validator,
the IR lowerer, the emitters and the serializer, which are sequential translations
from one large data type to another, most of the repository's lines, and have
references only in the languages they translate between; the command line, pipeline
and process runner, a fixed sequence of phases around files and subprocesses. Their
state ends with each call, nothing runs beside them, and what can be wrong in them is
a case of a table, which the repository's unit tests list.

What could be taken further:

1. `AllocationAgrees` without `EdgesApart`, once the code keeps an edge's operations
   from overwriting each other.
2. `InliningPreserves` for callees that go through the address of a local: the relation
   would have to say which words are addresses, which the machine does not know.
