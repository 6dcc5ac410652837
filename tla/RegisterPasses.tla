--------------------------- MODULE RegisterPasses ---------------------------
(***************************************************************************)
(* The virtual-register passes on one function: lowering from stack form,  *)
(* liveness, linear-scan allocation (LinearScan), spill insertion, block   *)
(* scheduling and the verifier (src/src/IrVirtualRegister*.cpp), and then  *)
(* the function run in stack form beside what the passes made of it.       *)
(*                                                                         *)
(* An opcode stands for its family: Unary for the conversions, negations   *)
(* and string loads, Memory for the heap, file and indirect accesses with  *)
(* one operand and one result, Call for a call of a function with imm      *)
(* parameters.  A block is named by its first instruction.  A value is the *)
(* instruction that made it and how many blocks had been run then; Dup,    *)
(* loads and stores carry values on.  A branch goes either way.            *)
(***************************************************************************)
EXTENDS LinearScan, Sequences

CONSTANTS
  Codes,           \* the functions, non-empty sequences of [op, imm]
  GivenRanges,     \* live ranges the allocator is given directly
  MaxBlocksRun     \* bound: the blocks run one after another

\* A list of one range within a function is one the allocator may be given.
ASSUME CodesAssumption ==
  /\ \A c \in Codes : c \in Seq([op : STRING, imm : Nat]) /\ c # <<>>
  /\ GivenRanges \subseteq [VirtualRegisters -> RangeLists]
  /\ MaxBlocksRun \in Nat
  /\ {} \in RangeLists
  /\ \A c \in Codes : \A first, last \in 0 .. 2 * Len(c) - 1 :
       {[start |-> first, end |-> last]} \in RangeLists

VARIABLES
  code,            \* the function in stack form
  pass,            \* what comes next
  depth,           \* each block's entryDepth
  worklist,        \* blocks whose successors' depths are still to be found
  lowered,         \* the virtual-register function
  liveIn, liveOut, \* each block's live registers
  cursor,          \* the liveness pass: the block it looks at next
  changed,         \* and whether this round changed anything
  order,           \* each block's schedule
  block,           \* the run: its current block
  visits,          \* and how many blocks it has begun
  runs             \* the run on the stack and the runs on registers

passVars == <<code, pass, depth, worklist, lowered, liveIn, liveOut, cursor, changed,
              order, block, visits, runs>>
allVars == <<vars, passVars>>

Returns == {"Return", "ReturnVoid"}
Jumps == {"Jump", "JumpIfZero"}
Arithmetic == {"Sub", "Mul", "Div"}

Pops(i) ==
  CASE code[i].op \in Arithmetic -> 2
    [] code[i].op \in {"StoreLocal", "Pop", "Unary", "Memory", "Print", "JumpIfZero", "Return"} -> 1
    [] code[i].op \in {"Call", "CallVoid"} -> code[i].imm
    [] OTHER -> 0
Pushes(i) ==
  IF code[i].op \in Arithmetic \cup {"Push", "LoadLocal", "Dup", "Unary", "Memory", "Call"}
  THEN 1 ELSE 0
ReadsWithoutPop(i) == IF code[i].op = "Dup" THEN 1 ELSE 0

\* What writes, prints, calls or ends a block keeps its place in the schedule.
\* StoresFloat lets stores move.
StoresFloat == Jumps \cup Returns \cup {"Call", "CallVoid", "Print", "Memory"}
Barriers == Jumps \cup Returns \cup {"Call", "CallVoid", "Print", "Memory", "StoreLocal"}

-----------------------------------------------------------------------------
(***************************************************************************)
(* Blocks.                                                                 *)
(***************************************************************************)
Size == Len(code)
Instructions == 1 .. Size

InvalidTarget == \E i \in Instructions : code[i].op \in Jumps /\ code[i].imm > Size + 1

Leaders ==
  {i \in Instructions :
     \/ i = 1
     \/ \E j \in Instructions : code[j].op \in Jumps /\ code[j].imm = i
     \/ code[i - 1].op \in Jumps \cup Returns}

LastOf(b) == CHOOSE i \in b .. Size : /\ i = Size \/ i + 1 \in Leaders
                                      /\ \A j \in (b + 1) .. i : j \notin Leaders
Body(b) == b .. LastOf(b)

Successors(b) ==
  LET last == code[LastOf(b)] IN
  {s \in Leaders : \/ last.op \in Jumps /\ s = last.imm
                   \/ last.op \notin Returns \cup {"Jump"} /\ s = LastOf(b) + 1}

\* A return, a branch past the end or the end itself.
Leaves(b) ==
  LET last == code[LastOf(b)] IN
  \/ last.op \in Returns
  \/ last.op \in Jumps /\ last.imm = Size + 1
  \/ last.op # "Jump" /\ LastOf(b) = Size

Unknown == -1
Reachable == {b \in Leaders : depth[b] # Unknown}
Live == UNION {Body(b) : b \in Reachable}

-----------------------------------------------------------------------------
(***************************************************************************)
(* Lowering: the stack depth at each reachable block, then registers.      *)
(***************************************************************************)
NotLowered == [entry |-> <<>>, uses |-> <<>>, defs |-> <<>>, exit |-> <<>>, count |-> 0]

PassesInit ==
  /\ \/ /\ code \in Codes
        /\ ranges = [v \in VirtualRegisters |-> {}]
        /\ pass = "blocks"
     \/ /\ code = <<>>
        /\ ranges \in GivenRanges
        /\ pass = "allocator alone"
  /\ Init
  /\ depth = <<>> /\ worklist = {} /\ lowered = NotLowered
  /\ liveIn = <<>> /\ liveOut = <<>> /\ cursor = 0 /\ changed = FALSE
  /\ order = <<>>
  /\ block = 0 /\ visits = 0 /\ runs = <<>>

BuildBlocks ==
  /\ pass = "blocks"
  /\ pass' = IF InvalidTarget THEN "failed" ELSE "depths"
  /\ depth' = [b \in Leaders |-> IF b = 1 THEN 0 ELSE Unknown]
  /\ worklist' = Leaders \cap {1}
  /\ UNCHANGED <<vars, code, lowered, liveIn, liveOut, cursor, changed, order, block,
                 visits, runs>>

\* The depth after each instruction of block b.
DepthAfter(b) ==
  LET after[i \in (b - 1) .. LastOf(b)] ==
        IF i = b - 1 THEN depth[b] ELSE after[i - 1] - Pops(i) + Pushes(i)
  IN after

Underflows(b) ==
  \E i \in Body(b) : DepthAfter(b)[i - 1] < Pops(i) + ReadsWithoutPop(i)

\* The blocks still to be visited are a set: their order decides only which of
\* several errors is found.
PropagateDepth(b) ==
  LET out == DepthAfter(b)[LastOf(b)]
      new == {s \in Successors(b) : depth[s] = Unknown}
  IN
  /\ pass = "depths"
  /\ b \in worklist
  /\ IF Underflows(b) \/ \E s \in Successors(b) \ new : depth[s] # out
     THEN /\ pass' = "failed"
          /\ UNCHANGED <<depth, worklist>>
     ELSE /\ depth' = [c \in Leaders |-> IF c \in new THEN out ELSE depth[c]]
          /\ worklist' = (worklist \ {b}) \cup new
          /\ UNCHANGED pass
  /\ UNCHANGED <<vars, code, lowered, liveIn, liveOut, cursor, changed, order, block,
                 visits, runs>>

\* Entry registers are numbered first, block by block, then results in order.
EntriesBefore(b) ==
  Cardinality(UNION {{c} \X (1 .. depth[c]) : c \in Reachable \cap 1 .. (b - 1)})
Entry(b) ==
  [k \in 1 .. (IF b \in Reachable THEN depth[b] ELSE 0) |-> EntriesBefore(b) + k - 1]

ResultRegister(i) ==
  EntriesBefore(Size + 1) + Cardinality({j \in Live : j < i /\ Pushes(j) = 1})
Results(i) == IF i \in Live /\ Pushes(i) = 1 THEN <<ResultRegister(i)>> ELSE <<>>

Top(stack, n) == SubSeq(stack, Len(stack) - n + 1, Len(stack))
Without(stack, n) == SubSeq(stack, 1, Len(stack) - n)

\* The registers on the stack after each instruction of block b.
StackAfter(b) ==
  LET after[i \in (b - 1) .. LastOf(b)] ==
        IF i = b - 1 THEN Entry(b) ELSE Without(after[i - 1], Pops(i)) \o Results(i)
  IN after

BlockOf(i) == CHOOSE b \in Leaders : i \in Body(b)
Operands(i) ==
  IF i \notin Live THEN <<>>
  ELSE Top(StackAfter(BlockOf(i))[i - 1], Pops(i) + ReadsWithoutPop(i))

\* Bound: a function with more registers than VirtualRegisters is not lowered.
RegisterTotal == EntriesBefore(Size + 1) + Cardinality({j \in Live : Pushes(j) = 1})

Lower ==
  /\ pass = "depths"
  /\ worklist = {}
  /\ 0 .. RegisterTotal - 1 \subseteq VirtualRegisters
  /\ pass' = "liveness"
  /\ lowered' =
       [entry |-> [b \in Leaders |-> Entry(b)],
        uses  |-> [i \in Instructions |-> Operands(i)],
        defs  |-> [i \in Instructions |-> Results(i)],
        exit  |-> [b \in Reachable |-> StackAfter(b)[LastOf(b)]],
        count |-> RegisterTotal]
  /\ liveIn' = [b \in Leaders |-> {}]
  /\ liveOut' = [b \in Leaders |-> {}]
  /\ cursor' = Size
  /\ UNCHANGED <<vars, code, depth, worklist, changed, order, block, visits, runs>>

\* An edge moves what the block leaves to the successor's entry registers.
Moves(b, s) ==
  {[source |-> lowered.exit[b][k], destination |-> lowered.entry[s][k]] :
     k \in DOMAIN lowered.entry[s]}

-----------------------------------------------------------------------------
(***************************************************************************)
(* Liveness: rounds over the blocks, last to first, until one changes      *)
(* nothing; then one interval per register.                                *)
(***************************************************************************)
Elements(list) == {list[k] : k \in DOMAIN list}
Used(i) == Elements(lowered.uses[i])
Defined(i) == Elements(lowered.defs[i])

BlockDef(b) == UNION {Defined(i) : i \in Body(b)}
UseBeforeDef(b) ==
  {v \in UNION {Used(i) : i \in Body(b)} :
     \E i \in Body(b) : v \in Used(i) /\ \A j \in b .. (i - 1) : v \notin Defined(j)}

\* The registers of b that the successor's live registers come from: a register
\* that no move of the edge writes comes from itself.
ThroughEdge(b, s) ==
  {m.source : m \in {m \in Moves(b, s) : m.destination \in liveIn[s]}} \cup
  {v \in liveIn[s] : \A m \in Moves(b, s) : m.destination # v}

\* FallThrough looks at the next block only.
FallThrough(b) == UNION {ThroughEdge(b, s) : s \in Successors(b) \cap {LastOf(b) + 1}}
NewLiveOut(b) == UNION {ThroughEdge(b, s) : s \in Successors(b)}
NewLiveIn(b) == UseBeforeDef(b) \cup (NewLiveOut(b) \ BlockDef(b))

LivenessOfBlock ==
  /\ pass = "liveness"
  /\ cursor > 0
  /\ cursor' = cursor - 1
  /\ IF cursor \in Reachable
     THEN /\ liveOut' = [liveOut EXCEPT ![cursor] = NewLiveOut(cursor)]
          /\ liveIn' = [liveIn EXCEPT ![cursor] = NewLiveIn(cursor)]
          /\ changed' = (changed \/ liveIn' # liveIn \/ liveOut' # liveOut)
     ELSE UNCHANGED <<liveIn, liveOut, changed>>
  /\ UNCHANGED <<vars, code, pass, depth, worklist, lowered, order, block, visits, runs>>

\* OneRound ends after the first round.
OneRound == FALSE
AnotherRound == changed

NextRound ==
  /\ pass = "liveness"
  /\ cursor = 0
  /\ AnotherRound
  /\ changed' = FALSE
  /\ cursor' = Size
  /\ UNCHANGED <<vars, code, pass, depth, worklist, lowered, liveIn, liveOut, order,
                 block, visits, runs>>

UsePosition(i) == 2 * (i - 1)
DefPosition(i) == 2 * (i - 1) + 1

\* What is live at the end of a block is live up to its last instruction's
\* results.  AtStart stops at the block's start.
AtStart(b) == UsePosition(b)
LiveOutPosition(b) == DefPosition(LastOf(b))

Positions(v) ==
  {UsePosition(b) : b \in {b \in Reachable : v \in liveIn[b]}} \cup
  {LiveOutPosition(b) : b \in {b \in Reachable : v \in liveOut[b]}} \cup
  {UsePosition(i) : i \in {i \in Live : v \in Used(i)}} \cup
  {DefPosition(i) : i \in {i \in Live : v \in Defined(i)}}

LiveRange(positions) ==
  {r \in [start : positions, end : positions] :
     \A p \in positions : r.start <= p /\ p <= r.end}

BuildIntervals ==
  /\ pass = "liveness"
  /\ cursor = 0
  /\ ~AnotherRound
  /\ pass' = "allocate"
  /\ ranges' = [v \in VirtualRegisters |-> LiveRange(Positions(v))]
  /\ UNCHANGED <<registerCount, phase, intervals, items, pending, active, freeRegisters,
                 assignments, nextSpillSlot>>
  /\ UNCHANGED <<code, depth, worklist, lowered, liveIn, liveOut, cursor, changed, order,
                 block, visits, runs>>

AllocateRegisters == pass \in {"allocate", "allocator alone"} /\ Next /\ UNCHANGED passVars
AllocationComplete == phase = "scan" /\ pending = {}

-----------------------------------------------------------------------------
(***************************************************************************)
(* Scheduling: within a block, first the ready instruction of the highest  *)
(* latency, the earliest of several.                                       *)
(***************************************************************************)
Spilled(v) == v \in items /\ assignments[v].spilled

Latency(i) ==
  (CASE code[i].op = "Div" -> 8
     [] code[i].op = "Mul" -> 4
     [] code[i].op = "Sub" -> 2
     [] OTHER -> 1)
  + 2 * Cardinality({k \in DOMAIN lowered.uses[i] : Spilled(lowered.uses[i][k])})
  + 2 * Cardinality({v \in Defined(i) : Spilled(v)})

\* i must come before j: j reads what i makes, or one of them is a barrier.
Precedes(i, j) ==
  /\ i < j
  /\ \/ Defined(i) \cap Used(j) # {}
     \/ code[j].op \in Barriers
     \/ /\ code[i].op \in Barriers
        /\ \A k \in (i + 1) .. (j - 1) : code[k].op \notin Barriers

BlockSchedule(b) ==
  LET Ready(done) == {j \in Body(b) \ done : \A i \in Body(b) : Precedes(i, j) => i \in done}
      Picked(done) ==
        CHOOSE j \in Ready(done) :
          \A k \in Ready(done) : Latency(j) > Latency(k) \/ (Latency(j) = Latency(k) /\ j <= k)
      schedule[n \in 0 .. Cardinality(Body(b))] ==
        IF n = 0 THEN <<>>
        ELSE LET earlier == schedule[n - 1] IN Append(earlier, Picked(Elements(earlier)))
  IN schedule[Cardinality(Body(b))]

Schedule ==
  /\ pass = "allocate"
  /\ AllocationComplete
  /\ pass' = "verify"
  /\ order' = [b \in Leaders |-> BlockSchedule(b)]
  /\ UNCHANGED <<vars, code, depth, worklist, lowered, liveIn, liveOut, cursor, changed,
                 block, visits, runs>>

AllocationVerified ==
  /\ items = 0 .. (lowered.count - 1)
  /\ \A v \in items : assignments[v].spilled => assignments[v].spillSlot < nextSpillSlot

BlockVerified(b) ==
  LET place(i) == CHOOSE p \in DOMAIN order[b] : order[b][p] = i IN
  /\ Elements(order[b]) = Body(b) /\ Len(order[b]) = Cardinality(Body(b))
  /\ \A j \in Body(b) : Used(j) \subseteq
       Elements(lowered.entry[b]) \cup
       UNION {Defined(i) : i \in {i \in Body(b) : place(i) < place(j)}}
  /\ \A i, j \in Body(b) :
       Precedes(i, j) \/ (i < j /\ code[i].op \in Barriers) => place(i) < place(j)

-----------------------------------------------------------------------------
(***************************************************************************)
(* The run, a block at a time: on the stack; on the assigned places in the *)
(* code's order; on virtual registers in the schedule's order; and on the  *)
(* assigned places in the schedule's order.                                *)
(***************************************************************************)
Kinds == {"stack", "allocated", "scheduled", "planned"}
NoValue == <<0, 0>>

Virtual(v) == <<"virtual", v>>
Assigned(v) ==
  IF Spilled(v) THEN <<"slot", assignments[v].spillSlot>>
  ELSE <<"register", assignments[v].physicalRegister>>

\* The place of a virtual register in each run on registers.
Place(kind, v) == IF kind = "scheduled" THEN Virtual(v) ELSE Assigned(v)
Places == {"virtual", "slot", "register"} \X (VirtualRegisters \cup Registers)

Locals == {code[i].imm : i \in {i \in Instructions : code[i].op \in {"LoadLocal", "StoreLocal"}}}

Begin(values) ==
  [values |-> values, locals |-> [l \in Locals |-> NoValue],
   reads |-> [i \in Instructions |-> <<>>], effects |-> <<>>]

Verify ==
  /\ pass = "verify"
  /\ IF AllocationVerified /\ \A b \in Leaders : BlockVerified(b)
     THEN /\ pass' = "run"
          /\ block' = 1
          /\ visits' = 1
          /\ runs' = [kind \in Kinds |->
                        Begin(IF kind = "stack" THEN <<>> ELSE [p \in Places |-> NoValue])]
     ELSE /\ pass' = "rejected"
          /\ UNCHANGED <<block, visits, runs>>
  /\ UNCHANGED <<vars, code, depth, worklist, lowered, liveIn, liveOut, cursor, changed,
                 order>>

\* What an instruction with these operands makes, reads and does elsewhere.
Made(i, operands, run) ==
  CASE code[i].op = "Dup" -> operands[1]
    [] code[i].op = "LoadLocal" -> run.locals[code[i].imm]
    [] OTHER -> <<i, visits>>

Done(i, operands, values, run) ==
  [values |-> values,
   locals |-> IF code[i].op # "StoreLocal" THEN run.locals
              ELSE [run.locals EXCEPT ![code[i].imm] = operands[1]],
   reads |-> [run.reads EXCEPT ![i] =
                IF code[i].op = "LoadLocal" THEN <<run.locals[code[i].imm]>> ELSE operands],
   effects |-> IF code[i].op \in Barriers THEN Append(run.effects, i) ELSE run.effects]

OnStack(i, run) ==
  LET operands == Top(run.values, Pops(i) + ReadsWithoutPop(i))
      made == IF Pushes(i) = 1 THEN <<Made(i, operands, run)>> ELSE <<>>
  IN Done(i, operands, Without(run.values, Pops(i)) \o made, run)

OnRegisters(kind, i, run) ==
  LET operands == [k \in DOMAIN lowered.uses[i] |-> run.values[Place(kind, lowered.uses[i][k])]]
      values == IF lowered.defs[i] = <<>> THEN run.values
                ELSE [run.values EXCEPT ![Place(kind, lowered.defs[i][1])] =
                        Made(i, operands, run)]
  IN Done(i, operands, values, run)

InOrder(kind, b) ==
  IF kind \in {"stack", "allocated"} THEN [k \in 1 .. Cardinality(Body(b)) |-> b + k - 1]
  ELSE order[b]

RunOfBlock(kind, b) ==
  LET list == InOrder(kind, b)
      run[n \in 0 .. Len(list)] ==
        IF n = 0 THEN runs[kind]
        ELSE IF kind = "stack" THEN OnStack(list[n], run[n - 1])
        ELSE OnRegisters(kind, list[n], run[n - 1])
  IN run[Len(list)]

\* An edge's operations: a move out of a slot is a reload, a move into one a
\* spill, a move between slots both, by way of a temporary.  They are sorted,
\* reloads first: a spill finds in its register what the reloads left there.
Reloads(b, s) == {m \in Moves(b, s) : Spilled(m.source) /\ ~Spilled(m.destination)}
Spills(b, s) == {m \in Moves(b, s) : ~Spilled(m.source) /\ Spilled(m.destination)}

AfterReloads(b, s, values) ==
  [p \in Places |->
     IF \E m \in Reloads(b, s) : Assigned(m.destination) = p
     THEN values[Assigned((CHOOSE m \in Reloads(b, s) : Assigned(m.destination) = p).source)]
     ELSE values[p]]

\* The operations have no move between registers: such moves, and all moves of
\* virtual registers, read what the block left.
Handed(kind, b, s, m, values) ==
  IF kind # "scheduled" /\ m \in Spills(b, s)
  THEN AfterReloads(b, s, values)[Assigned(m.source)]
  ELSE values[Place(kind, m.source)]

AlongEdge(kind, b, s, run) ==
  IF kind = "stack" THEN run
  ELSE [run EXCEPT !.values =
          [p \in Places |->
             IF \E m \in Moves(b, s) : Place(kind, m.destination) = p
             THEN Handed(kind, b, s,
                         CHOOSE m \in Moves(b, s) : Place(kind, m.destination) = p,
                         run.values)
             ELSE run.values[p]]]

RunBlock ==
  /\ pass = "run"
  /\ block # 0
  /\ visits <= MaxBlocksRun
  /\ \/ \E s \in Successors(block) :
          /\ block' = s
          /\ runs' = [kind \in Kinds |-> AlongEdge(kind, block, s, RunOfBlock(kind, block))]
     \/ /\ Leaves(block)
        /\ block' = 0
        /\ runs' = [kind \in Kinds |-> RunOfBlock(kind, block)]
  /\ visits' = visits + 1
  /\ UNCHANGED <<vars, code, pass, depth, worklist, lowered, liveIn, liveOut, cursor,
                 changed, order>>

PassesNext ==
  \/ BuildBlocks \/ \E b \in worklist : PropagateDepth(b)
  \/ Lower \/ LivenessOfBlock \/ NextRound \/ BuildIntervals
  \/ AllocateRegisters \/ Schedule \/ Verify \/ RunBlock

PassesSpec == PassesInit /\ [][PassesNext]_allVars
-----------------------------------------------------------------------------
(***************************************************************************)
(* Properties.                                                             *)
(***************************************************************************)
\* The allocator's state has its types, and the passes name only the
\* function's blocks and registers.
PassesTypeOK ==
  /\ TypeOK
  /\ code \in Codes \cup {<<>>}
  /\ pass \in {"blocks", "depths", "liveness", "allocate", "verify", "run", "rejected",
               "failed", "allocator alone"}
  /\ DOMAIN depth \subseteq Leaders /\ worklist \subseteq Leaders
  /\ \A b \in DOMAIN depth : depth[b] \in Nat \cup {Unknown}
  /\ 0 .. (lowered.count - 1) \subseteq VirtualRegisters
  /\ \A b \in DOMAIN liveIn : liveIn[b] \cup liveOut[b] \subseteq 0 .. (lowered.count - 1)
  /\ code # <<>> => items \subseteq 0 .. (lowered.count - 1)
  /\ cursor \in 0 .. Size
  /\ block \in Leaders \cup {0}
  /\ visits \in 0 .. (MaxBlocksRun + 1)

SameRun(kind) ==
  runs # <<>> => /\ runs[kind].reads = runs["stack"].reads
                 /\ runs[kind].effects = runs["stack"].effects

\* No reload of an edge overwrites a register that a spill of that edge reads.
EdgeApart(b, s) ==
  \A m \in Reloads(b, s), n \in Spills(b, s) : Assigned(m.destination) # Assigned(n.source)
EdgesApart == \A b \in Reachable : \A s \in Successors(b) : EdgeApart(b, s)

\* Whatever branches are taken, every instruction finds in the registers and
\* slots assigned to its operands the values it would have popped from the
\* stack: entry registers, edge moves, live intervals, evictions and spill slots
\* work together (buildIntervals, allocateFunctionLinearScan,
\* insertIrVirtualRegisterSpills), where the order of an edge's operations
\* (sortAndUniqueOps) loses nothing.
AllocatedSame == runs # <<>> /\ EdgesApart => SameRun("allocated")

\* Reordered by latency, every instruction still reads the values it read in
\* the code's order, locals included, and the effects keep their order
\* (buildBlockSchedule).
ScheduledSame == SameRun("scheduled")

\* The schedule keeps values apart in the registers and slots they were
\* assigned before it was made.
PlannedSame == SameRun("planned")

\* docs/PrimeStruct.md:4014, "emits deterministic edge-safe reloads/spills": no
\* order of an edge's operations loses a value (computeExpectedEdgeOps sorts
\* reloads before spills).
EdgeSafe == SameRun("allocated")

\* A function that leaves nothing on the stack when it ends, and can end from
\* everywhere it gets to, is never rejected: each of its entry registers is live
\* on some path, so the allocation covers it (verifyFunctionAllocation).
CanEnd ==
  LET near[n \in 0 .. Size] ==
        IF n = 0 THEN {b \in Reachable : Leaves(b)}
        ELSE LET before == near[n - 1]
             IN before \cup {b \in Reachable : Successors(b) \cap before # {}}
  IN near[Size]

CleanAccepted ==
  pass = "rejected" =>
    \/ Reachable \ CanEnd # {}
    \/ \E b \in Reachable : Leaves(b) /\ lowered.exit[b] # <<>>
=============================================================================
