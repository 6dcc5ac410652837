----------------------------- MODULE LinearScan -----------------------------
(***************************************************************************)
(* The linear-scan register allocator                                      *)
(* (src/src/IrVirtualRegisterAllocator.cpp) on one function.               *)
(*                                                                         *)
(* The work items are the function's virtual registers that are live       *)
(* somewhere, taken in the order of (start, end, register).  The code's    *)
(* vectors of active intervals and of free registers are sorted before     *)
(* every use by keys without ties, so they are sets here.  The positions   *)
(* come from the liveness analysis and are arbitrary.  The spill policy is *)
(* left out: its enumeration has one value.                                *)
(***************************************************************************)
EXTENDS Integers, FiniteSets

CONSTANTS
  VirtualRegisters,   \* the function's virtual registers
  RangeLists,         \* the sets of live ranges a virtual register may have
  RegisterCounts      \* options.physicalRegisterCount

IrLiveRange == [start : Nat, end : Nat]

\* A function's virtual registers are a vector's indices.  Range lists are vectors,
\* hence finite: a first start and a last end exist.
ASSUME LivenessAssumption ==
  /\ VirtualRegisters \subseteq Nat
  /\ IsFiniteSet(VirtualRegisters)
  /\ RegisterCounts \subseteq Nat
  /\ \A list \in RangeLists :
       /\ list \subseteq IrLiveRange
       /\ list # {} => /\ \E first \in list : \A r \in list : first.start <= r.start
                       /\ \E last \in list : \A r \in list : last.end >= r.end

VARIABLES
  ranges,          \* the input: each virtual register's live ranges
  registerCount,   \* the input: how many physical registers there are
  phase,           \* "build", "scan" or "failed"
  intervals,       \* [start, end] of each work item
  items,           \* the work items
  pending,         \* those the scan has not reached
  active,          \* those that hold a register now
  freeRegisters,
  assignments,     \* [spilled, physicalRegister, spillSlot] of each work item
  nextSpillSlot

input == <<ranges, registerCount>>
vars == <<input, phase, intervals, items, pending, active, freeRegisters,
          assignments, nextSpillSlot>>

Registers == 0 .. (registerCount - 1)
Assignment == [spilled : BOOLEAN, physicalRegister : Nat, spillSlot : Nat]
NoAssignment == [spilled |-> FALSE, physicalRegister |-> 0, spillSlot |-> 0]

Init ==
  /\ ranges \in [VirtualRegisters -> RangeLists]
  /\ registerCount \in RegisterCounts
  /\ phase = "build"
  /\ intervals = [v \in VirtualRegisters |-> [start |-> 0, end |-> 0]]
  /\ items = {}
  /\ pending = {}
  /\ active = {}
  /\ freeRegisters = Registers
  /\ assignments = [v \in VirtualRegisters |-> NoAssignment]
  /\ nextSpillSlot = 0

-----------------------------------------------------------------------------
(***************************************************************************)
(* buildIntervalWorkItems: from the first start to the last end.  A range  *)
(* that ends before it starts is an error.                                 *)
(***************************************************************************)
FirstStart(list) == (CHOOSE r \in list : \A q \in list : r.start <= q.start).start
LastEnd(list) == (CHOOSE r \in list : \A q \in list : r.end >= q.end).end

\* FirstRange takes the hull of the earliest range alone.
FirstRange(list) ==
  LET first == CHOOSE r \in list : \A q \in list : r.start <= q.start IN
  [start |-> first.start, end |-> first.end]
Hull(list) == [start |-> FirstStart(list), end |-> LastEnd(list)]

Invalid == \E v \in VirtualRegisters : \E r \in ranges[v] : r.end < r.start

BuildIntervalWorkItems ==
  /\ phase = "build"
  /\ \/ /\ Invalid
        /\ phase' = "failed"
        /\ UNCHANGED <<intervals, items, pending>>
     \/ /\ ~Invalid
        /\ phase' = "scan"
        /\ items' = {v \in VirtualRegisters : ranges[v] # {}}
        /\ pending' = items'
        /\ intervals' = [v \in VirtualRegisters |->
                           IF ranges[v] = {} THEN intervals[v] ELSE Hull(ranges[v])]
  /\ UNCHANGED <<input, active, freeRegisters, assignments, nextSpillSlot>>

-----------------------------------------------------------------------------
(***************************************************************************)
(* One round of allocateFunctionLinearScan's loop.                         *)
(***************************************************************************)
Start(v) == intervals[v].start
End(v) == intervals[v].end

Before(v, w) ==
  \/ Start(v) < Start(w)
  \/ Start(v) = Start(w) /\ End(v) < End(w)
  \/ Start(v) = Start(w) /\ End(v) = End(w) /\ v < w

IsNext(v) == v \in pending /\ \A w \in pending \ {v} : Before(v, w)

\* Active intervals that end before v starts give up their registers.
\* ExpiresTouching also ends those that end where v starts.
ExpiresTouching(v) == {a \in active : End(a) <= Start(v)}
Expired(v) == {a \in active : End(a) < Start(v)}

RegistersOf(vs) == {assignments[a].physicalRegister : a \in vs}

\* What is free once those have expired.  KeepsFree forgets to give them back.
KeepsFree(v) == freeRegisters
FreeAfter(v) == freeRegisters \cup RegistersOf(Expired(v))

\* The order in which intervals are given up: farthest end, then highest
\* register.  Nearer takes the nearest end.
Nearer(v, w) == End(v) < End(w) \/ (End(v) = End(w) /\ v > w)
Farther(v, w) == End(v) > End(w) \/ (End(v) = End(w) /\ v > w)

IsSpillCandidate(c, v) ==
  /\ c \in active \ Expired(v)
  /\ \A a \in (active \ Expired(v)) \ {c} : Farther(c, a)

InRegister(r) == [spilled |-> FALSE, physicalRegister |-> r, spillSlot |-> 0]
Spill(v) == [spilled |-> TRUE, physicalRegister |-> assignments[v].physicalRegister,
             spillSlot |-> nextSpillSlot]

\* SlotKept gives the next spilled interval the same slot.
SlotKept == nextSpillSlot
NextSlot == nextSpillSlot + 1

TakeFreeRegister(v) ==
  \E r \in FreeAfter(v) :
    /\ \A q \in FreeAfter(v) : r <= q
    /\ assignments' = [assignments EXCEPT ![v] = InRegister(r)]
    /\ active' = (active \ Expired(v)) \cup {v}
    /\ freeRegisters' = FreeAfter(v) \ {r}
    /\ UNCHANGED nextSpillSlot

\* The active intervals that remain when c is evicted.  EvictedStays forgets to
\* replace c.
EvictedStays(c, v) == active \ Expired(v)
Remaining(c, v) == (active \ Expired(v)) \ {c}

\* An active interval that outlasts v is spilled and v takes its register.
EvictFor(v) ==
  /\ FreeAfter(v) = {}
  /\ \E c \in active :
       /\ IsSpillCandidate(c, v)
       /\ Farther(c, v)
       /\ assignments' = [assignments EXCEPT
                            ![c] = Spill(c),
                            ![v] = InRegister(assignments[c].physicalRegister)]
       /\ active' = Remaining(c, v) \cup {v}
  /\ freeRegisters' = {}
  /\ nextSpillSlot' = NextSlot

\* v is spilled when no interval is active or none outlasts it.
SpillNew(v) ==
  /\ FreeAfter(v) = {}
  /\ \A c \in active : IsSpillCandidate(c, v) => ~Farther(c, v)
  /\ assignments' = [assignments EXCEPT ![v] = Spill(v)]
  /\ active' = active \ Expired(v)
  /\ freeRegisters' = {}
  /\ nextSpillSlot' = NextSlot

Allocate(v) ==
  /\ phase = "scan"
  /\ IsNext(v)
  /\ TakeFreeRegister(v) \/ EvictFor(v) \/ SpillNew(v)
  /\ pending' = pending \ {v}
  /\ UNCHANGED <<input, phase, intervals, items>>

Next == BuildIntervalWorkItems \/ \E v \in VirtualRegisters : Allocate(v)

Spec == Init /\ [][Next]_vars
-----------------------------------------------------------------------------
(***************************************************************************)
(* Properties.                                                             *)
(***************************************************************************)
Allocated == items \ pending
Resident == {v \in Allocated : ~assignments[v].spilled}
LiveTogether(v, w) ==
  \E r \in ranges[v], q \in ranges[w] : r.start <= q.end /\ q.start <= r.end

\* The scan's sets hold work items and physical registers.
TypeOK ==
  /\ ranges \in [VirtualRegisters -> RangeLists]
  /\ registerCount \in RegisterCounts
  /\ phase \in {"build", "scan", "failed"}
  /\ intervals \in [VirtualRegisters -> IrLiveRange]
  /\ items \subseteq VirtualRegisters
  /\ pending \subseteq items
  /\ active \subseteq Resident
  /\ freeRegisters \subseteq Registers
  /\ assignments \in [VirtualRegisters -> Assignment]
  /\ nextSpillSlot \in Nat

\* Two virtual registers that are live at a common position and both kept in
\* registers never share one, however often intervals expire, evict each other
\* and hand their registers on (allocateFunctionLinearScan).
NoRegisterShared ==
  \A v, w \in Resident :
    v # w /\ LiveTogether(v, w) =>
      assignments[v].physicalRegister # assignments[w].physicalRegister

\* A physical register is free or held by exactly one active interval: none is
\* lost when its interval expires or is evicted, none is handed out twice.
RegistersConserved ==
  /\ freeRegisters \cup RegistersOf(active) = Registers
  /\ freeRegisters \cap RegistersOf(active) = {}
  /\ \A v, w \in active :
       v # w => assignments[v].physicalRegister # assignments[w].physicalRegister

\* Spill slots are numbered without gaps and no two spilled intervals share
\* one, as the allocation verifier (verifyFunctionAllocation) and the spill
\* insertion take for granted.
SpillSlotsDistinct ==
  LET spilled == Allocated \ Resident IN
  /\ \A v \in spilled : assignments[v].spillSlot < nextSpillSlot
  /\ \A v, w \in spilled : v # w => assignments[v].spillSlot # assignments[w].spillSlot
  /\ Cardinality(spilled) = nextSpillSlot

\* No choice of intervals to keep in registers beats the scan's: spilling the
\* farthest end first (pickSpillCandidate) spills as few as any allocation can.
Fits(vs) ==
  \A v \in vs : Cardinality({w \in vs : Start(w) <= Start(v) /\ Start(v) <= End(w)})
                  <= registerCount

SpillsFewest ==
  phase = "scan" /\ pending = {} =>
    \A vs \in SUBSET items : Fits(vs) => Cardinality(vs) <= Cardinality(Resident)
=============================================================================
