----------------------- MODULE RegisterPasses_proofs -----------------------
(***************************************************************************)
(* The allocator's safety for every function, every liveness result and    *)
(* every number of registers; then the passes around it, for every         *)
(* function of the modelled instructions, every path through its blocks    *)
(* and every number of blocks run.                                         *)
(***************************************************************************)
EXTENDS RegisterPasses, FiniteSetTheorems, WellFoundedInduction, TLAPS

\* A work item's interval covers all its ranges.
Covered ==
  \A v \in items : \A r \in ranges[v] : Start(v) <= r.start /\ r.end <= End(v)

\* The scan goes by start positions.
ByStart == \A v \in Allocated, w \in pending : Start(v) <= Start(w)

\* A resident that gave up its register ended before whatever is still to come.
Past == \A v \in Resident \ active, w \in pending : End(v) < Start(w)

\* Residents whose intervals meet hold different registers.
Apart ==
  \A v, w \in Resident :
    v # w /\ Start(v) <= End(w) /\ Start(w) <= End(v) =>
      assignments[v].physicalRegister # assignments[w].physicalRegister

\* Before the scan nothing is allocated.
Unscanned == phase # "scan" => items = {}

Inv == TypeOK /\ RegistersConserved /\ Covered /\ ByStart /\ Past /\ Apart /\ Unscanned

-----------------------------------------------------------------------------
\* The hull of a nonempty range list is a range that covers the list.
LEMMA HullCovers ==
  ASSUME NEW list \in RangeLists, list # {}
  PROVE  /\ Hull(list) \in IrLiveRange
         /\ \A r \in list : Hull(list).start <= r.start /\ r.end <= Hull(list).end
<1> DEFINE first == CHOOSE r \in list : \A q \in list : r.start <= q.start
           last == CHOOSE r \in list : \A q \in list : r.end >= q.end
<1>1. list \subseteq IrLiveRange
  BY LivenessAssumption
<1>2. first \in list /\ \A q \in list : first.start <= q.start
  <2>1. \E r \in list : \A q \in list : r.start <= q.start
    BY LivenessAssumption
  <2> QED BY <2>1
<1>3. last \in list /\ \A q \in list : last.end >= q.end
  <2>1. \E r \in list : \A q \in list : r.end >= q.end
    BY LivenessAssumption
  <2> QED BY <2>1
<1>4. Hull(list) = [start |-> first.start, end |-> last.end]
  BY DEF Hull, FirstStart, LastEnd
<1> HIDE DEF first, last
<1>5. first.start \in Nat /\ last.end \in Nat
  BY <1>1, <1>2, <1>3 DEF IrLiveRange
<1>6. ASSUME NEW r \in list
      PROVE  first.start <= r.start /\ r.end <= last.end
  BY <1>1, <1>2, <1>3, <1>5, <1>6 DEF IrLiveRange
<1> QED BY <1>4, <1>5, <1>6 DEF IrLiveRange

\* The initial states.
LEMMA InitInv == Init => Inv
<1> SUFFICES ASSUME Init PROVE Inv
  OBVIOUS
<1> USE DEF Init
<1>1. registerCount \in Nat
  BY LivenessAssumption
<1>2. TypeOK
  BY <1>1 DEF TypeOK, IrLiveRange, NoAssignment, Assignment, Resident, Allocated
<1>3. RegistersConserved
  BY DEF RegistersConserved, RegistersOf
<1> QED BY <1>2, <1>3 DEF Inv, Covered, ByStart, Past, Apart, Unscanned, Resident, Allocated

-----------------------------------------------------------------------------
\* The work items are built.
LEMMA BuildInv == Inv /\ BuildIntervalWorkItems => Inv'
<1> SUFFICES ASSUME Inv, BuildIntervalWorkItems PROVE Inv'
  OBVIOUS
<1> USE DEF BuildIntervalWorkItems, input
<1>1. items = {} /\ pending = {} /\ active = {}
  BY DEF Inv, Unscanned, TypeOK, Resident, Allocated
<1>2. Resident' = {} /\ Allocated' = {}
  BY <1>1 DEF Resident, Allocated
<1>3. RegistersConserved'
  BY DEF Inv, RegistersConserved, RegistersOf, Registers
<1>4. CASE phase' = "failed"
  <2>1. UNCHANGED <<intervals, items, pending>>
    BY <1>4
  <2>2. TypeOK'
    BY <1>1, <1>2, <1>4, <2>1 DEF Inv, TypeOK, Registers
  <2> QED BY <1>1, <1>2, <1>3, <2>1, <2>2
            DEF Inv, Covered, ByStart, Past, Apart, Unscanned
<1>5. CASE phase' = "scan"
  <2>1. /\ items' = {v \in VirtualRegisters : ranges[v] # {}}
        /\ pending' = items'
        /\ intervals' = [v \in VirtualRegisters |->
                           IF ranges[v] = {} THEN intervals[v] ELSE Hull(ranges[v])]
    BY <1>5
  <2>2. ASSUME NEW v \in VirtualRegisters
        PROVE  ranges[v] \in RangeLists
    BY DEF Inv, TypeOK
  <2>3. intervals' \in [VirtualRegisters -> IrLiveRange]
    <3>1. intervals \in [VirtualRegisters -> IrLiveRange]
      BY DEF Inv, TypeOK
    <3> QED BY <2>1, <2>2, <3>1, HullCovers
  <2>4. TypeOK'
    BY <1>1, <1>2, <1>5, <2>1, <2>3 DEF Inv, TypeOK, Registers
  <2>5. Covered'
    <3> SUFFICES ASSUME NEW v \in items', NEW r \in ranges[v]
                 PROVE  intervals'[v].start <= r.start /\ r.end <= intervals'[v].end
      BY DEF Covered, Start, End
    <3> QED BY <2>1, <2>2, HullCovers
  <2> QED BY <1>2, <1>3, <1>5, <2>4, <2>5 DEF Inv, ByStart, Past, Apart, Unscanned
<1> QED BY <1>4, <1>5
-----------------------------------------------------------------------------
\* What every round of the scan finds and leaves (expiry, the order of the work
\* items): a resident that no longer holds its register ends before v starts.
LEMMA RoundFacts ==
  ASSUME Inv, NEW v \in VirtualRegisters, Allocate(v)
  PROVE  /\ v \in pending /\ v \notin Allocated
         /\ Allocated' = Allocated \cup {v}
         /\ \A w \in VirtualRegisters : Start(w) \in Nat /\ End(w) \in Nat
         /\ \A w \in VirtualRegisters : Start(w)' = Start(w) /\ End(w)' = End(w)
         /\ \A w \in pending : Start(v) <= Start(w)
         /\ \A u \in Resident \ (active \ Expired(v)) : End(u) < Start(v)
         /\ Covered' /\ ByStart' /\ Unscanned'
<1> USE DEF Allocate, input
<1>1. v \in pending /\ pending \subseteq items /\ items \subseteq VirtualRegisters
  BY DEF IsNext, Inv, TypeOK
<1>2. Allocated' = Allocated \cup {v} /\ v \notin Allocated
  BY <1>1 DEF Allocated
<1>3. \A w \in VirtualRegisters : Start(w) \in Nat /\ End(w) \in Nat
  BY DEF Inv, TypeOK, IrLiveRange, Start, End
<1>4. \A w \in VirtualRegisters : Start(w)' = Start(w) /\ End(w)' = End(w)
  BY DEF Start, End
<1>5. ASSUME NEW w \in pending
      PROVE  Start(v) <= Start(w)
  <2>1. w \in VirtualRegisters
    BY <1>1
  <2>2. CASE w = v
    BY <1>3, <2>1, <2>2
  <2>3. CASE w # v
    BY <1>3, <2>1, <2>3 DEF IsNext, Before
  <2> QED BY <2>2, <2>3
<1>6. ASSUME NEW u \in Resident \ (active \ Expired(v))
      PROVE  End(u) < Start(v)
  BY <1>1, <1>6 DEF Inv, Past, Expired
<1>7. Covered'
  BY <1>4 DEF Inv, Covered, TypeOK
<1>8. ByStart'
  <2> SUFFICES ASSUME NEW u \in Allocated', NEW w \in pending'
               PROVE  Start(u) <= Start(w)
    BY <1>1, <1>2, <1>4 DEF ByStart, Allocated
  <2> QED BY <1>2, <1>5 DEF Inv, ByStart
<1>9. Unscanned'
  BY DEF Inv, Unscanned
<1> QED BY <1>1, <1>2, <1>3, <1>4, <1>5, <1>6, <1>7, <1>8, <1>9

\* The scan's sets are well formed and disjoint where they have to be.
LEMMA RoundSets ==
  ASSUME Inv, NEW v \in VirtualRegisters, Allocate(v)
  PROVE  /\ RegistersOf(active) \subseteq Registers
         /\ FreeAfter(v) \subseteq Registers
         /\ FreeAfter(v) \cup RegistersOf(active \ Expired(v)) = Registers
         /\ FreeAfter(v) \cap RegistersOf(active \ Expired(v)) = {}
         /\ v \notin active
         /\ active \subseteq Resident /\ Resident \subseteq Allocated
         /\ Allocated \subseteq VirtualRegisters
         /\ Registers' = Registers /\ Registers \subseteq Nat
<1>1. /\ freeRegisters \cup RegistersOf(active) = Registers
      /\ freeRegisters \cap RegistersOf(active) = {}
      /\ \A x, y \in active :
           x # y => assignments[x].physicalRegister # assignments[y].physicalRegister
  BY DEF Inv, RegistersConserved
<1>2. active \subseteq Resident /\ Resident \subseteq Allocated
  BY DEF Inv, TypeOK, Resident
<1>3. v \notin active /\ Allocated \subseteq VirtualRegisters
  BY <1>2, RoundFacts DEF Inv, TypeOK, Allocated
<1>4. FreeAfter(v) \cup RegistersOf(active \ Expired(v)) = Registers
  BY <1>1 DEF FreeAfter, RegistersOf, Expired
<1>5. FreeAfter(v) \cap RegistersOf(active \ Expired(v)) = {}
  BY <1>1 DEF FreeAfter, RegistersOf, Expired
<1>6. Registers' = Registers /\ Registers \subseteq Nat
  BY DEF Allocate, input, Registers
<1> QED BY <1>1, <1>2, <1>3, <1>4, <1>5, <1>6

-----------------------------------------------------------------------------
\* A round that gives v the register r keeps residents apart when no other
\* active interval holds r (the two ways a register is assigned).
LEMMA AssignRegister ==
  ASSUME Inv, NEW v \in VirtualRegisters, Allocate(v), NEW r \in Nat,
         assignments'[v] = InRegister(r),
         v \in active',
         Resident' \subseteq Resident \cup {v},
         \A u \in Resident \ {v} :
           assignments'[u].physicalRegister = assignments[u].physicalRegister,
         \A u \in Resident' \ {v} :
           \/ u \in active' /\ assignments[u].physicalRegister # r
           \/ u \notin active'  /\ End(u) < Start(v)
  PROVE  Apart' /\ Past'
<1> USE RoundFacts, RoundSets
<1>0. \A u \in Resident' \cup pending' : Start(u)' = Start(u) /\ End(u)' = End(u)
  <2>1. Resident' \cup pending' \subseteq VirtualRegisters
    BY DEF Allocate, Inv, TypeOK
  <2> QED BY <2>1
<1>1. ASSUME NEW u \in Resident' \ {v}, End(u) >= Start(v)
      PROVE  assignments'[u].physicalRegister # assignments'[v].physicalRegister
  <2>1. End(u) \in Nat /\ Start(v) \in Nat
    OBVIOUS
  <2>2. assignments[u].physicalRegister # r
    BY <1>1, <2>1
  <2> QED BY <2>2 DEF InRegister
<1>2. Apart'
  <2> SUFFICES ASSUME NEW x \in Resident', NEW y \in Resident', x # y,
                      Start(x) <= End(y), Start(y) <= End(x)
               PROVE  assignments'[x].physicalRegister # assignments'[y].physicalRegister
    BY <1>0 DEF Apart
  <2>0. \A u \in Resident' : Start(u) \in Nat /\ End(u) \in Nat
    OBVIOUS
  <2>1. CASE x = v
    BY <1>1, <2>0, <2>1
  <2>2. CASE y = v
    BY <1>1, <2>0, <2>2
  <2>3. CASE x # v /\ y # v
    BY <2>3 DEF Inv, Apart
  <2> QED BY <2>1, <2>2, <2>3
<1>3. Past'
  <2> SUFFICES ASSUME NEW u \in Resident' \ active', NEW w \in pending'
               PROVE  End(u) < Start(w)
    BY <1>0 DEF Past
  <2>1. w \in pending /\ w \in VirtualRegisters
    BY DEF Allocate, Inv, TypeOK
  <2>2. End(u) < Start(v) /\ Start(v) <= Start(w)
    BY <2>1
  <2>3. End(u) \in Nat /\ Start(v) \in Nat /\ Start(w) \in Nat
    BY <2>1
  <2> QED BY <2>2, <2>3
<1> QED BY <1>2, <1>3
-----------------------------------------------------------------------------
\* What a round leaves alone of the type invariant.
LEMMA RoundType ==
  ASSUME Inv, NEW v \in VirtualRegisters, Allocate(v),
         active' \subseteq Resident', freeRegisters' \subseteq Registers,
         assignments' \in [VirtualRegisters -> Assignment],
         nextSpillSlot' \in Nat
  PROVE  TypeOK'
BY RoundSets DEF Allocate, input, Inv, TypeOK

\* A spilled interval keeps the register it had and gets a slot.
LEMMA SpillAssigns ==
  ASSUME NEW c \in VirtualRegisters, assignments \in [VirtualRegisters -> Assignment],
         nextSpillSlot \in Nat
  PROVE  /\ Spill(c) \in Assignment
         /\ Spill(c).spilled = TRUE
         /\ Spill(c).physicalRegister = assignments[c].physicalRegister
<1>1. assignments[c].physicalRegister \in Nat
  BY DEF Assignment
<1> QED BY <1>1 DEF Spill, Assignment

\* Taking a free register loses none (TakeFreeRegister).
LEMMA TakeConserves ==
  ASSUME Inv, NEW v \in VirtualRegisters, Allocate(v), NEW r \in FreeAfter(v),
         freeRegisters' = FreeAfter(v) \ {r},
         RegistersOf(active)' = RegistersOf(active \ Expired(v)) \cup {r}
  PROVE  freeRegisters' \cup RegistersOf(active)' = Registers'
<1>1. Registers' = Registers /\ FreeAfter(v) \cup RegistersOf(active \ Expired(v)) = Registers
  BY RoundSets
<1> QED BY <1>1, Zenon

\* A free register: the first way to assign one (TakeFreeRegister).
LEMMA TakeInv ==
  ASSUME Inv, NEW v \in VirtualRegisters, Allocate(v), TakeFreeRegister(v)
  PROVE  TypeOK' /\ RegistersConserved' /\ Apart' /\ Past'
<1> USE RoundFacts, RoundSets
<1> DEFINE kept == active \ Expired(v)
<1>1. PICK r \in FreeAfter(v) :
        /\ assignments' = [assignments EXCEPT ![v] = InRegister(r)]
        /\ active' = kept \cup {v}
        /\ freeRegisters' = FreeAfter(v) \ {r}
        /\ UNCHANGED nextSpillSlot
  BY DEF TakeFreeRegister
<1>2. r \in Registers /\ r \in Nat
  OBVIOUS
<1>3. assignments \in [VirtualRegisters -> Assignment]
  BY DEF Inv, TypeOK
<1>4. /\ assignments'[v] = InRegister(r)
      /\ \A u \in VirtualRegisters \ {v} : assignments'[u] = assignments[u]
      /\ assignments' \in [VirtualRegisters -> Assignment]
  <2>1. InRegister(r) \in Assignment
    BY <1>2 DEF InRegister, Assignment
  <2> QED BY <1>1, <1>3, <2>1
<1>5. Resident' = Resident \cup {v}
  <2>1. Resident' = {u \in Allocated \cup {v} : ~assignments'[u].spilled}
    BY DEF Resident
  <2>2. ~assignments'[v].spilled
    BY <1>4 DEF InRegister
  <2>3. \A u \in Allocated : assignments'[u] = assignments[u]
    BY <1>4
  <2> QED BY <2>1, <2>2, <2>3 DEF Resident
<1>6. RegistersOf(active)' = RegistersOf(kept) \cup {r}
  BY <1>1, <1>4 DEF RegistersOf, InRegister
<1>7. TypeOK'
  <2>1. active' \subseteq Resident'
    BY <1>1, <1>5
  <2>2. nextSpillSlot' \in Nat
    BY <1>1 DEF Inv, TypeOK
  <2> QED BY <1>1, <1>4, <2>1, <2>2, RoundType
<1>8. \A u \in kept : assignments[u].physicalRegister # r
  BY DEF RegistersOf
<1>9. RegistersConserved'
  <2>1. freeRegisters' \cup RegistersOf(active)' = Registers'
    BY <1>1, <1>6, TakeConserves, Zenon
  <2>2. freeRegisters' \cap RegistersOf(active)' = {}
    BY <1>1, <1>6
  <2>3. ASSUME NEW x \in active', NEW y \in active', x # y
        PROVE  assignments'[x].physicalRegister # assignments'[y].physicalRegister
    BY <1>1, <1>4, <1>8, <2>3 DEF InRegister, Inv, RegistersConserved
  <2> QED BY <2>1, <2>2, <2>3 DEF RegistersConserved
<1>10. Apart' /\ Past'
  <2>1. v \in active' /\ Resident' \subseteq Resident \cup {v}
    BY <1>1, <1>5
  <2>2. \A u \in Resident \ {v} :
          assignments'[u].physicalRegister = assignments[u].physicalRegister
    BY <1>4
  <2>3. ASSUME NEW u \in Resident' \ {v}
        PROVE  \/ u \in active' /\ assignments[u].physicalRegister # r
               \/ u \notin active'  /\ End(u) < Start(v)
    BY <1>1, <1>5, <1>8
  <2> QED BY <1>2, <1>4, <2>1, <2>2, <2>3, AssignRegister
<1> QED BY <1>7, <1>9, <1>10

\* A register taken over from the interval spilled for it: the second way
\* (EvictFor).
LEMMA EvictInv ==
  ASSUME Inv, NEW v \in VirtualRegisters, Allocate(v), EvictFor(v)
  PROVE  TypeOK' /\ RegistersConserved' /\ Apart' /\ Past'
<1> USE RoundFacts, RoundSets
<1> DEFINE kept == active \ Expired(v)
<1>1. PICK c \in kept :
        /\ assignments' = [assignments EXCEPT
                             ![c] = Spill(c),
                             ![v] = InRegister(assignments[c].physicalRegister)]
        /\ active' = (kept \ {c}) \cup {v}
  BY DEF EvictFor, IsSpillCandidate, Remaining
<1> DEFINE r == assignments[c].physicalRegister
<1>2. /\ FreeAfter(v) = {} /\ freeRegisters' = {} /\ nextSpillSlot' = nextSpillSlot + 1
      /\ nextSpillSlot \in Nat
  BY DEF EvictFor, NextSlot, Inv, TypeOK
<1>3. /\ assignments \in [VirtualRegisters -> Assignment]
      /\ c \in VirtualRegisters /\ c # v /\ c \in Resident /\ r \in Nat
  <2>1. assignments \in [VirtualRegisters -> Assignment]
    BY DEF Inv, TypeOK
  <2>2. c \in VirtualRegisters /\ c # v /\ c \in Resident
    OBVIOUS
  <2> QED BY <2>1, <2>2 DEF Assignment
<1>4. /\ assignments'[v] = InRegister(r)
      /\ assignments'[c] = Spill(c)
      /\ \A u \in VirtualRegisters \ {v, c} : assignments'[u] = assignments[u]
  BY <1>1, <1>3
<1>5. Spill(c).spilled = TRUE /\ Spill(c).physicalRegister = r /\ Spill(c) \in Assignment
  BY <1>2, <1>3, SpillAssigns
<1>6. assignments' \in [VirtualRegisters -> Assignment]
  <2>1. InRegister(r) \in Assignment
    BY <1>3 DEF InRegister, Assignment
  <2> QED BY <1>1, <1>3, <1>5, <2>1
<1>7. Resident' = (Resident \ {c}) \cup {v}
  <2>1. Resident' = {u \in Allocated \cup {v} : ~assignments'[u].spilled}
    BY DEF Resident
  <2>2. ~assignments'[v].spilled /\ assignments'[c].spilled
    BY <1>4, <1>5 DEF InRegister
  <2>3. \A u \in Allocated \ {c} : assignments'[u] = assignments[u]
    BY <1>4
  <2> QED BY <1>3, <2>1, <2>2, <2>3 DEF Resident
<1>8. \A u \in kept \ {c} : assignments[u].physicalRegister # r
  BY DEF Inv, RegistersConserved
<1>9. RegistersOf(active)' = RegistersOf(kept)
  BY <1>1, <1>3, <1>4 DEF RegistersOf, InRegister
<1>10. TypeOK'
  <2>1. active' \subseteq Resident'
    BY <1>1, <1>7
  <2> QED BY <1>2, <1>6, <2>1, RoundType
<1>11. RegistersConserved'
  <2>1. freeRegisters' \cup RegistersOf(active)' = Registers'
    BY <1>2, <1>9
  <2>2. freeRegisters' \cap RegistersOf(active)' = {}
    BY <1>2
  <2>3. ASSUME NEW x \in active', NEW y \in active', x # y
        PROVE  assignments'[x].physicalRegister # assignments'[y].physicalRegister
    <3>1. \A u \in kept \ {c} : assignments'[u] = assignments[u]
      BY <1>4
    <3>2. assignments'[v].physicalRegister = r
      BY <1>4 DEF InRegister
    <3>3. \A u, w \in kept :
            u # w => assignments[u].physicalRegister # assignments[w].physicalRegister
      BY DEF Inv, RegistersConserved
    <3> QED BY <1>1, <1>8, <2>3, <3>1, <3>2, <3>3
  <2> QED BY <2>1, <2>2, <2>3 DEF RegistersConserved
<1>12. Apart' /\ Past'
  <2>1. v \in active' /\ Resident' \subseteq Resident \cup {v}
    BY <1>1, <1>7
  <2>2. \A u \in Resident \ {v} :
          assignments'[u].physicalRegister = assignments[u].physicalRegister
    BY <1>4, <1>5
  <2>3. ASSUME NEW u \in Resident' \ {v}
        PROVE  \/ u \in active' /\ assignments[u].physicalRegister # r
               \/ u \notin active'  /\ End(u) < Start(v)
    BY <1>1, <1>7, <1>8
  <2> QED BY <1>3, <1>4, <2>1, <2>2, <2>3, AssignRegister
<1> QED BY <1>10, <1>11, <1>12

\* A spilled interval takes no register (SpillNew).
LEMMA SpillInv ==
  ASSUME Inv, NEW v \in VirtualRegisters, Allocate(v), SpillNew(v)
  PROVE  TypeOK' /\ RegistersConserved' /\ Apart' /\ Past'
<1> USE RoundFacts, RoundSets
<1> DEFINE kept == active \ Expired(v)
<1>1. /\ assignments' = [assignments EXCEPT ![v] = Spill(v)]
      /\ active' = kept
      /\ FreeAfter(v) = {} /\ freeRegisters' = {} /\ nextSpillSlot' = nextSpillSlot + 1
      /\ nextSpillSlot \in Nat
  BY DEF SpillNew, NextSlot, Inv, TypeOK
<1>2. assignments \in [VirtualRegisters -> Assignment]
  BY DEF Inv, TypeOK
<1>3. /\ assignments'[v].spilled
      /\ \A u \in VirtualRegisters \ {v} : assignments'[u] = assignments[u]
      /\ assignments' \in [VirtualRegisters -> Assignment]
  <2>1. Spill(v) \in Assignment /\ Spill(v).spilled
    BY <1>1, <1>2, SpillAssigns
  <2> QED BY <1>1, <1>2, <2>1
<1>4. Resident' = Resident
  BY <1>3 DEF Resident
<1>5. RegistersOf(active)' = RegistersOf(kept)
  <2>1. \A u \in kept : assignments'[u] = assignments[u]
    BY <1>3
  <2> QED BY <1>1, <2>1 DEF RegistersOf
<1>6. TypeOK'
  <2>1. active' \subseteq Resident'
    BY <1>1, <1>4
  <2>2. freeRegisters' \subseteq Registers /\ nextSpillSlot' \in Nat
    BY <1>1
  <2> QED BY <1>3, <2>1, <2>2, RoundType
<1>7. RegistersConserved'
  <2>1. freeRegisters' \cup RegistersOf(active)' = Registers'
    BY <1>1, <1>5
  <2>2. freeRegisters' \cap RegistersOf(active)' = {}
    BY <1>1
  <2>3. ASSUME NEW x \in active', NEW y \in active', x # y
        PROVE  assignments'[x].physicalRegister # assignments'[y].physicalRegister
    BY ZenonT(30), <1>1, <1>3, <2>3 DEF Inv, RegistersConserved
  <2> QED BY <2>1, <2>2, <2>3 DEF RegistersConserved
<1>8. \A u \in Resident : /\ assignments'[u] = assignments[u]
                         /\ Start(u)' = Start(u) /\ End(u)' = End(u)
  BY <1>3
<1>9. Apart'
  <2> SUFFICES ASSUME NEW x \in Resident, NEW y \in Resident, x # y,
                      Start(x) <= End(y), Start(y) <= End(x)
               PROVE  assignments'[x].physicalRegister # assignments'[y].physicalRegister
    BY <1>4, <1>8 DEF Apart
  <2> QED BY <1>8 DEF Inv, Apart
<1>10. Past'
  <2>1. pending' \subseteq pending /\ pending \subseteq VirtualRegisters
    BY DEF Allocate, Inv, TypeOK
  <2> SUFFICES ASSUME NEW u \in Resident \ kept, NEW w \in pending'
               PROVE  End(u) < Start(w)
    BY <1>1, <1>4, <1>8, <2>1 DEF Past
  <2>2. End(u) < Start(v) /\ Start(v) <= Start(w)
    BY <2>1
  <2>3. End(u) \in Nat /\ Start(v) \in Nat /\ Start(w) \in Nat
    BY <2>1
  <2> QED BY <2>2, <2>3
<1> QED BY <1>6, <1>7, <1>9, <1>10

-----------------------------------------------------------------------------
\* Each round of the scan keeps the invariant.
LEMMA NextInv == Inv /\ [Next]_vars => Inv'
<1> SUFFICES ASSUME Inv, [Next]_vars PROVE Inv'
  OBVIOUS
<1>1. CASE BuildIntervalWorkItems
  BY <1>1, BuildInv
<1>2. ASSUME NEW v \in VirtualRegisters, Allocate(v)
      PROVE  Inv'
  <2>1. Covered' /\ ByStart' /\ Unscanned'
    BY <1>2, RoundFacts
  <2>2. TakeFreeRegister(v) \/ EvictFor(v) \/ SpillNew(v)
    BY <1>2 DEF Allocate
  <2>3. TypeOK' /\ RegistersConserved' /\ Apart' /\ Past'
    BY <1>2, <2>2, TakeInv, EvictInv, SpillInv
  <2> QED BY <2>1, <2>3 DEF Inv
<1>3. CASE UNCHANGED vars
  BY <1>3 DEF vars, input, Inv, TypeOK, RegistersConserved, RegistersOf, Registers, Covered,
              ByStart, Past, Apart, Unscanned, Resident, Allocated, Start, End
<1> QED BY <1>1, <1>2, <1>3 DEF Next

\* Inv holds throughout the scan.
LEMMA Invariance == Spec => []Inv
<1>1. QED BY InitInv, NextInv, PTL DEF Spec

-----------------------------------------------------------------------------
\* The scan's sets hold what their names say for every function and every
\* number of registers.
THEOREM TypeCorrect == Spec => []TypeOK
<1>1. Inv => TypeOK
  BY DEF Inv
<1> QED BY <1>1, Invariance, PTL

\* No physical register is lost or held twice (expiry and eviction in
\* allocateFunctionLinearScan).
THEOREM NoRegisterLost == Spec => []RegistersConserved
<1>1. Inv => RegistersConserved
  BY DEF Inv
<1> QED BY <1>1, Invariance, PTL

\* Hulls that meet hold different registers, hence so do ranges that meet.
LEMMA HeldApart == Inv => NoRegisterShared
<1> SUFFICES ASSUME Inv, NEW v \in Resident, NEW w \in Resident, v # w,
                    NEW r \in ranges[v], NEW q \in ranges[w],
                    r.start <= q.end, q.start <= r.end
             PROVE  assignments[v].physicalRegister # assignments[w].physicalRegister
  BY DEF NoRegisterShared, LiveTogether
<1>1. v \in items /\ w \in items /\ items \subseteq VirtualRegisters
  BY DEF Resident, Allocated, Inv, TypeOK
<1>2. ranges[v] \subseteq IrLiveRange /\ ranges[w] \subseteq IrLiveRange
  BY <1>1, LivenessAssumption DEF Inv, TypeOK
<1>3. /\ Start(v) \in Nat /\ End(v) \in Nat /\ Start(w) \in Nat /\ End(w) \in Nat
      /\ r.start \in Nat /\ r.end \in Nat /\ q.start \in Nat /\ q.end \in Nat
  BY <1>1, <1>2 DEF Inv, TypeOK, IrLiveRange, Start, End
<1>4. /\ Start(v) <= r.start /\ r.end <= End(v)
      /\ Start(w) <= q.start /\ q.end <= End(w)
  BY <1>1 DEF Inv, Covered
<1>5. Start(v) <= End(w) /\ Start(w) <= End(v)
  BY <1>3, <1>4
<1> QED BY <1>5 DEF Inv, Apart

\* Virtual registers that are live together and kept in registers have
\* different ones, whatever the liveness analysis found.
THEOREM RegistersApart == Spec => []NoRegisterShared
BY HeldApart, Invariance, PTL

-----------------------------------------------------------------------------
(***************************************************************************)
(* The scan spills as few as it can.  The scan never decides against the   *)
(* best choice: whatever fits can be traded, interval for interval, for    *)
(* something that fits and has no interval the scan has spilled so far.    *)
(***************************************************************************)
\* The intervals of a choice that hold a register at a position.
Meeting(vs, p) == {w \in vs : Start(w) <= p /\ p <= End(w)}
FitsThroughout(vs) == \A p \in Nat : Cardinality(Meeting(vs, p)) <= registerCount

NothingLost ==
  \A vs \in SUBSET items : FitsThroughout(vs) =>
    \E ws \in SUBSET items :
      /\ FitsThroughout(ws)
      /\ Cardinality(vs) <= Cardinality(ws)
      /\ ws \cap Allocated \subseteq Resident

\* Residents hold registers that exist; an interval ends no earlier than it starts.
Physical == \A u \in Resident : assignments[u].physicalRegister \in Registers
Forward == \A v \in items : Start(v) <= End(v)

FewestInv == Inv /\ Physical /\ Forward /\ NothingLost

\* A nonempty set of naturals has a least element.
LEMMA LeastNatural ==
  ASSUME NEW U \in SUBSET Nat, U # {}
  PROVE  \E u \in U : \A w \in U : u <= w
<1> DEFINE R == {pair \in Nat \X Nat : pair[1] < pair[2]}
<1>1. IsWellFoundedOn(R, Nat)
  BY NatLessThanWellFounded DEF OpToRel
<1>2. PICK u \in U : \A w \in U : <<w, u>> \notin R
  BY <1>1, WFMin
<1>3. \A w \in U : ~(w < u)
  BY <1>2, Zenon
<1> QED BY <1>3, SMT

\* A nonempty finite set has an element that no other one is above.
LEMMA MaximalExists ==
  ASSUME NEW S, IsFiniteSet(S), S # {}, NEW R,
         \A x \in S : <<x, x>> \notin R,
         \A x, y, z \in S : <<x, y>> \in R /\ <<y, z>> \in R => <<x, z>> \in R
  PROVE  \E x \in S : \A y \in S : <<y, x>> \notin R
<1> DEFINE Above(x) == {y \in S : <<y, x>> \in R}
           U == {Cardinality(Above(x)) : x \in S}
<1>1. \A x \in S : IsFiniteSet(Above(x)) /\ Cardinality(Above(x)) \in Nat
  BY FS_Subset, FS_CardinalityType
<1>2. PICK u \in U : \A w \in U : u <= w
  <2> HIDE DEF Above
  <2>1. U \in SUBSET Nat
    BY <1>1
  <2>2. U # {}
    OBVIOUS
  <2> HIDE DEF U
  <2> QED BY <2>1, <2>2, LeastNatural
<1>3. PICK x \in S : u = Cardinality(Above(x))
  OBVIOUS
<1>4. ASSUME NEW y \in S, <<y, x>> \in R
      PROVE  FALSE
  <2>1. Above(y) \in SUBSET Above(x) /\ y \in Above(x) /\ y \notin Above(y)
    BY <1>4
  <2>2. Cardinality(Above(y)) <= Cardinality(Above(x)) /\ Cardinality(Above(y)) # Cardinality(Above(x))
    <3> HIDE DEF Above
    <3> QED BY <1>1, <2>1, FS_Subset
  <2>3. Cardinality(Above(x)) <= Cardinality(Above(y))
    <3> HIDE DEF Above
    <3>1. Cardinality(Above(y)) \in U
      OBVIOUS
    <3> QED BY <1>2, <1>3, <3>1
  <2> HIDE DEF Above
  <2> QED BY <1>1, <2>2, <2>3
<1> QED BY <1>4

\* Choices of work items are finite, and so is what is live of them at a position.
LEMMA ChoicesFinite ==
  ASSUME Inv, NEW vs \in SUBSET items
  PROVE  /\ IsFiniteSet(vs) /\ Cardinality(vs) \in Nat
         /\ \A p : IsFiniteSet(Meeting(vs, p)) /\ Cardinality(Meeting(vs, p)) \in Nat
<1>1. IsFiniteSet(VirtualRegisters) /\ vs \in SUBSET VirtualRegisters
  BY LivenessAssumption DEF Inv, TypeOK
<1>2. \A p : Meeting(vs, p) \in SUBSET VirtualRegisters
  BY <1>1 DEF Meeting
<1>3. \A T \in SUBSET VirtualRegisters : IsFiniteSet(T) /\ Cardinality(T) \in Nat
  BY <1>1, FS_Subset, FS_CardinalityType
<1> QED BY <1>1, <1>2, <1>3

\* Intervals begin and end at naturals.
LEMMA PositionsOf ==
  ASSUME Inv
  PROVE  /\ \A w \in VirtualRegisters : Start(w) \in Nat /\ End(w) \in Nat
         /\ items \subseteq VirtualRegisters
         /\ registerCount \in Nat
BY LivenessAssumption DEF Inv, TypeOK, IrLiveRange, Start, End

\* What fits where its intervals start fits everywhere: at any other position the
\* interval that started last meets all the others at its start.
LEMMA FitsPointwise ==
  ASSUME Inv, NEW vs \in SUBSET items, Fits(vs)
  PROVE  FitsThroughout(vs)
<1> USE PositionsOf
<1> SUFFICES ASSUME NEW p \in Nat
             PROVE  Cardinality(Meeting(vs, p)) <= registerCount
  BY DEF FitsThroughout
<1>1. CASE Meeting(vs, p) = {}
  BY <1>1, FS_EmptySet
<1>2. CASE Meeting(vs, p) # {}
  <2> DEFINE R == {pair \in VirtualRegisters \X VirtualRegisters : Start(pair[1]) > Start(pair[2])}
  <2>1. Meeting(vs, p) \subseteq VirtualRegisters
    BY DEF Meeting
  <2>2. \A x, y \in Meeting(vs, p) : <<x, y>> \in R <=> Start(x) > Start(y)
    BY <2>1
  <2> HIDE DEF R
  <2>3. /\ \A x \in Meeting(vs, p) : <<x, x>> \notin R
        /\ \A x, y, z \in Meeting(vs, p) :
             <<x, y>> \in R /\ <<y, z>> \in R => <<x, z>> \in R
    BY <2>1, <2>2
  <2>4. PICK u \in Meeting(vs, p) : \A y \in Meeting(vs, p) : <<y, u>> \notin R
    <3>1. IsFiniteSet(Meeting(vs, p))
      BY ChoicesFinite
    <3> HIDE DEF Meeting
    <3> QED BY <1>2, <2>3, <3>1, MaximalExists
  <2>5. ASSUME NEW y \in Meeting(vs, p)
        PROVE  Start(y) <= Start(u)
    <3>1. ~(Start(y) > Start(u))
      BY <2>2, <2>4
    <3>2. Start(y) \in Nat /\ Start(u) \in Nat
      BY <2>1
    <3> QED BY <3>1, <3>2
  <2>6. u \in vs /\ Start(u) \in Nat /\ Start(u) <= p
    BY <2>1 DEF Meeting
  <2>7. Meeting(vs, p) \in SUBSET Meeting(vs, Start(u))
    <3> SUFFICES ASSUME NEW y \in Meeting(vs, p)
                 PROVE  y \in Meeting(vs, Start(u))
      OBVIOUS
    <3>1. y \in vs /\ Start(y) \in Nat /\ End(y) \in Nat /\ p <= End(y)
      BY <2>1 DEF Meeting
    <3> QED BY <2>5, <2>6, <3>1 DEF Meeting
  <2>8. Cardinality(Meeting(vs, p)) <= Cardinality(Meeting(vs, Start(u)))
    BY <2>7, ChoicesFinite, FS_Subset
  <2>9. Cardinality(Meeting(vs, Start(u))) <= registerCount
    BY <2>6 DEF Fits, Meeting
  <2> QED BY <2>6, <2>8, <2>9, ChoicesFinite
<1> QED BY <1>1, <1>2

\* There are as many registers as there are.
LEMMA RegistersCounted ==
  ASSUME Inv
  PROVE  IsFiniteSet(Registers) /\ Cardinality(Registers) = registerCount
<1>1. registerCount \in Nat
  BY PositionsOf
<1> QED BY <1>1, FS_Interval DEF Registers

\* What the scan keeps fits: residents that meet hold different registers.
LEMMA ResidentsFit ==
  ASSUME Inv, Physical
  PROVE  FitsThroughout(Resident)
<1> USE PositionsOf
<1> SUFFICES ASSUME NEW p \in Nat
             PROVE  Cardinality(Meeting(Resident, p)) <= registerCount
  BY DEF FitsThroughout
<1> DEFINE M == Meeting(Resident, p)
           held == [u \in M |-> assignments[u].physicalRegister]
<1>1. M \subseteq Resident /\ Resident \subseteq items
  BY DEF Meeting, Resident, Allocated
<1>2. ASSUME NEW x \in M, NEW y \in M, x # y
      PROVE  assignments[x].physicalRegister # assignments[y].physicalRegister
  <2>1. /\ x \in VirtualRegisters /\ y \in VirtualRegisters
        /\ x \in Resident /\ y \in Resident
    BY <1>1
  <2>2. Start(x) <= p /\ p <= End(x) /\ Start(y) <= p /\ p <= End(y)
    BY DEF Meeting
  <2>3. Start(x) <= End(y) /\ Start(y) <= End(x)
    BY <2>1, <2>2
  <2> QED BY <1>2, <2>1, <2>3 DEF Inv, Apart
<1>3. held \in Injection(M, Registers)
  <2>1. held \in [M -> Registers]
    BY <1>1 DEF Physical
  <2>2. \A x, y \in M : held[x] = held[y] => x = y
    BY <1>2
  <2> QED BY <2>1, <2>2 DEF Injection, IsInjective
<1>4. Cardinality(M) <= Cardinality(Registers)
  <2> HIDE DEF M, held
  <2> QED BY <1>3, RegistersCounted, FS_Injection
<1> QED BY <1>4, RegistersCounted
\* When no register is free where v starts, as many intervals are active as there
\* are registers.
LEMMA KeptCounted ==
  ASSUME Inv, NEW v \in VirtualRegisters, Allocate(v), FreeAfter(v) = {}
  PROVE  /\ IsFiniteSet(active \ Expired(v))
         /\ Cardinality(active \ Expired(v)) = registerCount
<1> USE RoundSets
<1> DEFINE kept == active \ Expired(v)
           held == [u \in kept |-> assignments[u].physicalRegister]
<1>1. RegistersOf(kept) = Registers
  OBVIOUS
<1>2. held \in Injection(kept, Registers)
  <2>1. held \in [kept -> Registers]
    BY <1>1 DEF RegistersOf
  <2>2. \A x, y \in kept : held[x] = held[y] => x = y
    BY DEF Inv, RegistersConserved
  <2> QED BY <2>1, <2>2 DEF Injection, IsInjective
<1>3. held \in Surjection(kept, Registers)
  <2>1. held \in [kept -> Registers]
    BY <1>1 DEF RegistersOf
  <2>2. \A r \in Registers : \E u \in kept : held[u] = r
    BY <1>1 DEF RegistersOf
  <2> QED BY <2>1, <2>2 DEF Surjection
<1>4. IsFiniteSet(kept) /\ Cardinality(kept) = Cardinality(Registers)
  <2> HIDE DEF kept, held
  <2> QED BY <1>2, <1>3, RegistersCounted, FS_Injection
<1> QED BY <1>4, RegistersCounted

\* Those intervals all meet where v starts.
LEMMA CrowdMeets ==
  ASSUME Inv, Forward, NEW v \in VirtualRegisters, Allocate(v),
         NEW y \in (active \ Expired(v)) \cup {v}
  PROVE  y \in items /\ Start(y) <= Start(v) /\ Start(v) <= End(y)
<1> USE RoundFacts, RoundSets
<1>1. v \in items /\ Allocated \subseteq items
  BY DEF Allocate, IsNext, Inv, TypeOK, Allocated
<1>2. CASE y = v
  BY <1>1, <1>2 DEF Forward
<1>3. CASE y \in active \ Expired(v)
  <2>1. y \in Allocated /\ y \in items /\ y \in VirtualRegisters
    BY <1>1, <1>3
  <2>2. Start(y) <= Start(v)
    BY <2>1 DEF Inv, ByStart
  <2>3. ~(End(y) < Start(v))
    BY <1>3 DEF Expired
  <2> QED BY <2>1, <2>2, <2>3
<1> QED BY <1>2, <1>3

\* The exchange.  When v finds no register free, one of the intervals that meet
\* there has to go.  A choice that keeps the one that ends last, x, lacks another of
\* them, y, and fits as well with y in place of x.
LEMMA Exchange ==
  ASSUME Inv, Physical, Forward, NEW v \in VirtualRegisters, Allocate(v),
         FreeAfter(v) = {},
         NEW x \in (active \ Expired(v)) \cup {v},
         \A y \in (active \ Expired(v)) \cup {v} : End(y) <= End(x),
         NEW ws \in SUBSET items, FitsThroughout(ws), ws \cap Allocated \subseteq Resident
  PROVE  \E ts \in SUBSET items :
           /\ FitsThroughout(ts)
           /\ Cardinality(ws) <= Cardinality(ts)
           /\ ts \cap (Allocated \cup {v}) \subseteq (Resident \cup {v}) \ {x}
<1> USE PositionsOf
<1> DEFINE crowd == (active \ Expired(v)) \cup {v}
<1>0. v \in VirtualRegisters /\ Start(v) \in Nat /\ registerCount \in Nat
  OBVIOUS
<1>1. CASE x \notin ws
  BY <1>1, ChoicesFinite
<1>2. CASE x \in ws
  <2>1. ~(crowd \subseteq ws)
    <3> SUFFICES ASSUME crowd \subseteq ws PROVE FALSE
      OBVIOUS
    <3>1. crowd \in SUBSET Meeting(ws, Start(v))
      BY CrowdMeets DEF Meeting
    <3>2. Cardinality(crowd) = registerCount + 1
      <4>1. v \notin active \ Expired(v)
        BY RoundSets
      <4>2. /\ IsFiniteSet(active \ Expired(v))
            /\ Cardinality(active \ Expired(v)) = registerCount
        BY KeptCounted
      <4> QED BY <4>1, <4>2, FS_AddElement
    <3>3. Cardinality(crowd) <= Cardinality(Meeting(ws, Start(v)))
      <4> HIDE DEF crowd
      <4> QED BY <3>1, ChoicesFinite, FS_Subset
    <3>4. Cardinality(Meeting(ws, Start(v))) <= registerCount
      BY <1>0 DEF FitsThroughout
    <3>5. Cardinality(Meeting(ws, Start(v))) \in Nat
      BY ChoicesFinite
    <3> HIDE DEF crowd
    <3> QED BY <1>0, <3>2, <3>3, <3>4, <3>5
  <2>2. PICK y \in crowd : y \notin ws
    BY <2>1
  <2> DEFINE ts == (ws \ {x}) \cup {y}
  <2>3. /\ x \in items /\ Start(x) <= Start(v) /\ Start(v) <= End(x)
        /\ y \in items /\ Start(y) <= Start(v) /\ Start(v) <= End(y)
        /\ End(y) <= End(x)
    BY CrowdMeets
  <2>4. /\ x \in VirtualRegisters /\ Start(x) \in Nat /\ End(x) \in Nat
        /\ y \in VirtualRegisters /\ Start(y) \in Nat /\ End(y) \in Nat
    BY <2>3
  <2>5. ts \in SUBSET items
    BY <2>3
  <2>6. Cardinality(ts) = Cardinality(ws)
    <3>1. IsFiniteSet(ws) /\ Cardinality(ws) \in Nat
      BY ChoicesFinite
    <3>2. IsFiniteSet(ws \ {x}) /\ Cardinality(ws \ {x}) = Cardinality(ws) - 1
      BY <1>2, <3>1, FS_RemoveElement
    <3>3. Cardinality(ts) = Cardinality(ws \ {x}) + 1
      BY <2>2, <3>2, FS_AddElement
    <3> QED BY <3>1, <3>2, <3>3
  <2>7. ts \cap (Allocated \cup {v}) \subseteq (Resident \cup {v}) \ {x}
    <3>1. ws \cap (Allocated \cup {v}) \subseteq Resident \cup {v}
      OBVIOUS
    <3>2. y \in Resident \cup {v} /\ y # x
      BY <1>2, <2>2, RoundSets
    <3> HIDE DEF crowd
    <3> QED BY <3>1, <3>2
  <2>8. ASSUME NEW p \in Nat
        PROVE  Cardinality(Meeting(ts, p)) <= registerCount
    <3>0. /\ IsFiniteSet(Meeting(ws, p)) /\ Cardinality(Meeting(ws, p)) \in Nat
          /\ Cardinality(Meeting(ws, p)) <= registerCount
      BY ChoicesFinite DEF FitsThroughout
    <3>1. CASE p < Start(v)
      <4>1. Meeting(ts, p) \in SUBSET Meeting(Resident, p)
        <5> SUFFICES ASSUME NEW u \in Meeting(ts, p) PROVE u \in Resident
          BY DEF Meeting
        <5>1. /\ u \in ts /\ u \in items /\ u \in VirtualRegisters
              /\ Start(u) \in Nat /\ Start(u) <= p
          BY <2>5 DEF Meeting
        <5>2. ~(Start(v) <= Start(u))
          BY <1>0, <3>1, <5>1
        <5>3. u # v /\ u \notin pending
          BY <1>0, <5>2, RoundFacts
        <5> QED BY <2>7, <5>1, <5>3 DEF Allocated
      <4>2. Resident \in SUBSET items
        BY DEF Resident, Allocated
      <4>3. Cardinality(Meeting(ts, p)) <= Cardinality(Meeting(Resident, p))
        BY <4>1, <4>2, ChoicesFinite, FS_Subset
      <4>4. Cardinality(Meeting(Resident, p)) <= registerCount
        BY ResidentsFit DEF FitsThroughout
      <4>5. Cardinality(Meeting(ts, p)) \in Nat /\ Cardinality(Meeting(Resident, p)) \in Nat
        BY <2>5, <4>2, ChoicesFinite
      <4> QED BY <1>0, <4>3, <4>4, <4>5
    <3>2. CASE Start(v) <= p /\ p <= End(y)
      <4>1. x \in Meeting(ws, p) /\ y \notin Meeting(ws, p)
        BY <1>0, <1>2, <2>2, <2>3, <2>4, <3>2 DEF Meeting
      <4>2. Meeting(ts, p) = (Meeting(ws, p) \ {x}) \cup {y}
        <5>1. y \in Meeting(ts, p)
          BY <1>0, <2>3, <2>4, <3>2 DEF Meeting
        <5> QED BY <5>1 DEF Meeting
      <4>3. /\ IsFiniteSet(Meeting(ws, p) \ {x})
            /\ Cardinality(Meeting(ws, p) \ {x}) = Cardinality(Meeting(ws, p)) - 1
        BY <3>0, <4>1, FS_RemoveElement
      <4>4. Cardinality(Meeting(ts, p)) = Cardinality(Meeting(ws, p) \ {x}) + 1
        BY <4>1, <4>2, <4>3, FS_AddElement
      <4> QED BY <3>0, <4>3, <4>4
    <3>3. CASE End(y) < p
      <4>1. Meeting(ts, p) \in SUBSET Meeting(ws, p)
        BY <2>4, <3>3 DEF Meeting
      <4>2. /\ Cardinality(Meeting(ts, p)) <= Cardinality(Meeting(ws, p))
            /\ Cardinality(Meeting(ts, p)) \in Nat
        BY <2>5, <3>0, <4>1, ChoicesFinite, FS_Subset
      <4> QED BY <1>0, <3>0, <4>2
    <3> QED BY <1>0, <2>4, <3>1, <3>2, <3>3
  <2>9. FitsThroughout(ts)
    BY <2>8 DEF FitsThroughout
  <2>10. Cardinality(ws) <= Cardinality(ts)
    <3>1. Cardinality(ws) \in Nat
      BY ChoicesFinite
    <3> QED BY <2>6, <3>1
  <2> HIDE DEF ts
  <2> QED BY <2>5, <2>7, <2>9, <2>10
<1> QED BY <1>1, <1>2

\* Among the intervals that hold a register there is one to give up first.
LEMMA CandidateExists ==
  ASSUME Inv, NEW v \in VirtualRegisters, Allocate(v), active \ Expired(v) # {},
         IsFiniteSet(active \ Expired(v))
  PROVE  \E c \in active : IsSpillCandidate(c, v)
<1> USE RoundFacts, RoundSets
<1> DEFINE kept == active \ Expired(v)
           R == {pair \in kept \X kept : Farther(pair[1], pair[2])}
<1>1. \A a \in kept : a \in Nat /\ End(a) \in Nat
  BY LivenessAssumption
<1>2. \A a, b \in kept : <<a, b>> \in R <=> Farther(a, b)
  OBVIOUS
<1> HIDE DEF kept, R
<1>3. /\ \A a \in kept : <<a, a>> \notin R
      /\ \A a, b, c \in kept : <<a, b>> \in R /\ <<b, c>> \in R => <<a, c>> \in R
  BY <1>1, <1>2 DEF Farther
<1>4. PICK c \in kept : \A a \in kept : <<a, c>> \notin R
  <2>1. kept # {} /\ IsFiniteSet(kept)
    BY DEF kept
  <2> QED BY <1>3, <2>1, MaximalExists
<1>5. ASSUME NEW a \in kept \ {c}
      PROVE  Farther(c, a)
  <2>1. ~Farther(a, c)
    BY <1>2, <1>4
  <2> QED BY <1>1, <2>1 DEF Farther
<1> QED BY <1>5 DEF kept, IsSpillCandidate
-----------------------------------------------------------------------------
\* A round moves no interval and adds no register, so what fits does not change.
LEMMA RoundFits ==
  ASSUME Inv, NEW v \in VirtualRegisters, Allocate(v), NEW vs \in SUBSET items
  PROVE  FitsThroughout(vs)' <=> FitsThroughout(vs)
<1>1. vs \subseteq VirtualRegisters
  BY PositionsOf
<1>2. \A w \in vs : Start(w)' = Start(w) /\ End(w)' = End(w)
  BY <1>1, RoundFacts
<1>3. \A p : Meeting(vs, p)' = Meeting(vs, p)
  BY <1>2 DEF Meeting
<1>4. registerCount' = registerCount
  BY DEF Allocate, input
<1> QED BY <1>3, <1>4 DEF FitsThroughout

\* A round keeps NothingLost if the interval it spills, x, could be spared.
LEMMA SpareOne ==
  ASSUME Inv, Physical, Forward, NothingLost,
         NEW v \in VirtualRegisters, Allocate(v), FreeAfter(v) = {},
         NEW x \in (active \ Expired(v)) \cup {v},
         \A y \in (active \ Expired(v)) \cup {v} : End(y) <= End(x),
         Resident' = (Resident \cup {v}) \ {x}
  PROVE  NothingLost'
<1>1. items' = items /\ Allocated' = Allocated \cup {v}
  BY RoundFacts DEF Allocate
<1> SUFFICES ASSUME NEW vs \in SUBSET items, FitsThroughout(vs)
             PROVE  \E ts \in SUBSET items :
                      /\ FitsThroughout(ts)'
                      /\ Cardinality(vs) <= Cardinality(ts)
                      /\ ts \cap (Allocated \cup {v}) \subseteq (Resident \cup {v}) \ {x}
  BY <1>1, RoundFits DEF NothingLost
<1>2. PICK ws \in SUBSET items :
        /\ FitsThroughout(ws)
        /\ Cardinality(vs) <= Cardinality(ws)
        /\ ws \cap Allocated \subseteq Resident
  BY DEF NothingLost
<1>3. PICK ts \in SUBSET items :
        /\ FitsThroughout(ts)
        /\ Cardinality(ws) <= Cardinality(ts)
        /\ ts \cap (Allocated \cup {v}) \subseteq (Resident \cup {v}) \ {x}
  BY <1>2, Exchange
<1>4. /\ Cardinality(vs) \in Nat /\ Cardinality(ws) \in Nat /\ Cardinality(ts) \in Nat
  BY ChoicesFinite
<1> QED BY <1>2, <1>3, <1>4, RoundFits

\* A free register: nothing is spilled.
LEMMA TakeFewest ==
  ASSUME FewestInv, NEW v \in VirtualRegisters, Allocate(v), TakeFreeRegister(v)
  PROVE  Physical' /\ NothingLost'
<1> USE RoundFacts, RoundSets DEF FewestInv
<1>1. PICK r \in FreeAfter(v) :
        assignments' = [assignments EXCEPT ![v] = InRegister(r)]
  BY DEF TakeFreeRegister
<1>2. assignments \in [VirtualRegisters -> Assignment]
  BY DEF Inv, TypeOK
<1>3. /\ assignments'[v] = InRegister(r)
      /\ \A u \in Allocated : assignments'[u] = assignments[u]
  BY <1>1, <1>2
<1>4. Resident' = Resident \cup {v}
  BY <1>3 DEF Resident, InRegister
<1>5. ASSUME NEW u \in Resident'
      PROVE  assignments'[u].physicalRegister \in Registers
  <2>1. CASE u = v
    <3>1. assignments'[u].physicalRegister = r
      BY <1>3, <2>1 DEF InRegister
    <3> QED BY <3>1
  <2>2. CASE u \in Resident
    <3>1. assignments'[u] = assignments[u]
      BY <1>3, <2>2
    <3> QED BY <2>2, <3>1 DEF Physical
  <2> QED BY <1>4, <2>1, <2>2
<1>6. NothingLost'
  <2>1. items' = items /\ Allocated' = Allocated \cup {v}
    BY DEF Allocate
  <2> SUFFICES ASSUME NEW vs \in SUBSET items, FitsThroughout(vs)
               PROVE  \E ws \in SUBSET items :
                        /\ FitsThroughout(ws)'
                        /\ Cardinality(vs) <= Cardinality(ws)
                        /\ ws \cap (Allocated \cup {v}) \subseteq Resident \cup {v}
    BY <1>4, <2>1, RoundFits DEF NothingLost
  <2>2. PICK ws \in SUBSET items :
          /\ FitsThroughout(ws)
          /\ Cardinality(vs) <= Cardinality(ws)
          /\ ws \cap Allocated \subseteq Resident
    BY DEF NothingLost
  <2> QED BY <2>2, RoundFits
<1> QED BY <1>5, <1>6 DEF Physical

\* An eviction: the candidate ends last of those that meet where v starts.
LEMMA EvictFewest ==
  ASSUME FewestInv, NEW v \in VirtualRegisters, Allocate(v), EvictFor(v)
  PROVE  Physical' /\ NothingLost'
<1> USE RoundFacts, RoundSets DEF FewestInv
<1>1. PICK c \in active :
        /\ IsSpillCandidate(c, v) /\ Farther(c, v)
        /\ assignments' = [assignments EXCEPT
                             ![c] = Spill(c),
                             ![v] = InRegister(assignments[c].physicalRegister)]
  BY DEF EvictFor
<1>2. assignments \in [VirtualRegisters -> Assignment] /\ nextSpillSlot \in Nat
  BY DEF Inv, TypeOK
<1>3. /\ c \in VirtualRegisters /\ c # v /\ c \in Resident
      /\ c \in active \ Expired(v)
  BY <1>1 DEF IsSpillCandidate
<1>4. /\ assignments'[v] = InRegister(assignments[c].physicalRegister)
      /\ assignments'[c] = Spill(c)
      /\ \A u \in Allocated \ {c} : assignments'[u] = assignments[u]
  BY ZenonT(30), <1>1, <1>2, <1>3
<1>5. Resident' = (Resident \cup {v}) \ {c}
  <2>1. assignments'[c].spilled /\ ~assignments'[v].spilled
    BY <1>4 DEF Spill, InRegister
  <2> QED BY <1>3, <1>4, <2>1 DEF Resident
<1>6. ASSUME NEW u \in Resident'
      PROVE  assignments'[u].physicalRegister \in Registers
  <2>1. CASE u = v
    <3>1. assignments'[u].physicalRegister = assignments[c].physicalRegister
      BY <1>4, <2>1 DEF InRegister
    <3> QED BY <1>3, <3>1 DEF Physical
  <2>2. CASE u \in Resident \ {c}
    <3>1. assignments'[u] = assignments[u]
      BY <1>4, <2>2
    <3> QED BY <2>2, <3>1 DEF Physical
  <2> QED BY <1>5, <2>1, <2>2
<1>7. ASSUME NEW y \in (active \ Expired(v)) \cup {v}
      PROVE  End(y) <= End(c)
  <2>1. End(y) \in Nat /\ End(c) \in Nat /\ End(v) \in Nat
    BY <1>3
  <2>2. y = c \/ Farther(c, y)
    BY <1>1 DEF IsSpillCandidate
  <2> QED BY <2>1, <2>2 DEF Farther
<1>8. FreeAfter(v) = {}
  BY DEF EvictFor
<1>9. Physical'
  BY <1>6 DEF Physical
<1> QED BY <1>3, <1>5, <1>7, <1>8, <1>9, SpareOne

\* v itself is spilled when none of the others outlasts it.
LEMMA SpillFewest ==
  ASSUME FewestInv, NEW v \in VirtualRegisters, Allocate(v), SpillNew(v)
  PROVE  Physical' /\ NothingLost'
<1> USE RoundFacts, RoundSets DEF FewestInv
<1>1. /\ assignments' = [assignments EXCEPT ![v] = Spill(v)]
      /\ FreeAfter(v) = {}
      /\ \A c \in active : IsSpillCandidate(c, v) => ~Farther(c, v)
  BY DEF SpillNew
<1>2. assignments \in [VirtualRegisters -> Assignment]
  BY DEF Inv, TypeOK
<1>3. assignments'[v] = Spill(v) /\ \A u \in Allocated : assignments'[u] = assignments[u]
  BY <1>1, <1>2
<1>4. Resident' = Resident
  BY <1>3 DEF Resident, Spill
<1>5. Physical'
  BY <1>3, <1>4 DEF Physical
<1>6. ASSUME NEW y \in active \ Expired(v)
      PROVE  End(y) <= End(v)
  <2>1. IsFiniteSet(active \ Expired(v))
    BY <1>1, KeptCounted
  <2>2. PICK c \in active : IsSpillCandidate(c, v)
    BY <2>1, CandidateExists
  <2>3. /\ End(y) \in Nat /\ End(c) \in Nat /\ End(v) \in Nat
        /\ c \in Nat /\ v \in Nat
    BY LivenessAssumption
  <2>4. ~Farther(c, v)
    BY <1>1, <2>2
  <2>5. y = c \/ Farther(c, y)
    BY <2>2 DEF IsSpillCandidate
  <2> QED BY <2>3, <2>4, <2>5 DEF Farther
<1>7. End(v) <= End(v)
  <2>1. End(v) \in Nat
    OBVIOUS
  <2> QED BY <2>1
<1>8. Resident' = (Resident \cup {v}) \ {v}
  BY <1>4
<1> QED BY <1>1, <1>5, <1>6, <1>7, <1>8, SpareOne

\* The work items run forward when no range ends before it starts.
LEMMA BuildFewest ==
  ASSUME FewestInv, BuildIntervalWorkItems
  PROVE  Physical' /\ Forward' /\ NothingLost'
<1> USE DEF BuildIntervalWorkItems, input, FewestInv
<1>1. items = {} /\ pending = {}
  BY DEF Inv, Unscanned, TypeOK
<1>2. Allocated' = {} /\ Resident' = {}
  BY <1>1 DEF Allocated, Resident
<1>3. Physical'
  BY <1>2 DEF Physical
<1>4. NothingLost'
  <2> SUFFICES ASSUME NEW vs \in SUBSET items', FitsThroughout(vs)'
               PROVE  \E ws \in SUBSET items' :
                        /\ FitsThroughout(ws)'
                        /\ Cardinality(vs) <= Cardinality(ws)
                        /\ ws \cap Allocated' \subseteq Resident'
    BY DEF NothingLost
  <2>1. Cardinality(vs) \in Nat
    <3>1. vs \in SUBSET VirtualRegisters
      BY <1>1
    <3> QED BY <3>1, LivenessAssumption, FS_Subset, FS_CardinalityType
  <2> QED BY <1>2, <2>1
<1>5. Forward'
  <2>1. CASE items' = {}
    BY <2>1 DEF Forward
  <2>2. CASE phase' = "scan"
    <3> SUFFICES ASSUME NEW v \in items'
                 PROVE  intervals'[v].start <= intervals'[v].end
      BY DEF Forward, Start, End
    <3>1. /\ v \in VirtualRegisters /\ ranges[v] # {} /\ ranges[v] \in RangeLists
          /\ intervals'[v] = Hull(ranges[v])
      BY <2>2 DEF Inv, TypeOK
    <3>2. PICK r \in ranges[v] : TRUE
      BY <3>1
    <3>3. r \in IrLiveRange /\ r.start \in Nat /\ r.end \in Nat /\ ~(r.end < r.start)
      BY <2>2, <3>1, LivenessAssumption DEF IrLiveRange, Invalid
    <3>4. /\ Hull(ranges[v]).start \in Nat /\ Hull(ranges[v]).end \in Nat
          /\ Hull(ranges[v]).start <= r.start /\ r.end <= Hull(ranges[v]).end
      BY <3>1, HullCovers DEF IrLiveRange
    <3> QED BY <3>1, <3>3, <3>4
  <2> QED BY <1>1, <2>1, <2>2
<1> QED BY <1>3, <1>4, <1>5

\* The strengthened invariant is kept by every step.
LEMMA FewestKept == FewestInv /\ [Next]_vars => FewestInv'
<1> SUFFICES ASSUME FewestInv, [Next]_vars PROVE FewestInv'
  OBVIOUS
<1>1. Inv'
  BY NextInv DEF FewestInv
<1>2. CASE BuildIntervalWorkItems
  BY <1>1, <1>2, BuildFewest DEF FewestInv
<1>3. ASSUME NEW v \in VirtualRegisters, Allocate(v)
      PROVE  FewestInv'
  <2>1. Physical' /\ NothingLost'
    BY <1>3, TakeFewest, EvictFewest, SpillFewest DEF Allocate
  <2>2. Forward'
    <3>1. items' = items /\ items \subseteq VirtualRegisters
      BY <1>3 DEF Allocate, FewestInv, Inv, TypeOK
    <3>2. \A w \in VirtualRegisters : Start(w)' = Start(w) /\ End(w)' = End(w)
      BY <1>3, RoundFacts DEF FewestInv
    <3> QED BY <3>1, <3>2 DEF FewestInv, Forward
  <2> QED BY <1>1, <2>1, <2>2 DEF FewestInv
<1>4. CASE UNCHANGED vars
  <2>1. UNCHANGED <<registerCount, intervals, items, pending, assignments>>
    BY <1>4 DEF vars, input
  <2>2. Physical' /\ Forward'
    BY <2>1 DEF FewestInv, Physical, Forward, Resident, Allocated, Registers, Start, End
  <2>3. NothingLost'
    BY <2>1 DEF FewestInv, NothingLost, FitsThroughout, Meeting, Start, End, Resident, Allocated
  <2> QED BY <1>1, <2>2, <2>3 DEF FewestInv
<1> QED BY <1>2, <1>3, <1>4 DEF Next

\* Nothing is lost at first.
LEMMA FewestBegins == Init => FewestInv
<1> SUFFICES ASSUME Init PROVE FewestInv
  OBVIOUS
<1>1. Inv /\ items = {} /\ Resident = {} /\ Allocated = {}
  BY InitInv DEF Init, Resident, Allocated
<1>2. NothingLost
  BY <1>1, FS_EmptySet DEF NothingLost
<1> QED BY <1>1, <1>2 DEF FewestInv, Physical, Forward

\* FewestInv holds throughout the scan.
LEMMA FewestInvariance == Spec => []FewestInv
BY FewestBegins, FewestKept, PTL DEF Spec

\* At the end of the scan nothing lost means that nothing else keeps more.
LEMMA FewestKnown == FewestInv => SpillsFewest
<1> SUFFICES ASSUME FewestInv, pending = {}, NEW vs \in SUBSET items, Fits(vs)
             PROVE  Cardinality(vs) <= Cardinality(Resident)
  BY DEF SpillsFewest
<1>1. FitsThroughout(vs)
  BY FitsPointwise DEF FewestInv
<1>2. PICK ws \in SUBSET items :
        /\ Cardinality(vs) <= Cardinality(ws)
        /\ ws \cap Allocated \subseteq Resident
  BY <1>1 DEF FewestInv, NothingLost
<1>3. Allocated = items /\ Resident \in SUBSET items
  BY DEF Allocated, Resident
<1>4. Cardinality(ws) <= Cardinality(Resident)
  <2>1. ws \in SUBSET Resident
    BY <1>2, <1>3
  <2> QED BY <1>3, <2>1, ChoicesFinite, FS_Subset DEF FewestInv
<1>5. Cardinality(vs) \in Nat /\ Cardinality(ws) \in Nat /\ Cardinality(Resident) \in Nat
  BY <1>3, ChoicesFinite DEF FewestInv
<1> QED BY <1>2, <1>4, <1>5

\* No allocation, however chosen, keeps more intervals in registers than the scan
\* does: spilling the farthest end first (pickSpillCandidate) is optimal for every
\* function and every number of registers.
THEOREM ScanSpillsFewest == Spec => []SpillsFewest
BY FewestKnown, FewestInvariance, PTL
-----------------------------------------------------------------------------
(***************************************************************************)
(* Spill slots.                                                            *)
(***************************************************************************)
SpilledItems == Allocated \ Resident

\* A round that spills one more interval, x, gives it the next slot.
LEMMA SpillsOne ==
  ASSUME Inv, SpillSlotsDistinct, NEW v \in VirtualRegisters, Allocate(v), NEW x,
         x \notin SpilledItems, SpilledItems' = SpilledItems \cup {x},
         assignments'[x].spillSlot = nextSpillSlot, nextSpillSlot' = nextSpillSlot + 1,
         \A u \in SpilledItems : assignments'[u] = assignments[u]
  PROVE  SpillSlotsDistinct'
<1>1. /\ \A u \in SpilledItems : assignments[u].spillSlot < nextSpillSlot
      /\ \A u, w \in SpilledItems : u # w => assignments[u].spillSlot # assignments[w].spillSlot
      /\ Cardinality(SpilledItems) = nextSpillSlot
  BY DEF SpillSlotsDistinct, SpilledItems
<1>2. /\ IsFiniteSet(SpilledItems) /\ nextSpillSlot \in Nat
      /\ \A u \in SpilledItems : assignments[u].spillSlot \in Nat
  <2>1. SpilledItems \in SUBSET items
    BY DEF SpilledItems, Allocated
  <2> QED BY <2>1, ChoicesFinite DEF Inv, TypeOK, Assignment
<1> HIDE DEF SpilledItems
<1>3. \A u \in SpilledItems' : assignments'[u].spillSlot < nextSpillSlot'
  BY <1>1, <1>2
<1>4. \A u, w \in SpilledItems' : u # w => assignments'[u].spillSlot # assignments'[w].spillSlot
  BY <1>1, <1>2
<1>5. Cardinality(SpilledItems') = nextSpillSlot'
  BY <1>1, <1>2, FS_AddElement
<1> QED BY <1>3, <1>4, <1>5 DEF SpillSlotsDistinct, SpilledItems

\* Each of the three ways to treat an interval leaves the slots numbered.
LEMMA RoundSlots ==
  ASSUME Inv, SpillSlotsDistinct, NEW v \in VirtualRegisters, Allocate(v)
  PROVE  SpillSlotsDistinct'
<1> USE RoundFacts, RoundSets
<1>0. assignments \in [VirtualRegisters -> Assignment] /\ nextSpillSlot \in Nat
  BY DEF Inv, TypeOK
<1>1. CASE TakeFreeRegister(v)
  <2>1. PICK r \in FreeAfter(v) : assignments' = [assignments EXCEPT ![v] = InRegister(r)]
    BY <1>1 DEF TakeFreeRegister
  <2>2. /\ ~assignments'[v].spilled
        /\ \A u \in Allocated : assignments'[u] = assignments[u]
    BY <1>0, <2>1 DEF InRegister
  <2>3. SpilledItems' = SpilledItems
    BY <2>2 DEF SpilledItems, Resident
  <2>4. nextSpillSlot' = nextSpillSlot
    BY <1>1 DEF TakeFreeRegister
  <2>5. \A u \in SpilledItems : assignments'[u] = assignments[u]
    BY <2>2 DEF SpilledItems
  <2> QED BY <2>3, <2>4, <2>5 DEF SpillSlotsDistinct, SpilledItems
<1>2. CASE EvictFor(v)
  <2>1. PICK c \in active :
          assignments' = [assignments EXCEPT
                            ![c] = Spill(c),
                            ![v] = InRegister(assignments[c].physicalRegister)]
    BY <1>2 DEF EvictFor
  <2>2. c \in VirtualRegisters /\ c # v /\ c \in Resident
    OBVIOUS
  <2>3. /\ assignments'[c] = Spill(c)
        /\ assignments'[v] = InRegister(assignments[c].physicalRegister)
        /\ \A u \in Allocated \ {c} : assignments'[u] = assignments[u]
    BY ZenonT(30), <1>0, <2>1, <2>2
  <2>4. /\ assignments'[c].spilled /\ assignments'[c].spillSlot = nextSpillSlot
        /\ ~assignments'[v].spilled
    BY <2>3 DEF Spill, InRegister
  <2>5. SpilledItems' = SpilledItems \cup {c} /\ c \notin SpilledItems
    BY <2>2, <2>3, <2>4 DEF SpilledItems, Resident
  <2>6. \A u \in SpilledItems : assignments'[u] = assignments[u]
    BY <2>3, <2>5 DEF SpilledItems
  <2>7. nextSpillSlot' = nextSpillSlot + 1
    BY <1>2 DEF EvictFor, NextSlot
  <2> QED BY <2>4, <2>5, <2>6, <2>7, SpillsOne
<1>3. CASE SpillNew(v)
  <2>1. assignments' = [assignments EXCEPT ![v] = Spill(v)]
    BY <1>3 DEF SpillNew
  <2>2. /\ assignments'[v] = Spill(v)
        /\ \A u \in Allocated : assignments'[u] = assignments[u]
    BY <1>0, <2>1
  <2>3. assignments'[v].spilled /\ assignments'[v].spillSlot = nextSpillSlot
    BY <2>2 DEF Spill
  <2>4. SpilledItems' = SpilledItems \cup {v} /\ v \notin SpilledItems
    BY <2>2, <2>3 DEF SpilledItems, Resident
  <2>5. \A u \in SpilledItems : assignments'[u] = assignments[u]
    BY <2>2 DEF SpilledItems
  <2>6. nextSpillSlot' = nextSpillSlot + 1
    BY <1>3 DEF SpillNew, NextSlot
  <2> QED BY <2>3, <2>4, <2>5, <2>6, SpillsOne
<1> QED BY <1>1, <1>2, <1>3 DEF Allocate

\* Building the work items spills nothing, and each round leaves the slots numbered.
LEMMA SlotsKept == Inv /\ SpillSlotsDistinct /\ [Next]_vars => SpillSlotsDistinct'
<1> SUFFICES ASSUME Inv, SpillSlotsDistinct, [Next]_vars PROVE SpillSlotsDistinct'
  OBVIOUS
<1>1. CASE BuildIntervalWorkItems
  <2>1. Allocated = {} /\ Allocated' = {} /\ nextSpillSlot' = nextSpillSlot
    BY <1>1 DEF BuildIntervalWorkItems, Inv, Unscanned, TypeOK, Allocated
  <2> QED BY <2>1 DEF SpillSlotsDistinct, Resident
<1>2. ASSUME NEW v \in VirtualRegisters, Allocate(v)
      PROVE  SpillSlotsDistinct'
  BY <1>2, RoundSlots
<1>3. CASE UNCHANGED vars
  BY <1>3 DEF vars, input, SpillSlotsDistinct, Allocated, Resident
<1> QED BY <1>1, <1>2, <1>3 DEF Next

\* Nothing is spilled at first.
LEMMA SlotsBegin == Init => SpillSlotsDistinct
BY FS_EmptySet DEF Init, SpillSlotsDistinct, Allocated, Resident

\* Spill slots are numbered from 0 without gaps and none is given twice, as
\* verifyFunctionAllocation and the spill insertion take for granted.
THEOREM SlotsNumbered == Spec => []SpillSlotsDistinct
BY SlotsBegin, SlotsKept, Invariance, PTL DEF Spec

-----------------------------------------------------------------------------
\* A set that contains 0, and with each number the next, contains them all.
LEMMA SetInduction ==
  ASSUME NEW S, 0 \in S, \A n \in Nat : n \in S => n + 1 \in S
  PROVE  \A n \in Nat : n \in S
<1> DEFINE U == {n \in Nat : n \notin S}
<1>1. SUFFICES ASSUME U # {} PROVE FALSE
  OBVIOUS
<1>2. PICK u \in U : \A v \in U : u <= v
  <2> HIDE DEF U
  <2>1. U \in SUBSET Nat
    BY DEF U
  <2> QED BY <1>1, <2>1, LeastNatural
<1>3. u # 0 /\ u \in Nat
  OBVIOUS
<1>4. u - 1 \in Nat /\ ~(u <= u - 1)
  BY <1>3, SMT
<1>5. u - 1 \in S
  BY <1>2, <1>4
<1>6. (u - 1) + 1 \in S
  BY <1>4, <1>5
<1>7. (u - 1) + 1 = u
  BY <1>3, SMT
<1> QED BY <1>6, <1>7

-----------------------------------------------------------------------------
(***************************************************************************)
(* Instructions and blocks.                                                *)
(***************************************************************************)
\* A sequence without elements is empty.
LEMMA EmptyIfNone ==
  ASSUME NEW S, NEW s \in Seq(S), Len(s) = 0
  PROVE  s = <<>>
<1>1. s = [i \in 1 .. Len(s) |-> s[i]]
  OBVIOUS
<1> QED BY <1>1

\* An element of a sequence.
LEMMA ElementOf ==
  ASSUME NEW S, NEW s \in Seq(S), NEW i \in 1 .. Len(s)
  PROVE  s[i] \in S
OBVIOUS

\* A function is a non-empty sequence of instructions.
LEMMA CodeFacts ==
  ASSUME code \in Codes
  PROVE  /\ Size \in Nat /\ 1 <= Size
         /\ Instructions = 1 .. Size /\ DOMAIN code = 1 .. Size
         /\ \A i \in 1 .. Size : code[i].imm \in Nat
<1>1. code \in Seq([op : STRING, imm : Nat]) /\ code # <<>>
  BY CodesAssumption
<1>2. Len(code) \in Nat /\ DOMAIN code = 1 .. Len(code)
  BY <1>1
<1>3. Len(code) # 0
  BY <1>1, EmptyIfNone
<1>4. ASSUME NEW i \in 1 .. Len(code) PROVE code[i].imm \in Nat
  <2>1. code[i] \in [op : STRING, imm : Nat]
    <3> DEFINE Inst == [op : STRING, imm : Nat]
    <3>1. code \in Seq(Inst)
      BY <1>1
    <3> HIDE DEF Inst
    <3>2. code[i] \in Inst
      BY <3>1, ElementOf
    <3> QED BY <3>2 DEF Inst
  <2> QED BY <2>1
<1> QED BY <1>2, <1>3, <1>4 DEF Size, Instructions

\* What an instruction pops, pushes and reads is a number.
LEMMA EffectTypes ==
  ASSUME code \in Codes, NEW i \in 1 .. Size
  PROVE  /\ Pops(i) \in Nat
         /\ Pushes(i) \in {0, 1}
         /\ ReadsWithoutPop(i) \in {0, 1}
<1>1. code[i].imm \in Nat
  BY CodeFacts
<1>2. Pops(i) \in {0, 1, 2, code[i].imm}
  BY DEF Pops
<1> QED BY <1>1, <1>2 DEF Pushes, ReadsWithoutPop

\* Blocks begin at instructions, and the first one at the first.
LEMMA LeadersInCode ==
  ASSUME code \in Codes
  PROVE  Leaders \subseteq 1 .. Size /\ 1 \in Leaders
BY CodeFacts DEF Leaders

\* A block ends where the next begins or the code does.
LEMMA BlockEnds ==
  ASSUME code \in Codes, NEW b \in Leaders
  PROVE  /\ LastOf(b) \in b .. Size
         /\ LastOf(b) = Size \/ LastOf(b) + 1 \in Leaders
         /\ \A j \in (b + 1) .. LastOf(b) : j \notin Leaders
<1> DEFINE U == {i \in b .. Size : i = Size \/ i + 1 \in Leaders}
           Ends(i) == /\ i = Size \/ i + 1 \in Leaders
                      /\ \A j \in (b + 1) .. i : j \notin Leaders
<1>1. Size \in Nat /\ b \in 1 .. Size /\ Size \in b .. Size
  BY CodeFacts, LeadersInCode
<1>2. U \in SUBSET Nat /\ U # {}
  BY <1>1
<1>3. PICK u \in U : \A w \in U : u <= w
  <2> HIDE DEF U
  <2> QED BY <1>2, LeastNatural
<1>4. u \in b .. Size /\ (u = Size \/ u + 1 \in Leaders)
  BY <1>3
<1>5. ASSUME NEW j \in (b + 1) .. u, j \in Leaders PROVE FALSE
  <2>1. j - 1 \in b .. Size /\ (j - 1) + 1 = j /\ ~(u <= j - 1)
    BY <1>1, <1>4
  <2>2. j - 1 \in U
    BY <1>5, <2>1
  <2> QED BY <1>3, <2>1, <2>2
<1>6. \E i \in b .. Size : Ends(i)
  BY <1>4, <1>5
<1>7. LastOf(b) = CHOOSE i \in b .. Size : Ends(i)
  BY DEF LastOf
<1> HIDE DEF Ends
<1>8. LastOf(b) \in b .. Size /\ Ends(LastOf(b))
  BY <1>6, <1>7
<1> QED BY <1>8 DEF Ends

\* An instruction is in one block.
LEMMA BlocksApart ==
  ASSUME code \in Codes, NEW b \in Leaders, NEW c \in Leaders, NEW i \in Body(b), i \in Body(c)
  PROVE  b = c
<1>1. /\ b \in 1 .. Size /\ c \in 1 .. Size /\ Size \in Nat
      /\ LastOf(b) \in b .. Size /\ LastOf(c) \in c .. Size
  BY CodeFacts, LeadersInCode, BlockEnds
<1>2. i \in b .. LastOf(b) /\ i \in c .. LastOf(c)
  BY DEF Body
<1>3. ~(c \in (b + 1) .. LastOf(b)) /\ ~(b \in (c + 1) .. LastOf(c))
  BY BlockEnds
<1> QED BY <1>1, <1>2, <1>3

\* An instruction of a block's body belongs to that block and to no other.
LEMMA BlockOfIs ==
  ASSUME code \in Codes, NEW b \in Leaders, NEW i \in Body(b)
  PROVE  BlockOf(i) = b
BY BlocksApart DEF BlockOf

\* A block's instructions follow its first one, and successors are blocks.
LEMMA BlockFacts ==
  ASSUME code \in Codes, NEW b \in Leaders
  PROVE  /\ Size \in Nat /\ b \in 1 .. Size /\ LastOf(b) \in b .. Size
         /\ Body(b) = b .. LastOf(b) /\ Body(b) \subseteq 1 .. Size
         /\ b \in Body(b) /\ LastOf(b) \in Body(b)
         /\ Successors(b) \subseteq Leaders
<1>1. Size \in Nat /\ b \in 1 .. Size /\ LastOf(b) \in b .. Size
  BY CodeFacts, LeadersInCode, BlockEnds
<1> QED BY <1>1 DEF Body, Successors

-----------------------------------------------------------------------------
(***************************************************************************)
(* What the recursive functions of a block compute.                        *)
(***************************************************************************)
\* The depth before a block, and after each of its instructions.
LEMMA DepthSteps ==
  ASSUME code \in Codes, NEW b \in Leaders
  PROVE  /\ DOMAIN DepthAfter(b) = (b - 1) .. LastOf(b)
         /\ DepthAfter(b)[b - 1] = depth[b]
         /\ \A i \in Body(b) : DepthAfter(b)[i] = DepthAfter(b)[i - 1] - Pops(i) + Pushes(i)
<1> DEFINE lo == b - 1
           hi == LastOf(b)
           First == depth[b]
           Step(x, i) == x - Pops(i) + Pushes(i)
           Solves(f, n) == f = [i \in lo .. n |-> IF i = lo THEN First ELSE Step(f[i - 1], i)]
           S == {n \in Nat : \E f : Solves(f, lo + n)}
<1>1. lo \in Int /\ hi \in Int /\ lo <= hi
  BY BlockFacts
<1> HIDE DEF lo, hi, First, Step
<1>2. 0 \in S
  <2>1. lo .. (lo + 0) = {lo}
    BY <1>1
  <2>2. Solves([i \in {lo} |-> First], lo + 0)
    BY <2>1
  <2> QED BY <2>2
<1>3. ASSUME NEW n \in Nat, n \in S PROVE n + 1 \in S
  <2>1. PICK g : Solves(g, lo + n)
    BY <1>3
  <2> DEFINE h == [i \in lo .. (lo + (n + 1)) |->
                     IF i = lo + (n + 1) THEN Step(g[i - 1], i) ELSE g[i]]
  <2>2. ASSUME NEW i \in lo .. (lo + (n + 1))
        PROVE  h[i] = IF i = lo THEN First ELSE Step(h[i - 1], i)
    <3>1. CASE i = lo + (n + 1)
      <4>1. i # lo /\ i - 1 \in lo .. (lo + (n + 1)) /\ i - 1 # lo + (n + 1)
        BY <1>1, <3>1
      <4> QED BY <3>1, <4>1
    <3>2. CASE i # lo + (n + 1)
      <4>1. i \in lo .. (lo + n)
        BY <1>1, <3>2
      <4>2. h[i] = IF i = lo THEN First ELSE Step(g[i - 1], i)
        BY <2>1, <3>2, <4>1
      <4>3. i # lo => i - 1 \in lo .. (lo + (n + 1)) /\ i - 1 # lo + (n + 1)
        BY <1>1, <4>1
      <4> QED BY <4>2, <4>3
    <3> QED BY <3>1, <3>2
  <2>3. Solves(h, lo + (n + 1))
    <3>1. h = [i \in lo .. (lo + (n + 1)) |-> h[i]]
      OBVIOUS
    <3> HIDE DEF h
    <3> QED BY <2>2, <3>1
  <2> HIDE DEF h, Solves
  <2> QED BY <2>3
<1>4. \A n \in Nat : n \in S
  <2> HIDE DEF S
  <2> QED BY <1>2, <1>3, SetInduction
<1>5. \E f : Solves(f, hi)
  <2>1. hi - lo \in Nat /\ lo + (hi - lo) = hi
    BY <1>1
  <2>2. hi - lo \in S
    <3> HIDE DEF S
    <3> QED BY <1>4, <2>1
  <2> QED BY <2>1, <2>2
<1> DEFINE F == CHOOSE f : Solves(f, hi)
<1>6. Solves(F, hi)
  BY <1>5
<1>7. DepthAfter(b) = F
  BY DEF DepthAfter, F, Solves, First, Step, lo, hi
<1> HIDE DEF F
<1>8. /\ DOMAIN F = lo .. hi
      /\ F[lo] = First
      /\ \A i \in lo .. hi : i # lo => F[i] = Step(F[i - 1], i)
  BY <1>1, <1>6
<1>9. \A i \in Body(b) : i \in lo .. hi /\ i # lo
  BY BlockFacts DEF lo, hi
<1> QED BY <1>7, <1>8, <1>9 DEF lo, hi, First, Step

\* The registers on the stack before a block, and after each of its instructions.
LEMMA StackSteps ==
  ASSUME code \in Codes, NEW b \in Leaders
  PROVE  /\ DOMAIN StackAfter(b) = (b - 1) .. LastOf(b)
         /\ StackAfter(b)[b - 1] = Entry(b)
         /\ \A i \in Body(b) :
              StackAfter(b)[i] = Without(StackAfter(b)[i - 1], Pops(i)) \o Results(i)
<1> DEFINE lo == b - 1
           hi == LastOf(b)
           First == Entry(b)
           Step(x, i) == Without(x, Pops(i)) \o Results(i)
           Solves(f, n) == f = [i \in lo .. n |-> IF i = lo THEN First ELSE Step(f[i - 1], i)]
           S == {n \in Nat : \E f : Solves(f, lo + n)}
<1>1. lo \in Int /\ hi \in Int /\ lo <= hi
  BY BlockFacts
<1> HIDE DEF lo, hi, First, Step
<1>2. 0 \in S
  <2>1. lo .. (lo + 0) = {lo}
    BY <1>1
  <2>2. Solves([i \in {lo} |-> First], lo + 0)
    BY <2>1
  <2> QED BY <2>2
<1>3. ASSUME NEW n \in Nat, n \in S PROVE n + 1 \in S
  <2>1. PICK g : Solves(g, lo + n)
    BY <1>3
  <2> DEFINE h == [i \in lo .. (lo + (n + 1)) |->
                     IF i = lo + (n + 1) THEN Step(g[i - 1], i) ELSE g[i]]
  <2>2. ASSUME NEW i \in lo .. (lo + (n + 1))
        PROVE  h[i] = IF i = lo THEN First ELSE Step(h[i - 1], i)
    <3>1. CASE i = lo + (n + 1)
      <4>1. i # lo /\ i - 1 \in lo .. (lo + (n + 1)) /\ i - 1 # lo + (n + 1)
        BY <1>1, <3>1
      <4> QED BY <3>1, <4>1
    <3>2. CASE i # lo + (n + 1)
      <4>1. i \in lo .. (lo + n)
        BY <1>1, <3>2
      <4>2. h[i] = IF i = lo THEN First ELSE Step(g[i - 1], i)
        BY <2>1, <3>2, <4>1
      <4>3. i # lo => i - 1 \in lo .. (lo + (n + 1)) /\ i - 1 # lo + (n + 1)
        BY <1>1, <4>1
      <4> QED BY <4>2, <4>3
    <3> QED BY <3>1, <3>2
  <2>3. Solves(h, lo + (n + 1))
    <3>1. h = [i \in lo .. (lo + (n + 1)) |-> h[i]]
      OBVIOUS
    <3> HIDE DEF h
    <3> QED BY <2>2, <3>1
  <2> HIDE DEF h, Solves
  <2> QED BY <2>3
<1>4. \A n \in Nat : n \in S
  <2> HIDE DEF S
  <2> QED BY <1>2, <1>3, SetInduction
<1>5. \E f : Solves(f, hi)
  <2>1. hi - lo \in Nat /\ lo + (hi - lo) = hi
    BY <1>1
  <2>2. hi - lo \in S
    <3> HIDE DEF S
    <3> QED BY <1>4, <2>1
  <2> QED BY <2>1, <2>2
<1> DEFINE F == CHOOSE f : Solves(f, hi)
<1>6. Solves(F, hi)
  BY <1>5
<1>7. StackAfter(b) = F
  BY DEF StackAfter, F, Solves, First, Step, lo, hi
<1> HIDE DEF F
<1>8. /\ DOMAIN F = lo .. hi
      /\ F[lo] = First
      /\ \A i \in lo .. hi : i # lo => F[i] = Step(F[i - 1], i)
  BY <1>1, <1>6
<1>9. \A i \in Body(b) : i \in lo .. hi /\ i # lo
  BY BlockFacts DEF lo, hi
<1> QED BY <1>7, <1>8, <1>9 DEF lo, hi, First, Step
-----------------------------------------------------------------------------
\* A block's schedule grows by the instruction picked of those that are ready.
ReadyIn(b, done) == {j \in Body(b) \ done : \A i \in Body(b) : Precedes(i, j) => i \in done}
PickedIn(b, done) ==
  CHOOSE j \in ReadyIn(b, done) :
    \A k \in ReadyIn(b, done) : Latency(j) > Latency(k) \/ (Latency(j) = Latency(k) /\ j <= k)

\* A block has as many instructions as lie between its first and its last.
LEMMA BodyCounted ==
  ASSUME code \in Codes, NEW b \in Leaders
  PROVE  /\ IsFiniteSet(Body(b))
         /\ Cardinality(Body(b)) = LastOf(b) - b + 1
         /\ Cardinality(Body(b)) \in Nat
<1>1. b \in Int /\ LastOf(b) \in Int /\ b <= LastOf(b)
  BY BlockFacts
<1>2. /\ IsFiniteSet(b .. LastOf(b))
      /\ Cardinality(b .. LastOf(b)) = LastOf(b) - b + 1
  BY <1>1, FS_Interval
<1> QED BY <1>1, <1>2 DEF Body

\* A block's schedule is built one picked instruction at a time
\* (buildBlockSchedule's loop).
LEMMA ScheduleSteps ==
  ASSUME code \in Codes, NEW b \in Leaders
  PROVE  \E f : /\ BlockSchedule(b) = f[Cardinality(Body(b))]
                /\ f[0] = <<>>
                /\ \A n \in 1 .. Cardinality(Body(b)) :
                     f[n] = Append(f[n - 1], PickedIn(b, Elements(f[n - 1])))
<1> DEFINE lo == 0
           hi == Cardinality(Body(b))
           First == <<>>
           Step(x, i) == Append(x, PickedIn(b, Elements(x)))
           Solves(f, n) == f = [i \in lo .. n |-> IF i = lo THEN First ELSE Step(f[i - 1], i)]
           S == {n \in Nat : \E f : Solves(f, lo + n)}
<1>1. lo \in Int /\ hi \in Int /\ lo <= hi
  BY BodyCounted
<1> HIDE DEF lo, hi, First, Step
<1>2. 0 \in S
  <2>1. lo .. (lo + 0) = {lo}
    BY <1>1
  <2>2. Solves([i \in {lo} |-> First], lo + 0)
    BY <2>1
  <2> QED BY <2>2
<1>3. ASSUME NEW n \in Nat, n \in S PROVE n + 1 \in S
  <2>1. PICK g : Solves(g, lo + n)
    BY <1>3
  <2> DEFINE h == [i \in lo .. (lo + (n + 1)) |->
                     IF i = lo + (n + 1) THEN Step(g[i - 1], i) ELSE g[i]]
  <2>2. ASSUME NEW i \in lo .. (lo + (n + 1))
        PROVE  h[i] = IF i = lo THEN First ELSE Step(h[i - 1], i)
    <3>1. CASE i = lo + (n + 1)
      <4>1. i # lo /\ i - 1 \in lo .. (lo + (n + 1)) /\ i - 1 # lo + (n + 1)
        BY <1>1, <3>1
      <4> QED BY <3>1, <4>1
    <3>2. CASE i # lo + (n + 1)
      <4>1. i \in lo .. (lo + n)
        BY <1>1, <3>2
      <4>2. h[i] = IF i = lo THEN First ELSE Step(g[i - 1], i)
        BY <2>1, <3>2, <4>1
      <4>3. i # lo => i - 1 \in lo .. (lo + (n + 1)) /\ i - 1 # lo + (n + 1)
        BY <1>1, <4>1
      <4> QED BY <4>2, <4>3
    <3> QED BY <3>1, <3>2
  <2>3. Solves(h, lo + (n + 1))
    <3>1. h = [i \in lo .. (lo + (n + 1)) |-> h[i]]
      OBVIOUS
    <3> HIDE DEF h
    <3> QED BY <2>2, <3>1
  <2> HIDE DEF h, Solves
  <2> QED BY <2>3
<1>4. \A n \in Nat : n \in S
  <2> HIDE DEF S
  <2> QED BY <1>2, <1>3, SetInduction
<1>5. \E f : Solves(f, hi)
  <2>1. hi - lo \in Nat /\ lo + (hi - lo) = hi
    BY <1>1
  <2>2. hi - lo \in S
    <3> HIDE DEF S
    <3> QED BY <1>4, <2>1
  <2> QED BY <2>1, <2>2
<1> DEFINE F == CHOOSE f : Solves(f, hi)
<1>6. Solves(F, hi)
  BY <1>5
<1>7. BlockSchedule(b) = F[hi]
  BY DEF BlockSchedule, F, Solves, First, Step, lo, hi, PickedIn, ReadyIn
<1> HIDE DEF F
<1>8. /\ DOMAIN F = lo .. hi
      /\ F[lo] = First
      /\ \A i \in lo .. hi : i # lo => F[i] = Step(F[i - 1], i)
  BY <1>1, <1>6
<1>9. \A i \in 1 .. Cardinality(Body(b)) : i \in lo .. hi /\ i # lo
  BY BodyCounted DEF lo, hi
<1> QED BY <1>7, <1>8, <1>9 DEF lo, hi, First, Step

\* A run of a block does its instructions one after the other.
StepOf(kind, i, run) ==
  IF kind = "stack" THEN OnStack(i, run) ELSE OnRegisters(kind, i, run)

RunsAs(kind, b, f) ==
  /\ RunOfBlock(kind, b) = f[Len(InOrder(kind, b))]
  /\ f[0] = runs[kind]
  /\ \A n \in 1 .. Len(InOrder(kind, b)) :
       f[n] = StepOf(kind, InOrder(kind, b)[n], f[n - 1])

\* A block's run is made of the runs after each of its instructions.
LEMMA RunSteps ==
  ASSUME NEW kind, NEW b, Len(InOrder(kind, b)) \in Nat
  PROVE  \E f : RunsAs(kind, b, f)
<1> DEFINE lo == 0
           hi == Len(InOrder(kind, b))
           First == runs[kind]
           Step(x, i) == StepOf(kind, InOrder(kind, b)[i], x)
           Solves(f, n) == f = [i \in lo .. n |-> IF i = lo THEN First ELSE Step(f[i - 1], i)]
           S == {n \in Nat : \E f : Solves(f, lo + n)}
<1>1. lo \in Int /\ hi \in Int /\ lo <= hi
  OBVIOUS
<1> HIDE DEF lo, hi, First, Step
<1>2. 0 \in S
  <2>1. lo .. (lo + 0) = {lo}
    BY <1>1
  <2>2. Solves([i \in {lo} |-> First], lo + 0)
    BY <2>1
  <2> QED BY <2>2
<1>3. ASSUME NEW n \in Nat, n \in S PROVE n + 1 \in S
  <2>1. PICK g : Solves(g, lo + n)
    BY <1>3
  <2> DEFINE h == [i \in lo .. (lo + (n + 1)) |->
                     IF i = lo + (n + 1) THEN Step(g[i - 1], i) ELSE g[i]]
  <2>2. ASSUME NEW i \in lo .. (lo + (n + 1))
        PROVE  h[i] = IF i = lo THEN First ELSE Step(h[i - 1], i)
    <3>1. CASE i = lo + (n + 1)
      <4>1. i # lo /\ i - 1 \in lo .. (lo + (n + 1)) /\ i - 1 # lo + (n + 1)
        BY <1>1, <3>1
      <4> QED BY <3>1, <4>1
    <3>2. CASE i # lo + (n + 1)
      <4>1. i \in lo .. (lo + n)
        BY <1>1, <3>2
      <4>2. h[i] = IF i = lo THEN First ELSE Step(g[i - 1], i)
        BY <2>1, <3>2, <4>1
      <4>3. i # lo => i - 1 \in lo .. (lo + (n + 1)) /\ i - 1 # lo + (n + 1)
        BY <1>1, <4>1
      <4> QED BY <4>2, <4>3
    <3> QED BY <3>1, <3>2
  <2>3. Solves(h, lo + (n + 1))
    <3>1. h = [i \in lo .. (lo + (n + 1)) |-> h[i]]
      OBVIOUS
    <3> HIDE DEF h
    <3> QED BY <2>2, <3>1
  <2> HIDE DEF h, Solves
  <2> QED BY <2>3
<1>4. \A n \in Nat : n \in S
  <2> HIDE DEF S
  <2> QED BY <1>2, <1>3, SetInduction
<1>5. \E f : Solves(f, hi)
  <2>1. hi - lo \in Nat /\ lo + (hi - lo) = hi
    BY <1>1
  <2>2. hi - lo \in S
    <3> HIDE DEF S
    <3> QED BY <1>4, <2>1
  <2> QED BY <2>1, <2>2
<1> DEFINE F == CHOOSE f : Solves(f, hi)
<1>6. Solves(F, hi)
  BY <1>5
<1>7. RunOfBlock(kind, b) = F[hi]
  BY DEF RunOfBlock, StepOf, F, Solves, First, Step, lo, hi
<1> HIDE DEF F
<1>8. /\ DOMAIN F = lo .. hi
      /\ F[lo] = First
      /\ \A i \in lo .. hi : i # lo => F[i] = Step(F[i - 1], i)
  BY <1>1, <1>6
<1>9. \A i \in 1 .. Len(InOrder(kind, b)) : i \in lo .. hi /\ i # lo
  BY DEF lo, hi
<1> QED BY <1>7, <1>8, <1>9 DEF lo, hi, First, Step, RunsAs

\* From where a function can end, by the number of blocks on the way.
LEMMA CanEndSteps ==
  ASSUME code \in Codes
  PROVE  \E f : /\ CanEnd = f[Size]
                /\ f[0] = {b \in Reachable : Leaves(b)}
                /\ \A n \in 1 .. Size :
                     f[n] = f[n - 1] \cup {b \in Reachable : Successors(b) \cap f[n - 1] # {}}
<1> DEFINE lo == 0
           hi == Size
           First == {b \in Reachable : Leaves(b)}
           Step(x, i) == x \cup {b \in Reachable : Successors(b) \cap x # {}}
           Solves(f, n) == f = [i \in lo .. n |-> IF i = lo THEN First ELSE Step(f[i - 1], i)]
           S == {n \in Nat : \E f : Solves(f, lo + n)}
<1>1. lo \in Int /\ hi \in Int /\ lo <= hi
  BY CodeFacts
<1> HIDE DEF lo, hi, First, Step
<1>2. 0 \in S
  <2>1. lo .. (lo + 0) = {lo}
    BY <1>1
  <2>2. Solves([i \in {lo} |-> First], lo + 0)
    BY <2>1
  <2> QED BY <2>2
<1>3. ASSUME NEW n \in Nat, n \in S PROVE n + 1 \in S
  <2>1. PICK g : Solves(g, lo + n)
    BY <1>3
  <2> DEFINE h == [i \in lo .. (lo + (n + 1)) |->
                     IF i = lo + (n + 1) THEN Step(g[i - 1], i) ELSE g[i]]
  <2>2. ASSUME NEW i \in lo .. (lo + (n + 1))
        PROVE  h[i] = IF i = lo THEN First ELSE Step(h[i - 1], i)
    <3>1. CASE i = lo + (n + 1)
      <4>1. i # lo /\ i - 1 \in lo .. (lo + (n + 1)) /\ i - 1 # lo + (n + 1)
        BY <1>1, <3>1
      <4> QED BY <3>1, <4>1
    <3>2. CASE i # lo + (n + 1)
      <4>1. i \in lo .. (lo + n)
        BY <1>1, <3>2
      <4>2. h[i] = IF i = lo THEN First ELSE Step(g[i - 1], i)
        BY <2>1, <3>2, <4>1
      <4>3. i # lo => i - 1 \in lo .. (lo + (n + 1)) /\ i - 1 # lo + (n + 1)
        BY <1>1, <4>1
      <4> QED BY <4>2, <4>3
    <3> QED BY <3>1, <3>2
  <2>3. Solves(h, lo + (n + 1))
    <3>1. h = [i \in lo .. (lo + (n + 1)) |-> h[i]]
      OBVIOUS
    <3> HIDE DEF h
    <3> QED BY <2>2, <3>1
  <2> HIDE DEF h, Solves
  <2> QED BY <2>3
<1>4. \A n \in Nat : n \in S
  <2> HIDE DEF S
  <2> QED BY <1>2, <1>3, SetInduction
<1>5. \E f : Solves(f, hi)
  <2>1. hi - lo \in Nat /\ lo + (hi - lo) = hi
    BY <1>1
  <2>2. hi - lo \in S
    <3> HIDE DEF S
    <3> QED BY <1>4, <2>1
  <2> QED BY <2>1, <2>2
<1> DEFINE F == CHOOSE f : Solves(f, hi)
<1>6. Solves(F, hi)
  BY <1>5
<1>7. CanEnd = F[hi]
  BY DEF CanEnd, F, Solves, First, Step, lo, hi
<1> HIDE DEF F
<1>8. /\ DOMAIN F = lo .. hi
      /\ F[lo] = First
      /\ \A i \in lo .. hi : i # lo => F[i] = Step(F[i - 1], i)
  BY <1>1, <1>6
<1>9. \A i \in 1 .. Size : i \in lo .. hi /\ i # lo
  BY CodeFacts DEF lo, hi
<1>10. /\ CanEnd = F[Size]
       /\ F[0] = {b \in Reachable : Leaves(b)}
  BY <1>7, <1>8 DEF lo, hi, First
<1>11. ASSUME NEW n \in 1 .. Size
       PROVE  F[n] = F[n - 1] \cup {b \in Reachable : Successors(b) \cap F[n - 1] # {}}
  BY <1>8, <1>9 DEF Step
<1> QED BY <1>10, <1>11

-----------------------------------------------------------------------------
\* Induction over an interval.
LEMMA IntervalInduction ==
  ASSUME NEW lo \in Int, NEW hi \in Int, NEW P, lo \in P,
         \A i \in lo .. hi : i + 1 <= hi /\ i \in P => i + 1 \in P
  PROVE  \A i \in lo .. hi : i \in P
<1> DEFINE S == {n \in Nat : lo + n <= hi => lo + n \in P}
<1>1. 0 \in S
  OBVIOUS
<1>2. ASSUME NEW n \in Nat, n \in S PROVE n + 1 \in S
  <2>1. SUFFICES ASSUME lo + (n + 1) <= hi PROVE lo + (n + 1) \in P
    OBVIOUS
  <2>2. lo + n \in P /\ lo + n \in lo .. hi /\ (lo + n) + 1 <= hi
    BY <1>2, <2>1
  <2>3. (lo + n) + 1 \in P
    BY <2>2
  <2> QED BY <2>3
<1>3. \A n \in Nat : n \in S
  <2> HIDE DEF S
  <2> QED BY <1>1, <1>2, SetInduction
<1>4. ASSUME NEW i \in lo .. hi PROVE i \in P
  <2>1. i - lo \in Nat /\ lo + (i - lo) = i /\ i <= hi
    OBVIOUS
  <2>2. i - lo \in S
    <3> HIDE DEF S
    <3> QED BY <1>3, <2>1
  <2> QED BY <2>1, <2>2
<1> QED BY <1>4

(***************************************************************************)
(* Numbers given out one after the other.                                  *)
(***************************************************************************)
Climbs(g, N) ==
  /\ g \in [1 .. N + 1 -> Nat] /\ g[1] = 0
  /\ \A b \in 1 .. N : g[b] <= g[b + 1]

\* Each number below the last total was given out at some place.
LEMMA Climb ==
  ASSUME NEW N \in Nat, NEW g, Climbs(g, N)
  PROVE  /\ \A b, c \in 1 .. N + 1 : b <= c => g[b] <= g[c]
         /\ \A r \in 0 .. g[N + 1] - 1 : \E b \in 1 .. N : g[b] <= r /\ r < g[b + 1]
<1>1. g \in [1 .. N + 1 -> Nat] /\ g[1] = 0 /\ \A b \in 1 .. N : g[b] <= g[b + 1]
  BY DEF Climbs
<1>2. ASSUME NEW b \in 1 .. N + 1, NEW c \in b .. N + 1 PROVE g[b] <= g[c]
  <2> DEFINE P == {i \in Int : g[b] <= g[i]}
  <2>1. b \in P
    BY <1>1
  <2>2. ASSUME NEW i \in b .. N + 1, i + 1 <= N + 1, i \in P PROVE i + 1 \in P
    <3>1. i \in 1 .. N /\ i \in 1 .. N + 1 /\ i + 1 \in 1 .. N + 1
      BY <2>2
    <3>2. g[i] <= g[i + 1] /\ g[i] \in Nat /\ g[i + 1] \in Nat /\ g[b] \in Nat
      BY <1>1, <3>1
    <3> QED BY <2>2, <3>1, <3>2
  <2>3. \A i \in b .. N + 1 : i \in P
    <3>1. b \in Int /\ N + 1 \in Int
      OBVIOUS
    <3> HIDE DEF P
    <3> QED BY <2>1, <2>2, <3>1, IntervalInduction
  <2> QED BY <2>3
<1>3. ASSUME NEW r \in 0 .. g[N + 1] - 1
      PROVE  \E b \in 1 .. N : g[b] <= r /\ r < g[b + 1]
  <2> DEFINE U == {c \in 1 .. N + 1 : r < g[c]}
  <2>1. N + 1 \in U /\ U \in SUBSET Nat
    <3>1. N + 1 \in 1 .. N + 1 /\ g[N + 1] \in Nat
      BY <1>1
    <3> QED BY <3>1
  <2>2. PICK u \in U : \A w \in U : u <= w
    <3> HIDE DEF U
    <3> QED BY <2>1, LeastNatural
  <2>3. u \in 1 .. N + 1 /\ r < g[u] /\ u # 1
    BY <1>1, <2>2
  <2>4. u - 1 \in 1 .. N /\ u - 1 \in 1 .. N + 1 /\ (u - 1) + 1 = u /\ ~(u <= u - 1)
    BY <2>3
  <2>5. u - 1 \notin U
    BY <2>2, <2>4
  <2>6. g[u - 1] \in Nat /\ ~(r < g[u - 1])
    BY <1>1, <2>4, <2>5
  <2>7. g[u - 1] <= r
    BY <2>6
  <2> QED BY <2>3, <2>4, <2>7
<1> QED BY <1>2, <1>3

\* The elements of a set of numbers before each number.
RankIn(U, i) == Cardinality({j \in U : j < i})

\* The ranks of the elements of a set of numbers are its numbering without gaps.
LEMMA Ranks ==
  ASSUME NEW N \in Nat, NEW U \in SUBSET (1 .. N)
  PROVE  /\ \A i \in 1 .. N + 1 : RankIn(U, i) \in Nat
         /\ \A i \in U : RankIn(U, i + 1) = RankIn(U, i) + 1
         /\ \A i, j \in U : i < j => RankIn(U, i) < RankIn(U, j)
         /\ \A i \in U : RankIn(U, i) < Cardinality(U)
         /\ Cardinality(U) \in Nat
         /\ \A r \in 0 .. Cardinality(U) - 1 : \E i \in U : RankIn(U, i) = r
<1> DEFINE g == [i \in 1 .. N + 1 |-> RankIn(U, i)]
<1>0. \A j \in U : j \in Int /\ 1 <= j /\ j <= N
  <2>1. \A j \in U : j \in 1 .. N
    BY Zenon
  <2> QED BY <2>1
<1>1. ASSUME NEW i \in 1 .. N + 1
      PROVE  IsFiniteSet({j \in U : j < i}) /\ RankIn(U, i) \in Nat
  <2>1. IsFiniteSet(1 .. N)
    BY FS_Interval
  <2>2. IsFiniteSet({j \in U : j < i})
    <3>1. {j \in U : j < i} \in SUBSET (1 .. N)
      BY Zenon
    <3> QED BY <2>1, <3>1, FS_Subset
  <2> QED BY <2>2, FS_CardinalityType DEF RankIn
<1>2. ASSUME NEW i \in 1 .. N
      PROVE  RankIn(U, i + 1) = IF i \in U THEN RankIn(U, i) + 1 ELSE RankIn(U, i)
  <2>1. i \in 1 .. N + 1
    OBVIOUS
  <2>2. IsFiniteSet({j \in U : j < i})
    BY <1>1, <2>1
  <2>3. CASE i \in U
    <3>1. {j \in U : j < i + 1} = {j \in U : j < i} \cup {i}
      <4>1. \A j \in U : j < i + 1 <=> (j < i \/ j = i)
        BY <1>0
      <4> QED BY <2>3, <4>1, Zenon
    <3>2. i \notin {j \in U : j < i}
      OBVIOUS
    <3> QED BY <2>2, <2>3, <3>1, <3>2, FS_AddElement DEF RankIn
  <2>4. CASE i \notin U
    <3>1. {j \in U : j < i + 1} = {j \in U : j < i}
      <4>1. \A j \in U : j < i + 1 <=> j < i
        BY <1>0, <2>4
      <4> QED BY <4>1, Zenon
    <3> QED BY <2>4, <3>1 DEF RankIn
  <2> QED BY <2>3, <2>4
<1>3. Climbs(g, N)
  <2>1. g[1] = 0
    <3>1. {j \in U : j < 1} = {}
      <4>1. \A j \in U : ~(j < 1)
        BY <1>0
      <4> QED BY <4>1, Zenon
    <3> QED BY <3>1, FS_EmptySet DEF RankIn
  <2>2. ASSUME NEW b \in 1 .. N PROVE g[b] <= g[b + 1]
    <3>1. b \in 1 .. N + 1 /\ b + 1 \in 1 .. N + 1
      OBVIOUS
    <3>2. g[b] = RankIn(U, b) /\ g[b + 1] = RankIn(U, b + 1) /\ RankIn(U, b) \in Nat
      BY <1>1, <3>1
    <3> QED BY <1>2, <3>2
  <2> QED BY <1>1, <2>1, <2>2 DEF Climbs
<1>4. Cardinality(U) = RankIn(U, N + 1)
  <2>1. U = {j \in U : j < N + 1}
    <3>1. \A j \in U : j < N + 1
      BY <1>0
    <3> QED BY <3>1, Zenon
  <2> QED BY <2>1 DEF RankIn
<1>5. \A i \in 1 .. N + 1 : g[i] = RankIn(U, i)
  OBVIOUS
<1> HIDE DEF g
<1>6. /\ \A b, c \in 1 .. N + 1 : b <= c => g[b] <= g[c]
      /\ \A r \in 0 .. g[N + 1] - 1 : \E b \in 1 .. N : g[b] <= r /\ r < g[b + 1]
  BY <1>3, Climb
<1>7. ASSUME NEW i \in U, NEW c \in i + 1 .. N + 1 PROVE RankIn(U, i) < RankIn(U, c)
  <2>1. i \in 1 .. N /\ i \in 1 .. N + 1 /\ i + 1 \in 1 .. N + 1 /\ c \in 1 .. N + 1 /\ i + 1 <= c
    BY <1>0
  <2>2. RankIn(U, i + 1) <= RankIn(U, c)
    BY <1>5, <1>6, <2>1
  <2>3. RankIn(U, i + 1) = RankIn(U, i) + 1
    BY <1>2, <2>1
  <2>4. RankIn(U, i) \in Nat /\ RankIn(U, i + 1) \in Nat /\ RankIn(U, c) \in Nat
    BY <1>1, <2>1
  <2> QED BY <2>2, <2>3, <2>4
<1>8. ASSUME NEW r \in 0 .. Cardinality(U) - 1 PROVE \E i \in U : RankIn(U, i) = r
  <2>1. N + 1 \in 1 .. N + 1
    OBVIOUS
  <2>2. PICK b \in 1 .. N : g[b] <= r /\ r < g[b + 1]
    BY <1>4, <1>5, <1>6, <2>1
  <2>3. b \in 1 .. N + 1 /\ b + 1 \in 1 .. N + 1
    OBVIOUS
  <2>4. RankIn(U, b) <= r /\ r < RankIn(U, b + 1)
    BY <1>5, <2>2, <2>3
  <2>5. RankIn(U, b) \in Nat /\ RankIn(U, b + 1) \in Nat
    BY <1>1, <2>3
  <2>6. b \in U
    BY <1>2, <2>4, <2>5
  <2>7. RankIn(U, b + 1) = RankIn(U, b) + 1
    BY <1>2, <2>6
  <2> QED BY <2>4, <2>5, <2>6, <2>7
<1>9. \A i \in U : i \in 1 .. N /\ N + 1 \in i + 1 .. N + 1
  BY <1>0
<1>10. \A i \in U : RankIn(U, i + 1) = RankIn(U, i) + 1
  BY <1>2, <1>9
<1>11. \A i, j \in U : i < j => RankIn(U, i) < RankIn(U, j)
  <2>1. \A i, j \in U : i < j => j \in i + 1 .. N + 1
    BY <1>0
  <2> QED BY <1>7, <2>1
<1>12. \A i \in U : RankIn(U, i) < Cardinality(U)
  BY <1>4, <1>7, <1>9
<1>13. Cardinality(U) \in Nat
  <2>1. N + 1 \in 1 .. N + 1
    OBVIOUS
  <2> QED BY <1>1, <1>4, <2>1
<1> QED BY <1>1, <1>8, <1>10, <1>11, <1>12, <1>13

-----------------------------------------------------------------------------
(***************************************************************************)
(* Register numbers: the entries of each reachable block in turn, then the *)
(* results.                                                                *)
(***************************************************************************)
DepthType == depth \in [Leaders -> Nat \cup {Unknown}]
EntryPairs(b) == UNION {{c} \X (1 .. depth[c]) : c \in Reachable \cap 1 .. (b - 1)}

\* The blocks that lowering reached are blocks, with depths that are numbers.
LEMMA ReachableFacts ==
  ASSUME code \in Codes, DepthType
  PROVE  /\ Reachable \subseteq Leaders /\ Reachable \subseteq 1 .. Size
         /\ \A b \in Reachable : depth[b] \in Nat
         /\ Live \subseteq 1 .. Size
         /\ \A b \in Reachable : Body(b) \subseteq Live
<1>1. Reachable \subseteq Leaders /\ \A b \in Reachable : depth[b] \in Nat
  BY DEF Reachable, DepthType
<1>2. \A b \in Leaders : Body(b) \subseteq 1 .. Size
  BY BlockFacts
<1>3. Live \subseteq 1 .. Size
  BY <1>1, <1>2 DEF Live
<1> QED BY <1>1, <1>3, LeadersInCode DEF Live

\* The entry registers before a block: none before the first, and each
\* reachable block adds as many as its depth.
LEMMA EntriesCounted ==
  ASSUME code \in Codes, DepthType
  PROVE  /\ \A b \in 1 .. Size + 1 : EntriesBefore(b) \in Nat
         /\ EntriesBefore(1) = 0
         /\ \A b \in 1 .. Size : EntriesBefore(b + 1) =
              IF b \in Reachable THEN EntriesBefore(b) + depth[b] ELSE EntriesBefore(b)
<1> DEFINE P == {b \in Int : IsFiniteSet(EntryPairs(b))}
<1>1. Size \in Nat
  BY CodeFacts
<1>2. EntryPairs(1) = {}
  <2>1. \A c \in 1 .. (1 - 1) : FALSE
    OBVIOUS
  <2> QED BY <2>1, Zenon DEF EntryPairs
<1>3. ASSUME NEW b \in 1 .. Size
      PROVE  EntryPairs(b + 1) = IF b \in Reachable THEN EntryPairs(b) \cup ({b} \X (1 .. depth[b]))
                                                    ELSE EntryPairs(b)
  <2>1. \A c : c \in 1 .. ((b + 1) - 1) <=> (c \in 1 .. (b - 1) \/ c = b)
    OBVIOUS
  <2> QED BY <2>1, Zenon DEF EntryPairs
<1>4. ASSUME NEW b \in Reachable
      PROVE  /\ IsFiniteSet({b} \X (1 .. depth[b]))
             /\ Cardinality({b} \X (1 .. depth[b])) = depth[b]
             /\ EntryPairs(b) \cap ({b} \X (1 .. depth[b])) = {}
  <2>1. depth[b] \in Nat /\ b \in Int
    BY ReachableFacts
  <2>2. IsFiniteSet({b}) /\ Cardinality({b}) = 1
    BY FS_Singleton
  <2>3. IsFiniteSet(1 .. depth[b]) /\ Cardinality(1 .. depth[b]) = depth[b]
    <3> DEFINE d == depth[b]
    <3>1. d \in Nat /\ 1 \in Int /\ d \in Int
      BY <2>1
    <3> HIDE DEF d
    <3>2. IsFiniteSet(1 .. d) /\ Cardinality(1 .. d) = IF 1 > d THEN 0 ELSE d - 1 + 1
      BY <3>1, FS_Interval
    <3>3. IsFiniteSet(1 .. d) /\ Cardinality(1 .. d) = d
      BY <3>1, <3>2
    <3> QED BY <3>3 DEF d
  <2>4. IsFiniteSet({b} \X (1 .. depth[b])) /\ Cardinality({b} \X (1 .. depth[b])) = 1 * depth[b]
    BY ZenonT(30), <2>2, <2>3, FS_Product
  <2>5. 1 * depth[b] = depth[b]
    BY <2>1
  <2>6. b \notin 1 .. (b - 1)
    BY <2>1
  <2>7. EntryPairs(b) \cap ({b} \X (1 .. depth[b])) = {}
    <3> SUFFICES ASSUME NEW p \in EntryPairs(b), p \in {b} \X (1 .. depth[b]) PROVE FALSE
      BY Zenon
    <3>1. PICK c \in Reachable \cap 1 .. (b - 1) : p \in {c} \X (1 .. depth[c])
      BY Zenon DEF EntryPairs
    <3>2. p[1] = c /\ p[1] = b
      BY <3>1
    <3> QED BY <2>6, <3>1, <3>2
  <2> QED BY <2>4, <2>5, <2>7
<1>5. ASSUME NEW b \in 1 .. Size + 1 PROVE IsFiniteSet(EntryPairs(b))
  <2>1. 1 \in P
    BY <1>2, FS_EmptySet
  <2>2. ASSUME NEW i \in 1 .. Size + 1, i + 1 <= Size + 1, i \in P PROVE i + 1 \in P
    <3>1. i \in 1 .. Size /\ i + 1 \in Int
      BY <1>1, <2>2
    <3>2. IsFiniteSet(EntryPairs(i + 1))
      <4>1. IsFiniteSet(EntryPairs(i))
        BY <2>2
      <4>2. CASE i \in Reachable
        <5> DEFINE X == {i} \X (1 .. depth[i])
        <5>1. EntryPairs(i + 1) = EntryPairs(i) \cup X /\ IsFiniteSet(X)
          BY <1>3, <1>4, <3>1, <4>2
        <5> HIDE DEF X
        <5>2. IsFiniteSet(EntryPairs(i) \cup X)
          BY <4>1, <5>1, FS_Union
        <5> QED BY <5>1, <5>2
      <4>3. CASE i \notin Reachable
        BY <1>3, <3>1, <4>1, <4>3
      <4> QED BY <4>2, <4>3
    <3> QED BY <3>1, <3>2
  <2>3. \A i \in 1 .. Size + 1 : i \in P
    <3>1. 1 \in Int /\ Size + 1 \in Int
      BY <1>1
    <3> HIDE DEF P
    <3> QED BY <2>1, <2>2, <3>1, IntervalInduction
  <2> QED BY <2>3
<1>6. \A b : EntriesBefore(b) = Cardinality(EntryPairs(b))
  BY DEF EntriesBefore, EntryPairs
<1>7. \A b \in 1 .. Size + 1 : EntriesBefore(b) \in Nat
  BY <1>5, <1>6, FS_CardinalityType
<1>8. ASSUME NEW b \in 1 .. Size
      PROVE  EntriesBefore(b + 1) =
               IF b \in Reachable THEN EntriesBefore(b) + depth[b] ELSE EntriesBefore(b)
  <2>1. b \in 1 .. Size + 1
    BY <1>1
  <2>2. CASE b \in Reachable
    <3> DEFINE X == {b} \X (1 .. depth[b])
    <3>1. EntryPairs(b + 1) = EntryPairs(b) \cup X
      BY <1>3, <2>2
    <3>2. IsFiniteSet(X) /\ Cardinality(X) = depth[b] /\ EntryPairs(b) \cap X = {}
      BY <1>4, <2>2
    <3>3. IsFiniteSet(EntryPairs(b))
      BY <1>5, <2>1
    <3> HIDE DEF X
    <3>4. Cardinality(EntryPairs(b) \cup X) = Cardinality(EntryPairs(b)) + depth[b] - 0
      BY <3>2, <3>3, FS_Union, FS_EmptySet
    <3>5. depth[b] \in Nat /\ EntriesBefore(b) \in Nat
      BY <1>7, <2>1, <2>2, ReachableFacts
    <3>6. EntriesBefore(b + 1) = EntriesBefore(b) + depth[b] - 0
      BY <1>6, <3>1, <3>4
    <3> QED BY <2>2, <3>5, <3>6
  <2>3. CASE b \notin Reachable
    BY <1>3, <1>6, <2>3
  <2> QED BY <2>2, <2>3
<1> QED BY <1>2, <1>6, <1>7, <1>8, FS_EmptySet

\* The instructions that push a value, which gets a register.
Makers == {j \in Live : Pushes(j) = 1}
EntryTotal == EntriesBefore(Size + 1)

\* The registers that a block may read: its entries and its own results.
MadeIn(b) == {i \in Body(b) : Pushes(i) = 1}

\* Entry registers are numbered block by block without gaps (the first pass of
\* the lowering).
LEMMA EntryNumbers ==
  ASSUME code \in Codes, DepthType
  PROVE  /\ EntryTotal \in Nat
         /\ \A b \in Reachable :
              /\ EntriesBefore(b) \in Nat
              /\ Entry(b) = [k \in 1 .. depth[b] |-> EntriesBefore(b) + k - 1]
              /\ EntriesBefore(b) + depth[b] <= EntryTotal
         /\ \A r \in 0 .. EntryTotal - 1 :
              \E b \in Reachable : \E k \in 1 .. depth[b] : Entry(b)[k] = r
<1> DEFINE g == [b \in 1 .. Size + 1 |-> EntriesBefore(b)]
<1>1. Size \in Nat
  BY CodeFacts
<1>2. /\ \A b \in 1 .. Size + 1 : EntriesBefore(b) \in Nat
      /\ EntriesBefore(1) = 0
      /\ \A b \in 1 .. Size : EntriesBefore(b + 1) =
           IF b \in Reachable THEN EntriesBefore(b) + depth[b] ELSE EntriesBefore(b)
  BY EntriesCounted
<1>3. /\ Reachable \subseteq 1 .. Size /\ \A b \in Reachable : depth[b] \in Nat
  BY ReachableFacts
<1>4. \A b \in 1 .. Size + 1 : g[b] = EntriesBefore(b)
  OBVIOUS
<1>5. Climbs(g, Size)
  <2>1. 1 \in 1 .. Size + 1 /\ g \in [1 .. Size + 1 -> Nat]
    BY <1>1, <1>2
  <2>2. ASSUME NEW b \in 1 .. Size PROVE g[b] <= g[b + 1]
    <3>1. b \in 1 .. Size + 1 /\ b + 1 \in 1 .. Size + 1
      BY <1>1
    <3>2. /\ g[b] = EntriesBefore(b) /\ g[b + 1] = EntriesBefore(b + 1)
          /\ EntriesBefore(b) \in Nat
      BY <1>2, <1>4, <3>1
    <3> HIDE DEF g
    <3> QED BY <1>2, <1>3, <3>2
  <2> HIDE DEF g
  <2> QED BY <1>2, <1>4, <2>1, <2>2 DEF Climbs
<1> HIDE DEF g
<1>6. /\ \A b, c \in 1 .. Size + 1 : b <= c => g[b] <= g[c]
      /\ \A r \in 0 .. g[Size + 1] - 1 : \E b \in 1 .. Size : g[b] <= r /\ r < g[b + 1]
  BY <1>1, <1>5, Climb
<1>7. Size + 1 \in 1 .. Size + 1
  BY <1>1
<1>8. EntryTotal \in Nat /\ g[Size + 1] = EntryTotal
  BY <1>2, <1>4, <1>7 DEF EntryTotal
<1>9. ASSUME NEW b \in Reachable
      PROVE  /\ EntriesBefore(b) \in Nat
             /\ Entry(b) = [k \in 1 .. depth[b] |-> EntriesBefore(b) + k - 1]
             /\ EntriesBefore(b) + depth[b] <= EntryTotal
  <2>1. b \in 1 .. Size /\ b \in 1 .. Size + 1 /\ b + 1 \in 1 .. Size + 1 /\ b + 1 <= Size + 1
    BY <1>1, <1>3
  <2>2. g[b + 1] <= g[Size + 1]
    BY <1>6, <1>7, <2>1
  <2>3. EntriesBefore(b + 1) = EntriesBefore(b) + depth[b]
    BY <1>2, <2>1
  <2> QED BY <1>2, <1>4, <1>8, <2>1, <2>2, <2>3 DEF Entry
<1>10. ASSUME NEW r \in 0 .. EntryTotal - 1
       PROVE  \E b \in Reachable : \E k \in 1 .. depth[b] : Entry(b)[k] = r
  <2>1. PICK b \in 1 .. Size : g[b] <= r /\ r < g[b + 1]
    BY <1>6, <1>8
  <2>2. b \in 1 .. Size + 1 /\ b + 1 \in 1 .. Size + 1
    BY <1>1
  <2>3. EntriesBefore(b) \in Nat /\ EntriesBefore(b) <= r /\ r < EntriesBefore(b + 1)
    BY <1>2, <1>4, <2>1, <2>2
  <2>4. b \in Reachable /\ r < EntriesBefore(b) + depth[b] /\ depth[b] \in Nat
    BY <1>2, <1>3, <2>3
  <2>5. (r - EntriesBefore(b)) + 1 \in 1 .. depth[b]
    BY <2>3, <2>4
  <2>6. Entry(b)[(r - EntriesBefore(b)) + 1] = r
    <3>1. Entry(b)[(r - EntriesBefore(b)) + 1] = EntriesBefore(b) + ((r - EntriesBefore(b)) + 1) - 1
      BY <1>9, <2>4, <2>5
    <3> QED BY <2>3, <3>1
  <2> QED BY <2>4, <2>5, <2>6
<1> QED BY <1>8, <1>9, <1>10

\* Results are numbered after the entry registers, in the code's order, without
\* gaps or repetition (the second pass of the lowering).
LEMMA ResultNumbers ==
  ASSUME code \in Codes, DepthType
  PROVE  /\ RegisterTotal \in Nat /\ EntryTotal <= RegisterTotal
         /\ \A i \in Makers : /\ ResultRegister(i) \in EntryTotal .. RegisterTotal - 1
                              /\ Results(i) = <<ResultRegister(i)>>
         /\ \A i, j \in Makers : ResultRegister(i) = ResultRegister(j) => i = j
         /\ \A r \in EntryTotal .. RegisterTotal - 1 : \E i \in Makers : ResultRegister(i) = r
         /\ \A i \in 1 .. Size : i \notin Makers => Results(i) = <<>>
<1>1. Size \in Nat /\ EntryTotal \in Nat
  BY CodeFacts, EntryNumbers
<1>2. Makers \in SUBSET (1 .. Size)
  BY ReachableFacts DEF Makers
<1>3. /\ \A i \in 1 .. Size + 1 : RankIn(Makers, i) \in Nat
      /\ \A i, j \in Makers : i < j => RankIn(Makers, i) < RankIn(Makers, j)
      /\ \A i \in Makers : RankIn(Makers, i) < Cardinality(Makers)
      /\ Cardinality(Makers) \in Nat
      /\ \A r \in 0 .. Cardinality(Makers) - 1 : \E i \in Makers : RankIn(Makers, i) = r
  BY <1>1, <1>2, Ranks
<1>4. \A i : ResultRegister(i) = EntryTotal + RankIn(Makers, i)
  <2>1. ASSUME NEW i PROVE {j \in Live : j < i /\ Pushes(j) = 1} = {j \in Makers : j < i}
    BY Zenon DEF Makers
  <2> QED BY <2>1 DEF ResultRegister, EntryTotal, RankIn
<1>5. RegisterTotal = EntryTotal + Cardinality(Makers)
  BY DEF RegisterTotal, EntryTotal, Makers
<1>6. \A i \in Makers : i \in 1 .. Size + 1 /\ i \in Int
  <2>1. \A i \in Makers : i \in 1 .. Size
    BY <1>2, Zenon
  <2> QED BY <1>1, <2>1
<1>7. ASSUME NEW i \in Makers PROVE ResultRegister(i) \in EntryTotal .. RegisterTotal - 1
  <2>1. RankIn(Makers, i) \in Nat /\ RankIn(Makers, i) < Cardinality(Makers)
    BY <1>3, <1>6
  <2> QED BY <1>1, <1>3, <1>4, <1>5, <2>1
<1>8. ASSUME NEW i \in Makers, NEW j \in Makers, ResultRegister(i) = ResultRegister(j) PROVE i = j
  <2>1. RankIn(Makers, i) \in Nat /\ RankIn(Makers, j) \in Nat
    BY <1>3, <1>6
  <2>2. RankIn(Makers, i) = RankIn(Makers, j)
    BY <1>1, <1>4, <1>8, <2>1
  <2>3. ~(i < j) /\ ~(j < i)
    BY <1>3, <2>1, <2>2
  <2> QED BY <1>6, <2>3
<1>9. ASSUME NEW r \in EntryTotal .. RegisterTotal - 1
      PROVE  \E i \in Makers : ResultRegister(i) = r
  <2>1. r - EntryTotal \in 0 .. Cardinality(Makers) - 1
    BY <1>1, <1>3, <1>5
  <2>2. PICK i \in Makers : RankIn(Makers, i) = r - EntryTotal
    BY <1>3, <2>1
  <2>3. ResultRegister(i) = EntryTotal + (r - EntryTotal)
    BY <1>4, <2>2
  <2> QED BY <1>1, <2>3
<1>10. /\ \A i \in Makers : Results(i) = <<ResultRegister(i)>>
       /\ \A i \in 1 .. Size : i \notin Makers => Results(i) = <<>>
  BY DEF Results, Makers
<1>11. RegisterTotal \in Nat /\ EntryTotal <= RegisterTotal
  BY <1>1, <1>3, <1>5
<1> QED BY <1>7, <1>8, <1>9, <1>10, <1>11

-----------------------------------------------------------------------------
(***************************************************************************)
(* The stack of registers within a block.                                  *)
(***************************************************************************)
\* The n topmost elements, and the others.
LEMMA TopAndRest ==
  ASSUME NEW S, NEW s \in Seq(S), NEW n \in Nat, n <= Len(s)
  PROVE  /\ Without(s, n) \in Seq(S) /\ Len(Without(s, n)) = Len(s) - n
         /\ \A k \in 1 .. Len(s) - n : Without(s, n)[k] = s[k]
         /\ Top(s, n) \in Seq(S) /\ Len(Top(s, n)) = n
         /\ \A k \in 1 .. n : Top(s, n)[k] = s[(Len(s) - n) + k]
<1>1. Len(s) \in Nat /\ Len(s) - n \in Nat
  OBVIOUS
<1>2. /\ Without(s, n) \in Seq(S) /\ Len(Without(s, n)) = Len(s) - n
      /\ \A k \in 1 .. Len(s) - n : Without(s, n)[k] = s[k]
  BY <1>1 DEF Without
<1>3. /\ Top(s, n) \in Seq(S) /\ Len(Top(s, n)) = n
  BY <1>1 DEF Top
<1>4. ASSUME NEW k \in 1 .. n PROVE Top(s, n)[k] = s[(Len(s) - n) + k]
  <2>1. (Len(s) - n + 1) + k - 1 = (Len(s) - n) + k
    BY <1>1
  <2>2. Top(s, n)[k] = s[(Len(s) - n + 1) + k - 1]
    BY <1>1 DEF Top
  <2> QED BY <2>1, <2>2
<1> QED BY <1>2, <1>3, <1>4

\* A value pushed onto what is left of a stack, or none.
LEMMA PushOnto ==
  ASSUME NEW S, NEW s \in Seq(S), NEW t \in Seq(S)
  PROVE  /\ s \o t \in Seq(S) /\ Len(s \o t) = Len(s) + Len(t)
         /\ \A k \in 1 .. Len(s) : (s \o t)[k] = s[k]
         /\ \A k \in 1 .. Len(t) : (s \o t)[Len(s) + k] = t[k]
OBVIOUS

\* Where nothing underflows, the depth is a number, and enough for each instruction.
LEMMA DepthFits ==
  ASSUME code \in Codes, NEW b \in Leaders, depth[b] \in Nat, ~Underflows(b)
  PROVE  /\ \A i \in (b - 1) .. LastOf(b) : DepthAfter(b)[i] \in Nat
         /\ \A i \in Body(b) : /\ i - 1 \in (b - 1) .. LastOf(b)
                               /\ Pops(i) + ReadsWithoutPop(i) <= DepthAfter(b)[i - 1]
                               /\ DepthAfter(b)[i] = DepthAfter(b)[i - 1] - Pops(i) + Pushes(i)
<1> DEFINE P == {i \in Int : DepthAfter(b)[i] \in Nat}
<1>1. b \in 1 .. Size /\ Size \in Nat /\ LastOf(b) \in b .. Size /\ Body(b) = b .. LastOf(b)
      /\ Body(b) \subseteq 1 .. Size
  BY BlockFacts
<1>2. /\ DepthAfter(b)[b - 1] = depth[b]
      /\ \A i \in Body(b) : DepthAfter(b)[i] = DepthAfter(b)[i - 1] - Pops(i) + Pushes(i)
  BY DepthSteps
<1>3. \A i \in Body(b) : /\ Pops(i) \in Nat /\ Pushes(i) \in {0, 1} /\ ReadsWithoutPop(i) \in {0, 1}
  BY <1>1, EffectTypes
<1>4. b - 1 \in P
  BY <1>1, <1>2
<1>5. \A i \in Body(b) : ~(DepthAfter(b)[i - 1] < Pops(i) + ReadsWithoutPop(i))
  BY DEF Underflows
<1>6. ASSUME NEW i \in (b - 1) .. LastOf(b), i + 1 <= LastOf(b), i \in P PROVE i + 1 \in P
  <2>1. i + 1 \in Body(b) /\ (i + 1) - 1 = i /\ i + 1 \in Int
    BY <1>1, <1>6
  <2>2. /\ DepthAfter(b)[i + 1] = DepthAfter(b)[i] - Pops(i + 1) + Pushes(i + 1)
        /\ ~(DepthAfter(b)[i] < Pops(i + 1) + ReadsWithoutPop(i + 1))
        /\ DepthAfter(b)[i] \in Nat
    BY <1>2, <1>5, <1>6, <2>1
  <2>3. DepthAfter(b)[i + 1] \in Nat
    BY <1>3, <2>1, <2>2
  <2> QED BY <2>1, <2>3
<1>7. \A i \in (b - 1) .. LastOf(b) : i \in P
  <2>1. b - 1 \in Int /\ LastOf(b) \in Int
    BY <1>1
  <2> HIDE DEF P
  <2> QED BY <1>4, <1>6, <2>1, IntervalInduction
<1>8. ASSUME NEW i \in Body(b)
      PROVE  /\ i - 1 \in (b - 1) .. LastOf(b)
             /\ Pops(i) + ReadsWithoutPop(i) <= DepthAfter(b)[i - 1]
  <2>1. i - 1 \in (b - 1) .. LastOf(b)
    BY <1>1
  <2>2. DepthAfter(b)[i - 1] \in Nat
    BY <1>7, <2>1
  <2> QED BY <1>3, <1>5, <2>1, <2>2
<1> QED BY <1>2, <1>7, <1>8

\* A block that is settled: it never underflows, and agrees with its successors.
Settled(b) ==
  /\ ~Underflows(b)
  /\ \A s \in Successors(b) : depth[s] = DepthAfter(b)[LastOf(b)]

\* The registers that can be on the stack after instruction i of block b.
Known(b, i) == Elements(Entry(b)) \cup {ResultRegister(j) : j \in {j \in MadeIn(b) : j <= i}}

StackFitsAt(b, i) ==
  /\ StackAfter(b)[i] \in Seq(Nat)
  /\ Len(StackAfter(b)[i]) = DepthAfter(b)[i]
  /\ \A k \in 1 .. DepthAfter(b)[i] : StackAfter(b)[i][k] \in Known(b, i)

\* An instruction that pushes has one result register, any other has none.
LEMMA MadeFacts ==
  ASSUME code \in Codes, DepthType, NEW b \in Reachable, NEW i \in Body(b)
  PROVE  /\ i \in Makers <=> Pushes(i) = 1
         /\ i \in MadeIn(b) <=> Pushes(i) = 1
         /\ Pushes(i) = 1 => Results(i) = <<ResultRegister(i)>> /\ ResultRegister(i) \in Nat
         /\ Pushes(i) = 0 => Results(i) = <<>>
         /\ Results(i) \in Seq(Nat) /\ Len(Results(i)) = Pushes(i)
<1>1. i \in Live /\ i \in 1 .. Size
  BY ReachableFacts
<1>2. Pushes(i) \in {0, 1}
  BY <1>1, EffectTypes
<1>3. i \in Makers <=> Pushes(i) = 1
  BY <1>1 DEF Makers
<1>4. EntryTotal \in Nat /\ RegisterTotal \in Nat
  BY EntryNumbers, ResultNumbers
<1>5. Pushes(i) = 1 => Results(i) = <<ResultRegister(i)>> /\ ResultRegister(i) \in Nat
  <2>1. Pushes(i) = 1 => ResultRegister(i) \in EntryTotal .. RegisterTotal - 1
    BY <1>3, ResultNumbers
  <2> QED BY <1>3, <1>4, <2>1, ResultNumbers
<1>6. Pushes(i) = 0 => Results(i) = <<>>
  BY <1>1, <1>3, ResultNumbers
<1>7. Results(i) \in Seq(Nat) /\ Len(Results(i)) = Pushes(i)
  <2>1. CASE Pushes(i) = 1
    <3>1. \A r \in Nat : <<r>> \in Seq(Nat) /\ Len(<<r>>) = 1
      OBVIOUS
    <3> QED BY <1>5, <2>1, <3>1
  <2>2. CASE Pushes(i) = 0
    <3>1. <<>> \in Seq(Nat) /\ Len(<<>>) = 0
      OBVIOUS
    <3> QED BY <1>6, <2>2, <3>1
  <2> QED BY <1>2, <2>1, <2>2
<1>8. i \in MadeIn(b) <=> Pushes(i) = 1
  BY DEF MadeIn
<1> QED BY <1>3, <1>5, <1>6, <1>7, <1>8

\* In a settled block the stack has the depth that was found for each
\* instruction, and holds registers the block may read.
LEMMA StackFits ==
  ASSUME code \in Codes, DepthType, NEW b \in Reachable, Settled(b)
  PROVE  \A i \in (b - 1) .. LastOf(b) : StackFitsAt(b, i)
<1> DEFINE P == {i \in Int : StackFitsAt(b, i)}
<1>1. /\ b \in Leaders /\ depth[b] \in Nat
      /\ b \in 1 .. Size /\ Size \in Nat /\ LastOf(b) \in b .. Size /\ Body(b) = b .. LastOf(b)
      /\ Body(b) \subseteq 1 .. Size
  BY BlockFacts, ReachableFacts
<1>2. /\ \A i \in (b - 1) .. LastOf(b) : DepthAfter(b)[i] \in Nat
      /\ \A i \in Body(b) : /\ Pops(i) + ReadsWithoutPop(i) <= DepthAfter(b)[i - 1]
                            /\ DepthAfter(b)[i] = DepthAfter(b)[i - 1] - Pops(i) + Pushes(i)
  BY <1>1, DepthFits DEF Settled
<1>3. b - 1 \in P
  <2>1. StackAfter(b)[b - 1] = Entry(b) /\ DepthAfter(b)[b - 1] = depth[b]
    BY <1>1, StackSteps, DepthSteps
  <2>2. Entry(b) = [k \in 1 .. depth[b] |-> EntriesBefore(b) + k - 1] /\ EntriesBefore(b) \in Nat
    BY EntryNumbers
  <2>3. Entry(b) \in Seq(Nat) /\ Len(Entry(b)) = depth[b] /\ DOMAIN Entry(b) = 1 .. depth[b]
    <3>1. \A k \in 1 .. depth[b] : EntriesBefore(b) + k - 1 \in Nat
      BY <1>1, <2>2
    <3> QED BY <1>1, <2>2, <3>1
  <2>4. \A k \in 1 .. depth[b] : Entry(b)[k] \in Known(b, b - 1)
    BY <2>3 DEF Known, Elements
  <2> QED BY <1>1, <2>1, <2>3, <2>4 DEF StackFitsAt
<1>4. ASSUME NEW i \in (b - 1) .. LastOf(b), i + 1 <= LastOf(b), i \in P PROVE i + 1 \in P
  <2> DEFINE s == StackAfter(b)[i]
             t == Results(i + 1)
             n == Pops(i + 1)
             rest == Without(s, n)
  <2>1. i + 1 \in Body(b) /\ (i + 1) - 1 = i /\ i + 1 \in Int /\ i \in Int
    BY <1>1, <1>4
  <2>2. /\ s \in Seq(Nat) /\ Len(s) = DepthAfter(b)[i]
        /\ \A k \in 1 .. DepthAfter(b)[i] : s[k] \in Known(b, i)
    BY <1>4 DEF StackFitsAt
  <2>3. n \in Nat /\ n <= Len(s) /\ DepthAfter(b)[i + 1] = DepthAfter(b)[i] - n + Pushes(i + 1)
        /\ Pushes(i + 1) \in {0, 1}
    <3>1. i + 1 \in 1 .. Size
      BY <1>1, <2>1
    <3>2. n \in Nat /\ ReadsWithoutPop(i + 1) \in {0, 1} /\ Pushes(i + 1) \in {0, 1}
      BY <3>1, EffectTypes
    <3>3. /\ n + ReadsWithoutPop(i + 1) <= DepthAfter(b)[i]
          /\ DepthAfter(b)[i + 1] = DepthAfter(b)[i] - n + Pushes(i + 1)
      BY <1>2, <2>1
    <3> QED BY <2>2, <3>2, <3>3
  <2>4. StackAfter(b)[i + 1] = rest \o t
    BY <1>1, <2>1, StackSteps
  <2>5. t \in Seq(Nat) /\ Len(t) = Pushes(i + 1)
        /\ (Pushes(i + 1) = 1 => t = <<ResultRegister(i + 1)>> /\ i + 1 \in MadeIn(b))
    BY <2>1, MadeFacts
  <2> HIDE DEF s, t, n
  <2>6. /\ rest \in Seq(Nat) /\ Len(rest) = Len(s) - n
        /\ \A k \in 1 .. Len(s) - n : rest[k] = s[k]
    BY <2>2, <2>3, TopAndRest
  <2> HIDE DEF rest
  <2>7. /\ rest \o t \in Seq(Nat) /\ Len(rest \o t) = Len(rest) + Len(t)
        /\ \A k \in 1 .. Len(rest) : (rest \o t)[k] = rest[k]
        /\ \A k \in 1 .. Len(t) : (rest \o t)[Len(rest) + k] = t[k]
    <3>1. t \in Seq(Nat) /\ rest \in Seq(Nat)
      BY <2>5, <2>6
    <3> QED BY <3>1, PushOnto
  <2>8. Len(rest \o t) = DepthAfter(b)[i + 1]
    BY <2>2, <2>3, <2>5, <2>6, <2>7
  <2>9. Known(b, i) \subseteq Known(b, i + 1)
    <3>1. \A j \in MadeIn(b) : j <= i => j <= i + 1
      <4>1. \A j \in MadeIn(b) : j \in Int
        BY <1>1 DEF MadeIn
      <4> QED BY <2>1, <4>1
    <3> QED BY <3>1 DEF Known
  <2>10. ASSUME NEW k \in 1 .. DepthAfter(b)[i + 1] PROVE (rest \o t)[k] \in Known(b, i + 1)
    <3>1. CASE k \in 1 .. Len(rest)
      <4>1. (rest \o t)[k] = s[k] /\ k \in 1 .. DepthAfter(b)[i]
        <5>1. Len(s) \in Nat /\ Len(s) - n <= Len(s)
          BY <2>2, <2>3
        <5>2. k \in 1 .. Len(s) - n
          BY <2>6, <3>1
        <5>3. k \in 1 .. Len(s)
          BY <2>3, <5>1, <5>2
        <5> QED BY <2>2, <2>6, <2>7, <3>1, <5>2, <5>3
      <4> QED BY <2>2, <2>9, <4>1
    <3>2. CASE k \notin 1 .. Len(rest)
      <4>1. Pushes(i + 1) = 1 /\ k = Len(rest) + 1 /\ 1 \in 1 .. Len(t)
        BY <2>3, <2>5, <2>6, <2>7, <2>8, <3>2
      <4>2. (rest \o t)[k] = ResultRegister(i + 1) /\ i + 1 \in MadeIn(b) /\ i + 1 <= i + 1
        BY <2>1, <2>5, <2>7, <4>1
      <4> QED BY <4>2 DEF Known
    <3> QED BY <3>1, <3>2
  <2> QED BY <2>1, <2>4, <2>7, <2>8, <2>10 DEF StackFitsAt
<1>5. \A i \in (b - 1) .. LastOf(b) : i \in P
  <2>1. b - 1 \in Int /\ LastOf(b) \in Int
    BY <1>1
  <2> HIDE DEF P
  <2> QED BY <1>3, <1>4, <2>1, IntervalInduction
<1> QED BY <1>5

-----------------------------------------------------------------------------
(***************************************************************************)
(* The depths found and the function lowered.                              *)
(***************************************************************************)
\* What the code alone decides.
LEMMA SameBlocks ==
  ASSUME code' = code
  PROVE  /\ Size' = Size /\ Instructions' = Instructions /\ Leaders' = Leaders
         /\ \A b : LastOf(b)' = LastOf(b) /\ Body(b)' = Body(b)
         /\ \A b : Successors(b)' = Successors(b) /\ Leaves(b)' = Leaves(b)
         /\ \A i : Pops(i)' = Pops(i) /\ Pushes(i)' = Pushes(i)
         /\ \A i : ReadsWithoutPop(i)' = ReadsWithoutPop(i)
         /\ Locals' = Locals
<1>1. Size' = Size /\ Instructions' = Instructions
  BY DEF Instructions, Size
<1>2. Leaders' = Leaders
  BY DEF Leaders, Instructions, Size
<1>3. \A b : LastOf(b)' = LastOf(b)
  BY DEF LastOf, Leaders, Instructions, Size
<1>4. \A b : Body(b)' = Body(b)
  BY <1>3 DEF Body
<1>5. \A b : Successors(b)' = Successors(b)
  BY <1>2, <1>3 DEF Successors
<1>6. \A b : Leaves(b)' = Leaves(b)
  BY <1>1, <1>3 DEF Leaves
<1>7. \A i : Pops(i)' = Pops(i) /\ Pushes(i)' = Pushes(i)
  BY DEF Pops, Pushes
<1>8. \A i : ReadsWithoutPop(i)' = ReadsWithoutPop(i)
  BY DEF ReadsWithoutPop
<1>9. Locals' = Locals
  BY <1>1 DEF Locals
<1> QED BY <1>1, <1>2, <1>3, <1>4, <1>5, <1>6, <1>7, <1>8, <1>9

DepthStepsHold ==
  code \in Codes =>
    \A b \in Leaders :
      /\ DepthAfter(b)[b - 1] = depth[b]
      /\ \A i \in Body(b) : DepthAfter(b)[i] = DepthAfter(b)[i - 1] - Pops(i) + Pushes(i)

\* The depths along a block follow what its instructions pop and push, in every
\* state.
LEMMA DepthsAlways == DepthStepsHold
BY DepthSteps DEF DepthStepsHold

\* A block's depths follow from the one before it.
LEMMA DepthsKept ==
  ASSUME code \in Codes, code' = code, NEW c \in Leaders, depth'[c] = depth[c]
  PROVE  \A i \in (c - 1) .. LastOf(c) : DepthAfter(c)'[i] = DepthAfter(c)[i]
<1> DEFINE P == {i \in Int : DepthAfter(c)'[i] = DepthAfter(c)[i]}
<1>1. /\ DepthAfter(c)[c - 1] = depth[c]
      /\ \A i \in Body(c) : DepthAfter(c)[i] = DepthAfter(c)[i - 1] - Pops(i) + Pushes(i)
  BY DepthSteps
<1>2. /\ DepthAfter(c)'[c - 1] = depth[c]
      /\ \A i \in Body(c) : DepthAfter(c)'[i] = DepthAfter(c)'[i - 1] - Pops(i) + Pushes(i)
  <2>1. DepthStepsHold'
    BY DepthsAlways, PTL
  <2> QED BY <2>1, SameBlocks DEF DepthStepsHold
<1>3. c \in Int /\ LastOf(c) \in Int /\ c - 1 \in Int /\ Body(c) = c .. LastOf(c)
  BY BlockFacts
<1>4. c - 1 \in P
  BY <1>1, <1>2, <1>3
<1>5. ASSUME NEW i \in (c - 1) .. LastOf(c), i + 1 <= LastOf(c), i \in P PROVE i + 1 \in P
  <2>1. i + 1 \in Body(c) /\ (i + 1) - 1 = i /\ i + 1 \in Int
    BY <1>3, <1>5
  <2>2. DepthAfter(c)'[i] = DepthAfter(c)[i]
    BY <1>5
  <2>3. DepthAfter(c)'[i + 1] = DepthAfter(c)[i + 1]
    <3>1. DepthAfter(c)[i + 1] = DepthAfter(c)[i] - Pops(i + 1) + Pushes(i + 1)
      BY <1>1, <2>1
    <3>2. DepthAfter(c)'[i + 1] = DepthAfter(c)'[i] - Pops(i + 1) + Pushes(i + 1)
      BY <1>2, <2>1
    <3> QED BY <2>2, <3>1, <3>2
  <2> QED BY <2>1, <2>3
<1>6. \A i \in (c - 1) .. LastOf(c) : i \in P
  <2> HIDE DEF P
  <2> QED BY <1>3, <1>4, <1>5, IntervalInduction
<1> QED BY <1>6

\* A block stays settled while its depth and its successors' depths do.
LEMMA SettledKept ==
  ASSUME code \in Codes, code' = code, NEW c \in Leaders, depth'[c] = depth[c],
         ~Underflows(c), \A s \in Successors(c) : depth'[s] = DepthAfter(c)[LastOf(c)]
  PROVE  Settled(c)'
<1>1. \A i \in (c - 1) .. LastOf(c) : DepthAfter(c)'[i] = DepthAfter(c)[i]
  BY DepthsKept
<1>2. LastOf(c) \in (c - 1) .. LastOf(c) /\ \A i \in Body(c) : i - 1 \in (c - 1) .. LastOf(c)
  BY BlockFacts
<1>3. ~Underflows(c)'
  BY <1>1, <1>2, SameBlocks DEF Underflows
<1> QED BY <1>1, <1>2, <1>3, SameBlocks DEF Settled

\* The depths found so far: every block that is no longer waiting agrees with
\* its successors.
CodeInv ==
  /\ code \in Codes \/ pass = "allocator alone"
  /\ pass \in {"blocks", "depths", "liveness", "allocate", "verify", "run", "rejected",
               "failed", "allocator alone"}
DepthsInv ==
  pass \in {"depths", "liveness", "allocate", "verify", "run", "rejected"} =>
    /\ DepthType
    /\ depth[1] = 0
    /\ worklist \subseteq Reachable
    /\ \A b \in Reachable \ worklist : Settled(b)

\* At first only the entry block has a depth, and it is waiting (BuildBlocks).
LEMMA DepthsBuilt ==
  ASSUME CodeInv, BuildBlocks
  PROVE  DepthsInv'
<1>1. code \in Codes /\ code' = code
  BY DEF CodeInv, BuildBlocks
<1>2. SUFFICES ASSUME TRUE
      PROVE  /\ DepthType' /\ depth'[1] = 0
             /\ worklist' = {1} /\ Reachable' = {1}
  BY DEF DepthsInv
<1>3. 1 \in Leaders /\ Leaders' = Leaders
  BY <1>1, LeadersInCode, SameBlocks
<1>4. depth' = [b \in Leaders |-> IF b = 1 THEN 0 ELSE Unknown] /\ worklist' = Leaders \cap {1}
  BY DEF BuildBlocks
<1> QED BY <1>3, <1>4 DEF DepthType, Reachable, Unknown

\* Visiting a block settles it and leaves the settled blocks settled, or fails
\* (PropagateDepth).
LEMMA DepthsSpread ==
  ASSUME CodeInv, DepthsInv, NEW b \in worklist, PropagateDepth(b)
  PROVE  DepthsInv'
<1> DEFINE out == DepthAfter(b)[LastOf(b)]
           new == {s \in Successors(b) : depth[s] = Unknown}
<1>1. /\ code \in Codes /\ code' = code
      /\ DepthType /\ depth[1] = 0 /\ worklist \subseteq Reachable
      /\ \A c \in Reachable \ worklist : Settled(c)
  BY DEF CodeInv, DepthsInv, PropagateDepth
<1>2. SUFFICES ASSUME pass' # "failed"
      PROVE  /\ DepthType' /\ depth'[1] = 0 /\ worklist' \subseteq Reachable'
             /\ \A c \in Reachable' \ worklist' : Settled(c)'
  BY DEF DepthsInv
<1>3. /\ ~Underflows(b) /\ \A s \in Successors(b) \ new : depth[s] = out
      /\ depth' = [c \in Leaders |-> IF c \in new THEN out ELSE depth[c]]
      /\ worklist' = (worklist \ {b}) \cup new
  BY <1>2 DEF PropagateDepth
<1>4. b \in Leaders /\ depth[b] \in Nat /\ 1 \in Leaders
  BY <1>1, ReachableFacts, LeadersInCode
<1>5. out \in Nat
  <2>1. LastOf(b) \in (b - 1) .. LastOf(b)
    BY <1>1, <1>4, BlockFacts
  <2> QED BY <1>1, <1>3, <1>4, <2>1, DepthFits
<1>6. new \subseteq Leaders /\ Leaders' = Leaders /\ Successors(b) \subseteq Leaders
  BY <1>1, <1>4, BlockFacts, SameBlocks
<1>7. Unknown \notin Nat
  BY DEF Unknown
<1>8. b \notin new /\ 1 \notin new
  BY <1>1, <1>4, <1>7
<1> HIDE DEF out, new
<1>9. \A c \in Leaders : depth'[c] = IF c \in new THEN out ELSE depth[c]
  BY <1>3
<1>10. DepthType' /\ depth'[1] = 0
  BY <1>1, <1>3, <1>4, <1>5, <1>6, <1>8 DEF DepthType
<1>11. Reachable' = Reachable \cup new
  BY <1>5, <1>6, <1>7, <1>9 DEF Reachable
<1>12. ASSUME NEW c \in Reachable' \ worklist' PROVE Settled(c)'
  <2>1. c \in Leaders /\ c \in Reachable /\ c \notin new /\ depth'[c] = depth[c]
    BY <1>3, <1>6, <1>9, <1>11 DEF Reachable
  <2>2. CASE c = b
    <3>1. \A s \in Successors(b) : depth'[s] = DepthAfter(b)[LastOf(b)]
      BY <1>3, <1>6, <1>9 DEF out
    <3> QED BY <1>1, <1>3, <2>1, <2>2, <3>1, SettledKept
  <2>3. CASE c # b
    <3>1. Settled(c)
      BY <1>1, <1>3, <2>1, <2>3
    <3>2. /\ ~Underflows(c)
          /\ \A s \in Successors(c) : depth[s] = DepthAfter(c)[LastOf(c)]
      BY <3>1 DEF Settled
    <3>3. DepthAfter(c)[LastOf(c)] \in Nat /\ Successors(c) \subseteq Leaders
      <4>1. depth[c] \in Nat /\ LastOf(c) \in (c - 1) .. LastOf(c)
        BY <1>1, <2>1, ReachableFacts, BlockFacts
      <4> QED BY <1>1, <2>1, <3>2, <4>1, DepthFits, BlockFacts
    <3>4. \A s \in Successors(c) : depth'[s] = DepthAfter(c)[LastOf(c)]
      BY <1>7, <1>9, <3>2, <3>3 DEF new
    <3> QED BY <1>1, <2>1, <3>2, <3>4, SettledKept
  <2> QED BY <2>2, <2>3
<1> QED BY <1>1, <1>3, <1>10, <1>11, <1>12

\* What follows the depths leaves them alone.
LEMMA DepthsFramed ==
  ASSUME DepthsInv, UNCHANGED <<code, depth, worklist>>,
         pass' \in {"depths", "liveness", "allocate", "verify", "run", "rejected"} =>
           pass \in {"depths", "liveness", "allocate", "verify", "run", "rejected"}
  PROVE  DepthsInv'
<1>1. DepthType' = DepthType /\ Reachable' = Reachable
  BY SameBlocks DEF DepthType, Reachable
<1>2. \A b : Settled(b)' = Settled(b)
  <2>1. \A b : DepthAfter(b)' = DepthAfter(b)
    BY SameBlocks DEF DepthAfter
  <2> QED BY <2>1, SameBlocks DEF Settled, Underflows
<1> QED BY <1>1, <1>2 DEF DepthsInv

-----------------------------------------------------------------------------
LoweredFunction ==
  [entry |-> [b \in Leaders |-> Entry(b)],
   uses  |-> [i \in Instructions |-> Operands(i)],
   defs  |-> [i \in Instructions |-> Results(i)],
   exit  |-> [b \in Reachable |-> StackAfter(b)[LastOf(b)]],
   count |-> RegisterTotal]

LoweredPasses == {"liveness", "allocate", "verify", "run", "rejected"}
LoweredInv ==
  pass \in LoweredPasses =>
    /\ worklist = {}
    /\ 0 .. RegisterTotal - 1 \subseteq VirtualRegisters
    /\ lowered = LoweredFunction

\* A function that was lowered: its depths are settled everywhere.
IsLowered ==
  /\ code \in Codes /\ DepthType /\ depth[1] = 0
  /\ \A b \in Reachable : Settled(b)
  /\ 0 .. RegisterTotal - 1 \subseteq VirtualRegisters
  /\ lowered = LoweredFunction

\* After the lowering every reachable block is settled and the function is the
\* lowered one.
LEMMA LoweredNow ==
  ASSUME CodeInv, DepthsInv, LoweredInv, pass \in LoweredPasses
  PROVE  IsLowered
BY DEF CodeInv, DepthsInv, LoweredInv, LoweredPasses, IsLowered

\* The lowered function depends on the code and the depths alone.
LEMMA LoweringFramed ==
  ASSUME UNCHANGED <<code, depth>>
  PROVE  LoweredFunction' = LoweredFunction /\ RegisterTotal' = RegisterTotal
<1>1. Reachable' = Reachable
  BY SameBlocks DEF Reachable
<1>2. Live' = Live
  BY <1>1, SameBlocks DEF Live
<1>3. \A b : EntriesBefore(b)' = EntriesBefore(b)
  BY <1>1 DEF EntriesBefore
<1>4. \A b : Entry(b)' = Entry(b)
  BY <1>1, <1>3 DEF Entry
<1>5. \A i : Results(i)' = Results(i)
  <2>1. \A i : ResultRegister(i)' = ResultRegister(i)
    BY <1>2, <1>3, SameBlocks DEF ResultRegister
  <2> QED BY <1>2, <2>1, SameBlocks DEF Results
<1>6. RegisterTotal' = RegisterTotal
  BY <1>2, <1>3, SameBlocks DEF RegisterTotal
<1>7. \A b : StackAfter(b)' = StackAfter(b)
  BY DEF StackAfter, Entry, EntriesBefore, Reachable, Leaders, LastOf, Body, Instructions, Size,
            Results, ResultRegister, Live, Pops, Pushes
<1>8. \A i : Operands(i)' = Operands(i)
  <2>1. \A i : BlockOf(i)' = BlockOf(i)
    BY SameBlocks DEF BlockOf
  <2> QED BY <1>2, <1>7, <2>1, SameBlocks DEF Operands
<1> QED BY <1>1, <1>4, <1>5, <1>6, <1>7, <1>8, SameBlocks DEF LoweredFunction

\* The lowering leaves the lowered function (Lower).
LEMMA LoweringDone ==
  ASSUME CodeInv, Lower
  PROVE  LoweredInv'
<1>1. UNCHANGED <<code, depth>> /\ worklist' = {} /\ 0 .. RegisterTotal - 1 \subseteq VirtualRegisters
      /\ lowered' = LoweredFunction
  BY DEF Lower, LoweredFunction
<1> QED BY <1>1, LoweringFramed DEF LoweredInv

\* The later passes leave the lowered function alone.
LEMMA LoweredFramed ==
  ASSUME LoweredInv, UNCHANGED <<code, depth, worklist, lowered>>,
         pass' \in LoweredPasses => pass \in LoweredPasses
  PROVE  LoweredInv'
<1>1. LoweredPasses' = LoweredPasses
  BY DEF LoweredPasses
<1> QED BY <1>1, LoweringFramed DEF LoweredInv

-----------------------------------------------------------------------------
(***************************************************************************)
(* What the lowered function holds.                                        *)
(***************************************************************************)
Needs(i) == Pops(i) + ReadsWithoutPop(i)

\* What the lowered function says of a reachable block.
LEMMA LoweredFacts ==
  ASSUME IsLowered, NEW b \in Reachable
  PROVE  /\ b \in Leaders /\ depth[b] \in Nat
         /\ lowered.entry[b] = Entry(b)
         /\ Entry(b) = [k \in 1 .. depth[b] |-> EntriesBefore(b) + k - 1]
         /\ lowered.exit[b] = StackAfter(b)[LastOf(b)]
         /\ Successors(b) \subseteq Reachable
         /\ \A s \in Successors(b) : depth[s] = DepthAfter(b)[LastOf(b)]
         /\ \A i \in (b - 1) .. LastOf(b) : StackFitsAt(b, i) /\ DepthAfter(b)[i] \in Nat
         /\ \A i \in Body(b) : lowered.defs[i] = Results(i)
<1>1. /\ code \in Codes /\ DepthType /\ Settled(b) /\ lowered = LoweredFunction
  BY DEF IsLowered
<1>2. b \in Leaders /\ depth[b] \in Nat
  BY <1>1, ReachableFacts
<1>3. Body(b) \subseteq Instructions /\ LastOf(b) \in (b - 1) .. LastOf(b) /\ Successors(b) \subseteq Leaders
  BY <1>1, <1>2, BlockFacts, CodeFacts
<1>4. \A i \in (b - 1) .. LastOf(b) : StackFitsAt(b, i) /\ DepthAfter(b)[i] \in Nat
  BY <1>1, <1>2, StackFits, DepthFits DEF Settled
<1>5. \A s \in Successors(b) : depth[s] = DepthAfter(b)[LastOf(b)]
  BY <1>1 DEF Settled
<1>6. Successors(b) \subseteq Reachable
  <2>1. Unknown \notin Nat
    BY DEF Unknown
  <2>2. \A s \in Successors(b) : depth[s] # Unknown
    BY <1>3, <1>4, <1>5, <2>1
  <2> QED BY <1>3, <2>2 DEF Reachable
<1>7. Entry(b) = [k \in 1 .. depth[b] |-> EntriesBefore(b) + k - 1]
  BY <1>1, EntryNumbers
<1>8. /\ lowered.entry[b] = Entry(b) /\ lowered.exit[b] = StackAfter(b)[LastOf(b)]
      /\ \A i \in Body(b) : lowered.defs[i] = Results(i)
  BY <1>1, <1>2, <1>3 DEF LoweredFunction
<1> QED BY <1>2, <1>4, <1>5, <1>6, <1>7, <1>8

\* The operands of an instruction are the registers on top of the stack before
\* it, and the block may read them.
LEMMA OperandFacts ==
  ASSUME IsLowered, NEW b \in Reachable, NEW i \in Body(b)
  PROVE  /\ i \in 1 .. Size /\ i \in Live /\ i - 1 \in (b - 1) .. LastOf(b)
         /\ Needs(i) \in Nat /\ Pops(i) \in Nat /\ Pops(i) <= Needs(i)
         /\ ReadsWithoutPop(i) \in {0, 1} /\ Pushes(i) \in {0, 1}
         /\ Needs(i) <= DepthAfter(b)[i - 1]
         /\ lowered.uses[i] = Top(StackAfter(b)[i - 1], Needs(i))
         /\ lowered.uses[i] \in Seq(Nat) /\ Len(lowered.uses[i]) = Needs(i)
         /\ DOMAIN lowered.uses[i] = 1 .. Needs(i)
         /\ \A k \in 1 .. Needs(i) :
              /\ DepthAfter(b)[i - 1] - Needs(i) + k \in 1 .. DepthAfter(b)[i - 1]
              /\ lowered.uses[i][k] = StackAfter(b)[i - 1][DepthAfter(b)[i - 1] - Needs(i) + k]
              /\ lowered.uses[i][k] \in Known(b, i - 1)
<1>1. /\ code \in Codes /\ DepthType /\ Settled(b) /\ lowered = LoweredFunction
  BY DEF IsLowered
<1>2. b \in Leaders /\ depth[b] \in Nat /\ i \in Live /\ i \in 1 .. Size
  BY <1>1, ReachableFacts
<1>3. /\ Pops(i) \in Nat /\ ReadsWithoutPop(i) \in {0, 1} /\ Pushes(i) \in {0, 1}
      /\ Needs(i) \in Nat /\ Pops(i) <= Needs(i)
  BY <1>1, <1>2, EffectTypes DEF Needs
<1>4. i - 1 \in (b - 1) .. LastOf(b) /\ Needs(i) <= DepthAfter(b)[i - 1]
  BY <1>1, <1>2, DepthFits DEF Settled, Needs
<1>5. /\ StackAfter(b)[i - 1] \in Seq(Nat) /\ Len(StackAfter(b)[i - 1]) = DepthAfter(b)[i - 1]
      /\ \A k \in 1 .. DepthAfter(b)[i - 1] : StackAfter(b)[i - 1][k] \in Known(b, i - 1)
      /\ DepthAfter(b)[i - 1] \in Nat
  BY <1>4, LoweredFacts DEF StackFitsAt
<1>6. lowered.uses[i] = Top(StackAfter(b)[i - 1], Needs(i))
  <2>1. i \in Instructions
    BY <1>1, <1>2, CodeFacts
  <2>2. BlockOf(i) = b
    BY <1>1, <1>2, BlockOfIs
  <2> QED BY <1>1, <1>2, <2>1, <2>2 DEF LoweredFunction, Operands, Needs
<1> DEFINE st == StackAfter(b)[i - 1]
           d == DepthAfter(b)[i - 1]
           n == Needs(i)
<1>7. st \in Seq(Nat) /\ Len(st) = d /\ n \in Nat /\ n <= Len(st)
  BY <1>3, <1>4, <1>5
<1>8. \A k \in 1 .. n : d - n + k \in 1 .. d
  BY SMTT(30), <1>3, <1>4, <1>5
<1>9. Top(st, n) \in Seq(Nat) /\ Len(Top(st, n)) = n
      /\ \A k \in 1 .. n : Top(st, n)[k] = st[(d - n) + k]
  <2> HIDE DEF st, n, d
  <2> QED BY <1>7, TopAndRest
<1>10. DOMAIN Top(st, n) = 1 .. n
  <2> HIDE DEF st, n, d
  <2> QED BY <1>9
<1>11. ASSUME NEW k \in 1 .. n
       PROVE  /\ d - n + k \in 1 .. d
              /\ lowered.uses[i][k] = st[d - n + k]
              /\ lowered.uses[i][k] \in Known(b, i - 1)
  <2>1. d - n + k \in 1 .. d /\ lowered.uses[i][k] = st[d - n + k]
    <3> HIDE DEF st, n, d
    <3> QED BY <1>6, <1>8, <1>9 DEF st, n
  <2> QED BY <1>5, <2>1
<1> QED BY <1>2, <1>3, <1>4, <1>6, <1>9, <1>10, <1>11

-----------------------------------------------------------------------------
(***************************************************************************)
(* The run on the stack, as values of registers.                           *)
(***************************************************************************)
Values == Nat \X Nat

\* What stores, loads and duplicates take and push.
LEMMA OpFacts ==
  ASSUME code \in Codes, NEW i \in 1 .. Size
  PROVE  /\ code[i].op = "StoreLocal" => /\ Needs(i) = 1 /\ Pushes(i) = 0
                                         /\ i \in Instructions /\ code[i].imm \in Locals
         /\ code[i].op = "LoadLocal" => /\ Needs(i) = 0 /\ code[i].imm \in Locals
                                        /\ code[i].op \notin Barriers
         /\ code[i].op = "Dup" => Needs(i) = 1
<1>1. code[i].op = "StoreLocal" => Pops(i) = 1 /\ ReadsWithoutPop(i) = 0 /\ Pushes(i) = 0
  BY DEF Pops, Pushes, ReadsWithoutPop, Arithmetic
<1>2. code[i].op = "LoadLocal" => Pops(i) = 0 /\ ReadsWithoutPop(i) = 0
  BY DEF Pops, Pushes, ReadsWithoutPop, Arithmetic
<1>3. code[i].op = "Dup" => Pops(i) = 0 /\ ReadsWithoutPop(i) = 1
  BY DEF Pops, Pushes, ReadsWithoutPop, Arithmetic
<1>4. code[i].op \in {"LoadLocal", "StoreLocal"} => code[i].imm \in Locals
  BY CodeFacts DEF Locals
<1>5. code[i].op = "LoadLocal" => code[i].op \notin Barriers
  BY DEF Barriers, Jumps, Returns
<1>6. i \in Instructions
  BY CodeFacts
<1> QED BY <1>1, <1>2, <1>3, <1>4, <1>5, <1>6 DEF Needs

\* The run of block b on the stack, after each of its instructions.
StackRun(b, R) ==
  /\ R[b - 1] = runs["stack"]
  /\ R[LastOf(b)] = RunOfBlock("stack", b)
  /\ \A i \in Body(b) : R[i] = OnStack(i, R[i - 1])

\* A block has a run on the stack.
LEMMA StackRunExists ==
  ASSUME code \in Codes, NEW b \in Leaders
  PROVE  \E R : StackRun(b, R)
<1> DEFINE N == Cardinality(Body(b))
           list == InOrder("stack", b)
<1>1. N \in Nat /\ N = LastOf(b) - b + 1
  BY BodyCounted
<1>2. list = [k \in 1 .. N |-> b + k - 1]
  BY DEF InOrder
<1>3. Len(list) = N /\ \A n \in 1 .. N : list[n] = b + n - 1
  <2>1. \A k \in 1 .. N : b + k - 1 \in Int
    BY <1>1, BlockFacts
  <2> HIDE DEF N
  <2>2. list \in Seq(Int)
    BY <1>1, <1>2, <2>1
  <2> HIDE DEF list
  <2> QED BY <1>1, <1>2, <2>2
<1> HIDE DEF list
<1>4. PICK f : RunsAs("stack", b, f)
  <2>1. Len(InOrder("stack", b)) \in Nat
    BY <1>1, <1>3 DEF list
  <2> QED BY <2>1, RunSteps
<1>5. /\ RunOfBlock("stack", b) = f[N] /\ f[0] = runs["stack"]
      /\ \A n \in 1 .. N : f[n] = OnStack(b + n - 1, f[n - 1])
  BY <1>3, <1>4 DEF RunsAs, StepOf, list
<1> DEFINE R == [i \in (b - 1) .. LastOf(b) |-> f[i - b + 1]]
<1>6. b \in Int /\ LastOf(b) \in Int /\ b <= LastOf(b) /\ Body(b) = b .. LastOf(b)
  BY BlockFacts
<1> HIDE DEF N
<1>7. R[b - 1] = runs["stack"]
  <2>1. b - 1 \in (b - 1) .. LastOf(b) /\ (b - 1) - b + 1 = 0
    BY <1>6
  <2> QED BY <1>5, <2>1
<1>8. R[LastOf(b)] = RunOfBlock("stack", b)
  BY <1>1, <1>5, <1>6
<1>9. ASSUME NEW i \in Body(b) PROVE R[i] = OnStack(i, R[i - 1])
  <2>1. /\ i \in (b - 1) .. LastOf(b) /\ i - 1 \in (b - 1) .. LastOf(b)
        /\ i - b + 1 \in 1 .. N /\ b + (i - b + 1) - 1 = i
        /\ (i - b + 1) - 1 = (i - 1) - b + 1
    BY SMTT(30), <1>1, <1>6
  <2>2. f[i - b + 1] = OnStack(b + (i - b + 1) - 1, f[(i - b + 1) - 1])
    BY <1>5, <2>1
  <2>3. R[i] = f[i - b + 1] /\ R[i - 1] = f[(i - 1) - b + 1]
    BY <2>1
  <2> HIDE DEF R
  <2> QED BY <2>1, <2>2, <2>3
<1> HIDE DEF R
<1> QED BY <1>7, <1>8, <1>9 DEF StackRun

\* The value of register r in the run R of block b.
ValueOf(b, R, r) ==
  IF r < EntryTotal THEN runs["stack"].values[r - EntriesBefore(b) + 1]
  ELSE LET j == CHOOSE j \in Makers : ResultRegister(j) = r IN R[j].values[Len(R[j].values)]

\* An entry register's value is what the stack holds at the start of the block;
\* a result's value is what its instruction pushes.
LEMMA ValueFacts ==
  ASSUME IsLowered, NEW b \in Reachable, NEW R
  PROVE  /\ \A k \in 1 .. depth[b] : /\ ValueOf(b, R, Entry(b)[k]) = runs["stack"].values[k]
                                     /\ Entry(b)[k] \in 0 .. EntryTotal - 1
         /\ \A j \in MadeIn(b) : /\ ValueOf(b, R, ResultRegister(j)) = R[j].values[Len(R[j].values)]
                                 /\ ResultRegister(j) \in EntryTotal .. RegisterTotal - 1
<1>1. code \in Codes /\ DepthType
  BY DEF IsLowered
<1>2. /\ EntryTotal \in Nat /\ EntriesBefore(b) \in Nat /\ depth[b] \in Nat
      /\ Entry(b) = [k \in 1 .. depth[b] |-> EntriesBefore(b) + k - 1]
      /\ EntriesBefore(b) + depth[b] <= EntryTotal
  BY <1>1, EntryNumbers, ReachableFacts
<1>3. ASSUME NEW k \in 1 .. depth[b]
      PROVE  /\ ValueOf(b, R, Entry(b)[k]) = runs["stack"].values[k]
             /\ Entry(b)[k] \in 0 .. EntryTotal - 1
  <2> DEFINE e == EntriesBefore(b)
             d == depth[b]
             r == Entry(b)[k]
  <2>a. e \in Nat /\ d \in Nat /\ EntryTotal \in Nat /\ e + d <= EntryTotal /\ k \in 1 .. d
        /\ r = e + k - 1
    BY <1>2
  <2> HIDE DEF e, d, r
  <2>b. r \in 0 .. EntryTotal - 1 /\ r < EntryTotal /\ r - e + 1 = k
    BY <2>a
  <2>1. /\ Entry(b)[k] \in 0 .. EntryTotal - 1
        /\ Entry(b)[k] < EntryTotal /\ Entry(b)[k] - EntriesBefore(b) + 1 = k
    BY <2>b DEF e, r
  <2> QED BY <2>1 DEF ValueOf
<1>4. ASSUME NEW j \in MadeIn(b)
      PROVE  /\ ValueOf(b, R, ResultRegister(j)) = R[j].values[Len(R[j].values)]
             /\ ResultRegister(j) \in EntryTotal .. RegisterTotal - 1
  <2>1. j \in Makers
    BY <1>1, MadeFacts DEF MadeIn
  <2>2. ResultRegister(j) \in EntryTotal .. RegisterTotal - 1 /\ RegisterTotal \in Nat
    BY <1>1, <2>1, ResultNumbers
  <2>3. ~(ResultRegister(j) < EntryTotal)
    BY <1>2, <2>2
  <2>4. (CHOOSE l \in Makers : ResultRegister(l) = ResultRegister(j)) = j
    BY <1>1, <2>1, ResultNumbers
  <2> QED BY <2>2, <2>3, <2>4 DEF ValueOf
<1> QED BY <1>3, <1>4

\* The operands that instruction i of block b takes in the run R.
Args(b, R, i) == [k \in 1 .. Needs(i) |-> ValueOf(b, R, lowered.uses[i][k])]
ReadBy(b, R, i) ==
  IF code[i].op = "LoadLocal" THEN <<R[i - 1].locals[code[i].imm]>> ELSE Args(b, R, i)

-----------------------------------------------------------------------------
\* After instruction i the run's stack holds the values of the registers that
\* lowering puts there.
StackHolds(b, R, i) ==
  /\ R[i].values \in Seq(Values) /\ Len(R[i].values) = DepthAfter(b)[i]
  /\ \A k \in 1 .. DepthAfter(b)[i] : R[i].values[k] = ValueOf(b, R, StackAfter(b)[i][k])
  /\ R[i].locals \in [Locals -> Values]

\* What the instruction does in the run.
StackDoes(b, R, i) ==
  /\ Args(b, R, i) \in Seq(Values) /\ Len(Args(b, R, i)) = Needs(i)
  /\ R[i].locals = IF code[i].op # "StoreLocal" THEN R[i - 1].locals
                   ELSE [R[i - 1].locals EXCEPT ![code[i].imm] = Args(b, R, i)[1]]
  /\ R[i].reads = [R[i - 1].reads EXCEPT ![i] = ReadBy(b, R, i)]
  /\ R[i].effects = IF code[i].op \in Barriers THEN Append(R[i - 1].effects, i)
                    ELSE R[i - 1].effects
  /\ Pushes(i) = 1 =>
       /\ ValueOf(b, R, ResultRegister(i)) = Made(i, Args(b, R, i), R[i - 1])
       /\ Made(i, Args(b, R, i), R[i - 1]) \in Values

\* The stack's top holds the operands' values.
LEMMA ArgsOnStack ==
  ASSUME IsLowered, NEW b \in Reachable, NEW R, NEW i \in Body(b), StackHolds(b, R, i - 1)
  PROVE  /\ Top(R[i - 1].values, Needs(i)) = Args(b, R, i)
         /\ Args(b, R, i) \in Seq(Values) /\ Len(Args(b, R, i)) = Needs(i)
<1> DEFINE s == R[i - 1].values
           d == DepthAfter(b)[i - 1]
           n == Needs(i)
           top == Top(s, n)
<1>1. /\ n \in Nat /\ n <= d
      /\ \A k \in 1 .. n :
           /\ d - n + k \in 1 .. d
           /\ lowered.uses[i][k] = StackAfter(b)[i - 1][d - n + k]
  BY OperandFacts
<1>2. s \in Seq(Values) /\ Len(s) = d
      /\ \A k \in 1 .. d : s[k] = ValueOf(b, R, StackAfter(b)[i - 1][k])
  BY DEF StackHolds
<1>3. top \in Seq(Values) /\ Len(top) = n /\ \A k \in 1 .. n : top[k] = s[(d - n) + k]
  <2> HIDE DEF s, n, d
  <2> QED BY <1>1, <1>2, TopAndRest
<1>4. \A k \in 1 .. n : top[k] = ValueOf(b, R, lowered.uses[i][k])
  <2> HIDE DEF s, n, d, top
  <2> QED BY ZenonT(30), <1>1, <1>2, <1>3
<1>5. top = [k \in 1 .. n |-> top[k]]
  <2> HIDE DEF top, n
  <2> QED BY <1>1, <1>3
<1>6. top = Args(b, R, i)
  <2>1. [k \in 1 .. n |-> top[k]] = [k \in 1 .. n |-> ValueOf(b, R, lowered.uses[i][k])]
    <3> HIDE DEF top, n
    <3> QED BY <1>4
  <2> QED BY <1>5, <2>1 DEF Args
<1> HIDE DEF top
<1> QED BY <1>3, <1>6 DEF top

\* One instruction on the stack pushes the value of its result register.
LEMMA StackStep ==
  ASSUME IsLowered, visits \in Nat, NEW b \in Reachable, NEW R, StackRun(b, R),
         NEW i \in Body(b), StackHolds(b, R, i - 1)
  PROVE  StackHolds(b, R, i) /\ StackDoes(b, R, i)
<1> DEFINE s == R[i - 1].values
           d == DepthAfter(b)[i - 1]
           p == Pops(i)
           args == Args(b, R, i)
           new == Made(i, args, R[i - 1])
           made == IF Pushes(i) = 1 THEN <<new>> ELSE <<>>
<1>1. code \in Codes /\ DepthType /\ i \in 1 .. Size /\ b \in Leaders
  BY OperandFacts, LoweredFacts DEF IsLowered
<1>2. /\ p \in Nat /\ p <= d /\ d \in Nat /\ Pushes(i) \in {0, 1}
      /\ DepthAfter(b)[i] = d - p + Pushes(i)
  <2>1. i - 1 \in (b - 1) .. LastOf(b) /\ p \in Nat /\ p <= Needs(i) /\ Needs(i) <= d
        /\ Needs(i) \in Nat /\ Pushes(i) \in {0, 1}
    BY OperandFacts
  <2>2. d \in Nat
    BY <2>1, LoweredFacts
  <2>3. DepthAfter(b)[i] = d - p + Pushes(i)
    BY <1>1, DepthSteps
  <2> QED BY <2>1, <2>2, <2>3
<1>3. /\ Top(s, Needs(i)) = args /\ args \in Seq(Values) /\ Len(args) = Needs(i)
  BY ArgsOnStack
<1>4. /\ s \in Seq(Values) /\ Len(s) = d
      /\ \A k \in 1 .. d : s[k] = ValueOf(b, R, StackAfter(b)[i - 1][k])
      /\ R[i - 1].locals \in [Locals -> Values]
  BY DEF StackHolds
<1>5. R[i] = Done(i, args, Without(s, p) \o made, R[i - 1])
  <2>1. R[i] = OnStack(i, R[i - 1])
    BY DEF StackRun
  <2> QED BY <1>3, <2>1 DEF OnStack, Needs
<1>6. new \in Values
  <2>1. CASE code[i].op = "Dup"
    <3>1. Needs(i) = 1
      BY <1>1, <2>1, OpFacts
    <3>2. args[1] \in Values
      <4> HIDE DEF args
      <4>1. args \in Seq(Values) /\ 1 \in 1 .. Len(args)
        BY <1>3, <3>1
      <4> QED BY <4>1, ElementOf
    <3> QED BY <2>1, <3>2 DEF Made
  <2>2. CASE code[i].op = "LoadLocal"
    <3>1. code[i].imm \in Locals
      BY <1>1, <2>2, OpFacts
    <3> QED BY <1>4, <2>2, <3>1 DEF Made
  <2>3. CASE code[i].op \notin {"Dup", "LoadLocal"}
    <3>1. <<i, visits>> \in Values
      BY <1>1 DEF Values
    <3> QED BY <2>3, <3>1 DEF Made
  <2> QED BY <2>1, <2>2, <2>3
<1>7. made \in Seq(Values) /\ Len(made) = Pushes(i) /\ (Pushes(i) = 1 => made[1] = new)
  <2> HIDE DEF new
  <2> QED BY <1>2, <1>6
<1>8. /\ Without(s, p) \in Seq(Values) /\ Len(Without(s, p)) = d - p
      /\ \A k \in 1 .. d - p : Without(s, p)[k] = s[k]
  <2> HIDE DEF s, d, p
  <2> QED BY <1>2, <1>4, TopAndRest
<1> DEFINE rest == Without(s, p)
<1>9. /\ rest \o made \in Seq(Values) /\ Len(rest \o made) = DepthAfter(b)[i]
      /\ \A k \in 1 .. d - p : (rest \o made)[k] = s[k]
      /\ Pushes(i) = 1 => (rest \o made)[d - p + 1] = new
  <2> HIDE DEF rest, made, s, d, p, new
  <2>1. /\ rest \o made \in Seq(Values) /\ Len(rest \o made) = Len(rest) + Len(made)
        /\ \A k \in 1 .. Len(rest) : (rest \o made)[k] = rest[k]
        /\ \A k \in 1 .. Len(made) : (rest \o made)[Len(rest) + k] = made[k]
    <3>1. rest \in Seq(Values) /\ made \in Seq(Values)
      BY <1>7, <1>8 DEF rest
    <3> QED BY <3>1, PushOnto
  <2>2. Len(rest) = d - p /\ \A k \in 1 .. d - p : rest[k] = s[k]
    BY <1>8 DEF rest
  <2> QED BY <1>2, <1>7, <2>1, <2>2
<1>10. R[i].values = rest \o made
  BY <1>5 DEF Done
<1>11. /\ \A k \in 1 .. d - p : StackAfter(b)[i][k] = StackAfter(b)[i - 1][k]
       /\ Pushes(i) = 1 => StackAfter(b)[i][d - p + 1] = ResultRegister(i)
  <2> DEFINE a == StackAfter(b)[i - 1]
             t == Results(i)
             u == Without(a, p)
  <2>1. a \in Seq(Nat) /\ Len(a) = d
    <3>1. StackFitsAt(b, i - 1)
      BY OperandFacts, LoweredFacts
    <3> QED BY <3>1 DEF StackFitsAt
  <2>2. /\ t \in Seq(Nat) /\ Len(t) = Pushes(i)
        /\ Pushes(i) = 1 => t = <<ResultRegister(i)>>
    BY <1>1, MadeFacts
  <2>3. StackAfter(b)[i] = u \o t
    BY <1>1, StackSteps
  <2> HIDE DEF a, t, d, p
  <2>4. /\ u \in Seq(Nat) /\ Len(u) = d - p
        /\ \A k \in 1 .. d - p : u[k] = a[k]
    BY ZenonT(30), <1>2, <2>1, TopAndRest
  <2> HIDE DEF u
  <2>5. /\ Len(u \o t) = Len(u) + Len(t)
        /\ \A k \in 1 .. Len(u) : (u \o t)[k] = u[k]
        /\ \A k \in 1 .. Len(t) : (u \o t)[Len(u) + k] = t[k]
    <3>1. u \in Seq(Nat) /\ t \in Seq(Nat)
      BY <2>2, <2>4
    <3> QED BY <3>1, PushOnto
  <2>6. \A k \in 1 .. d - p : (u \o t)[k] = a[k]
    BY <2>4, <2>5
  <2>7. Pushes(i) = 1 => (u \o t)[d - p + 1] = ResultRegister(i)
    <3>1. Pushes(i) = 1 => (u \o t)[Len(u) + 1] = t[1] /\ t[1] = ResultRegister(i)
      BY <2>2, <2>5
    <3> QED BY <2>4, <3>1
  <2> QED BY <2>3, <2>6, <2>7 DEF a
<1>12. Pushes(i) = 1 => ValueOf(b, R, ResultRegister(i)) = new /\ DepthAfter(b)[i] = d - p + 1
  <2>1. Pushes(i) = 1 => ValueOf(b, R, ResultRegister(i)) = R[i].values[Len(R[i].values)]
    BY ValueFacts DEF MadeIn
  <2> HIDE DEF rest, made, s, d, p, new
  <2> QED BY <1>2, <1>9, <1>10, <2>1
<1>13. ASSUME NEW k \in 1 .. DepthAfter(b)[i]
       PROVE  R[i].values[k] = ValueOf(b, R, StackAfter(b)[i][k])
  <2> HIDE DEF rest, made, s, d, p, new
  <2>1. CASE k \in 1 .. d - p
    <3>1. k \in 1 .. d
      BY <1>2, <2>1
    <3> QED BY <1>4, <1>9, <1>10, <1>11, <2>1, <3>1 DEF d
  <2>2. CASE k \notin 1 .. d - p
    <3>1. Pushes(i) = 1 /\ k = d - p + 1
      BY <1>2, <2>2
    <3> QED BY <1>9, <1>10, <1>11, <1>12, <3>1
  <2> QED BY <2>1, <2>2
<1>14. R[i].locals = IF code[i].op # "StoreLocal" THEN R[i - 1].locals
                     ELSE [R[i - 1].locals EXCEPT ![code[i].imm] = args[1]]
  BY <1>5 DEF Done
<1>15. R[i].locals \in [Locals -> Values]
  <2>1. CASE code[i].op # "StoreLocal"
    BY <1>4, <1>14, <2>1
  <2>2. CASE code[i].op = "StoreLocal"
    <3>1. Needs(i) = 1
      BY <1>1, <2>2, OpFacts
    <3>2. args[1] \in Values
      <4> HIDE DEF args
      <4>1. args \in Seq(Values) /\ 1 \in 1 .. Len(args)
        BY <1>3, <3>1
      <4> QED BY <4>1, ElementOf
    <3> HIDE DEF args
    <3> QED BY <1>4, <1>14, <2>2, <3>2
  <2> QED BY <2>1, <2>2
<1>16. R[i].reads = [R[i - 1].reads EXCEPT ![i] = ReadBy(b, R, i)]
  BY <1>5 DEF Done, ReadBy
<1>17. R[i].effects = IF code[i].op \in Barriers THEN Append(R[i - 1].effects, i)
                      ELSE R[i - 1].effects
  BY <1>5 DEF Done
<1>18. R[i].values \in Seq(Values) /\ Len(R[i].values) = DepthAfter(b)[i]
  <2> HIDE DEF rest, made
  <2> QED BY <1>9, <1>10
<1>19. StackHolds(b, R, i)
  BY <1>13, <1>15, <1>18 DEF StackHolds
<1>20. Pushes(i) = 1 => /\ ValueOf(b, R, ResultRegister(i)) = Made(i, args, R[i - 1])
                        /\ Made(i, args, R[i - 1]) \in Values
  BY <1>6, <1>12
<1>21. StackDoes(b, R, i)
  <2> HIDE DEF args
  <2> QED BY <1>3, <1>14, <1>16, <1>17, <1>20 DEF StackDoes, args
<1> QED BY <1>19, <1>21

\* The stack run is ready to begin the block b.
StackReady(b) ==
  /\ runs["stack"].values \in Seq(Values) /\ Len(runs["stack"].values) = depth[b]
  /\ runs["stack"].locals \in [Locals -> Values]
  /\ runs["stack"].reads = [i \in Instructions |-> runs["stack"].reads[i]]
  /\ visits \in Nat

\* Throughout the block the stack holds the values of the registers that
\* lowering put there.
LEMMA StackRunHolds ==
  ASSUME IsLowered, NEW b \in Reachable, NEW R, StackRun(b, R), StackReady(b)
  PROVE  /\ \A i \in (b - 1) .. LastOf(b) : StackHolds(b, R, i)
         /\ \A i \in Body(b) : StackDoes(b, R, i)
<1> DEFINE P == {i \in Int : StackHolds(b, R, i)}
<1>1. code \in Codes /\ b \in Leaders /\ depth[b] \in Nat
  BY LoweredFacts DEF IsLowered
<1>2. b \in Int /\ LastOf(b) \in Int /\ b - 1 \in Int /\ Body(b) = b .. LastOf(b)
  BY <1>1, BlockFacts
<1>3. b - 1 \in P
  <2>1. R[b - 1] = runs["stack"] /\ DepthAfter(b)[b - 1] = depth[b] /\ StackAfter(b)[b - 1] = Entry(b)
    BY <1>1, DepthSteps, StackSteps DEF StackRun
  <2>2. \A k \in 1 .. depth[b] : ValueOf(b, R, Entry(b)[k]) = runs["stack"].values[k]
    BY ValueFacts
  <2>3. StackHolds(b, R, b - 1)
    BY <2>1, <2>2 DEF StackHolds, StackReady
  <2> QED BY <1>2, <2>3
<1>4. ASSUME NEW i \in (b - 1) .. LastOf(b), i + 1 <= LastOf(b), i \in P PROVE i + 1 \in P
  <2>1. i + 1 \in Body(b) /\ (i + 1) - 1 = i /\ i + 1 \in Int
    BY <1>2, <1>4
  <2>2. StackHolds(b, R, (i + 1) - 1)
    BY <1>4, <2>1
  <2>3. StackHolds(b, R, i + 1)
    BY <2>1, <2>2, StackStep DEF StackReady
  <2> QED BY <2>1, <2>3
<1>5. \A i \in (b - 1) .. LastOf(b) : i \in P
  <2> HIDE DEF P
  <2> QED BY <1>2, <1>3, <1>4, IntervalInduction
<1>6. ASSUME NEW i \in Body(b) PROVE StackDoes(b, R, i)
  <2>1. i - 1 \in (b - 1) .. LastOf(b)
    BY <1>2
  <2>2. StackHolds(b, R, i - 1)
    BY <1>5, <2>1
  <2> QED BY <2>2, StackStep DEF StackReady
<1> QED BY <1>5, <1>6

-----------------------------------------------------------------------------
(***************************************************************************)
(* The schedule keeps the order that the instructions need.                *)
(***************************************************************************)
\* What an instruction of any block uses and defines.
LEMMA UsedFacts ==
  ASSUME IsLowered, NEW i \in 1 .. Size
  PROVE  /\ i \in Live => \E b \in Reachable : i \in Body(b)
         /\ i \notin Live => lowered.uses[i] = <<>> /\ lowered.defs[i] = <<>>
         /\ lowered.uses[i] \in Seq(Nat)
         /\ Defined(i) = {} \/ (i \in Live /\ Pushes(i) = 1 /\ Defined(i) = {ResultRegister(i)})
         /\ i \in Live /\ Pushes(i) = 1 => Defined(i) = {ResultRegister(i)}
<1>1. code \in Codes /\ lowered = LoweredFunction /\ i \in Instructions /\ DepthType
  BY CodeFacts DEF IsLowered
<1>2. i \in Live => \E b \in Reachable : i \in Body(b)
  BY DEF Live
<1>3. i \notin Live => lowered.uses[i] = <<>> /\ lowered.defs[i] = <<>>
  BY <1>1 DEF LoweredFunction, Operands, Results
<1>4. lowered.uses[i] \in Seq(Nat)
  <2>1. CASE i \in Live
    <3>1. PICK b \in Reachable : i \in Body(b)
      BY <1>2, <2>1
    <3> QED BY <3>1, OperandFacts
  <2>2. CASE i \notin Live
    <3>1. <<>> \in Seq(Nat)
      OBVIOUS
    <3> QED BY <1>3, <2>2, <3>1
  <2> QED BY <2>1, <2>2
<1>5. lowered.defs[i] = Results(i)
  BY <1>1 DEF LoweredFunction
<1>6. \A r : Elements(<<r>>) = {r}
  BY DEF Elements
<1>7. Elements(<<>>) = {}
  BY DEF Elements
<1>8. lowered.defs[i] = IF i \in Live /\ Pushes(i) = 1 THEN <<ResultRegister(i)>> ELSE <<>>
  BY <1>5 DEF Results
<1> QED BY <1>2, <1>3, <1>4, <1>6, <1>7, <1>8 DEF Defined

\* A latency is a number.
LEMMA LatencyType ==
  ASSUME IsLowered, NEW i \in 1 .. Size
  PROVE  Latency(i) \in Nat
<1>1. lowered.uses[i] \in Seq(Nat) /\ (Defined(i) = {} \/ Defined(i) = {ResultRegister(i)})
  BY UsedFacts
<1>2. Cardinality({k \in DOMAIN lowered.uses[i] : Spilled(lowered.uses[i][k])}) \in Nat
  <2> DEFINE U == {k \in DOMAIN lowered.uses[i] : Spilled(lowered.uses[i][k])}
             n == Len(lowered.uses[i])
  <2>1. n \in Nat /\ DOMAIN lowered.uses[i] = 1 .. n
    BY <1>1
  <2>2. U \in SUBSET (1 .. n)
    BY <2>1
  <2>3. IsFiniteSet(1 .. n)
    <3> HIDE DEF n
    <3> QED BY <2>1, FS_Interval
  <2> QED BY <2>2, <2>3, FS_Subset, FS_CardinalityType
<1>3. Cardinality({v \in Defined(i) : Spilled(v)}) \in Nat
  <2>1. IsFiniteSet(Defined(i))
    BY <1>1, FS_EmptySet, FS_Singleton
  <2>2. {v \in Defined(i) : Spilled(v)} \in SUBSET Defined(i)
    BY Zenon
  <2> QED BY <2>1, <2>2, FS_Subset, FS_CardinalityType
<1> DEFINE base == CASE code[i].op = "Div" -> 8
                     [] code[i].op = "Mul" -> 4
                     [] code[i].op = "Sub" -> 2
                     [] OTHER -> 1
           a == Cardinality({k \in DOMAIN lowered.uses[i] : Spilled(lowered.uses[i][k])})
           d == Cardinality({v \in Defined(i) : Spilled(v)})
<1>4. base \in {8, 4, 2, 1}
  OBVIOUS
<1>5. Latency(i) = base + 2 * a + 2 * d
  BY DEF Latency
<1> HIDE DEF base, a, d
<1> QED BY <1>2, <1>3, <1>4, <1>5 DEF a, d

\* Of the ready instructions one comes first.
LEMMA BestReady ==
  ASSUME IsLowered, NEW b \in Leaders, NEW done, ReadyIn(b, done) # {}
  PROVE  PickedIn(b, done) \in ReadyIn(b, done)
<1> DEFINE U == ReadyIn(b, done)
           Better(j, k) == Latency(j) > Latency(k) \/ (Latency(j) = Latency(k) /\ j <= k)
           P == {m \in Int : (\E x \in U : x <= m) =>
                               \E j \in U : j <= m /\ \A k \in U : k <= m => Better(j, k)}
<1>1. /\ code \in Codes /\ b \in Int /\ LastOf(b) \in Int /\ b <= LastOf(b)
      /\ Body(b) = b .. LastOf(b) /\ Body(b) \subseteq 1 .. Size
  BY BlockFacts DEF IsLowered
<1>2. \A j \in U : j \in b .. LastOf(b) /\ Latency(j) \in Nat /\ j \in Int
  BY <1>1, LatencyType DEF ReadyIn
<1> HIDE DEF U
<1>3. b - 1 \in P
  BY <1>1, <1>2
<1>4. ASSUME NEW m \in (b - 1) .. LastOf(b), m + 1 <= LastOf(b), m \in P PROVE m + 1 \in P
  <2>1. m \in Int /\ m + 1 \in Int
    BY <1>1
  <2>2. CASE m + 1 \notin U
    <3>1. \A x \in U : x <= m + 1 <=> x <= m
      BY <1>2, <2>1, <2>2
    <3> HIDE DEF Better
    <3> QED BY <1>4, <2>1, <3>1
  <2>3. CASE m + 1 \in U /\ ~\E x \in U : x <= m
    <3>1. \A x \in U : x <= m + 1 => x = m + 1
      BY <1>2, <2>1, <2>3
    <3>2. Better(m + 1, m + 1) /\ m + 1 <= m + 1
      BY <1>2, <2>1
    <3> HIDE DEF Better
    <3> QED BY <2>1, <2>3, <3>1, <3>2
  <2>4. CASE m + 1 \in U /\ \E x \in U : x <= m
    <3>1. PICK j \in U : j <= m /\ \A k \in U : k <= m => Better(j, k)
      BY <1>4, <2>4
    <3>2. \A k \in U : k <= m + 1 => k <= m \/ k = m + 1
      BY <1>2, <2>1
    <3>3. CASE Latency(m + 1) > Latency(j)
      <4>1. \A k \in U : k <= m + 1 => Better(m + 1, k)
        BY <1>2, <2>1, <2>4, <3>1, <3>2, <3>3
      <4> HIDE DEF Better
      <4> QED BY <2>1, <2>4, <4>1
    <3>4. CASE ~(Latency(m + 1) > Latency(j))
      <4>1. \A k \in U : k <= m + 1 => Better(j, k)
        BY <1>2, <2>1, <2>4, <3>1, <3>2, <3>4
      <4>2. j <= m + 1
        BY <1>2, <2>1, <3>1
      <4> HIDE DEF Better
      <4> QED BY <2>1, <4>1, <4>2
    <3> QED BY <3>3, <3>4
  <2> QED BY <2>2, <2>3, <2>4
<1>5. LastOf(b) \in P
  <2>1. b - 1 \in Int /\ LastOf(b) \in (b - 1) .. LastOf(b)
    BY <1>1
  <2>2. \A m \in (b - 1) .. LastOf(b) : m \in P
    <3> HIDE DEF P
    <3> QED BY <1>1, <1>3, <1>4, <2>1, IntervalInduction
  <2> QED BY <2>1, <2>2
<1>6. \E j \in U : \A k \in U : Better(j, k)
  <2>1. \A x \in U : x <= LastOf(b)
    BY <1>1, <1>2
  <2>2. U # {}
    BY DEF U
  <2> HIDE DEF Better
  <2> QED BY <1>5, <2>1, <2>2
<1> QED BY <1>6 DEF PickedIn, U

\* Something is ready while something is left: the first that is left.
LEMMA SomethingReady ==
  ASSUME IsLowered, NEW b \in Leaders, NEW done, Body(b) \ done # {}
  PROVE  ReadyIn(b, done) # {}
<1>1. /\ code \in Codes /\ Body(b) \subseteq 1 .. Size
  BY BlockFacts DEF IsLowered
<1>2. Body(b) \ done \in SUBSET Nat
  BY <1>1
<1>3. PICK j \in Body(b) \ done : \A w \in Body(b) \ done : j <= w
  <2> DEFINE U == Body(b) \ done
  <2>1. U \in SUBSET Nat /\ U # {}
    BY <1>2
  <2> HIDE DEF U
  <2>2. \E u \in U : \A w \in U : u <= w
    BY <2>1, LeastNatural
  <2> QED BY <2>2 DEF U
<1>4. \A i \in Body(b) : Precedes(i, j) => i \in done
  <2>1. ASSUME NEW i \in Body(b), Precedes(i, j), i \notin done PROVE FALSE
    <3>1. i < j /\ j <= i /\ i \in Int /\ j \in Int
      BY <1>1, <1>3, <2>1 DEF Precedes
    <3> QED BY <3>1
  <2> QED BY <2>1
<1> QED BY <1>3, <1>4 DEF ReadyIn

-----------------------------------------------------------------------------
\* What comes after what in a list of the block's instructions.
Orderly(list) ==
  /\ \A p, q \in 1 .. Len(list) : list[p] = list[q] => p = q
  /\ \A p, q \in 1 .. Len(list) : Precedes(list[p], list[q]) => p < q

\* The first n instructions of the schedule.
Scheduled(b, list, n) ==
  /\ list \in Seq(Body(b)) /\ Len(list) = n
  /\ IsFiniteSet(Elements(list)) /\ Cardinality(Elements(list)) = n
  /\ \A p \in 1 .. n : \A i \in Body(b) :
       Precedes(i, list[p]) => \E q \in 1 .. n : q < p /\ list[q] = i
  /\ \A p, q \in 1 .. n : list[p] = list[q] => p = q

\* The elements of a list, and of one that grows.
LEMMA ElementsOf ==
  ASSUME NEW S, NEW s \in Seq(S)
  PROVE  /\ Elements(s) \in SUBSET S
         /\ \A k \in 1 .. Len(s) : s[k] \in Elements(s)
         /\ \A x \in Elements(s) : \E k \in 1 .. Len(s) : s[k] = x
         /\ \A x : Elements(Append(s, x)) = Elements(s) \cup {x}
<1>1. DOMAIN s = 1 .. Len(s) /\ Len(s) \in Nat
  OBVIOUS
<1>2. \A k \in 1 .. Len(s) : s[k] \in S
  OBVIOUS
<1>3. ASSUME NEW x PROVE Elements(Append(s, x)) = Elements(s) \cup {x}
  <2> DEFINE t == Append(s, x)
  <2>1. /\ DOMAIN t = 1 .. (Len(s) + 1)
        /\ \A k \in 1 .. Len(s) : t[k] = s[k]
        /\ t[Len(s) + 1] = x
    BY <1>1
  <2> HIDE DEF t
  <2>2. \A k : k \in 1 .. (Len(s) + 1) <=> (k \in 1 .. Len(s) \/ k = Len(s) + 1)
    BY <1>1
  <2>3. {t[k] : k \in 1 .. (Len(s) + 1)} = {s[k] : k \in 1 .. Len(s)} \cup {x}
    BY <2>1, <2>2
  <2> QED BY <1>1, <2>1, <2>3 DEF Elements, t
<1> QED BY <1>1, <1>2, <1>3 DEF Elements

\* Picking a ready instruction keeps the schedule a list without repetition in
\* which nothing comes before what it must follow.
LEMMA ScheduleGrows ==
  ASSUME IsLowered, NEW b \in Leaders, NEW n \in Nat, n < Cardinality(Body(b)),
         NEW list, Scheduled(b, list, n)
  PROVE  Scheduled(b, Append(list, PickedIn(b, Elements(list))), n + 1)
<1> DEFINE done == Elements(list)
           j == PickedIn(b, done)
           new == Append(list, j)
<1>1. /\ list \in Seq(Body(b)) /\ Len(list) = n
      /\ IsFiniteSet(done) /\ Cardinality(done) = n
      /\ \A p \in 1 .. n : \A i \in Body(b) :
           Precedes(i, list[p]) => \E q \in 1 .. n : q < p /\ list[q] = i
      /\ \A p, q \in 1 .. n : list[p] = list[q] => p = q
  BY DEF Scheduled
<1>2. /\ done \in SUBSET Body(b)
      /\ \A k \in 1 .. n : list[k] \in done
      /\ \A x \in done : \E k \in 1 .. n : list[k] = x
      /\ \A x : Elements(Append(list, x)) = done \cup {x}
  BY <1>1, ElementsOf
<1>3. Body(b) \ done # {}
  <2>1. SUFFICES ASSUME Body(b) \ done = {} PROVE FALSE
    OBVIOUS
  <2>2. Body(b) = done
    BY <1>2, <2>1
  <2> QED BY <1>1, <2>2
<1>4. j \in Body(b) /\ j \notin done /\ \A i \in Body(b) : Precedes(i, j) => i \in done
  <2>1. j \in ReadyIn(b, done)
    BY <1>3, SomethingReady, BestReady
  <2> QED BY <2>1 DEF ReadyIn
<1> HIDE DEF done, j
<1>5. /\ new \in Seq(Body(b)) /\ Len(new) = n + 1
      /\ \A k \in 1 .. n : new[k] = list[k]
      /\ new[n + 1] = j
  BY <1>1, <1>4
<1>6. Elements(new) = done \cup {j}
  BY <1>2
<1>7. IsFiniteSet(Elements(new)) /\ Cardinality(Elements(new)) = n + 1
  BY <1>1, <1>4, <1>6, FS_AddElement
<1> HIDE DEF new
<1>8. ASSUME NEW p \in 1 .. n + 1, NEW i \in Body(b), Precedes(i, new[p])
      PROVE  \E q \in 1 .. n + 1 : q < p /\ new[q] = i
  <2>1. CASE p \in 1 .. n
    <3>1. PICK q \in 1 .. n : q < p /\ list[q] = i
      BY <1>1, <1>5, <1>8, <2>1
    <3> QED BY <1>5, <3>1
  <2>2. CASE p \notin 1 .. n
    <3>1. p = n + 1
      BY <2>2
    <3>2. i \in done
      BY <1>4, <1>5, <1>8, <3>1
    <3>3. PICK q \in 1 .. n : list[q] = i
      BY <1>2, <3>2
    <3>4. q \in 1 .. n + 1 /\ q < p /\ new[q] = i
      BY <1>5, <3>1, <3>3
    <3> QED BY <3>4
  <2> QED BY <2>1, <2>2
<1>9. ASSUME NEW p \in 1 .. n + 1, NEW q \in 1 .. n + 1, new[p] = new[q] PROVE p = q
  <2>1. \A k \in 1 .. n + 1 : k \in 1 .. n \/ k = n + 1
    OBVIOUS
  <2>2. \A k \in 1 .. n : new[k] # j
    BY <1>2, <1>4, <1>5
  <2> QED BY <1>1, <1>5, <1>9, <2>1, <2>2
<1> QED BY <1>5, <1>7, <1>8, <1>9 DEF Scheduled, new, j, done

\* A schedule holds every instruction of its block once, none before what it
\* must follow (buildBlockSchedule).
LEMMA ScheduleRight ==
  ASSUME IsLowered, NEW b \in Leaders
  PROVE  /\ BlockSchedule(b) \in Seq(Body(b))
         /\ Len(BlockSchedule(b)) = Cardinality(Body(b))
         /\ Elements(BlockSchedule(b)) = Body(b)
         /\ Orderly(BlockSchedule(b))
<1> DEFINE N == Cardinality(Body(b))
<1>1. code \in Codes /\ IsFiniteSet(Body(b)) /\ N \in Nat
  BY BodyCounted DEF IsLowered
<1>2. PICK f : /\ BlockSchedule(b) = f[N]
               /\ f[0] = <<>>
               /\ \A n \in 1 .. N : f[n] = Append(f[n - 1], PickedIn(b, Elements(f[n - 1])))
  BY <1>1, ScheduleSteps
<1> DEFINE P == {n \in Int : Scheduled(b, f[n], n)}
<1>3. 0 \in P
  <2>1. <<>> \in Seq(Body(b)) /\ Len(<<>>) = 0
    OBVIOUS
  <2>2. Elements(<<>>) = {}
    BY DEF Elements
  <2>3. \A p : p \notin 1 .. 0
    OBVIOUS
  <2>4. Scheduled(b, <<>>, 0)
    BY <2>1, <2>2, <2>3, FS_EmptySet DEF Scheduled
  <2> QED BY <1>2, <2>4
<1>4. ASSUME NEW n \in 0 .. N, n + 1 <= N, n \in P PROVE n + 1 \in P
  <2>1. n + 1 \in 1 .. N /\ (n + 1) - 1 = n /\ n \in Nat /\ n < N
    BY <1>1, <1>4
  <2>2. f[n + 1] = Append(f[n], PickedIn(b, Elements(f[n])))
    BY <1>2, <2>1
  <2>3. Scheduled(b, f[n], n)
    BY <1>4
  <2>4. Scheduled(b, f[n + 1], n + 1)
    BY <2>1, <2>2, <2>3, ScheduleGrows
  <2> QED BY <2>1, <2>4
<1>5. Scheduled(b, f[N], N)
  <2>1. 0 \in Int /\ N \in Int /\ N \in 0 .. N
    BY <1>1
  <2>2. \A n \in 0 .. N : n \in P
    <3> HIDE DEF P, N
    <3> QED BY <1>3, <1>4, <2>1, IntervalInduction
  <2> QED BY <2>1, <2>2
<1> DEFINE list == BlockSchedule(b)
<1>6. /\ list \in Seq(Body(b)) /\ Len(list) = N
      /\ Cardinality(Elements(list)) = N
      /\ \A p \in 1 .. N : \A i \in Body(b) :
           Precedes(i, list[p]) => \E q \in 1 .. N : q < p /\ list[q] = i
      /\ \A p, q \in 1 .. N : list[p] = list[q] => p = q
  BY <1>2, <1>5 DEF Scheduled
<1> HIDE DEF list
<1>7. Elements(list) = Body(b)
  <2>1. Elements(list) \in SUBSET Body(b)
    BY <1>6, ElementsOf
  <2> QED BY <1>1, <1>6, <2>1, FS_Subset
<1>8. ASSUME NEW p \in 1 .. N, NEW q \in 1 .. N, Precedes(list[p], list[q]) PROVE p < q
  <2>1. list[p] \in Body(b)
    BY <1>6, ElementOf
  <2>2. PICK r \in 1 .. N : r < q /\ list[r] = list[p]
    BY <1>6, <1>8, <2>1
  <2> QED BY <1>6, <2>2
<1> QED BY <1>6, <1>7, <1>8 DEF Orderly, list

-----------------------------------------------------------------------------
\* A bounded set of integers has a greatest element.
LEMMA GreatestInteger ==
  ASSUME NEW m \in Int, NEW U \in SUBSET Int, U # {}, \A u \in U : u <= m
  PROVE  \E u \in U : \A w \in U : w <= u
<1> DEFINE D == {d \in Nat : m - d \in U}
<1>1. \A u \in U : u \in Int /\ m - u \in Nat /\ m - (m - u) = u
  <2>1. \A u \in U : u \in Int
    BY Zenon
  <2> QED BY <2>1
<1>2. D \in SUBSET Nat /\ D # {}
  BY <1>1
<1>3. PICK d \in D : \A e \in D : d <= e
  <2> HIDE DEF D
  <2> QED BY <1>2, LeastNatural
<1>4. m - d \in U /\ d \in Nat
  BY <1>3
<1>5. ASSUME NEW w \in U PROVE w <= m - d
  <2>1. m - w \in D /\ w \in Int
    BY <1>1
  <2>2. d <= m - w
    BY <1>3, <2>1
  <2> QED BY <1>4, <2>1, <2>2
<1> QED BY <1>4, <1>5

\* Whatever follows a barrier in the code follows it in the list.
LEMMA BarrierFirst ==
  ASSUME code \in Codes, NEW b \in Leaders, NEW list \in Seq(Body(b)), Elements(list) = Body(b),
         Orderly(list), NEW p \in 1 .. Len(list), NEW q \in 1 .. Len(list),
         list[p] < list[q], code[list[p]].op \in Barriers
  PROVE  p < q
<1> DEFINE i == list[p]
           j == list[q]
           U == {k \in (i + 1) .. (j - 1) : code[k].op \in Barriers}
<1>1. /\ Body(b) = b .. LastOf(b) /\ b \in Int /\ LastOf(b) \in Int
      /\ i \in Body(b) /\ j \in Body(b) /\ i \in Int /\ j \in Int /\ i < j
  <2>1. i \in Body(b) /\ j \in Body(b)
    BY ElementOf
  <2> QED BY <2>1, BlockFacts
<1>2. CASE U = {}
  <2>1. \A k \in (i + 1) .. (j - 1) : code[k].op \notin Barriers
    BY <1>2
  <2>2. Precedes(i, j)
    BY <1>1, <2>1 DEF Precedes
  <2> QED BY <2>2 DEF Orderly
<1>3. CASE U # {}
  <2>1. U \in SUBSET Int /\ \A u \in U : u <= j - 1
    BY <1>1
  <2>2. PICK k \in U : \A w \in U : w <= k
    <3>1. j - 1 \in Int
      BY <1>1
    <3> HIDE DEF U
    <3> QED BY <1>3, <2>1, <3>1, GreatestInteger
  <2>3. k \in Int /\ i < k /\ k < j /\ k \in Body(b) /\ code[k].op \in Barriers
    BY <1>1, <2>2
  <2>4. \A l \in (k + 1) .. (j - 1) : code[l].op \notin Barriers
    <3> SUFFICES ASSUME NEW l \in (k + 1) .. (j - 1), code[l].op \in Barriers PROVE FALSE
      OBVIOUS
    <3>1. l \in U /\ ~(l <= k)
      BY <1>1, <2>3
    <3> QED BY <2>2, <3>1
  <2>5. Precedes(i, k) /\ Precedes(k, j)
    BY <2>3, <2>4 DEF Precedes
  <2>6. PICK r \in 1 .. Len(list) : list[r] = k
    BY <2>3, ElementsOf
  <2>7. p < r /\ r < q
    BY <2>5, <2>6 DEF Orderly
  <2> QED BY <2>7
<1> QED BY <1>2, <1>3

OrderOf(b) ==
  /\ order[b] \in Seq(Body(b)) /\ Len(order[b]) = Cardinality(Body(b))
  /\ Elements(order[b]) = Body(b)
  /\ Orderly(order[b])
OrderInv ==
  pass \in {"verify", "run", "rejected"} => \A b \in Leaders : OrderOf(b)

\* The schedules that are made are right (Schedule).
LEMMA OrderMade ==
  ASSUME IsLowered, Schedule
  PROVE  OrderInv'
<1>1. UNCHANGED <<code, lowered>> /\ order' = [b \in Leaders |-> BlockSchedule(b)]
  BY DEF Schedule
<1>2. \A b : Body(b)' = Body(b)
  BY <1>1, SameBlocks
<1>3. Leaders' = Leaders
  BY <1>1, SameBlocks
<1>4. \A list : Orderly(list)' = Orderly(list)
  BY <1>1 DEF Orderly, Precedes, Defined, Used, Elements
<1>5. ASSUME NEW b \in Leaders PROVE OrderOf(b)'
  <2>1. order'[b] = BlockSchedule(b)
    BY <1>1
  <2>2. /\ order'[b] \in Seq(Body(b)) /\ Len(order'[b]) = Cardinality(Body(b))
        /\ Elements(order'[b]) = Body(b) /\ Orderly(order'[b])
    BY <2>1, ScheduleRight
  <2>3. Orderly(order[b])'
    <3> DEFINE list == order'[b]
    <3>1. Orderly(order[b])' <=>
            /\ \A p, q \in 1 .. Len(list) : list[p] = list[q] => p = q
            /\ \A p, q \in 1 .. Len(list) :
                 /\ list[p] < list[q]
                 /\ \/ Defined(list[p]) \cap Used(list[q]) # {}
                    \/ code[list[q]].op \in Barriers
                    \/ /\ code[list[p]].op \in Barriers
                       /\ \A k \in (list[p] + 1) .. (list[q] - 1) : code[k].op \notin Barriers
                 => p < q
      BY <1>1 DEF Orderly, Precedes, Defined, Used, Elements
    <3> QED BY <2>2, <3>1 DEF Orderly, Precedes
  <2> QED BY <1>2, <2>2, <2>3 DEF OrderOf, Elements
<1> QED BY <1>3, <1>5 DEF OrderInv

\* Verification and the run leave the schedules alone.
LEMMA OrderFramed ==
  ASSUME OrderInv, UNCHANGED <<code, lowered, order>>,
         pass' \in {"verify", "run", "rejected"} => pass \in {"verify", "run", "rejected"}
  PROVE  OrderInv'
<1>1. \A b : OrderOf(b)' = OrderOf(b)
  <2>1. \A b : Orderly(order[b])' = Orderly(order[b])
    BY DEF Orderly, Precedes, Defined, Used, Elements
  <2> QED BY <2>1, SameBlocks DEF OrderOf, Elements
<1> QED BY <1>1, SameBlocks DEF OrderInv

\* Such an order passes the verifier.
LEMMA OrderVerified ==
  ASSUME IsLowered, NEW b \in Leaders, OrderOf(b)
  PROVE  BlockVerified(b)
<1> DEFINE list == order[b]
           place(i) == CHOOSE p \in DOMAIN list : list[p] = i
<1>1. /\ code \in Codes /\ list \in Seq(Body(b)) /\ Elements(list) = Body(b)
      /\ Len(list) = Cardinality(Body(b)) /\ Orderly(list)
  BY DEF IsLowered, OrderOf
<1>2. DOMAIN list = 1 .. Len(list)
  BY <1>1
<1>3. /\ Body(b) = b .. LastOf(b) /\ b \in Int /\ LastOf(b) \in Int /\ Body(b) \subseteq 1 .. Size
      /\ DepthType
  BY <1>1, BlockFacts DEF IsLowered
<1>4. ASSUME NEW i \in Body(b) PROVE place(i) \in 1 .. Len(list) /\ list[place(i)] = i
  <2>1. \E p \in DOMAIN list : list[p] = i
    BY <1>1, <1>2, ElementsOf
  <2> QED BY <1>2, <2>1
<1> HIDE DEF place
<1>5. ASSUME NEW i \in Body(b), NEW j \in Body(b),
             Precedes(i, j) \/ (i < j /\ code[i].op \in Barriers)
      PROVE  place(i) < place(j)
  <2>1. /\ place(i) \in 1 .. Len(list) /\ place(j) \in 1 .. Len(list)
        /\ list[place(i)] = i /\ list[place(j)] = j
    BY <1>4
  <2>2. CASE Precedes(i, j)
    BY <1>1, <2>1, <2>2 DEF Orderly
  <2>3. CASE i < j /\ code[i].op \in Barriers
    BY <1>1, <2>1, <2>3, BarrierFirst
  <2> QED BY <1>5, <2>2, <2>3
<1>6. ASSUME NEW j \in Body(b), NEW v \in Used(j)
      PROVE  v \in Elements(lowered.entry[b]) \cup
                     UNION {Defined(i) : i \in {i \in Body(b) : place(i) < place(j)}}
  <2>1. j \in 1 .. Size
    BY <1>3
  <2>2. b \in Reachable
    <3>1. Used(j) # {}
      OBVIOUS
    <3>2. j \in Live
      <4>1. Elements(<<>>) = {}
        BY DEF Elements
      <4> QED BY <2>1, <3>1, <4>1, UsedFacts DEF Used
    <3>3. PICK c \in Reachable : j \in Body(c)
      BY <3>2 DEF Live
    <3> QED BY <1>1, <3>3, BlocksApart DEF Reachable
  <2>3. v \in Known(b, j - 1)
    <3>1. PICK k \in DOMAIN lowered.uses[j] : v = lowered.uses[j][k]
      BY DEF Used, Elements
    <3> QED BY <2>2, <3>1, OperandFacts
  <2>4. CASE v \in Elements(Entry(b))
    BY <2>2, <2>4, LoweredFacts
  <2>5. CASE v \in {ResultRegister(i) : i \in {i \in MadeIn(b) : i <= j - 1}}
    <3>1. PICK i \in MadeIn(b) : i <= j - 1 /\ v = ResultRegister(i)
      BY <2>5
    <3>2. i \in Body(b) /\ i < j /\ i \in 1 .. Size /\ Pushes(i) = 1 /\ i \in Live
      <4>1. i \in Body(b) /\ Pushes(i) = 1
        BY DEF MadeIn
      <4>2. i \in Live
        BY <1>1, <1>3, <2>2, <4>1, ReachableFacts
      <4> QED BY <1>3, <3>1, <4>1, <4>2
    <3>3. v \in Defined(i)
      BY <3>1, <3>2, UsedFacts
    <3>4. Precedes(i, j)
      BY <3>2, <3>3 DEF Precedes
    <3>5. place(i) < place(j)
      BY <1>5, <3>2, <3>4
    <3> QED BY <3>2, <3>3, <3>5
  <2> QED BY <2>3, <2>4, <2>5 DEF Known
<1>7. \A j \in Body(b) : Used(j) \subseteq
         Elements(lowered.entry[b]) \cup
         UNION {Defined(i) : i \in {i \in Body(b) : place(i) < place(j)}}
  BY <1>6
<1> QED BY <1>1, <1>5, <1>7 DEF BlockVerified, place

-----------------------------------------------------------------------------
(***************************************************************************)
(* The run of a block in the schedule's order.                             *)
(***************************************************************************)
\* What the stack's run has read once it has done the instructions up to i.
LEMMA StackReads ==
  ASSUME IsLowered, NEW b \in Reachable, NEW R, StackRun(b, R), StackReady(b)
  PROVE  \A i \in (b - 1) .. LastOf(b) :
           R[i].reads = [k \in Instructions |-> IF k \in b .. i THEN ReadBy(b, R, k)
                                                ELSE runs["stack"].reads[k]]
<1> DEFINE ReadsUpTo(i) == [k \in Instructions |-> IF k \in b .. i THEN ReadBy(b, R, k)
                                                    ELSE runs["stack"].reads[k]]
           P == {i \in Int : R[i].reads = ReadsUpTo(i)}
<1>1. /\ b \in Int /\ b - 1 \in Int /\ LastOf(b) \in Int /\ Body(b) = b .. LastOf(b)
      /\ Body(b) \subseteq Instructions /\ Instructions \subseteq Int
  BY LoweredFacts, BlockFacts, CodeFacts DEF IsLowered
<1>2. b - 1 \in P
  <2>1. R[b - 1].reads = [k \in Instructions |-> runs["stack"].reads[k]]
    BY DEF StackRun, StackReady
  <2>2. \A k : k \notin b .. (b - 1)
    BY <1>1
  <2> QED BY <1>1, <2>1, <2>2
<1>3. ASSUME NEW i \in (b - 1) .. LastOf(b), i + 1 <= LastOf(b), i \in P PROVE i + 1 \in P
  <2>1. i + 1 \in Body(b) /\ (i + 1) - 1 = i /\ i + 1 \in Int /\ i + 1 \in Instructions
    BY <1>1, <1>3
  <2>2. R[i + 1].reads = [R[i].reads EXCEPT ![i + 1] = ReadBy(b, R, i + 1)]
    <3>1. StackDoes(b, R, i + 1)
      BY <2>1, StackRunHolds
    <3>2. R[i + 1].reads = [R[(i + 1) - 1].reads EXCEPT ![i + 1] = ReadBy(b, R, i + 1)]
      BY <3>1 DEF StackDoes
    <3> QED BY <2>1, <3>2
  <2>3. R[i].reads = ReadsUpTo(i)
    BY <1>3
  <2>4. \A k \in Instructions : k \in b .. (i + 1) <=> (k \in b .. i \/ k = i + 1)
    BY <1>1, <2>1
  <2>5. R[i + 1].reads = ReadsUpTo(i + 1)
    BY <2>1, <2>2, <2>3, <2>4
  <2> QED BY <2>1, <2>5
<1>4. \A i \in (b - 1) .. LastOf(b) : i \in P
  <2> HIDE DEF P
  <2> QED BY <1>1, <1>2, <1>3, IntervalInduction
<1> QED BY <1>4

\* Between two barriers locals and effects stay as they are.
LEMMA StackQuiet ==
  ASSUME IsLowered, NEW b \in Reachable, NEW R, StackRun(b, R), StackReady(b),
         NEW j \in (b - 1) .. LastOf(b), NEW i \in j .. LastOf(b),
         \A k \in (j + 1) .. i : code[k].op \notin Barriers
  PROVE  R[i].locals = R[j].locals /\ R[i].effects = R[j].effects
<1> DEFINE P == {m \in Int : R[m].locals = R[j].locals /\ R[m].effects = R[j].effects}
<1>1. /\ b \in Int /\ LastOf(b) \in Int /\ Body(b) = b .. LastOf(b) /\ j \in Int /\ i \in Int
  BY LoweredFacts, BlockFacts DEF IsLowered
<1>2. j \in P
  BY <1>1
<1>3. ASSUME NEW m \in j .. i, m + 1 <= i, m \in P PROVE m + 1 \in P
  <2>1. m + 1 \in Body(b) /\ (m + 1) - 1 = m /\ m + 1 \in Int /\ m + 1 \in (j + 1) .. i
    BY <1>1, <1>3
  <2>2. StackDoes(b, R, m + 1)
    BY <2>1, StackRunHolds
  <2>3. code[m + 1].op \notin Barriers /\ code[m + 1].op # "StoreLocal"
    BY <2>1 DEF Barriers
  <2> QED BY <1>3, <2>1, <2>2, <2>3 DEF StackDoes
<1>4. \A m \in j .. i : m \in P
  <2> HIDE DEF P
  <2> QED BY <1>1, <1>2, <1>3, IntervalInduction
<1>5. i \in j .. i
  BY <1>1
<1> QED BY <1>4, <1>5

RegisterRun(kind, b, G) ==
  /\ G[0] = runs[kind]
  /\ G[Len(InOrder(kind, b))] = RunOfBlock(kind, b)
  /\ \A n \in 1 .. Len(InOrder(kind, b)) : G[n] = OnRegisters(kind, InOrder(kind, b)[n], G[n - 1])

DoneIn(b, n) == {order[b][p] : p \in 1 .. n}

\* The barriers done are those up to instruction i.
UpTo(b, n, i) == \A j \in Body(b) : code[j].op \in Barriers => (j <= i <=> j \in DoneIn(b, n))

\* After n instructions of the schedule the registers hold the values that the
\* stack's run makes, and locals and effects are those of the last barrier done.
ScheduledHolds(b, R, G, n) ==
  /\ G[n].values \in [Places -> Values]
  /\ \A k \in 1 .. depth[b] : G[n].values[Virtual(Entry(b)[k])] = ValueOf(b, R, Entry(b)[k])
  /\ \A j \in MadeIn(b) \cap DoneIn(b, n) :
       G[n].values[Virtual(ResultRegister(j))] = ValueOf(b, R, ResultRegister(j))
  /\ G[n].reads = [i \in Instructions |-> IF i \in DoneIn(b, n) THEN ReadBy(b, R, i)
                                          ELSE runs["stack"].reads[i]]
  /\ \A i \in (b - 1) .. LastOf(b) :
       UpTo(b, n, i) => G[n].locals = R[i].locals /\ G[n].effects = R[i].effects

\* The next instruction of the schedule has not been done, what it must follow
\* has, and so have the barriers before it and no others.
LEMMA OrderFacts ==
  ASSUME IsLowered, NEW b \in Reachable, OrderOf(b), NEW n \in Nat,
         n + 1 <= Cardinality(Body(b))
  PROVE  /\ order[b][n + 1] \in Body(b) /\ order[b][n + 1] \notin DoneIn(b, n)
         /\ DoneIn(b, n + 1) = DoneIn(b, n) \cup {order[b][n + 1]}
         /\ DoneIn(b, n) \subseteq Body(b)
         /\ \A i \in Body(b) : Precedes(i, order[b][n + 1]) => i \in DoneIn(b, n)
         /\ UpTo(b, n, order[b][n + 1] - 1)
<1> DEFINE list == order[b]
           j == list[n + 1]
           N == Cardinality(Body(b))
<1>1. /\ code \in Codes /\ b \in Leaders
      /\ list \in Seq(Body(b)) /\ Elements(list) = Body(b) /\ Len(list) = N /\ Orderly(list)
  BY LoweredFacts DEF IsLowered, OrderOf
<1>2. N \in Nat /\ n + 1 \in 1 .. N /\ \A p \in 1 .. n : p \in 1 .. N /\ p < n + 1
  BY <1>1, BodyCounted
<1>3. \A i \in Body(b) : i \in Int
  BY <1>1, BlockFacts
<1>4. \A p \in 1 .. N : list[p] \in Body(b)
  BY <1>1, ElementOf
<1>5. \A i \in Body(b) : \E p \in 1 .. N : list[p] = i
  BY <1>1, ElementsOf
<1> HIDE DEF N
<1>6. j \in Body(b) /\ j \notin DoneIn(b, n)
  BY <1>1, <1>2, <1>4 DEF DoneIn, Orderly
<1>7. DoneIn(b, n + 1) = DoneIn(b, n) \cup {j}
  <2>1. \A p : p \in 1 .. n + 1 <=> (p \in 1 .. n \/ p = n + 1)
    OBVIOUS
  <2> QED BY <2>1 DEF DoneIn
<1>8. DoneIn(b, n) \subseteq Body(b)
  BY <1>2, <1>4 DEF DoneIn
<1>9. ASSUME NEW i \in Body(b), \A p \in 1 .. N : list[p] = i => p < n + 1
      PROVE  i \in DoneIn(b, n)
  <2>1. PICK p \in 1 .. N : list[p] = i
    BY <1>5
  <2>2. p \in 1 .. n
    BY <1>2, <1>9, <2>1
  <2> QED BY <2>1, <2>2 DEF DoneIn
<1>10. ASSUME NEW i \in Body(b), Precedes(i, j) PROVE i \in DoneIn(b, n)
  <2>1. \A p \in 1 .. N : list[p] = i => p < n + 1
    BY <1>1, <1>2, <1>10 DEF Orderly
  <2> QED BY <1>9, <2>1
<1>11. ASSUME NEW i \in Body(b), code[i].op \in Barriers
       PROVE  i <= j - 1 <=> i \in DoneIn(b, n)
  <2>1. i \in Int /\ j \in Int
    BY <1>3, <1>6
  <2>2. ASSUME i <= j - 1 PROVE i \in DoneIn(b, n)
    <3>1. i < j
      BY <2>1, <2>2
    <3>2. ASSUME NEW p \in 1 .. N, list[p] = i PROVE p < n + 1
      BY <1>1, <1>2, <1>11, <3>1, <3>2, BarrierFirst
    <3> QED BY <1>9, <3>2
  <2>3. ASSUME i \in DoneIn(b, n) PROVE i <= j - 1
    <3>1. PICK p \in 1 .. n : list[p] = i
      BY <2>3 DEF DoneIn
    <3>2. i # j
      BY <1>6, <2>3
    <3>3. ~(j < i)
      <4>1. SUFFICES ASSUME j < i PROVE FALSE
        OBVIOUS
      <4>2. Precedes(j, i)
        BY <1>11, <4>1 DEF Precedes
      <4>3. n + 1 < p
        BY <1>1, <1>2, <3>1, <4>2 DEF Orderly
      <4> QED BY <3>1, <4>3
    <3> QED BY <2>1, <3>2, <3>3
  <2> QED BY <2>2, <2>3
<1> QED BY <1>6, <1>7, <1>8, <1>10, <1>11 DEF UpTo

-----------------------------------------------------------------------------
\* A run on registers finds at instruction j what the stack's run finds there,
\* and does the same.
Finds(kind, b, R, j, before) ==
  /\ \A k \in 1 .. Needs(j) :
       before.values[Place(kind, lowered.uses[j][k])] = ValueOf(b, R, lowered.uses[j][k])
  /\ code[j].op = "LoadLocal" => before.locals = R[j - 1].locals

DoesTheSame(kind, b, R, j, before, after) ==
  /\ Pushes(j) = 0 => after.values = before.values
  /\ Pushes(j) = 1 =>
       /\ after.values = [before.values EXCEPT ![Place(kind, ResultRegister(j))] =
                            ValueOf(b, R, ResultRegister(j))]
       /\ ValueOf(b, R, ResultRegister(j)) \in Values
  /\ after.locals = IF code[j].op # "StoreLocal" THEN before.locals
                    ELSE [before.locals EXCEPT ![code[j].imm] = Args(b, R, j)[1]]
  /\ after.reads = [before.reads EXCEPT ![j] = ReadBy(b, R, j)]
  /\ after.effects = IF code[j].op \in Barriers THEN Append(before.effects, j)
                     ELSE before.effects

\* An instruction that finds its operands' values in its places does in a run
\* on registers what it does on the stack.
LEMMA RegisterStep ==
  ASSUME IsLowered, NEW kind, NEW b \in Reachable, NEW R, NEW j \in Body(b), NEW before,
         StackDoes(b, R, j), Finds(kind, b, R, j, before)
  PROVE  DoesTheSame(kind, b, R, j, before, OnRegisters(kind, j, before))
<1> DEFINE after == OnRegisters(kind, j, before)
<1>0. /\ \A k \in 1 .. Needs(j) :
           before.values[Place(kind, lowered.uses[j][k])] = ValueOf(b, R, lowered.uses[j][k])
      /\ code[j].op = "LoadLocal" => before.locals = R[j - 1].locals
  BY DEF Finds
<1> DEFINE args == Args(b, R, j)
           operands == [k \in DOMAIN lowered.uses[j] |->
                          before.values[Place(kind, lowered.uses[j][k])]]
<1>1. operands = args
  <2>1. DOMAIN lowered.uses[j] = 1 .. Needs(j)
    BY OperandFacts
  <2> QED BY <1>0, <2>1 DEF Args
<1>2. Made(j, args, before) = Made(j, args, R[j - 1])
  BY <1>0 DEF Made
<1>3. /\ lowered.defs[j] = Results(j)
      /\ Pushes(j) = 1 => Results(j) = <<ResultRegister(j)>>
      /\ Pushes(j) = 0 => Results(j) = <<>>
  BY LoweredFacts, MadeFacts DEF IsLowered
<1>4. \A r : <<r>> # <<>> /\ <<r>>[1] = r
  OBVIOUS
<1> DEFINE values == IF lowered.defs[j] = <<>> THEN before.values
                     ELSE [before.values EXCEPT ![Place(kind, lowered.defs[j][1])] =
                             Made(j, args, before)]
<1>5. after = Done(j, args, values, before)
  BY <1>1 DEF OnRegisters
<1>6. /\ Pushes(j) = 0 => values = before.values
      /\ Pushes(j) = 1 => /\ values = [before.values EXCEPT ![Place(kind, ResultRegister(j))] =
                                          ValueOf(b, R, ResultRegister(j))]
                          /\ ValueOf(b, R, ResultRegister(j)) \in Values
  <2>1. Pushes(j) = 0 => values = before.values
    BY <1>3
  <2>2. ASSUME Pushes(j) = 1
        PROVE  lowered.defs[j] # <<>> /\ lowered.defs[j][1] = ResultRegister(j)
    BY <1>3, <1>4, <2>2
  <2>3. Pushes(j) = 1 => /\ ValueOf(b, R, ResultRegister(j)) = Made(j, args, before)
                         /\ ValueOf(b, R, ResultRegister(j)) \in Values
    <3> HIDE DEF args
    <3> QED BY <1>2 DEF StackDoes, args
  <2> QED BY <2>1, <2>2, <2>3
<1> HIDE DEF values
<1>7. /\ after.values = values
      /\ after.locals = IF code[j].op # "StoreLocal" THEN before.locals
                        ELSE [before.locals EXCEPT ![code[j].imm] = args[1]]
      /\ after.reads = [before.reads EXCEPT ![j] = ReadBy(b, R, j)]
      /\ after.effects = IF code[j].op \in Barriers THEN Append(before.effects, j)
                         ELSE before.effects
  <2>1. (IF code[j].op = "LoadLocal" THEN <<before.locals[code[j].imm]>> ELSE args) = ReadBy(b, R, j)
    BY <1>0 DEF ReadBy
  <2> HIDE DEF args
  <2> QED BY <1>5, <2>1 DEF Done
<1> HIDE DEF after
<1>8. DoesTheSame(kind, b, R, j, before, after)
  BY <1>6, <1>7 DEF DoesTheSame
<1> QED BY <1>8 DEF after

\* Each instruction of the schedule finds the values it would have popped: what
\* makes them, and the barriers before it, come first.
LEMMA ScheduledStep ==
  ASSUME IsLowered, NEW b \in Reachable, OrderOf(b), NEW R, StackRun(b, R), StackReady(b),
         NEW G, NEW n \in Nat, n + 1 <= Cardinality(Body(b)),
         G[n + 1] = OnRegisters("scheduled", order[b][n + 1], G[n]),
         ScheduledHolds(b, R, G, n)
  PROVE  ScheduledHolds(b, R, G, n + 1)
<1> DEFINE j == order[b][n + 1]
<1>1. /\ code \in Codes /\ b \in Leaders /\ DepthType /\ 0 .. RegisterTotal - 1 \subseteq VirtualRegisters
      /\ b \in Int /\ LastOf(b) \in Int /\ Body(b) = b .. LastOf(b) /\ Body(b) \subseteq 1 .. Size
  BY LoweredFacts, BlockFacts DEF IsLowered
<1>2. /\ j \in Body(b) /\ j \notin DoneIn(b, n)
      /\ DoneIn(b, n + 1) = DoneIn(b, n) \cup {j}
      /\ DoneIn(b, n) \subseteq Body(b)
      /\ \A i \in Body(b) : Precedes(i, j) => i \in DoneIn(b, n)
      /\ UpTo(b, n, j - 1)
  BY OrderFacts
<1>3. G[n + 1] = OnRegisters("scheduled", j, G[n])
  OBVIOUS
<1> HIDE DEF j
<1>4. /\ G[n].values \in [Places -> Values]
      /\ \A k \in 1 .. depth[b] : G[n].values[Virtual(Entry(b)[k])] = ValueOf(b, R, Entry(b)[k])
      /\ \A i \in MadeIn(b) \cap DoneIn(b, n) :
           G[n].values[Virtual(ResultRegister(i))] = ValueOf(b, R, ResultRegister(i))
      /\ G[n].reads = [i \in Instructions |-> IF i \in DoneIn(b, n) THEN ReadBy(b, R, i)
                                              ELSE runs["stack"].reads[i]]
      /\ \A i \in (b - 1) .. LastOf(b) :
           UpTo(b, n, i) => G[n].locals = R[i].locals /\ G[n].effects = R[i].effects
  BY DEF ScheduledHolds
<1>5. /\ j - 1 \in (b - 1) .. LastOf(b) /\ j \in (b - 1) .. LastOf(b) /\ j \in Int
      /\ j \in Instructions /\ j \in 1 .. Size /\ Pushes(j) \in {0, 1}
  BY <1>1, <1>2, CodeFacts, EffectTypes
<1>6. G[n].locals = R[j - 1].locals /\ G[n].effects = R[j - 1].effects
  BY <1>2, <1>4, <1>5
<1>7. StackDoes(b, R, j)
  BY <1>2, StackRunHolds
<1>8. ASSUME NEW k \in 1 .. Needs(j)
      PROVE  G[n].values[Place("scheduled", lowered.uses[j][k])] = ValueOf(b, R, lowered.uses[j][k])
  <2> DEFINE r == lowered.uses[j][k]
  <2>1. r \in Known(b, j - 1)
    BY <1>2, OperandFacts
  <2>2. r \in Used(j)
    <3>1. k \in DOMAIN lowered.uses[j]
      BY <1>2, OperandFacts
    <3> QED BY <3>1 DEF Used, Elements
  <2> HIDE DEF r
  <2>3. CASE r \in Elements(Entry(b))
    <3>1. PICK l \in DOMAIN Entry(b) : r = Entry(b)[l]
      BY <2>3 DEF Elements
    <3>2. l \in 1 .. depth[b]
      BY <3>1, LoweredFacts
    <3> QED BY <1>4, <3>1, <3>2 DEF Place, r
  <2>4. CASE r \in {ResultRegister(i) : i \in {i \in MadeIn(b) : i <= j - 1}}
    <3>1. PICK i \in MadeIn(b) : i <= j - 1 /\ r = ResultRegister(i)
      BY <2>4
    <3>2. i \in Body(b) /\ Pushes(i) = 1 /\ i \in 1 .. Size
      BY <1>1 DEF MadeIn
    <3>3. i \in Live /\ i < j
      BY <1>1, <1>5, <3>1, <3>2, ReachableFacts
    <3>4. r \in Defined(i)
      BY <3>1, <3>2, <3>3, UsedFacts
    <3>5. Precedes(i, j)
      BY <2>2, <3>3, <3>4 DEF Precedes
    <3>6. i \in MadeIn(b) \cap DoneIn(b, n)
      BY <1>2, <3>2, <3>5
    <3> QED BY <1>4, <3>1, <3>6 DEF Place, r
  <2> QED BY <2>1, <2>3, <2>4 DEF Known, r
<1> DEFINE new == ValueOf(b, R, ResultRegister(j))
<1>9. /\ Pushes(j) = 0 => G[n + 1].values = G[n].values
      /\ Pushes(j) = 1 =>
           /\ G[n + 1].values = [G[n].values EXCEPT ![Virtual(ResultRegister(j))] = new]
           /\ new \in Values
      /\ G[n + 1].locals = IF code[j].op # "StoreLocal" THEN G[n].locals
                           ELSE [G[n].locals EXCEPT ![code[j].imm] = Args(b, R, j)[1]]
      /\ G[n + 1].reads = [G[n].reads EXCEPT ![j] = ReadBy(b, R, j)]
      /\ G[n + 1].effects = IF code[j].op \in Barriers THEN Append(G[n].effects, j)
                            ELSE G[n].effects
  <2>1. \A v : Place("scheduled", v) = Virtual(v)
    BY DEF Place
  <2>2. Finds("scheduled", b, R, j, G[n])
    BY <1>6, <1>8 DEF Finds
  <2>3. DoesTheSame("scheduled", b, R, j, G[n], G[n + 1])
    BY <1>2, <1>3, <1>7, <2>2, RegisterStep
  <2> QED BY <2>1, <2>3 DEF DoesTheSame
<1> HIDE DEF new
<1>10. G[n + 1].locals = R[j].locals /\ G[n + 1].effects = R[j].effects
  BY <1>6, <1>7, <1>9 DEF StackDoes
<1>11. \A k \in 1 .. depth[b] : /\ Entry(b)[k] \in 0 .. EntryTotal - 1
  BY ValueFacts
<1>12. \A i \in MadeIn(b) : ResultRegister(i) \in EntryTotal .. RegisterTotal - 1
  BY ValueFacts
<1>13. EntryTotal \in Nat /\ RegisterTotal \in Nat
  BY <1>1, EntryNumbers, ResultNumbers
<1>14. \A v, w : Virtual(v) = Virtual(w) => v = w
  BY DEF Virtual
<1>15. \A v \in VirtualRegisters : Virtual(v) \in Places
  BY DEF Virtual, Places
<1>16. G[n + 1].values \in [Places -> Values]
  BY <1>4, <1>5, <1>9
<1>17. ASSUME NEW k \in 1 .. depth[b]
       PROVE  G[n + 1].values[Virtual(Entry(b)[k])] = ValueOf(b, R, Entry(b)[k])
  <2>1. Pushes(j) = 1 => Entry(b)[k] # ResultRegister(j)
    <3>1. Pushes(j) = 1 => ResultRegister(j) \in EntryTotal .. RegisterTotal - 1
      BY <1>2, <1>12 DEF MadeIn
    <3> QED BY <1>11, <1>13, <3>1
  <2>2. Virtual(Entry(b)[k]) \in Places
    <3>1. Entry(b)[k] \in 0 .. RegisterTotal - 1
      <4>1. EntryTotal <= RegisterTotal
        BY <1>1, ResultNumbers
      <4> QED BY <1>11, <1>13, <4>1
    <3> QED BY <1>1, <1>15, <3>1
  <2> QED BY <1>4, <1>5, <1>9, <1>14, <2>1, <2>2
<1>18. ASSUME NEW i \in MadeIn(b) \cap DoneIn(b, n + 1)
       PROVE  G[n + 1].values[Virtual(ResultRegister(i))] = ValueOf(b, R, ResultRegister(i))
  <2>1. Virtual(ResultRegister(i)) \in Places
    <3>1. ResultRegister(i) \in 0 .. RegisterTotal - 1
      BY <1>12, <1>13
    <3> QED BY <1>1, <1>15, <3>1
  <2>2. CASE i = j
    <3>1. Pushes(j) = 1
      BY <2>2 DEF MadeIn
    <3> QED BY <1>4, <1>9, <2>1, <2>2, <3>1 DEF new
  <2>3. CASE i # j
    <3>1. i \in MadeIn(b) \cap DoneIn(b, n)
      BY <1>2, <2>3
    <3>2. Pushes(j) = 1 => ResultRegister(i) # ResultRegister(j)
      <4>1. i \in Body(b) /\ i \in Makers
        BY <1>1, MadeFacts DEF MadeIn
      <4>2. Pushes(j) = 1 => j \in Makers
        BY <1>1, <1>2, MadeFacts
      <4> QED BY <1>1, <2>3, <4>1, <4>2, ResultNumbers
    <3> QED BY <1>4, <1>5, <1>9, <1>14, <2>1, <3>1, <3>2
  <2> QED BY <2>2, <2>3
<1>19. G[n + 1].reads = [i \in Instructions |-> IF i \in DoneIn(b, n + 1) THEN ReadBy(b, R, i)
                                                ELSE runs["stack"].reads[i]]
  BY <1>2, <1>4, <1>5, <1>9
<1>20. ASSUME NEW i \in (b - 1) .. LastOf(b), UpTo(b, n + 1, i)
       PROVE  G[n + 1].locals = R[i].locals /\ G[n + 1].effects = R[i].effects
  <2>1. i \in Int
    BY <1>1
  <2>2. CASE code[j].op \in Barriers
    <3>1. j <= i
      BY <1>2, <1>20, <2>2 DEF UpTo
    <3>2. ASSUME NEW k \in (j + 1) .. i, code[k].op \in Barriers PROVE FALSE
      <4>1. k \in Body(b) /\ k # j /\ k <= i /\ ~(k <= j - 1)
        BY <1>1, <1>2, <1>5, <2>1
      <4>2. k \in DoneIn(b, n + 1)
        BY <1>20, <3>2, <4>1 DEF UpTo
      <4>3. k \in DoneIn(b, n)
        BY <1>2, <4>1, <4>2
      <4> QED BY <1>2, <3>2, <4>1, <4>3 DEF UpTo
    <3>3. R[i].locals = R[j].locals /\ R[i].effects = R[j].effects
      <4>1. i \in j .. LastOf(b)
        BY <1>1, <1>5, <2>1, <3>1
      <4> QED BY <1>5, <3>2, <4>1, StackQuiet
    <3> QED BY <1>10, <3>3
  <2>3. CASE code[j].op \notin Barriers
    <3>1. UpTo(b, n, i)
      BY <1>2, <1>20, <2>3 DEF UpTo
    <3>2. code[j].op # "StoreLocal"
      BY <2>3 DEF Barriers
    <3> QED BY <1>4, <1>9, <2>3, <3>1, <3>2
  <2> QED BY <2>2, <2>3
<1> QED BY <1>16, <1>17, <1>18, <1>19, <1>20 DEF ScheduledHolds

-----------------------------------------------------------------------------
\* A run on registers is at the start of block b where the stack's run is.
BeginsLike(kind, b) ==
  /\ runs[kind].values \in [Places -> Values]
  /\ \A k \in 1 .. depth[b] : runs[kind].values[Place(kind, Entry(b)[k])] = runs["stack"].values[k]
  /\ runs[kind].locals = runs["stack"].locals
  /\ runs[kind].reads = runs["stack"].reads
  /\ runs[kind].effects = runs["stack"].effects

\* It ends the block where the stack's run does.
EndsLike(kind, b) ==
  LET run == RunOfBlock(kind, b)
      stack == RunOfBlock("stack", b)
  IN
  /\ run.values \in [Places -> Values]
  /\ \A k \in 1 .. DepthAfter(b)[LastOf(b)] :
       run.values[Place(kind, lowered.exit[b][k])] = stack.values[k]
  /\ run.locals = stack.locals /\ run.reads = stack.reads /\ run.effects = stack.effects

StackEnds(b) ==
  LET stack == RunOfBlock("stack", b) IN
  /\ stack.values \in Seq(Values) /\ Len(stack.values) = DepthAfter(b)[LastOf(b)]
  /\ stack.locals \in [Locals -> Values]
  /\ stack.reads = [i \in Instructions |-> stack.reads[i]]

\* At the end of a block the stack holds the registers that lowering left there.
LEMMA StackBlock ==
  ASSUME IsLowered, NEW b \in Reachable, StackReady(b)
  PROVE  StackEnds(b)
<1>1. PICK R : StackRun(b, R)
  BY StackRunExists, LoweredFacts DEF IsLowered
<1>2. LastOf(b) \in (b - 1) .. LastOf(b) /\ R[LastOf(b)] = RunOfBlock("stack", b)
  BY <1>1, LoweredFacts, BlockFacts DEF IsLowered, StackRun
<1>3. StackHolds(b, R, LastOf(b))
  BY <1>1, <1>2, StackRunHolds
<1>4. R[LastOf(b)].reads = [k \in Instructions |-> R[LastOf(b)].reads[k]]
  <2> DEFINE f == [k \in Instructions |-> IF k \in b .. LastOf(b) THEN ReadBy(b, R, k)
                                          ELSE runs["stack"].reads[k]]
  <2>1. R[LastOf(b)].reads = f
    BY <1>1, <1>2, StackReads
  <2>2. f = [k \in Instructions |-> f[k]]
    OBVIOUS
  <2> HIDE DEF f
  <2> QED BY <2>1, <2>2
<1> QED BY <1>2, <1>3, <1>4 DEF StackHolds, StackEnds

\* A block has a run on registers.
LEMMA RegisterRunExists ==
  ASSUME NEW kind, kind # "stack", NEW b, Len(InOrder(kind, b)) \in Nat
  PROVE  \E G : RegisterRun(kind, b, G)
<1>1. PICK f : RunsAs(kind, b, f)
  BY RunSteps
<1>2. RegisterRun(kind, b, f)
  BY <1>1 DEF RunsAs, StepOf, RegisterRun
<1> QED BY <1>2

\* A block run in the schedule's order does what it does on the stack.
LEMMA ScheduledBlock ==
  ASSUME IsLowered, NEW b \in Reachable, OrderOf(b), StackReady(b), BeginsLike("scheduled", b)
  PROVE  EndsLike("scheduled", b)
<1> DEFINE N == Cardinality(Body(b))
           list == order[b]
<1>1. /\ code \in Codes /\ b \in Leaders /\ N \in Nat
      /\ InOrder("scheduled", b) = list /\ Len(list) = N
      /\ list \in Seq(Body(b)) /\ Elements(list) = Body(b)
  BY LoweredFacts, BodyCounted DEF IsLowered, InOrder, OrderOf
<1>2. /\ b \in Int /\ b - 1 \in Int /\ LastOf(b) \in Int /\ Body(b) = b .. LastOf(b)
      /\ b - 1 \in (b - 1) .. LastOf(b) /\ LastOf(b) \in (b - 1) .. LastOf(b)
  BY <1>1, BlockFacts
<1>3. PICK R : StackRun(b, R)
  BY <1>1, StackRunExists
<1>4. PICK G : RegisterRun("scheduled", b, G)
  BY <1>1, RegisterRunExists
<1>5. /\ G[0] = runs["scheduled"] /\ G[N] = RunOfBlock("scheduled", b)
      /\ \A n \in 1 .. N : G[n] = OnRegisters("scheduled", list[n], G[n - 1])
  BY <1>1, <1>4 DEF RegisterRun
<1> DEFINE P == {n \in Int : ScheduledHolds(b, R, G, n)}
<1> HIDE DEF N
<1>6. 0 \in P
  <2>1. DoneIn(b, 0) = {}
    <3>1. \A p : p \notin 1 .. 0
      OBVIOUS
    <3> QED BY <3>1 DEF DoneIn
  <2>2. \A k \in 1 .. depth[b] : G[0].values[Virtual(Entry(b)[k])] = ValueOf(b, R, Entry(b)[k])
    BY <1>5, ValueFacts DEF BeginsLike, Place
  <2>3. G[0].reads = [i \in Instructions |-> runs["stack"].reads[i]]
    BY <1>5 DEF BeginsLike, StackReady
  <2>4. ASSUME NEW i \in (b - 1) .. LastOf(b), UpTo(b, 0, i)
        PROVE  G[0].locals = R[i].locals /\ G[0].effects = R[i].effects
    <3>1. i \in (b - 1) .. LastOf(b) /\ \A k \in ((b - 1) + 1) .. i : k \in Body(b) /\ k <= i
      BY <1>2
    <3>2. \A k \in ((b - 1) + 1) .. i : code[k].op \notin Barriers
      BY <2>1, <2>4, <3>1 DEF UpTo
    <3>3. R[i].locals = R[b - 1].locals /\ R[i].effects = R[b - 1].effects
      BY <1>2, <1>3, <3>2, StackQuiet
    <3> QED BY <1>3, <1>5, <3>3 DEF StackRun, BeginsLike
  <2>5. G[0].values \in [Places -> Values]
    BY <1>5 DEF BeginsLike
  <2>6. ScheduledHolds(b, R, G, 0)
    BY <2>1, <2>2, <2>3, <2>4, <2>5 DEF ScheduledHolds
  <2> QED BY <2>6
<1>7. ASSUME NEW n \in 0 .. N, n + 1 <= N, n \in P PROVE n + 1 \in P
  <2>1. n \in Nat /\ n + 1 \in 1 .. N /\ (n + 1) - 1 = n /\ n + 1 \in Int
    BY <1>1, <1>7
  <2>2. G[n + 1] = OnRegisters("scheduled", order[b][n + 1], G[n])
    BY <1>5, <2>1
  <2>3. ScheduledHolds(b, R, G, n)
    BY <1>7
  <2>4. n + 1 <= Cardinality(Body(b))
    BY <1>7 DEF N
  <2>5. ScheduledHolds(b, R, G, n + 1)
    BY <1>3, <2>1, <2>2, <2>3, <2>4, ScheduledStep
  <2> QED BY <2>1, <2>5
<1>8. ScheduledHolds(b, R, G, N)
  <2>1. \A n \in 0 .. N : n \in P
    <3>1. 0 \in Int /\ N \in Int
      BY <1>1
    <3> HIDE DEF P
    <3> QED BY <1>6, <1>7, <3>1, IntervalInduction
  <2>2. N \in 0 .. N
    BY <1>1
  <2> QED BY <2>1, <2>2
<1>9. DoneIn(b, N) = Body(b)
  <2>1. Elements(list) = {list[p] : p \in 1 .. N}
    BY <1>1 DEF Elements
  <2> QED BY <1>1, <2>1 DEF DoneIn
<1>10. /\ R[LastOf(b)] = RunOfBlock("stack", b)
       /\ StackHolds(b, R, LastOf(b))
       /\ R[LastOf(b)].reads = [k \in Instructions |-> IF k \in b .. LastOf(b) THEN ReadBy(b, R, k)
                                                       ELSE runs["stack"].reads[k]]
  BY <1>2, <1>3, StackRunHolds, StackReads DEF StackRun
<1>11. G[N].locals = R[LastOf(b)].locals /\ G[N].effects = R[LastOf(b)].effects
  <2>1. UpTo(b, N, LastOf(b))
    BY <1>2, <1>9 DEF UpTo
  <2> QED BY <1>2, <1>8, <2>1 DEF ScheduledHolds
<1>12. G[N].reads = R[LastOf(b)].reads
  BY <1>2, <1>8, <1>9, <1>10 DEF ScheduledHolds
<1>13. ASSUME NEW r \in Known(b, LastOf(b)) PROVE G[N].values[Virtual(r)] = ValueOf(b, R, r)
  <2>1. CASE r \in Elements(Entry(b))
    <3>1. PICK l \in DOMAIN Entry(b) : r = Entry(b)[l]
      BY <2>1 DEF Elements
    <3>2. l \in 1 .. depth[b]
      BY <3>1, LoweredFacts
    <3> QED BY <1>8, <3>1, <3>2 DEF ScheduledHolds
  <2>2. CASE r \in {ResultRegister(i) : i \in {i \in MadeIn(b) : i <= LastOf(b)}}
    <3>1. PICK i \in MadeIn(b) : r = ResultRegister(i)
      BY <2>2
    <3>2. i \in MadeIn(b) \cap DoneIn(b, N)
      BY <1>9 DEF MadeIn
    <3> QED BY <1>8, <3>1, <3>2 DEF ScheduledHolds
  <2> QED BY <2>1, <2>2 DEF Known
<1>14. \A k \in 1 .. DepthAfter(b)[LastOf(b)] :
         G[N].values[Place("scheduled", lowered.exit[b][k])] = R[LastOf(b)].values[k]
  <2>1. lowered.exit[b] = StackAfter(b)[LastOf(b)] /\ StackFitsAt(b, LastOf(b))
    BY <1>2, LoweredFacts
  <2> QED BY <1>10, <1>13, <2>1 DEF StackHolds, StackFitsAt, Place
<1>15. G[N].values \in [Places -> Values]
  BY <1>8 DEF ScheduledHolds
<1> QED BY <1>5, <1>10, <1>11, <1>12, <1>14, <1>15 DEF EndsLike

\* The moves along an edge.
LEMMA EdgeFacts ==
  ASSUME IsLowered, NEW b \in Reachable, NEW s \in Successors(b)
  PROVE  /\ s \in Reachable
         /\ DOMAIN lowered.entry[s] = 1 .. depth[s] /\ lowered.entry[s] = Entry(s)
         /\ depth[s] = DepthAfter(b)[LastOf(b)]
         /\ \A k, l \in 1 .. depth[s] : Entry(s)[k] = Entry(s)[l] => k = l
         /\ \A k \in 1 .. depth[s] : Entry(s)[k] \in VirtualRegisters
<1>1. s \in Reachable /\ depth[s] = DepthAfter(b)[LastOf(b)]
  BY LoweredFacts
<1>2. /\ lowered.entry[s] = Entry(s) /\ depth[s] \in Nat
      /\ Entry(s) = [k \in 1 .. depth[s] |-> EntriesBefore(s) + k - 1]
  BY <1>1, LoweredFacts
<1>3. EntriesBefore(s) \in Nat
  BY <1>1, EntryNumbers DEF IsLowered
<1>4. \A k, l \in 1 .. depth[s] : Entry(s)[k] = Entry(s)[l] => k = l
  <2> DEFINE e == EntriesBefore(s)
             d == depth[s]
  <2>1. e \in Nat /\ d \in Nat /\ \A k \in 1 .. d : Entry(s)[k] = e + k - 1
    BY <1>2, <1>3
  <2>2. \A k, l \in 1 .. d : Entry(s)[k] = Entry(s)[l] => k = l
    <3> HIDE DEF e, d
    <3> QED BY <2>1
  <2> QED BY <2>2
<1>5. ASSUME NEW k \in 1 .. depth[s] PROVE Entry(s)[k] \in VirtualRegisters
  <2>1. Entry(s)[k] \in 0 .. EntryTotal - 1
    BY <1>1, ValueFacts
  <2>2. EntryTotal \in Nat /\ RegisterTotal \in Nat /\ EntryTotal <= RegisterTotal
    BY EntryNumbers, ResultNumbers DEF IsLowered
  <2>3. Entry(s)[k] \in 0 .. RegisterTotal - 1
    BY <2>1, <2>2
  <2> QED BY <2>3 DEF IsLowered
<1> QED BY <1>1, <1>2, <1>4, <1>5

RunFields == {"values", "locals", "reads", "effects"}

\* A run on registers keeps its fields.
LEMMA RunDomain ==
  ASSUME NEW kind, kind # "stack", NEW b, Len(InOrder(kind, b)) \in Nat \ {0}
  PROVE  DOMAIN RunOfBlock(kind, b) = RunFields
<1>1. PICK G : RegisterRun(kind, b, G)
  BY RegisterRunExists
<1> DEFINE n == Len(InOrder(kind, b))
<1>2. n \in 1 .. n
  OBVIOUS
<1>3. RunOfBlock(kind, b) = OnRegisters(kind, InOrder(kind, b)[n], G[n - 1])
  BY <1>1, <1>2 DEF RegisterRun
<1> QED BY <1>3 DEF OnRegisters, Done, RunFields

\* Where no reload is in the way, an edge hands on what the block left: the reloads
\* that come first disturb no spill (sortAndUniqueOps).
LEMMA HandedIsLeft ==
  ASSUME NEW kind, kind # "stack", NEW b, NEW s, NEW values, kind # "scheduled" => EdgeApart(b, s),
         NEW m \in Moves(b, s), Place(kind, m.source) \in Places
  PROVE  Handed(kind, b, s, m, values) = values[Place(kind, m.source)]
<1>1. CASE kind # "scheduled" /\ m \in Spills(b, s)
  <2>1. Handed(kind, b, s, m, values) = AfterReloads(b, s, values)[Assigned(m.source)]
    BY <1>1 DEF Handed
  <2>2. Place(kind, m.source) = Assigned(m.source)
    BY <1>1 DEF Place
  <2>3. ~\E n \in Reloads(b, s) : Assigned(n.destination) = Assigned(m.source)
    BY <1>1 DEF EdgeApart
  <2>4. AfterReloads(b, s, values)[Assigned(m.source)] = values[Assigned(m.source)]
    BY <2>2, <2>3 DEF AfterReloads
  <2> QED BY <2>1, <2>2, <2>4
<1>2. CASE ~(kind # "scheduled" /\ m \in Spills(b, s))
  BY <1>2 DEF Handed
<1> QED BY <1>1, <1>2

\* An edge's moves hand the successor's entry registers the values the block
\* leaves: no two of them land in the same place, and no reload is in the way of
\* a spill (computeExpectedEdgeOps).
LEMMA EdgeMoves ==
  ASSUME IsLowered, NEW b \in Reachable, NEW s \in Successors(b), NEW run,
         DOMAIN run = RunFields, run.values \in [Places -> Values], NEW kind, kind # "stack",
         kind # "scheduled" => EdgeApart(b, s),
         \A k \in 1 .. depth[s] : /\ Place(kind, Entry(s)[k]) \in Places
                                  /\ Place(kind, lowered.exit[b][k]) \in Places,
         \A k, l \in 1 .. depth[s] : Place(kind, Entry(s)[k]) = Place(kind, Entry(s)[l]) => k = l
  PROVE  LET along == AlongEdge(kind, b, s, run) IN
         /\ along.values \in [Places -> Values]
         /\ \A k \in 1 .. depth[s] :
              along.values[Place(kind, Entry(s)[k])] = run.values[Place(kind, lowered.exit[b][k])]
         /\ along.locals = run.locals /\ along.reads = run.reads /\ along.effects = run.effects
<1> DEFINE Lands(m, p) == Place(kind, m.destination) = p
           moved == [p \in Places |->
                       IF \E m \in Moves(b, s) : Lands(m, p)
                       THEN Handed(kind, b, s, CHOOSE m \in Moves(b, s) : Lands(m, p), run.values)
                       ELSE run.values[p]]
           along == AlongEdge(kind, b, s, run)
           move(k) == [source |-> lowered.exit[b][k], destination |-> Entry(s)[k]]
<1>1. along = [run EXCEPT !.values = moved]
  BY DEF AlongEdge
<1>2. along.values = moved /\ along.locals = run.locals /\ along.reads = run.reads
      /\ along.effects = run.effects
  <2> HIDE DEF moved, along
  <2> QED BY <1>1 DEF RunFields
<1>3. DOMAIN lowered.entry[s] = 1 .. depth[s] /\ lowered.entry[s] = Entry(s)
  BY EdgeFacts
<1>4. Moves(b, s) = {move(k) : k \in 1 .. depth[s]}
  BY <1>3 DEF Moves
<1>5. ASSUME NEW p \in Places, \E m \in Moves(b, s) : Lands(m, p)
      PROVE  \E k \in 1 .. depth[s] : /\ p = Place(kind, Entry(s)[k])
                                      /\ moved[p] = run.values[Place(kind, lowered.exit[b][k])]
  <2> DEFINE c == CHOOSE m \in Moves(b, s) : Lands(m, p)
  <2>1. c \in Moves(b, s) /\ Lands(c, p)
    <3> HIDE DEF Lands
    <3> QED BY <1>5
  <2>2. moved[p] = Handed(kind, b, s, c, run.values)
    BY <1>5
  <2> HIDE DEF c, moved
  <2>3. PICK k \in 1 .. depth[s] : c = move(k)
    BY <1>4, <2>1
  <2>4. c.source = lowered.exit[b][k] /\ c.destination = Entry(s)[k]
    BY <2>3
  <2>5. moved[p] = run.values[Place(kind, c.source)]
    BY <2>1, <2>2, <2>4, HandedIsLeft
  <2> QED BY <2>1, <2>4, <2>5
<1>6. ASSUME NEW k \in 1 .. depth[s]
      PROVE  moved[Place(kind, Entry(s)[k])] = run.values[Place(kind, lowered.exit[b][k])]
  <2> DEFINE p == Place(kind, Entry(s)[k])
  <2>1. p \in Places
    OBVIOUS
  <2>2. \E m \in Moves(b, s) : Lands(m, p)
    <3>1. move(k) \in Moves(b, s)
      BY <1>4
    <3>2. Lands(move(k), p)
      OBVIOUS
    <3> HIDE DEF Lands, move
    <3> QED BY <3>1, <3>2
  <2> HIDE DEF moved, Lands
  <2>3. PICK l \in 1 .. depth[s] : /\ p = Place(kind, Entry(s)[l])
                                   /\ moved[p] = run.values[Place(kind, lowered.exit[b][l])]
    BY <1>5, <2>1, <2>2
  <2>4. l = k
    BY <2>3
  <2> QED BY <2>3, <2>4
<1>7. ASSUME NEW p \in Places PROVE moved[p] \in Values
  <2>1. CASE \E m \in Moves(b, s) : Lands(m, p)
    <3> HIDE DEF moved, Lands
    <3>1. PICK k \in 1 .. depth[s] : moved[p] = run.values[Place(kind, lowered.exit[b][k])]
      BY <1>5, <2>1
    <3> QED BY <3>1
  <2>2. CASE ~\E m \in Moves(b, s) : Lands(m, p)
    <3>1. moved[p] = run.values[p]
      BY <2>2
    <3> QED BY <3>1
  <2> QED BY <2>1, <2>2
<1>8. moved \in [Places -> Values]
  <2>1. moved = [p \in Places |-> moved[p]]
    OBVIOUS
  <2> HIDE DEF moved
  <2> QED BY <1>7, <2>1
<1> HIDE DEF moved, along
<1>9. /\ along.values \in [Places -> Values]
      /\ \A k \in 1 .. depth[s] :
           along.values[Place(kind, Entry(s)[k])] = run.values[Place(kind, lowered.exit[b][k])]
  BY <1>2, <1>6, <1>8
<1> QED BY <1>2, <1>9 DEF along

\* Virtual registers are places of their own.
LEMMA VirtualMoves ==
  ASSUME IsLowered, NEW b \in Reachable, NEW s \in Successors(b), NEW run,
         DOMAIN run = RunFields, run.values \in [Places -> Values],
         \A k \in 1 .. depth[s] : lowered.exit[b][k] \in VirtualRegisters
  PROVE  LET along == AlongEdge("scheduled", b, s, run) IN
         /\ along.values \in [Places -> Values]
         /\ \A k \in 1 .. depth[s] :
              along.values[Virtual(Entry(s)[k])] = run.values[Virtual(lowered.exit[b][k])]
         /\ along.locals = run.locals /\ along.reads = run.reads /\ along.effects = run.effects
<1> DEFINE kind == "scheduled"
<1>1. kind # "stack" /\ \A v : Place(kind, v) = Virtual(v)
  BY DEF Place
<1>2. \A v, w : Virtual(v) = Virtual(w) => v = w
  BY DEF Virtual
<1>3. \A v \in VirtualRegisters : Virtual(v) \in Places
  BY DEF Virtual, Places
<1>4. /\ \A k, l \in 1 .. depth[s] : Entry(s)[k] = Entry(s)[l] => k = l
      /\ \A k \in 1 .. depth[s] : Entry(s)[k] \in VirtualRegisters
  BY EdgeFacts
<1> HIDE DEF kind
<1>5. /\ \A k \in 1 .. depth[s] : /\ Place(kind, Entry(s)[k]) \in Places
                                  /\ Place(kind, lowered.exit[b][k]) \in Places
      /\ \A k, l \in 1 .. depth[s] : Place(kind, Entry(s)[k]) = Place(kind, Entry(s)[l]) => k = l
  BY <1>1, <1>2, <1>3, <1>4
<1> DEFINE along == AlongEdge(kind, b, s, run)
<1>6. /\ along.values \in [Places -> Values]
      /\ \A k \in 1 .. depth[s] :
           along.values[Place(kind, Entry(s)[k])] = run.values[Place(kind, lowered.exit[b][k])]
      /\ along.locals = run.locals /\ along.reads = run.reads /\ along.effects = run.effects
  BY <1>1, <1>5, EdgeMoves DEF kind
<1> HIDE DEF along
<1>7. /\ along.values \in [Places -> Values]
      /\ \A k \in 1 .. depth[s] :
           along.values[Virtual(Entry(s)[k])] = run.values[Virtual(lowered.exit[b][k])]
      /\ along.locals = run.locals /\ along.reads = run.reads /\ along.effects = run.effects
  BY <1>1, <1>6
<1> QED BY <1>7 DEF along, kind

-----------------------------------------------------------------------------
(***************************************************************************)
(* The whole run in the schedule's order.                                  *)
(***************************************************************************)
RunInv ==
  /\ pass # "run" => runs = <<>>
  /\ pass = "run" =>
       /\ block \in Reachable \cup {0}
       /\ runs["scheduled"].reads = runs["stack"].reads
       /\ runs["scheduled"].effects = runs["stack"].effects
       /\ block # 0 => StackReady(block) /\ BeginsLike("scheduled", block)

\* The runs begin alike (Verify).
LEMMA RunBegins ==
  ASSUME IsLowered, RunInv, Verify
  PROVE  RunInv'
<1>1. CASE pass' = "rejected"
  <2>1. runs' = <<>>
    BY <1>1 DEF RunInv, Verify
  <2> QED BY <1>1, <2>1 DEF RunInv
<1>2. CASE pass' # "rejected"
  <2>1. /\ pass' = "run" /\ block' = 1 /\ visits' = 1 /\ UNCHANGED <<code, depth>>
        /\ runs' = [kind \in Kinds |->
                      Begin(IF kind = "stack" THEN <<>> ELSE [p \in Places |-> NoValue])]
    BY <1>2 DEF Verify
  <2>2. /\ runs'["stack"] = Begin(<<>>)
        /\ runs'["scheduled"] = Begin([p \in Places |-> NoValue])
    BY <2>1 DEF Kinds
  <2>3. /\ runs'["stack"].values = <<>> /\ runs'["scheduled"].values = [p \in Places |-> NoValue]
        /\ runs'["scheduled"].locals = [l \in Locals |-> NoValue]
        /\ runs'["stack"].locals = [l \in Locals |-> NoValue]
        /\ runs'["scheduled"].reads = [i \in Instructions |-> <<>>]
        /\ runs'["stack"].reads = [i \in Instructions |-> <<>>]
        /\ runs'["scheduled"].effects = runs'["stack"].effects
    BY <2>2 DEF Begin
  <2>4. NoValue \in Values
    BY DEF NoValue, Values
  <2>5. depth[1] = 0 /\ 1 \in Reachable
    BY LeadersInCode DEF IsLowered, Reachable, Unknown
  <2>6. 1 \in Reachable' /\ Places' = Places /\ Locals' = Locals /\ Instructions' = Instructions
    <3>1. registerCount' = registerCount
      BY DEF Verify, vars, input
    <3> QED BY <2>1, <2>5, <3>1, SameBlocks DEF Reachable, Places, Registers
  <2>7. StackReady(1)'
    <3>1. <<>> \in Seq(Values) /\ Len(<<>>) = 0
      OBVIOUS
    <3>2. runs'["stack"].reads = [i \in Instructions |-> runs'["stack"].reads[i]]
      BY <2>3
    <3>3. runs'["stack"].locals \in [Locals -> Values]
      BY <2>3, <2>4
    <3> QED BY <2>1, <2>3, <2>5, <2>6, <3>1, <3>2, <3>3 DEF StackReady
  <2>8. BeginsLike("scheduled", 1)'
    <3>1. runs'["scheduled"].values \in [Places -> Values]
      BY <2>3, <2>4
    <3>2. \A k : k \notin 1 .. depth'[1]
      BY <2>1, <2>5
    <3> QED BY <2>3, <2>6, <3>1, <3>2 DEF BeginsLike
  <2>9. RunInv' <=> /\ block' \in Reachable' \cup {0}
                    /\ runs'["scheduled"].reads = runs'["stack"].reads
                    /\ runs'["scheduled"].effects = runs'["stack"].effects
                    /\ block' # 0 => StackReady(block)' /\ BeginsLike("scheduled", block)'
    BY <2>1 DEF RunInv
  <2>10. StackReady(block)' /\ BeginsLike("scheduled", block)'
    BY ZenonT(30), <2>1, <2>7, <2>8 DEF StackReady, BeginsLike
  <2> QED BY <2>1, <2>3, <2>6, <2>9, <2>10
<1> QED BY <1>1, <1>2

\* Blocks have instructions.
LEMMA OrderLong ==
  ASSUME code \in Codes, NEW b \in Leaders, OrderOf(b)
  PROVE  Len(InOrder("scheduled", b)) \in Nat \ {0}
<1>1. Len(InOrder("scheduled", b)) = Cardinality(Body(b))
  BY DEF InOrder, OrderOf
<1>2. Cardinality(Body(b)) = LastOf(b) - b + 1 /\ b \in Int /\ LastOf(b) \in Int /\ b <= LastOf(b)
  BY BodyCounted, BlockFacts
<1> QED BY <1>1, <1>2

\* What a block leaves on the stack are registers of the function.
LEMMA ExitRegisters ==
  ASSUME IsLowered, NEW b \in Reachable
  PROVE  \A k \in 1 .. DepthAfter(b)[LastOf(b)] : lowered.exit[b][k] \in 0 .. RegisterTotal - 1
<1>1. code \in Codes /\ DepthType /\ LastOf(b) \in (b - 1) .. LastOf(b)
  BY LoweredFacts, BlockFacts DEF IsLowered
<1>2. EntryTotal \in Nat /\ RegisterTotal \in Nat /\ EntryTotal <= RegisterTotal
  BY <1>1, EntryNumbers, ResultNumbers
<1>3. ASSUME NEW i \in (b - 1) .. LastOf(b), NEW r \in Known(b, i) PROVE r \in 0 .. RegisterTotal - 1
  <2>1. CASE r \in Elements(Entry(b))
    <3>1. PICK l \in DOMAIN Entry(b) : r = Entry(b)[l]
      BY <2>1 DEF Elements
    <3>2. l \in 1 .. depth[b]
      BY <3>1, LoweredFacts
    <3>3. r \in 0 .. EntryTotal - 1
      BY <3>1, <3>2, ValueFacts
    <3> QED BY <1>2, <3>3
  <2>2. CASE r \in {ResultRegister(j) : j \in {j \in MadeIn(b) : j <= i}}
    <3>1. r \in EntryTotal .. RegisterTotal - 1
      BY <2>2, ValueFacts
    <3> QED BY <1>2, <3>1
  <2> QED BY <2>1, <2>2 DEF Known
<1>4. lowered.exit[b] = StackAfter(b)[LastOf(b)] /\ StackFitsAt(b, LastOf(b))
  BY <1>1, LoweredFacts
<1> QED BY <1>1, <1>3, <1>4 DEF StackFitsAt

\* They stay alike from block to block (RunBlock).
LEMMA RunGoesOn ==
  ASSUME IsLowered, OrderInv, RunInv, RunBlock
  PROVE  RunInv'
<1> DEFINE b == block
<1>1. /\ pass = "run" /\ pass' = "run" /\ b # 0 /\ b \in Reachable /\ UNCHANGED <<code, depth, lowered>>
      /\ visits' = visits + 1
  BY DEF RunInv, RunBlock
<1>2. StackReady(b) /\ BeginsLike("scheduled", b)
  BY <1>1 DEF RunInv
<1>3. /\ code \in Codes /\ b \in Leaders /\ OrderOf(b)
  BY <1>1, LoweredFacts DEF IsLowered, OrderInv
<1>4. StackEnds(b) /\ EndsLike("scheduled", b)
  BY <1>1, <1>2, <1>3, StackBlock, ScheduledBlock
<1> DEFINE run == RunOfBlock("scheduled", b)
           stack == RunOfBlock("stack", b)
<1>5. DOMAIN run = RunFields
  BY <1>3, OrderLong, RunDomain
<1>6. /\ stack.values \in Seq(Values) /\ Len(stack.values) = DepthAfter(b)[LastOf(b)]
      /\ stack.locals \in [Locals -> Values]
      /\ stack.reads = [i \in Instructions |-> stack.reads[i]]
      /\ run.values \in [Places -> Values]
      /\ \A k \in 1 .. DepthAfter(b)[LastOf(b)] :
           run.values[Virtual(lowered.exit[b][k])] = stack.values[k]
      /\ run.locals = stack.locals /\ run.reads = stack.reads /\ run.effects = stack.effects
  BY <1>4 DEF StackEnds, EndsLike, Place
<1>7. CASE \E s \in Successors(b) :
             /\ block' = s
             /\ runs' = [kind \in Kinds |-> AlongEdge(kind, b, s, RunOfBlock(kind, b))]
  <2>1. PICK s \in Successors(b) :
          /\ block' = s
          /\ runs' = [kind \in Kinds |-> AlongEdge(kind, b, s, RunOfBlock(kind, b))]
    BY <1>7
  <2>2. /\ s \in Reachable /\ depth[s] = DepthAfter(b)[LastOf(b)] /\ s # 0
        /\ \A k \in 1 .. depth[s] : Entry(s)[k] \in VirtualRegisters
    BY <1>1, <1>3, <2>1, EdgeFacts, ReachableFacts DEF IsLowered
  <2> DEFINE along == AlongEdge("scheduled", b, s, run)
  <2>3. runs'["stack"] = stack /\ runs'["scheduled"] = along
    <3>1. AlongEdge("stack", b, s, stack) = stack
      BY DEF AlongEdge
    <3> QED BY <2>1, <3>1 DEF Kinds
  <2>4. \A k \in 1 .. depth[s] : lowered.exit[b][k] \in VirtualRegisters
    BY <1>1, <2>2, ExitRegisters DEF IsLowered
  <2>5. /\ along.values \in [Places -> Values]
        /\ \A k \in 1 .. depth[s] :
             along.values[Virtual(Entry(s)[k])] = run.values[Virtual(lowered.exit[b][k])]
        /\ along.locals = run.locals /\ along.reads = run.reads /\ along.effects = run.effects
    <3> HIDE DEF run
    <3> QED BY <1>1, <1>5, <1>6, <2>1, <2>4, VirtualMoves
  <2> HIDE DEF along, run, stack
  <2>6. /\ Reachable' = Reachable /\ Places' = Places /\ Locals' = Locals
        /\ Instructions' = Instructions /\ Entry(s)' = Entry(s) /\ Values' = Values
    <3>1. Reachable' = Reachable
      BY <1>1, SameBlocks DEF Reachable
    <3>2. EntriesBefore(s)' = EntriesBefore(s)
      BY <1>1, <3>1 DEF EntriesBefore
    <3>3. registerCount' = registerCount
      BY DEF RunBlock, vars, input
    <3>4. Entry(s)' = Entry(s)
      BY <1>1, <3>1, <3>2 DEF Entry
    <3> QED BY <1>1, <3>1, <3>3, <3>4, SameBlocks DEF Places, Registers, Values
  <2>7. StackReady(s)'
    BY <1>1, <1>2, <1>6, <2>2, <2>3, <2>6 DEF StackReady
  <2>8. BeginsLike("scheduled", s)'
    <3>1. \A k \in 1 .. depth[s] : along.values[Virtual(Entry(s)[k])] = stack.values[k]
      BY <1>6, <2>2, <2>5
    <3>2. \A k : Virtual(Entry(s)[k])' = Virtual(Entry(s)[k])
      BY <2>6 DEF Virtual
    <3> QED BY <1>1, <1>6, <2>3, <2>5, <2>6, <3>1, <3>2 DEF BeginsLike, Place
  <2>9. StackReady(block)' /\ BeginsLike("scheduled", block)'
    BY <2>1, <2>7, <2>8 DEF StackReady, BeginsLike
  <2>10. /\ block' \in Reachable'
         /\ runs'["scheduled"].reads = runs'["stack"].reads
         /\ runs'["scheduled"].effects = runs'["stack"].effects
    BY <1>6, <2>1, <2>2, <2>3, <2>5, <2>6
  <2> QED BY <1>1, <2>9, <2>10 DEF RunInv
<1>8. CASE block' = 0 /\ runs' = [kind \in Kinds |-> RunOfBlock(kind, b)]
  <2>1. runs'["stack"] = stack /\ runs'["scheduled"] = run
    BY <1>8 DEF Kinds
  <2> HIDE DEF run, stack
  <2> QED BY <1>1, <1>6, <1>8, <2>1 DEF RunInv
<1> QED BY <1>7, <1>8 DEF RunBlock

-----------------------------------------------------------------------------
ScheduleInv == CodeInv /\ DepthsInv /\ LoweredInv /\ OrderInv /\ RunInv

\* The initial states.
LEMMA ScheduleInvBegins ==
  ASSUME PassesInit
  PROVE  ScheduleInv
<1>1. pass \in {"blocks", "allocator alone"} /\ runs = <<>>
  BY DEF PassesInit
<1>2. CodeInv
  BY DEF PassesInit, CodeInv
<1> QED BY <1>1, <1>2 DEF ScheduleInv, DepthsInv, LoweredInv, LoweredPasses, OrderInv, RunInv

\* The passes that leave the run alone.
LEMMA RunFramed ==
  ASSUME RunInv, pass # "run", pass' # "run", UNCHANGED runs
  PROVE  RunInv'
BY DEF RunInv

\* The inductive step, action by action.
LEMMA ScheduleInvStep ==
  ASSUME ScheduleInv, [PassesNext]_allVars
  PROVE  ScheduleInv'
<1>0. CodeInv /\ DepthsInv /\ LoweredInv /\ OrderInv /\ RunInv
  BY DEF ScheduleInv
<1>1. CASE BuildBlocks
  <2>1. pass = "blocks" /\ pass' \in {"failed", "depths"} /\ UNCHANGED <<code, runs>>
    BY <1>1 DEF BuildBlocks
  <2>2. CodeInv'
    BY <1>0, <2>1 DEF CodeInv
  <2>3. DepthsInv'
    BY <1>0, <1>1, DepthsBuilt
  <2> QED BY <1>0, <2>1, <2>2, <2>3, RunFramed DEF ScheduleInv, LoweredInv, LoweredPasses, OrderInv
<1>2. ASSUME NEW b \in worklist, PropagateDepth(b) PROVE ScheduleInv'
  <2>1. pass = "depths" /\ pass' \in {"failed", "depths"} /\ UNCHANGED <<code, runs>>
    BY <1>2 DEF PropagateDepth
  <2>2. CodeInv'
    BY <1>0, <2>1 DEF CodeInv
  <2>3. DepthsInv'
    BY <1>0, <1>2, DepthsSpread
  <2> QED BY <1>0, <2>1, <2>2, <2>3, RunFramed DEF ScheduleInv, LoweredInv, LoweredPasses, OrderInv
<1>3. CASE Lower
  <2>1. pass = "depths" /\ pass' = "liveness" /\ UNCHANGED <<code, depth, worklist, runs>>
    BY <1>3 DEF Lower
  <2>2. CodeInv' /\ DepthsInv'
    BY <1>0, <2>1, DepthsFramed DEF CodeInv
  <2>3. LoweredInv'
    BY <1>0, <1>3, LoweringDone
  <2> QED BY <1>0, <2>1, <2>2, <2>3, RunFramed DEF ScheduleInv, OrderInv
<1>4. CASE LivenessOfBlock \/ NextRound \/ BuildIntervals
  <2>1. /\ pass = "liveness" /\ pass' \in {"liveness", "allocate"}
        /\ UNCHANGED <<code, depth, worklist, lowered, runs>>
    BY <1>4 DEF LivenessOfBlock, NextRound, BuildIntervals
  <2>2. CodeInv' /\ DepthsInv'
    BY <1>0, <2>1, DepthsFramed DEF CodeInv
  <2>3. LoweredInv'
    BY <1>0, <2>1, LoweredFramed DEF LoweredPasses
  <2> QED BY <1>0, <2>1, <2>2, <2>3, RunFramed DEF ScheduleInv, OrderInv
<1>5. CASE AllocateRegisters
  <2>1. /\ pass \in {"allocate", "allocator alone"} /\ pass' = pass
        /\ UNCHANGED <<code, depth, worklist, lowered, runs>>
    BY <1>5 DEF AllocateRegisters, passVars
  <2>2. CodeInv' /\ DepthsInv'
    BY <1>0, <2>1, DepthsFramed DEF CodeInv
  <2>3. LoweredInv'
    BY <1>0, <2>1, LoweredFramed DEF LoweredPasses
  <2> QED BY <1>0, <2>1, <2>2, <2>3, RunFramed DEF ScheduleInv, OrderInv
<1>6. CASE Schedule
  <2>1. /\ pass = "allocate" /\ pass' = "verify"
        /\ UNCHANGED <<code, depth, worklist, lowered, runs>>
    BY <1>6 DEF Schedule
  <2>2. CodeInv' /\ DepthsInv'
    BY <1>0, <2>1, DepthsFramed DEF CodeInv
  <2>3. LoweredInv'
    BY <1>0, <2>1, LoweredFramed DEF LoweredPasses
  <2>4. OrderInv'
    BY <1>0, <1>6, <2>1, LoweredNow, OrderMade DEF LoweredPasses
  <2> QED BY <1>0, <2>1, <2>2, <2>3, <2>4, RunFramed DEF ScheduleInv
<1>7. CASE Verify
  <2>1. /\ pass = "verify" /\ pass' \in {"run", "rejected"}
        /\ UNCHANGED <<code, depth, worklist, lowered, order>>
    BY <1>7 DEF Verify
  <2>2. CodeInv' /\ DepthsInv'
    BY <1>0, <2>1, DepthsFramed DEF CodeInv
  <2>3. LoweredInv' /\ OrderInv'
    BY <1>0, <2>1, LoweredFramed, OrderFramed DEF LoweredPasses
  <2>4. RunInv'
    BY <1>0, <1>7, <2>1, LoweredNow, RunBegins DEF LoweredPasses
  <2> QED BY <2>2, <2>3, <2>4 DEF ScheduleInv
<1>8. CASE RunBlock
  <2>1. /\ pass = "run" /\ pass' = "run"
        /\ UNCHANGED <<code, depth, worklist, lowered, order>>
    BY <1>8 DEF RunBlock
  <2>2. CodeInv' /\ DepthsInv'
    BY <1>0, <2>1, DepthsFramed DEF CodeInv
  <2>3. LoweredInv' /\ OrderInv'
    BY <1>0, <2>1, LoweredFramed, OrderFramed DEF LoweredPasses
  <2>4. RunInv'
    BY <1>0, <1>8, <2>1, LoweredNow, RunGoesOn DEF LoweredPasses
  <2> QED BY <2>2, <2>3, <2>4 DEF ScheduleInv
<1>9. CASE UNCHANGED allVars
  <2>1. UNCHANGED <<code, pass, depth, worklist, lowered, order, block, visits, runs, registerCount>>
    BY <1>9 DEF allVars, passVars, vars, input
  <2>2. CodeInv' /\ DepthsInv'
    BY <1>0, <2>1, DepthsFramed DEF CodeInv
  <2>3. LoweredInv' /\ OrderInv'
    BY <1>0, <2>1, LoweredFramed, OrderFramed
  <2>4. RunInv'
    <3>1. Reachable' = Reachable /\ Places' = Places /\ Locals' = Locals
          /\ Instructions' = Instructions
      BY <2>1, SameBlocks DEF Reachable, Places, Registers
    <3>2. \A b : Entry(b)' = Entry(b)
      <4>1. \A b : EntriesBefore(b)' = EntriesBefore(b)
        BY <3>1, <2>1 DEF EntriesBefore
      <4> QED BY <2>1, <3>1, <4>1 DEF Entry
    <3>3. StackReady(block)' = StackReady(block)
      BY <2>1, <3>1 DEF StackReady, Values
    <3>4. BeginsLike("scheduled", block)' = BeginsLike("scheduled", block)
      BY <2>1, <3>1, <3>2 DEF BeginsLike, Place, Virtual, Values
    <3> QED BY <1>0, <2>1, <3>1, <3>3, <3>4 DEF RunInv
  <2> QED BY <2>2, <2>3, <2>4 DEF ScheduleInv
<1> QED BY <1>1, <1>2, <1>3, <1>4, <1>5, <1>6, <1>7, <1>8, <1>9 DEF PassesNext

\* Reordered by latency, every instruction reads the values it read in the
\* code's order, locals included, and the effects keep their order, on every path
\* through every function that is lowered (buildBlockSchedule,
\* lowerModuleToVirtualRegisters).
THEOREM SchedulesAgree == PassesSpec => []ScheduledSame
<1>1. PassesInit => ScheduleInv
  BY ScheduleInvBegins
<1>2. ScheduleInv /\ [PassesNext]_allVars => ScheduleInv'
  BY ScheduleInvStep
<1>3. ScheduleInv => ScheduledSame
  BY DEF ScheduleInv, RunInv, ScheduledSame, SameRun
<1> QED BY <1>1, <1>2, <1>3, PTL DEF PassesSpec

-----------------------------------------------------------------------------
(***************************************************************************)
(* Liveness.                                                               *)
(***************************************************************************)
\* What the instructions of a block use and define.
LEMMA UsesAndDefs ==
  ASSUME IsLowered, NEW b \in Reachable, NEW i \in Body(b)
  PROVE  /\ Used(i) \subseteq Known(b, i - 1)
         /\ \A k \in 1 .. Needs(i) : lowered.uses[i][k] \in Used(i)
         /\ \A r \in Used(i) : \E k \in 1 .. Needs(i) : lowered.uses[i][k] = r
         /\ Defined(i) = IF Pushes(i) = 1 THEN {ResultRegister(i)} ELSE {}
         /\ i \in Live /\ i \in 1 .. Size
<1>1. /\ DOMAIN lowered.uses[i] = 1 .. Needs(i)
      /\ \A k \in 1 .. Needs(i) : lowered.uses[i][k] \in Known(b, i - 1)
      /\ i \in Live /\ i \in 1 .. Size /\ Pushes(i) \in {0, 1}
  BY OperandFacts
<1>2. Defined(i) = IF Pushes(i) = 1 THEN {ResultRegister(i)} ELSE {}
  BY <1>1, UsedFacts
<1> QED BY <1>1, <1>2 DEF Used, Elements

\* The registers a block may read are registers of the function: entry registers
\* below the results.
LEMMA KnownFacts ==
  ASSUME IsLowered, NEW b \in Reachable
  PROVE  /\ RegisterTotal \in Nat /\ EntryTotal \in Nat /\ EntryTotal <= RegisterTotal
         /\ \A r \in Elements(Entry(b)) : r \in 0 .. EntryTotal - 1
         /\ \A r \in Elements(Entry(b)) : \E k \in 1 .. depth[b] : Entry(b)[k] = r
         /\ \A k \in 1 .. depth[b] : Entry(b)[k] \in Elements(Entry(b))
         /\ \A j \in MadeIn(b) : ResultRegister(j) \in EntryTotal .. RegisterTotal - 1
         /\ \A i, j \in MadeIn(b) : ResultRegister(i) = ResultRegister(j) => i = j
         /\ \A i : Known(b, i) \subseteq 0 .. RegisterTotal - 1
<1>1. code \in Codes /\ DepthType
  BY DEF IsLowered
<1>2. b \in Leaders /\ depth[b] \in Nat /\ Body(b) \subseteq Live
  BY <1>1, ReachableFacts
<1>3. MadeIn(b) \subseteq Makers
  BY <1>2 DEF MadeIn, Makers
<1>4. /\ EntryTotal \in Nat /\ EntriesBefore(b) \in Nat
      /\ Entry(b) = [k \in 1 .. depth[b] |-> EntriesBefore(b) + k - 1]
      /\ EntriesBefore(b) + depth[b] <= EntryTotal
  BY <1>1, EntryNumbers
<1>5. /\ RegisterTotal \in Nat /\ EntryTotal <= RegisterTotal
      /\ \A i \in Makers : ResultRegister(i) \in EntryTotal .. RegisterTotal - 1
      /\ \A i, j \in Makers : ResultRegister(i) = ResultRegister(j) => i = j
  BY <1>1, ResultNumbers
<1>6. /\ \A r \in Elements(Entry(b)) : \E k \in 1 .. depth[b] : Entry(b)[k] = r
      /\ \A k \in 1 .. depth[b] : Entry(b)[k] \in Elements(Entry(b))
  BY <1>4 DEF Elements
<1>7. \A r \in Elements(Entry(b)) : r \in 0 .. EntryTotal - 1
  <2> SUFFICES ASSUME NEW k \in 1 .. depth[b] PROVE Entry(b)[k] \in 0 .. EntryTotal - 1
    BY <1>6
  <2> QED BY <1>2, <1>4
<1>8. ASSUME NEW i, NEW r \in Known(b, i) PROVE r \in 0 .. RegisterTotal - 1
  <2>1. CASE r \in Elements(Entry(b))
    BY <1>4, <1>5, <1>7, <2>1
  <2>2. CASE \E j \in MadeIn(b) : r = ResultRegister(j)
    BY <1>3, <1>4, <1>5, <2>2
  <2> QED BY <1>8, <2>1, <2>2 DEF Known
<1> QED BY <1>3, <1>4, <1>5, <1>6, <1>7, <1>8

\* A register belongs to one block.
LEMMA OneOwner ==
  ASSUME IsLowered, NEW b \in Reachable, NEW c \in Reachable, NEW i, NEW j, NEW r,
         r \in Known(b, i), r \in Known(c, j)
  PROVE  b = c
<1>1. code \in Codes /\ DepthType /\ b \in Leaders /\ c \in Leaders
  BY ReachableFacts DEF IsLowered
<1>2. CASE r < EntryTotal
  <2> DEFINE g == [x \in 1 .. Size + 1 |-> EntriesBefore(x)]
  <2>1. Size \in Nat /\ b \in 1 .. Size /\ c \in 1 .. Size
    BY <1>1, CodeFacts, LeadersInCode
  <2>2. /\ \A x \in 1 .. Size + 1 : EntriesBefore(x) \in Nat
        /\ EntriesBefore(1) = 0
        /\ \A x \in 1 .. Size : EntriesBefore(x + 1) =
             IF x \in Reachable THEN EntriesBefore(x) + depth[x] ELSE EntriesBefore(x)
        /\ \A x \in Reachable : depth[x] \in Nat
    BY <1>1, EntriesCounted, ReachableFacts
  <2>3. Climbs(g, Size)
    <3>1. ASSUME NEW x \in 1 .. Size
          PROVE  EntriesBefore(x) <= EntriesBefore(x + 1) /\ x \in 1 .. Size + 1 /\ x + 1 \in 1 .. Size + 1
      <4>1. x \in 1 .. Size + 1 /\ x + 1 \in 1 .. Size + 1
        BY <2>1
      <4>2. EntriesBefore(x) \in Nat
        BY <2>2, <4>1
      <4>3. CASE x \in Reachable
        <5>1. EntriesBefore(x + 1) = EntriesBefore(x) + depth[x] /\ depth[x] \in Nat
          BY <2>2, <4>3
        <5> QED BY <4>1, <4>2, <5>1
      <4>4. CASE x \notin Reachable
        BY <2>2, <4>1, <4>2, <4>4
      <4> QED BY <4>3, <4>4
    <3>2. \A x \in 1 .. Size : g[x] <= g[x + 1]
      BY <3>1
    <3>3. g \in [1 .. Size + 1 -> Nat] /\ g[1] = 0
      BY <2>1, <2>2
    <3> QED BY <3>2, <3>3 DEF Climbs
  <2>4. \A x, y \in 1 .. Size + 1 : x <= y => EntriesBefore(x) <= EntriesBefore(y)
    <3>1. \A x \in 1 .. Size + 1 : g[x] = EntriesBefore(x)
      OBVIOUS
    <3> HIDE DEF g
    <3>2. \A x, y \in 1 .. Size + 1 : x <= y => g[x] <= g[y]
      BY <2>1, <2>3, Climb
    <3> QED BY <3>1, <3>2
  <2>5. ASSUME NEW x \in Reachable, NEW z, r \in Known(x, z)
        PROVE  EntriesBefore(x) <= r /\ r < EntriesBefore(x + 1) /\ r \in Nat
    <3>1. r \in Elements(Entry(x))
      BY <1>2, <2>5, KnownFacts DEF Known
    <3>2. PICK k \in 1 .. depth[x] : Entry(x)[k] = r
      BY <3>1, KnownFacts
    <3>3. Entry(x) = [l \in 1 .. depth[x] |-> EntriesBefore(x) + l - 1]
      BY <1>1, EntryNumbers
    <3>4. x \in 1 .. Size
      BY <1>1, ReachableFacts
    <3>5. EntriesBefore(x) \in Nat /\ EntriesBefore(x + 1) = EntriesBefore(x) + depth[x]
          /\ depth[x] \in Nat
      BY <2>1, <2>2, <3>4
    <3> QED BY <3>2, <3>3, <3>5
  <2>6. /\ EntriesBefore(b) <= r /\ r < EntriesBefore(b + 1) /\ r \in Nat
        /\ EntriesBefore(c) <= r /\ r < EntriesBefore(c + 1)
    BY <2>5
  <2>7. ~(b + 1 <= c) /\ ~(c + 1 <= b)
    BY <2>1, <2>2, <2>4, <2>6
  <2> QED BY <2>1, <2>7
<1>3. CASE ~(r < EntryTotal)
  <2>1. ASSUME NEW x \in Reachable, NEW z, r \in Known(x, z)
        PROVE  \E k \in MadeIn(x) : r = ResultRegister(k)
    <3>1. EntryTotal \in Nat /\ \A y \in Elements(Entry(x)) : y \in 0 .. EntryTotal - 1
      BY KnownFacts
    <3>2. r \notin Elements(Entry(x))
      BY <1>3, <3>1
    <3> QED BY <2>1, <3>2 DEF Known
  <2>2. PICK k \in MadeIn(b) : r = ResultRegister(k)
    BY <2>1
  <2>3. PICK l \in MadeIn(c) : r = ResultRegister(l)
    BY <2>1
  <2>4. k \in Makers /\ l \in Makers /\ k \in Body(b) /\ l \in Body(c)
    BY <1>1, <2>2, <2>3, ReachableFacts DEF MadeIn, Makers
  <2>5. k = l
    BY <1>1, <2>2, <2>3, <2>4, ResultNumbers
  <2> QED BY <1>1, <2>4, <2>5, BlocksApart
<1> QED BY <1>2, <1>3

-----------------------------------------------------------------------------
\* Live at a block's start are entry registers, at its end registers it knows.
LiveTyped ==
  /\ liveIn \in [Leaders -> SUBSET Nat] /\ liveOut \in [Leaders -> SUBSET Nat]
  /\ \A b \in Reachable : /\ liveIn[b] \subseteq Elements(Entry(b))
                          /\ liveOut[b] \subseteq Known(b, LastOf(b))
  /\ \A b \in Leaders \ Reachable : liveIn[b] = {} /\ liveOut[b] = {}

\* Over an edge a live entry register makes the register live that moves to it,
\* and nothing else is made live.
LEMMA ThroughEdgeIs ==
  ASSUME IsLowered, LiveTyped, NEW b \in Reachable, NEW s \in Successors(b)
  PROVE  /\ ThroughEdge(b, s) \subseteq Known(b, LastOf(b))
         /\ \A k \in 1 .. depth[s] :
              Entry(s)[k] \in liveIn[s] => lowered.exit[b][k] \in ThroughEdge(b, s)
<1>1. /\ s \in Reachable /\ lowered.entry[s] = Entry(s)
      /\ DOMAIN lowered.entry[s] = 1 .. depth[s]
      /\ depth[s] = DepthAfter(b)[LastOf(b)]
  BY EdgeFacts
<1>2. Moves(b, s) = {[source |-> lowered.exit[b][k], destination |-> Entry(s)[k]] :
                       k \in 1 .. depth[s]}
  BY <1>1 DEF Moves
<1>3. LastOf(b) \in (b - 1) .. LastOf(b)
  <2>1. code \in Codes /\ b \in Leaders
    BY LoweredFacts DEF IsLowered
  <2> QED BY <2>1, BlockFacts
<1>4. \A k \in 1 .. depth[s] : lowered.exit[b][k] \in Known(b, LastOf(b))
  BY <1>1, <1>3, LoweredFacts DEF StackFitsAt
<1>5. \A m \in Moves(b, s) : m.source \in Known(b, LastOf(b))
  BY <1>2, <1>4
<1>6. \A v \in liveIn[s] : \E m \in Moves(b, s) : m.destination = v
  <2> SUFFICES ASSUME NEW v \in liveIn[s] PROVE \E m \in Moves(b, s) : m.destination = v
    OBVIOUS
  <2>1. v \in Elements(Entry(s))
    BY <1>1 DEF LiveTyped
  <2>2. PICK k \in 1 .. depth[s] : Entry(s)[k] = v
    BY <1>1, <2>1, KnownFacts
  <2> DEFINE m == [source |-> lowered.exit[b][k], destination |-> Entry(s)[k]]
  <2>3. m \in Moves(b, s) /\ m.destination = v
    BY <1>2, <2>2
  <2> QED BY <2>3
<1>7. ThroughEdge(b, s) \subseteq Known(b, LastOf(b))
  BY <1>5, <1>6 DEF ThroughEdge
<1>8. ASSUME NEW k \in 1 .. depth[s], Entry(s)[k] \in liveIn[s]
      PROVE  lowered.exit[b][k] \in ThroughEdge(b, s)
  <2> DEFINE m == [source |-> lowered.exit[b][k], destination |-> Entry(s)[k]]
  <2>1. m \in Moves(b, s)
    BY <1>2
  <2>2. m.source = lowered.exit[b][k] /\ m.destination = Entry(s)[k]
    OBVIOUS
  <2> HIDE DEF m
  <2> QED BY <1>8, <2>1, <2>2 DEF ThroughEdge
<1> QED BY <1>7, <1>8

\* The solution of one block's equations has the same form.
LEMMA NewLiveTyped ==
  ASSUME IsLowered, LiveTyped, NEW b \in Reachable
  PROVE  /\ NewLiveOut(b) \subseteq Known(b, LastOf(b))
         /\ NewLiveIn(b) \subseteq Elements(Entry(b))
<1>1. NewLiveOut(b) \subseteq Known(b, LastOf(b))
  BY ThroughEdgeIs DEF NewLiveOut
<1>2. b \in Leaders /\ Body(b) = b .. LastOf(b) /\ LastOf(b) \in Nat /\ b \in Nat
  <2>1. code \in Codes /\ b \in Leaders
    BY LoweredFacts DEF IsLowered
  <2> QED BY <2>1, BlockFacts
<1>3. ASSUME NEW j \in MadeIn(b)
      PROVE  Defined(j) = {ResultRegister(j)} /\ j \in Body(b)
  BY UsesAndDefs DEF MadeIn
<1>4. ASSUME NEW v \in UseBeforeDef(b)
      PROVE  v \in Elements(Entry(b))
  <2>1. PICK i \in Body(b) : v \in Used(i) /\ \A j \in b .. (i - 1) : v \notin Defined(j)
    BY DEF UseBeforeDef
  <2>2. v \in Known(b, i - 1)
    BY <2>1, UsesAndDefs
  <2>3. ASSUME NEW j \in MadeIn(b), j <= i - 1, v = ResultRegister(j)
        PROVE  FALSE
    <3>1. j \in b .. (i - 1)
      BY <1>2, <1>3, <2>1, <2>3
    <3> QED BY <1>3, <2>1, <2>3, <3>1
  <2> QED BY <2>2, <2>3 DEF Known
<1>5. ASSUME NEW v \in NewLiveOut(b) \ BlockDef(b)
      PROVE  v \in Elements(Entry(b))
  BY <1>1, <1>3 DEF Known, BlockDef
<1> QED BY <1>1, <1>4, <1>5 DEF NewLiveIn

LiveSolved(b) == liveOut[b] = NewLiveOut(b) /\ liveIn[b] = NewLiveIn(b)

\* A round that has changed nothing so far has solved the blocks it went through.
LiveInv ==
  pass \in LoweredPasses =>
    /\ LiveTyped
    /\ cursor \in 0 .. Size
    /\ \/ pass = "liveness" /\ changed
       \/ \A b \in Reachable : (pass # "liveness" \/ b > cursor) => LiveSolved(b)

\* Nothing is live at first (Lower).
LEMMA LivenessBegins ==
  ASSUME code \in Codes, DepthType, Lower
  PROVE  LiveInv'
<1>1. /\ pass' = "liveness" /\ UNCHANGED <<code, depth, changed>> /\ cursor' = Size
      /\ liveIn' = [b \in Leaders |-> {}] /\ liveOut' = [b \in Leaders |-> {}]
  BY DEF Lower
<1>2. Leaders' = Leaders /\ Reachable' = Reachable /\ Size' = Size
  BY <1>1, SameBlocks DEF Reachable
<1>3. Reachable \subseteq 1 .. Size /\ Reachable \subseteq Leaders /\ Size \in Nat
  BY ReachableFacts, CodeFacts
<1>4. LiveTyped'
  BY <1>1, <1>2, <1>3 DEF LiveTyped
<1>5. \A b \in Reachable' : ~(b > cursor')
  BY <1>1, <1>2, <1>3
<1>6. cursor' \in 0 .. Size'
  BY <1>1, <1>2, <1>3
<1> QED BY <1>1, <1>4, <1>5, <1>6 DEF LiveInv

\* The registers that a block may read depend on the code and the depths alone.
LEMMA KnownFramed ==
  ASSUME UNCHANGED <<code, depth>>
  PROVE  /\ Leaders' = Leaders /\ Reachable' = Reachable /\ Size' = Size /\ Live' = Live
         /\ \A b : Elements(Entry(b))' = Elements(Entry(b))
         /\ \A b : Known(b, LastOf(b))' = Known(b, LastOf(b))
<1>1. Leaders' = Leaders /\ Reachable' = Reachable /\ Size' = Size /\ Live' = Live
  BY SameBlocks DEF Reachable, Live
<1>2. \A b : EntriesBefore(b)' = EntriesBefore(b)
  BY <1>1 DEF EntriesBefore
<1>3. \A b : Entry(b)' = Entry(b)
  BY <1>1, <1>2 DEF Entry
<1>4. \A i : ResultRegister(i)' = ResultRegister(i)
  BY <1>1, <1>2, SameBlocks DEF ResultRegister
<1>5. \A b : MadeIn(b)' = MadeIn(b)
  BY SameBlocks DEF MadeIn
<1>6. \A b : Elements(Entry(b))' = Elements(Entry(b))
  BY <1>3 DEF Elements
<1>7. \A b : Known(b, LastOf(b))' = Known(b, LastOf(b))
  BY <1>4, <1>5, <1>6, SameBlocks DEF Known
<1> QED BY <1>1, <1>6, <1>7

\* The equations are about the lowered function and the live sets alone.
LEMMA LivenessFramed ==
  ASSUME UNCHANGED <<code, depth, lowered, liveIn, liveOut>>
  PROVE  /\ LiveTyped' = LiveTyped
         /\ \A b : LiveSolved(b)' = LiveSolved(b)
         /\ \A b : NewLiveOut(b)' = NewLiveOut(b) /\ NewLiveIn(b)' = NewLiveIn(b)
         /\ Reachable' = Reachable /\ Size' = Size /\ Leaders' = Leaders
<1>1. /\ Leaders' = Leaders /\ Reachable' = Reachable /\ Size' = Size
      /\ \A b : Elements(Entry(b))' = Elements(Entry(b))
      /\ \A b : Known(b, LastOf(b))' = Known(b, LastOf(b))
  BY KnownFramed
<1>2. LiveTyped' = LiveTyped
  BY <1>1 DEF LiveTyped
<1>3. \A b : NewLiveOut(b)' = NewLiveOut(b)
  BY SameBlocks DEF NewLiveOut, ThroughEdge, Moves
<1>4. \A b : NewLiveIn(b)' = NewLiveIn(b)
  BY <1>3, SameBlocks DEF NewLiveIn, UseBeforeDef, BlockDef, Used, Defined, Elements
<1> QED BY <1>1, <1>2, <1>3, <1>4 DEF LiveSolved
\* Looking at one block solves its equations; a round that has changed nothing
\* has not touched the blocks solved before (LivenessOfBlock).
LEMMA LivenessOfOne ==
  ASSUME IsLowered, LiveInv, LivenessOfBlock
  PROVE  LiveInv'
<1>1. /\ pass = "liveness" /\ pass' = pass /\ UNCHANGED <<code, depth, lowered>>
      /\ cursor > 0 /\ cursor' = cursor - 1
      /\ cursor \in 0 .. Size /\ LiveTyped
  BY DEF LivenessOfBlock, LiveInv, LoweredPasses
<1>2. Size \in Nat /\ Reachable \subseteq Leaders /\ Reachable \subseteq 1 .. Size
  BY ReachableFacts, CodeFacts DEF IsLowered
<1>3. /\ Leaders' = Leaders /\ Reachable' = Reachable /\ Size' = Size
      /\ \A b : Elements(Entry(b))' = Elements(Entry(b))
      /\ \A b : Known(b, LastOf(b))' = Known(b, LastOf(b))
  BY <1>1, KnownFramed
<1>4. cursor' \in 0 .. Size'
  BY <1>1, <1>2, <1>3
<1>5. CASE cursor \in Reachable
  <2>1. /\ liveOut' = [liveOut EXCEPT ![cursor] = NewLiveOut(cursor)]
        /\ liveIn' = [liveIn EXCEPT ![cursor] = NewLiveIn(cursor)]
        /\ changed' = (changed \/ liveIn' # liveIn \/ liveOut' # liveOut)
    BY <1>5 DEF LivenessOfBlock
  <2>2. /\ NewLiveOut(cursor) \subseteq Known(cursor, LastOf(cursor))
        /\ NewLiveIn(cursor) \subseteq Elements(Entry(cursor))
    BY <1>1, <1>5, NewLiveTyped
  <2>3. NewLiveOut(cursor) \subseteq Nat /\ NewLiveIn(cursor) \subseteq Nat
    <3>1. Known(cursor, LastOf(cursor)) \subseteq Nat /\ Elements(Entry(cursor)) \subseteq Nat
      BY <1>5, KnownFacts
    <3> QED BY <2>2, <3>1
  <2>4. LiveTyped'
    <3>0. /\ liveIn \in [Leaders -> SUBSET Nat] /\ liveOut \in [Leaders -> SUBSET Nat]
          /\ \A b \in Reachable : /\ liveIn[b] \subseteq Elements(Entry(b))
                                  /\ liveOut[b] \subseteq Known(b, LastOf(b))
          /\ \A b \in Leaders \ Reachable : liveIn[b] = {} /\ liveOut[b] = {}
      BY <1>1 DEF LiveTyped
    <3>1. /\ liveIn' \in [Leaders -> SUBSET Nat] /\ liveOut' \in [Leaders -> SUBSET Nat]
          /\ \A b \in Leaders \ {cursor} : liveIn'[b] = liveIn[b] /\ liveOut'[b] = liveOut[b]
          /\ liveIn'[cursor] = NewLiveIn(cursor) /\ liveOut'[cursor] = NewLiveOut(cursor)
      BY <1>2, <1>5, <2>1, <2>3, <3>0
    <3>2. ASSUME NEW b \in Reachable
          PROVE  /\ liveIn'[b] \subseteq Elements(Entry(b))
                 /\ liveOut'[b] \subseteq Known(b, LastOf(b))
      <4>1. CASE b = cursor
        BY <2>2, <3>1, <4>1
      <4>2. CASE b # cursor
        BY <1>2, <3>0, <3>1, <4>2
      <4> QED BY <4>1, <4>2
    <3>3. \A b \in Leaders \ Reachable : liveIn'[b] = {} /\ liveOut'[b] = {}
      BY <1>5, <3>0, <3>1
    <3> QED BY <1>3, <3>1, <3>2, <3>3 DEF LiveTyped
  <2>5. CASE changed \/ liveIn' # liveIn \/ liveOut' # liveOut
    <3>1. changed'
      BY <2>1, <2>5
    <3> QED BY <1>1, <1>4, <2>4, <3>1 DEF LiveInv
  <2>6. CASE ~changed /\ liveIn' = liveIn /\ liveOut' = liveOut
    <3>1. liveOut[cursor] = NewLiveOut(cursor) /\ liveIn[cursor] = NewLiveIn(cursor)
      BY <1>1, <1>2, <1>5, <2>1, <2>6 DEF LiveTyped
    <3>2. \A b \in Reachable : b > cursor => LiveSolved(b)
      BY <1>1, <2>6 DEF LiveInv, LoweredPasses
    <3>3. \A b \in Reachable : b > cursor - 1 => LiveSolved(b)
      <4> SUFFICES ASSUME NEW b \in Reachable, b > cursor - 1 PROVE LiveSolved(b)
        OBVIOUS
      <4>1. b = cursor \/ b > cursor
        BY <1>1, <1>2
      <4> QED BY <3>1, <3>2, <4>1 DEF LiveSolved
    <3>4. /\ \A b : LiveSolved(b)' = LiveSolved(b)
          /\ Reachable' = Reachable
      BY <1>1, <2>6, LivenessFramed
    <3>5. \A b \in Reachable' : b > cursor' => LiveSolved(b)'
      BY <1>1, <3>3, <3>4
    <3> QED BY <1>1, <1>4, <2>4, <3>5 DEF LiveInv
  <2> QED BY <2>5, <2>6
<1>6. CASE cursor \notin Reachable
  <2>1. UNCHANGED <<liveIn, liveOut, changed>>
    BY <1>6 DEF LivenessOfBlock
  <2>2. /\ LiveTyped' /\ \A b : LiveSolved(b)' = LiveSolved(b)
        /\ Reachable' = Reachable
    BY <1>1, <2>1, LivenessFramed
  <2>3. CASE changed
    BY <1>1, <1>4, <2>1, <2>2, <2>3 DEF LiveInv
  <2>4. CASE ~changed
    <3>1. \A b \in Reachable : b > cursor => LiveSolved(b)
      BY <1>1, <2>4 DEF LiveInv, LoweredPasses
    <3>2. \A b \in Reachable : b > cursor - 1 => b > cursor
      BY <1>1, <1>2, <1>6
    <3>3. \A b \in Reachable' : b > cursor' => LiveSolved(b)'
      BY <1>1, <2>2, <3>1, <3>2
    <3> QED BY <1>1, <1>4, <2>2, <3>3 DEF LiveInv
  <2> QED BY <2>3, <2>4
<1> QED BY <1>5, <1>6

-----------------------------------------------------------------------------
(***************************************************************************)
(* Intervals, and the allocation of the function's registers.              *)
(***************************************************************************)
\* Positions lie within the function.
LEMMA PositionsWithin ==
  ASSUME IsLowered, NEW v
  PROVE  Positions(v) \subseteq 0 .. 2 * Size - 1 /\ Size \in Nat
<1>1. code \in Codes /\ DepthType /\ Size \in Nat
  BY CodeFacts DEF IsLowered
<1>2. /\ Reachable \subseteq 1 .. Size /\ Live \subseteq 1 .. Size
      /\ \A b \in Reachable : LastOf(b) \in 1 .. Size
  <2>1. Reachable \subseteq Leaders /\ Reachable \subseteq 1 .. Size /\ Live \subseteq 1 .. Size
    BY <1>1, ReachableFacts
  <2>2. \A b \in Reachable : LastOf(b) \in Body(b) /\ Body(b) \subseteq 1 .. Size
    BY <1>1, <2>1, BlockFacts
  <2> QED BY <2>1, <2>2
<1>3. \A i \in 1 .. Size : UsePosition(i) \in 0 .. 2 * Size - 1 /\ DefPosition(i) \in 0 .. 2 * Size - 1
  BY <1>1 DEF UsePosition, DefPosition
<1> QED BY <1>1, <1>2, <1>3 DEF Positions, LiveOutPosition

\* One interval from the first position to the last.
LEMMA RangeIs ==
  ASSUME NEW n \in Int, NEW P \in SUBSET (0 .. n)
  PROVE  /\ P = {} => LiveRange(P) = {}
         /\ P # {} => \E lo, hi \in P : /\ LiveRange(P) = {[start |-> lo, end |-> hi]}
                                        /\ \A p \in P : lo <= p /\ p <= hi
<1>1. CASE P = {}
  BY <1>1 DEF LiveRange
<1>2. CASE P # {}
  <2>1. PICK lo \in P : \A p \in P : lo <= p
    BY <1>2, LeastNatural
  <2>2. PICK hi \in P : \A p \in P : p <= hi
    <3>1. P \in SUBSET Int /\ \A p \in P : p <= n
      OBVIOUS
    <3> QED BY <1>2, <3>1, GreatestInteger
  <2>3. LiveRange(P) = {[start |-> lo, end |-> hi]}
    <3>1. [start |-> lo, end |-> hi] \in LiveRange(P)
      BY <2>1, <2>2 DEF LiveRange
    <3>2. ASSUME NEW r \in LiveRange(P)
          PROVE  r = [start |-> lo, end |-> hi]
      <4>1. r \in [start : P, end : P] /\ \A p \in P : r.start <= p /\ p <= r.end
        BY DEF LiveRange
      <4>2. r.start \in P /\ r.end \in P
        BY <4>1
      <4>3. r.start = lo /\ r.end = hi
        <5>1. \A p \in P : p \in Int
          OBVIOUS
        <5>2. /\ r.start \in Int /\ r.end \in Int /\ lo \in Int /\ hi \in Int
              /\ r.start <= lo /\ lo <= r.start /\ r.end <= hi /\ hi <= r.end
          BY <2>1, <2>2, <4>1, <4>2, <5>1
        <5> QED BY <5>2
      <4> QED BY <4>1, <4>3
    <3> QED BY <3>1, <3>2
  <2> QED BY <1>2, <2>1, <2>2, <2>3
<1> QED BY <1>1, <1>2

\* The allocator may be given what the liveness analysis finds.
LEMMA RangesGiven ==
  ASSUME IsLowered
  PROVE  [v \in VirtualRegisters |-> LiveRange(Positions(v))] \in [VirtualRegisters -> RangeLists]
<1> SUFFICES ASSUME NEW v \in VirtualRegisters PROVE LiveRange(Positions(v)) \in RangeLists
  OBVIOUS
<1>1. Positions(v) \in SUBSET (0 .. 2 * Size - 1) /\ 2 * Size - 1 \in Int
  BY PositionsWithin
<1>2. /\ {} \in RangeLists
      /\ \A first, last \in 0 .. 2 * Size - 1 : {[start |-> first, end |-> last]} \in RangeLists
  BY CodesAssumption DEF IsLowered, Size
<1>3. CASE Positions(v) = {}
  BY <1>1, <1>2, <1>3, RangeIs
<1>4. CASE Positions(v) # {}
  <2>1. PICK lo, hi \in Positions(v) : LiveRange(Positions(v)) = {[start |-> lo, end |-> hi]}
    BY <1>1, <1>4, RangeIs
  <2> QED BY <1>1, <1>2, <2>1
<1> QED BY <1>3, <1>4

-----------------------------------------------------------------------------
Allocating == {"allocate", "verify", "run", "rejected"}

\* The allocator works on the function's intervals, after they are known.
ScanInv ==
  /\ FewestInv /\ SpillSlotsDistinct
  /\ phase = "scan" => items = {v \in VirtualRegisters : ranges[v] # {}}
  /\ pass \in {"blocks", "depths", "liveness"} => phase = "build"
  /\ pass \in {"verify", "run", "rejected"} => AllocationComplete
  /\ pass \in Allocating =>
       ranges = [v \in VirtualRegisters |-> LiveRange(Positions(v))]

\* Before the scan the ranges are of no consequence (BuildIntervals).
LEMMA RangesChange ==
  ASSUME FewestInv, SpillSlotsDistinct, phase = "build", BuildIntervals, IsLowered
  PROVE  FewestInv' /\ SpillSlotsDistinct'
<1>1. /\ ranges' = [v \in VirtualRegisters |-> LiveRange(Positions(v))]
      /\ UNCHANGED <<registerCount, phase, intervals, items, pending, active, freeRegisters,
                     assignments, nextSpillSlot>>
  BY DEF BuildIntervals
<1>2. ranges' \in [VirtualRegisters -> RangeLists]
  BY <1>1, RangesGiven
<1>3. items = {} /\ Inv
  BY DEF FewestInv, Inv, Unscanned
<1>4. /\ Allocated' = Allocated /\ Resident' = Resident /\ Registers' = Registers
      /\ \A v : Start(v)' = Start(v) /\ End(v)' = End(v)
  BY <1>1 DEF Allocated, Resident, Registers, Start, End
<1>5. TypeOK'
  BY <1>1, <1>2, <1>3, <1>4 DEF Inv, TypeOK
<1>6. RegistersConserved'
  BY <1>1, <1>3, <1>4 DEF Inv, RegistersConserved, RegistersOf
<1>7. Covered' /\ ByStart' /\ Past' /\ Apart' /\ Unscanned'
  BY <1>1, <1>3, <1>4 DEF Inv, Covered, ByStart, Past, Apart, Unscanned
<1>8. Physical' /\ Forward' /\ NothingLost'
  BY <1>1, <1>4 DEF FewestInv, Physical, Forward, NothingLost, FitsThroughout, Meeting
<1>9. SpillSlotsDistinct'
  BY <1>1, <1>4 DEF SpillSlotsDistinct
<1> QED BY <1>5, <1>6, <1>7, <1>8, <1>9 DEF FewestInv, Inv

\* Intervals depend on the lowered function and the live sets alone.
LEMMA PositionsFramed ==
  ASSUME UNCHANGED <<code, depth, lowered, liveIn, liveOut>>
  PROVE  [v \in VirtualRegisters |-> LiveRange(Positions(v))]' =
         [v \in VirtualRegisters |-> LiveRange(Positions(v))]
<1>1. Reachable' = Reachable /\ Live' = Live
  BY SameBlocks DEF Reachable, Live
<1>2. \A b : LiveOutPosition(b)' = LiveOutPosition(b)
  BY SameBlocks DEF LiveOutPosition, DefPosition
<1>3. \A i : Used(i)' = Used(i) /\ Defined(i)' = Defined(i)
  BY DEF Used, Defined, Elements
<1>4. \A v : Positions(v)' = Positions(v)
  BY <1>1, <1>2, <1>3 DEF Positions, UsePosition, DefPosition
<1> QED BY <1>4 DEF LiveRange

\* The scan keeps what it keeps by itself, and its input.
LEMMA ScanSteps ==
  ASSUME ScanInv, [Next]_vars
  PROVE  /\ FewestInv' /\ SpillSlotsDistinct'
         /\ phase' = "scan" => items' = {v \in VirtualRegisters : ranges'[v] # {}}
         /\ ranges' = ranges
<1>1. FewestInv' /\ SpillSlotsDistinct'
  BY FewestKept, SlotsKept DEF ScanInv, FewestInv
<1>2. ranges' = ranges
  BY DEF Next, BuildIntervalWorkItems, Allocate, vars, input
<1>3. ASSUME phase' = "scan"
      PROVE  items' = {v \in VirtualRegisters : ranges'[v] # {}}
  BY <1>2, <1>3 DEF ScanInv, Next, BuildIntervalWorkItems, Allocate, vars, input
<1> QED BY <1>1, <1>2, <1>3

-----------------------------------------------------------------------------
\* What is known of a function whose registers have been allocated.
Allotted ==
  /\ IsLowered
  /\ LiveTyped /\ \A b \in Reachable : LiveSolved(b)
  /\ FewestInv /\ SpillSlotsDistinct /\ AllocationComplete
  /\ items = {v \in VirtualRegisters : ranges[v] # {}}
  /\ ranges = [v \in VirtualRegisters |-> LiveRange(Positions(v))]

\* A register's interval covers its positions.
LEMMA Covering ==
  ASSUME Allotted, NEW v \in VirtualRegisters, NEW p \in Positions(v)
  PROVE  /\ v \in items
         /\ \E r \in ranges[v] : \A q \in Positions(v) : r.start <= q /\ q <= r.end
<1>1. Positions(v) \in SUBSET (0 .. 2 * Size - 1) /\ 2 * Size - 1 \in Int
  BY PositionsWithin DEF Allotted
<1>2. PICK lo, hi \in Positions(v) : /\ LiveRange(Positions(v)) = {[start |-> lo, end |-> hi]}
                                     /\ \A q \in Positions(v) : lo <= q /\ q <= hi
  BY <1>1, RangeIs
<1>3. ranges[v] = {[start |-> lo, end |-> hi]}
  BY <1>2 DEF Allotted
<1>4. v \in items
  BY <1>3 DEF Allotted
<1> QED BY <1>2, <1>3, <1>4

\* Intervals that contain a common position meet.
LEMMA MeetAt ==
  ASSUME Allotted, NEW v \in VirtualRegisters, NEW w \in VirtualRegisters, NEW p \in Int,
         \E x, y \in Positions(v) : x <= p /\ p <= y,
         \E x, y \in Positions(w) : x <= p /\ p <= y
  PROVE  v \in items /\ w \in items /\ LiveTogether(v, w)
<1>1. ASSUME NEW u \in VirtualRegisters, \E x, y \in Positions(u) : x <= p /\ p <= y
      PROVE  u \in items /\ \E r \in ranges[u] : r.start <= p /\ p <= r.end
                                               /\ r.start \in Int /\ r.end \in Int
  <2>1. PICK x, y \in Positions(u) : x <= p /\ p <= y
    BY <1>1
  <2>2. u \in items /\ x \in Int /\ y \in Int
    BY <2>1, Covering, PositionsWithin DEF Allotted
  <2>3. PICK r \in ranges[u] : \A q \in Positions(u) : r.start <= q /\ q <= r.end
    BY <2>1, Covering
  <2>4. r \in IrLiveRange
    BY LivenessAssumption DEF Allotted, FewestInv, Inv, TypeOK
  <2>5. r.start \in Int /\ r.end \in Int
    BY <2>4 DEF IrLiveRange
  <2>6. r.start <= p /\ p <= r.end
    BY <2>1, <2>2, <2>3, <2>5
  <2> QED BY <2>2, <2>5, <2>6
<1>2. PICK r \in ranges[v] : r.start <= p /\ p <= r.end /\ r.start \in Int /\ r.end \in Int
  BY <1>1
<1>3. PICK q \in ranges[w] : q.start <= p /\ p <= q.end /\ q.start \in Int /\ q.end \in Int
  BY <1>1
<1>4. r.start <= q.end /\ q.start <= r.end
  BY <1>2, <1>3
<1> QED BY <1>1, <1>4 DEF LiveTogether

\* Registers that are live together have different places.
LEMMA PlacesApart ==
  ASSUME Allotted, NEW v \in items, NEW w \in items, v # w, LiveTogether(v, w)
  PROVE  Assigned(v) # Assigned(w)
<1>1. Allocated = items /\ Inv
  BY DEF Allocated, Allotted, AllocationComplete, FewestInv
<1>2. CASE ~assignments[v].spilled /\ ~assignments[w].spilled
  <2>1. v \in Resident /\ w \in Resident
    BY <1>1, <1>2 DEF Resident
  <2>2. assignments[v].physicalRegister # assignments[w].physicalRegister
    BY <1>1, <2>1, HeldApart DEF NoRegisterShared
  <2> QED BY <1>2, <2>2 DEF Assigned, Spilled
<1>3. CASE assignments[v].spilled /\ assignments[w].spilled
  <2>1. v \in Allocated \ Resident /\ w \in Allocated \ Resident
    BY <1>1, <1>3 DEF Resident
  <2>2. assignments[v].spillSlot # assignments[w].spillSlot
    BY <2>1 DEF Allotted, SpillSlotsDistinct
  <2> QED BY <1>3, <2>2 DEF Assigned, Spilled
<1>4. CASE assignments[v].spilled # assignments[w].spilled
  <2>1. assignments \in [VirtualRegisters -> Assignment] /\ items \subseteq VirtualRegisters
    BY <1>1 DEF Inv, TypeOK
  <2>2. assignments[v].spilled \in BOOLEAN /\ assignments[w].spilled \in BOOLEAN
    BY <2>1 DEF Assignment
  <2> QED BY <1>4, <2>2 DEF Assigned, Spilled
<1> QED BY <1>2, <1>3, <1>4

\* A register with an interval is a register of the function.
LEMMA RangeNamed ==
  ASSUME IsLowered, LiveTyped, NEW v, LiveRange(Positions(v)) # {}
  PROVE  v \in 0 .. RegisterTotal - 1
<1>1. Positions(v) # {}
  <2>1. Positions(v) \in SUBSET (0 .. 2 * Size - 1) /\ 2 * Size - 1 \in Int
    BY PositionsWithin
  <2> QED BY <2>1, RangeIs
<1>2. \E b \in Reachable : \E i : v \in Known(b, i)
  <2>1. CASE \E b \in Reachable : v \in liveIn[b] \cup liveOut[b]
    BY <2>1 DEF LiveTyped, Known
  <2>2. CASE \E i \in Live : v \in Used(i) \cup Defined(i)
    <3>1. PICK i \in Live : v \in Used(i) \cup Defined(i)
      BY <2>2
    <3>2. PICK b \in Reachable : i \in Body(b)
      BY DEF Live
    <3>3. CASE v \in Used(i)
      BY <3>2, <3>3, UsesAndDefs
    <3>4. CASE v \in Defined(i)
      <4>1. v = ResultRegister(i) /\ i \in MadeIn(b)
        BY <3>2, <3>4, UsesAndDefs DEF MadeIn
      <4>2. i <= i
        BY <3>2, UsesAndDefs
      <4> QED BY <4>1, <4>2 DEF Known
    <3> QED BY <3>1, <3>3, <3>4
  <2> QED BY <1>1, <2>1, <2>2 DEF Positions
<1> QED BY <1>2, KnownFacts

\* What is allocated are registers of the function.
LEMMA ItemsNamed ==
  ASSUME Allotted
  PROVE  items \subseteq 0 .. RegisterTotal - 1
BY RangeNamed DEF Allotted

\* Places exist: spill slots are no more than the function's registers.
LEMMA PlacesExist ==
  ASSUME Allotted, NEW v \in items
  PROVE  Assigned(v) \in Places
<1>1. Allocated = items /\ Inv /\ Physical /\ IsLowered /\ v \in VirtualRegisters
  BY DEF Allocated, Allotted, AllocationComplete, FewestInv
<1>2. assignments[v] \in Assignment
  BY <1>1 DEF Inv, TypeOK
<1>3. CASE ~assignments[v].spilled
  <2>1. assignments[v].physicalRegister \in Registers
    BY <1>1, <1>3 DEF Resident, Physical
  <2> QED BY <1>3, <2>1 DEF Assigned, Spilled, Places
<1>4. CASE assignments[v].spilled
  <2> DEFINE spilled == Allocated \ Resident
  <2>1. v \in spilled
    BY <1>1, <1>4 DEF Resident
  <2>2. assignments[v].spillSlot < nextSpillSlot /\ Cardinality(spilled) = nextSpillSlot
    BY <2>1 DEF Allotted, SpillSlotsDistinct
  <2>3. RegisterTotal \in Nat /\ 0 .. RegisterTotal - 1 \subseteq VirtualRegisters
    BY <1>1, ResultNumbers DEF IsLowered
  <2>4. spilled \in SUBSET (0 .. RegisterTotal - 1)
    BY <1>1, ItemsNamed
  <2>5. /\ IsFiniteSet(0 .. RegisterTotal - 1)
        /\ Cardinality(0 .. RegisterTotal - 1) = RegisterTotal
    BY <2>3, FS_Interval
  <2>6. Cardinality(spilled) <= RegisterTotal /\ Cardinality(spilled) \in Nat
    BY <2>4, <2>5, FS_Subset, FS_CardinalityType
  <2>7. assignments[v].spillSlot \in Nat
    BY <1>2 DEF Assignment
  <2>8. assignments[v].spillSlot \in VirtualRegisters
    <3> HIDE DEF spilled
    <3> QED BY <2>2, <2>3, <2>6, <2>7
  <2> QED BY <1>1, <1>4, <2>8 DEF Assigned, Spilled, Places
<1> QED BY <1>3, <1>4

-----------------------------------------------------------------------------
\* The registers known after instruction i of block b that are still needed.
NeededAt(b, i) ==
  {r \in Known(b, i) : r \in liveOut[b] \/ \E j \in Body(b) : j > i /\ r \in Used(j)}

\* An entry register is no result.
LEMMA EntryNotResult ==
  ASSUME IsLowered, NEW b \in Reachable, NEW r \in Elements(Entry(b)), NEW i \in Body(b)
  PROVE  r \notin Defined(i)
<1>1. CASE Pushes(i) = 1
  <2>1. i \in MadeIn(b)
    BY <1>1 DEF MadeIn
  <2>2. /\ ResultRegister(i) \in EntryTotal .. RegisterTotal - 1 /\ r \in 0 .. EntryTotal - 1
        /\ EntryTotal \in Nat /\ RegisterTotal \in Nat
    BY <2>1, KnownFacts
  <2>3. r # ResultRegister(i)
    BY <2>2
  <2> QED BY <2>3, UsesAndDefs
<1>2. CASE Pushes(i) # 1
  BY <1>2, UsesAndDefs
<1> QED BY <1>1, <1>2

\* An entry register that the block reads or that is live at its end is live at
\* its start.
LEMMA EntryNeeded ==
  ASSUME IsLowered, LiveTyped, NEW b \in Reachable, LiveSolved(b), NEW r \in Elements(Entry(b)),
         r \in liveOut[b] \/ \E j \in Body(b) : r \in Used(j)
  PROVE  r \in liveIn[b]
<1>1. \A i \in Body(b) : r \notin Defined(i)
  BY EntryNotResult
<1>2. CASE r \in liveOut[b]
  BY <1>1, <1>2 DEF LiveSolved, NewLiveIn, BlockDef
<1>3. CASE \E j \in Body(b) : r \in Used(j)
  <2>1. PICK j \in Body(b) : r \in Used(j)
    BY <1>3
  <2>2. \A i \in b .. (j - 1) : i \in Body(b)
    <3>1. code \in Codes /\ b \in Leaders
      BY LoweredFacts DEF IsLowered
    <3>2. Body(b) = b .. LastOf(b) /\ b \in Nat /\ LastOf(b) \in Nat
      BY <3>1, BlockFacts
    <3> QED BY <2>1, <3>2
  <2>3. r \in UseBeforeDef(b)
    BY <1>1, <2>1, <2>2 DEF UseBeforeDef
  <2> QED BY <2>3 DEF LiveSolved, NewLiveIn
<1> QED BY <1>2, <1>3

\* An entry register that is allocated is live where its block starts.
LEMMA AllocatedEntry ==
  ASSUME Allotted, NEW b \in Reachable, NEW r \in Elements(Entry(b)), r \in items
  PROVE  r \in liveIn[b]
<1>1. IsLowered /\ LiveTyped /\ LiveSolved(b)
  BY DEF Allotted
<1>2. Positions(r) # {}
  <2>1. LiveRange(Positions(r)) # {}
    BY DEF Allotted
  <2>2. Positions(r) \in SUBSET (0 .. 2 * Size - 1) /\ 2 * Size - 1 \in Int
    BY <1>1, PositionsWithin
  <2> QED BY <2>1, <2>2, RangeIs
<1>3. r \in Known(b, b)
  BY DEF Known
<1>4. CASE \E c \in Reachable : r \in liveIn[c]
  <2>1. PICK c \in Reachable : r \in liveIn[c]
    BY <1>4
  <2>2. r \in Known(c, c)
    BY <1>1, <2>1 DEF LiveTyped, Known
  <2> QED BY <1>1, <1>3, <2>1, <2>2, OneOwner
<1>5. CASE \E c \in Reachable : r \in liveOut[c]
  <2>1. PICK c \in Reachable : r \in liveOut[c]
    BY <1>5
  <2>2. r \in Known(c, LastOf(c))
    BY <1>1, <2>1 DEF LiveTyped
  <2>3. b = c
    BY <1>1, <1>3, <2>2, OneOwner
  <2> QED BY <1>1, <2>1, <2>3, EntryNeeded
<1>6. CASE \E i \in Live : r \in Used(i)
  <2>1. PICK i \in Live : r \in Used(i)
    BY <1>6
  <2>2. PICK c \in Reachable : i \in Body(c)
    BY DEF Live
  <2>3. r \in Known(c, i - 1)
    BY <1>1, <2>1, <2>2, UsesAndDefs
  <2>4. b = c
    BY <1>1, <1>3, <2>3, OneOwner
  <2> QED BY <1>1, <2>1, <2>2, <2>4, EntryNeeded
<1>7. CASE \E i \in Live : r \in Defined(i)
  <2>1. PICK i \in Live : r \in Defined(i)
    BY <1>7
  <2>2. PICK c \in Reachable : i \in Body(c)
    BY DEF Live
  <2>3. r = ResultRegister(i) /\ i \in MadeIn(c) /\ i \in 1 .. Size
    BY <1>1, <2>1, <2>2, UsesAndDefs DEF MadeIn
  <2>4. r \in Known(c, i)
    BY <2>3 DEF Known
  <2>5. b = c
    BY <1>1, <1>3, <2>4, OneOwner
  <2> QED BY <1>1, <2>1, <2>2, <2>5, EntryNotResult
<1> QED BY <1>2, <1>4, <1>5, <1>6, <1>7 DEF Positions

\* Registers live at a block's start are live together.
LEMMA EntriesTogether ==
  ASSUME Allotted, NEW b \in Reachable, NEW v \in liveIn[b], NEW w \in liveIn[b],
         v \in VirtualRegisters, w \in VirtualRegisters
  PROVE  v \in items /\ w \in items /\ LiveTogether(v, w)
<1>1. UsePosition(b) \in Positions(v) /\ UsePosition(b) \in Positions(w)
  BY DEF Positions
<1>2. UsePosition(b) \in Int
  BY <1>1, PositionsWithin DEF Allotted
<1> QED BY <1>1, <1>2, MeetAt

\* A result is live together with whatever is needed after it.
LEMMA ResultTogether ==
  ASSUME Allotted, NEW b \in Reachable, NEW i \in Body(b), Pushes(i) = 1,
         NEW r \in NeededAt(b, i), r # ResultRegister(i)
  PROVE  /\ r \in items /\ ResultRegister(i) \in items
         /\ LiveTogether(r, ResultRegister(i))
<1>1. IsLowered /\ LiveTyped /\ LiveSolved(b) /\ code \in Codes /\ b \in Leaders
  BY LoweredFacts DEF Allotted, IsLowered
<1>2. /\ Body(b) = b .. LastOf(b) /\ b \in Nat /\ LastOf(b) \in Nat /\ i \in Live
      /\ Body(b) \subseteq Live
  BY <1>1, BlockFacts, UsesAndDefs, ReachableFacts DEF IsLowered
<1>3. /\ r \in VirtualRegisters /\ ResultRegister(i) \in VirtualRegisters
      /\ 0 .. RegisterTotal - 1 \subseteq VirtualRegisters
  <2>1. i \in MadeIn(b) /\ i <= i
    BY <1>2 DEF MadeIn
  <2>2. ResultRegister(i) \in Known(b, i)
    BY <2>1 DEF Known
  <2> QED BY <1>1, <2>2, KnownFacts DEF NeededAt, IsLowered
<1>4. DefPosition(i) \in Positions(ResultRegister(i))
  <2>1. ResultRegister(i) \in Defined(i)
    BY <1>1, UsesAndDefs
  <2> QED BY <1>2, <2>1 DEF Positions
<1>5. DefPosition(i) \in Int
  BY <1>2 DEF DefPosition
<1>6. \E x \in Positions(r) : x <= DefPosition(i)
  <2>1. CASE r \in Elements(Entry(b))
    <3>1. r \in liveIn[b]
      <4>1. r \in liveOut[b] \/ \E j \in Body(b) : r \in Used(j)
        BY DEF NeededAt
      <4> QED BY <1>1, <2>1, <4>1, EntryNeeded
    <3>2. UsePosition(b) \in Positions(r)
      BY <3>1 DEF Positions
    <3>3. UsePosition(b) <= DefPosition(i)
      BY <1>2 DEF UsePosition, DefPosition
    <3> QED BY <3>2, <3>3
  <2>2. CASE r \notin Elements(Entry(b))
    <3>1. PICK j \in MadeIn(b) : j <= i /\ r = ResultRegister(j)
      BY <2>2 DEF NeededAt, Known
    <3>2. j \in Body(b) /\ Pushes(j) = 1
      BY DEF MadeIn
    <3>3. r \in Defined(j) /\ j \in Live
      BY <1>1, <3>1, <3>2, UsesAndDefs
    <3>4. DefPosition(j) \in Positions(r)
      BY <3>3 DEF Positions
    <3>5. DefPosition(j) <= DefPosition(i)
      BY <1>2, <3>1, <3>2 DEF DefPosition
    <3> QED BY <3>4, <3>5
  <2> QED BY <2>1, <2>2
<1>7. \E y \in Positions(r) : DefPosition(i) <= y
  <2>1. CASE r \in liveOut[b]
    <3>1. LiveOutPosition(b) \in Positions(r)
      BY <2>1 DEF Positions
    <3>2. DefPosition(i) <= LiveOutPosition(b)
      BY <1>2 DEF LiveOutPosition, DefPosition
    <3> QED BY <3>1, <3>2
  <2>2. CASE \E j \in Body(b) : j > i /\ r \in Used(j)
    <3>1. PICK j \in Body(b) : j > i /\ r \in Used(j)
      BY <2>2
    <3>2. UsePosition(j) \in Positions(r)
      BY <1>2, <3>1 DEF Positions
    <3>3. DefPosition(i) <= UsePosition(j)
      BY <1>2, <3>1 DEF DefPosition, UsePosition
    <3> QED BY <3>2, <3>3
  <2> QED BY <2>1, <2>2 DEF NeededAt
<1>8. \E x, y \in Positions(ResultRegister(i)) : x <= DefPosition(i) /\ DefPosition(i) <= y
  BY <1>4, <1>5
<1> QED BY <1>3, <1>5, <1>6, <1>7, <1>8, MeetAt

-----------------------------------------------------------------------------
(***************************************************************************)
(* The run of a block on the places that the allocator assigned.           *)
(***************************************************************************)
\* Every register of the function has been assigned a place.
Covers == items = 0 .. RegisterTotal - 1

\* After instruction i the places of the registers still needed hold the values
\* that the stack's run makes, and the rest of the run is the stack's.
AllocatedHolds(b, R, run, i) ==
  /\ run.values \in [Places -> Values]
  /\ \A r \in NeededAt(b, i) : run.values[Assigned(r)] = ValueOf(b, R, r)
  /\ run.locals = R[i].locals /\ run.reads = R[i].reads /\ run.effects = R[i].effects

\* A register needed after an instruction is its result or was needed before it.
LEMMA NeededBefore ==
  ASSUME IsLowered, NEW b \in Reachable, NEW i \in Body(b), NEW r \in NeededAt(b, i)
  PROVE  r \in NeededAt(b, i - 1) \/ (Pushes(i) = 1 /\ r = ResultRegister(i))
<1>1. /\ b \in Int /\ LastOf(b) \in Int /\ Body(b) = b .. LastOf(b) /\ i \in Int
  BY LoweredFacts, BlockFacts DEF IsLowered
<1>2. CASE r \in Known(b, i - 1)
  <2>1. \A j \in Body(b) : j > i => j > i - 1
    BY <1>1
  <2> QED BY <1>2, <2>1 DEF NeededAt
<1>3. CASE r \notin Known(b, i - 1)
  <2>1. PICK j \in MadeIn(b) : j <= i /\ r = ResultRegister(j)
    BY <1>3 DEF NeededAt, Known
  <2>2. ~(j <= i - 1)
    BY <1>3, <2>1 DEF Known
  <2>3. j \in Body(b) /\ Pushes(j) = 1
    BY DEF MadeIn
  <2>4. j = i
    BY <1>1, <2>1, <2>2, <2>3
  <2> QED BY <2>1, <2>3, <2>4
<1> QED BY <1>2, <1>3

\* An instruction finds its operands in the places assigned to them, and its
\* result takes the place of nothing that is still needed.
LEMMA AllocatedStep ==
  ASSUME Allotted, Covers, NEW b \in Reachable, NEW R, StackRun(b, R), StackReady(b),
         NEW j \in Body(b), NEW before, AllocatedHolds(b, R, before, j - 1)
  PROVE  AllocatedHolds(b, R, OnRegisters("allocated", j, before), j)
<1> DEFINE after == OnRegisters("allocated", j, before)
<1>1. IsLowered /\ StackDoes(b, R, j)
  BY StackRunHolds DEF Allotted
<1>2. /\ b \in Int /\ LastOf(b) \in Int /\ Body(b) = b .. LastOf(b) /\ j \in Int
      /\ Pushes(j) \in {0, 1}
  <2>1. code \in Codes /\ b \in Leaders /\ j \in 1 .. Size
    BY <1>1, LoweredFacts, UsesAndDefs DEF IsLowered
  <2> QED BY <2>1, BlockFacts, EffectTypes
<1>3. /\ before.values \in [Places -> Values]
      /\ \A r \in NeededAt(b, j - 1) : before.values[Assigned(r)] = ValueOf(b, R, r)
      /\ before.locals = R[j - 1].locals /\ before.reads = R[j - 1].reads
      /\ before.effects = R[j - 1].effects
  BY DEF AllocatedHolds
<1>4. \A v : Place("allocated", v) = Assigned(v)
  BY DEF Place
<1>5. Finds("allocated", b, R, j, before)
  <2>1. ASSUME NEW k \in 1 .. Needs(j) PROVE lowered.uses[j][k] \in NeededAt(b, j - 1)
    <3>1. lowered.uses[j][k] \in Used(j) /\ Used(j) \subseteq Known(b, j - 1)
      BY <1>1, UsesAndDefs
    <3>2. j > j - 1
      BY <1>2
    <3> QED BY <3>1, <3>2 DEF NeededAt
  <2> QED BY <1>3, <1>4, <2>1 DEF Finds
<1>6. DoesTheSame("allocated", b, R, j, before, after)
  BY <1>1, <1>5, RegisterStep
<1> HIDE DEF after
<1> DEFINE new == ValueOf(b, R, ResultRegister(j))
<1>7. /\ Pushes(j) = 0 => after.values = before.values
      /\ Pushes(j) = 1 => /\ after.values = [before.values EXCEPT ![Assigned(ResultRegister(j))] = new]
                          /\ new \in Values
      /\ after.locals = R[j].locals /\ after.reads = R[j].reads /\ after.effects = R[j].effects
  BY <1>1, <1>3, <1>4, <1>6 DEF DoesTheSame, StackDoes
<1>8. Pushes(j) = 1 => ResultRegister(j) \in items /\ Assigned(ResultRegister(j)) \in Places
  <2> SUFFICES ASSUME Pushes(j) = 1
               PROVE  ResultRegister(j) \in items /\ Assigned(ResultRegister(j)) \in Places
    OBVIOUS
  <2>1. j \in MadeIn(b)
    BY DEF MadeIn
  <2>2. ResultRegister(j) \in items
    BY <1>1, <2>1, KnownFacts DEF Covers
  <2> QED BY <2>2, PlacesExist
<1> HIDE DEF new
<1>9. after.values \in [Places -> Values]
  BY <1>2, <1>3, <1>7, <1>8
<1>10. ASSUME NEW r \in NeededAt(b, j) PROVE after.values[Assigned(r)] = ValueOf(b, R, r)
  <2>1. CASE Pushes(j) = 1 /\ r = ResultRegister(j)
    BY <1>3, <1>7, <1>8, <2>1 DEF new
  <2>2. CASE ~(Pushes(j) = 1 /\ r = ResultRegister(j))
    <3>1. r \in NeededAt(b, j - 1)
      BY <1>1, <2>2, NeededBefore
    <3>2. CASE Pushes(j) = 0
      BY <1>3, <1>7, <3>1, <3>2
    <3>3. CASE Pushes(j) = 1
      <4>1. r \in items /\ ResultRegister(j) \in items /\ LiveTogether(r, ResultRegister(j))
        BY <2>2, <3>3, ResultTogether
      <4>2. Assigned(r) # Assigned(ResultRegister(j))
        BY <2>2, <3>3, <4>1, PlacesApart
      <4>3. Assigned(r) \in Places
        BY <4>1, PlacesExist
      <4> QED BY <1>3, <1>7, <3>1, <3>3, <4>2, <4>3
    <3> QED BY <1>2, <3>2, <3>3
  <2> QED BY <2>1, <2>2
<1>11. AllocatedHolds(b, R, after, j)
  BY <1>7, <1>9, <1>10 DEF AllocatedHolds
<1> QED BY <1>11 DEF after

\* A block run on the assigned places does what it does on the stack: what is
\* live at its end is in its places.
EndsAllocated(b) ==
  LET run == RunOfBlock("allocated", b)
      stack == RunOfBlock("stack", b)
  IN
  /\ run.values \in [Places -> Values]
  /\ \A k \in 1 .. DepthAfter(b)[LastOf(b)] :
       lowered.exit[b][k] \in liveOut[b] =>
         run.values[Assigned(lowered.exit[b][k])] = stack.values[k]
  /\ run.locals = stack.locals /\ run.reads = stack.reads /\ run.effects = stack.effects

\* The instructions of a block in the code's order.
LEMMA CodesOrder ==
  ASSUME code \in Codes, NEW b \in Leaders
  PROVE  /\ Len(InOrder("allocated", b)) = Cardinality(Body(b))
         /\ Cardinality(Body(b)) = LastOf(b) - b + 1 /\ Cardinality(Body(b)) \in Nat \ {0}
         /\ \A n \in 1 .. Cardinality(Body(b)) : InOrder("allocated", b)[n] = b + n - 1
<1> DEFINE N == Cardinality(Body(b))
           list == InOrder("allocated", b)
<1>1. N \in Nat /\ N = LastOf(b) - b + 1 /\ b \in Int /\ LastOf(b) \in Int /\ b <= LastOf(b)
  BY BodyCounted, BlockFacts
<1>2. list = [k \in 1 .. N |-> b + k - 1]
  BY DEF InOrder
<1>3. \A k \in 1 .. N : b + k - 1 \in Int
  BY <1>1
<1> HIDE DEF N
<1>4. list \in Seq(Int)
  <2>1. N \in Nat
    BY <1>1
  <2> QED BY <1>2, <1>3, <2>1
<1> HIDE DEF list
<1>5. Len(list) = N /\ \A n \in 1 .. N : list[n] = b + n - 1
  BY <1>1, <1>2, <1>4
<1> QED BY <1>1, <1>5 DEF list, N

\* Instruction by instruction the places hold what is needed.
LEMMA AllocatedBlock ==
  ASSUME Allotted, Covers, NEW b \in Reachable, StackReady(b), BeginsLike("allocated", b)
  PROVE  EndsAllocated(b)
<1> DEFINE N == Cardinality(Body(b))
           list == InOrder("allocated", b)
<1>1. IsLowered /\ LiveTyped /\ code \in Codes /\ b \in Leaders
  BY LoweredFacts DEF Allotted, IsLowered
<1>2. /\ b \in Int /\ b - 1 \in Int /\ LastOf(b) \in Int /\ Body(b) = b .. LastOf(b)
      /\ b <= LastOf(b)
      /\ b - 1 \in (b - 1) .. LastOf(b) /\ LastOf(b) \in (b - 1) .. LastOf(b)
  BY <1>1, BlockFacts
<1>3. /\ Len(list) = N /\ N = LastOf(b) - b + 1 /\ N \in Nat \ {0}
      /\ \A n \in 1 .. N : list[n] = b + n - 1
  BY <1>1, CodesOrder
<1>4. PICK R : StackRun(b, R)
  BY <1>1, StackRunExists
<1>5. PICK G : RegisterRun("allocated", b, G)
  BY <1>3, RegisterRunExists
<1> HIDE DEF N, list
<1>6. /\ G[0] = runs["allocated"] /\ G[N] = RunOfBlock("allocated", b)
      /\ \A n \in 1 .. N : G[n] = OnRegisters("allocated", b + n - 1, G[n - 1])
  BY <1>3, <1>5 DEF RegisterRun, list
<1> DEFINE P == {n \in Int : AllocatedHolds(b, R, G[n], b + n - 1)}
<1>7. 0 \in P
  <2>1. R[b - 1] = runs["stack"] /\ b + 0 - 1 = b - 1
    BY <1>2, <1>4 DEF StackRun
  <2>2. ASSUME NEW r \in NeededAt(b, b - 1) PROVE G[0].values[Assigned(r)] = ValueOf(b, R, r)
    <3>1. \A j \in MadeIn(b) : ~(j <= b - 1)
      BY <1>2 DEF MadeIn
    <3>2. r \in Elements(Entry(b))
      BY <3>1 DEF NeededAt, Known
    <3>3. PICK k \in 1 .. depth[b] : Entry(b)[k] = r
      BY <1>1, <3>2, KnownFacts
    <3> QED BY <1>1, <1>6, <3>3, ValueFacts DEF BeginsLike, Place
  <2>3. AllocatedHolds(b, R, G[0], b - 1)
    BY <1>6, <2>1, <2>2 DEF AllocatedHolds, BeginsLike
  <2> QED BY <2>1, <2>3
<1>8. ASSUME NEW n \in 0 .. N, n + 1 <= N, n \in P PROVE n + 1 \in P
  <2> DEFINE j == b + n
  <2>1. /\ n + 1 \in 1 .. N /\ (n + 1) - 1 = n /\ n + 1 \in Int /\ j \in Body(b)
        /\ b + (n + 1) - 1 = j /\ b + n - 1 = j - 1
    BY <1>2, <1>3, <1>8
  <2>2. G[n + 1] = OnRegisters("allocated", j, G[n])
    BY <1>6, <2>1
  <2>3. AllocatedHolds(b, R, G[n], j - 1)
    BY <1>8, <2>1
  <2> HIDE DEF j
  <2>4. AllocatedHolds(b, R, G[n + 1], j)
    BY <1>4, <2>1, <2>2, <2>3, AllocatedStep
  <2> QED BY <2>1, <2>4
<1>9. AllocatedHolds(b, R, G[N], LastOf(b))
  <2>1. \A n \in 0 .. N : n \in P
    <3>1. 0 \in Int /\ N \in Int
      BY <1>3
    <3> HIDE DEF P
    <3> QED BY <1>7, <1>8, <3>1, IntervalInduction
  <2>2. N \in 0 .. N /\ b + N - 1 = LastOf(b)
    BY <1>2, <1>3
  <2> QED BY <2>1, <2>2
<1>10. R[LastOf(b)] = RunOfBlock("stack", b) /\ StackHolds(b, R, LastOf(b))
  BY <1>1, <1>2, <1>4, StackRunHolds DEF StackRun
<1>11. ASSUME NEW k \in 1 .. DepthAfter(b)[LastOf(b)], lowered.exit[b][k] \in liveOut[b]
       PROVE  G[N].values[Assigned(lowered.exit[b][k])] = R[LastOf(b)].values[k]
  <2>1. lowered.exit[b] = StackAfter(b)[LastOf(b)]
    BY <1>1, LoweredFacts
  <2>2. lowered.exit[b][k] \in NeededAt(b, LastOf(b))
    BY <1>1, <1>11 DEF NeededAt, LiveTyped
  <2> QED BY <1>9, <1>10, <2>1, <2>2 DEF StackHolds, AllocatedHolds
<1> QED BY <1>6, <1>9, <1>10, <1>11 DEF AllocatedHolds, EndsAllocated

-----------------------------------------------------------------------------
(***************************************************************************)
(* The whole run on the assigned places.                                   *)
(***************************************************************************)
PlacesAgree ==
  /\ runs["allocated"].reads = runs["stack"].reads
  /\ runs["allocated"].effects = runs["stack"].effects
  /\ block # 0 => BeginsLike("allocated", block)

PlacesInv == pass = "run" => Covers /\ (EdgesApart => PlacesAgree)

\* After the scan the function's registers are allotted.
LEMMA AllottedNow ==
  ASSUME IsLowered, LiveInv, ScanInv, pass \in {"verify", "run", "rejected"}
  PROVE  Allotted
<1>1. pass \in LoweredPasses /\ pass \in Allocating /\ pass # "liveness"
  BY DEF LoweredPasses, Allocating
<1>2. AllocationComplete /\ phase = "scan"
  BY DEF ScanInv, AllocationComplete
<1> QED BY <1>1, <1>2 DEF LiveInv, ScanInv, Allotted

\* What the allocator has assigned stays assigned.
LEMMA AssignedFramed ==
  ASSUME UNCHANGED <<code, vars>>
  PROVE  /\ Places' = Places /\ Locals' = Locals /\ Instructions' = Instructions /\ Values' = Values
         /\ \A v : Assigned(v)' = Assigned(v)
<1>1. UNCHANGED <<items, assignments, registerCount>>
  BY DEF vars, input
<1> QED BY <1>1, SameBlocks DEF Places, Registers, Values, Assigned, Spilled

\* Nor does the run change which edges lose a value.
LEMMA EdgesFramed ==
  ASSUME UNCHANGED <<code, depth, lowered, vars>>
  PROVE  EdgesApart' = EdgesApart
<1>1. Reachable' = Reachable /\ \A b : Successors(b)' = Successors(b)
  BY SameBlocks DEF Reachable
<1>2. \A v : Spilled(v)' = Spilled(v) /\ Assigned(v)' = Assigned(v)
  BY AssignedFramed DEF Spilled, vars
<1>3. \A b, s : Moves(b, s)' = Moves(b, s)
  BY DEF Moves
<1>4. \A b, s : Reloads(b, s)' = Reloads(b, s) /\ Spills(b, s)' = Spills(b, s)
  BY <1>2, <1>3 DEF Reloads, Spills
<1> QED BY <1>1, <1>2, <1>4 DEF EdgesApart, EdgeApart

\* The entry registers of a block have different places.
LEMMA EntriesApart ==
  ASSUME Allotted, Covers, NEW s \in Reachable
  PROVE  /\ \A k \in 1 .. depth[s] : /\ Entry(s)[k] \in liveIn[s] /\ Assigned(Entry(s)[k]) \in Places
         /\ \A k, l \in 1 .. depth[s] : Assigned(Entry(s)[k]) = Assigned(Entry(s)[l]) => k = l
<1>1. IsLowered
  BY DEF Allotted
<1>2. /\ \A k \in 1 .. depth[s] : Entry(s)[k] \in Elements(Entry(s))
      /\ Elements(Entry(s)) \subseteq items
      /\ items \subseteq VirtualRegisters
  <2>1. /\ \A k \in 1 .. depth[s] : Entry(s)[k] \in Elements(Entry(s))
        /\ \A r \in Elements(Entry(s)) : r \in 0 .. EntryTotal - 1
        /\ EntryTotal \in Nat /\ RegisterTotal \in Nat /\ EntryTotal <= RegisterTotal
    BY <1>1, KnownFacts
  <2>2. Elements(Entry(s)) \subseteq items
    BY <2>1 DEF Covers
  <2> QED BY <1>1, <2>1, <2>2 DEF Covers, IsLowered
<1>3. ASSUME NEW k \in 1 .. depth[s]
      PROVE  Entry(s)[k] \in liveIn[s] /\ Assigned(Entry(s)[k]) \in Places
  BY <1>2, AllocatedEntry, PlacesExist
<1>4. ASSUME NEW k \in 1 .. depth[s], NEW l \in 1 .. depth[s],
             Assigned(Entry(s)[k]) = Assigned(Entry(s)[l])
      PROVE  k = l
  <2> DEFINE v == Entry(s)[k]
             w == Entry(s)[l]
  <2>1. v \in liveIn[s] /\ w \in liveIn[s] /\ v \in VirtualRegisters /\ w \in VirtualRegisters
    BY <1>2, <1>3
  <2> HIDE DEF v, w
  <2>2. v \in items /\ w \in items /\ LiveTogether(v, w)
    BY <2>1, EntriesTogether
  <2>3. Assigned(v) = Assigned(w)
    BY <1>4 DEF v, w
  <2>4. v = w
    BY <2>2, <2>3, PlacesApart
  <2>5. Entry(s)[k] = Entry(s)[l]
    BY <2>4 DEF v, w
  <2> DEFINE e == EntriesBefore(s)
             d == depth[s]
  <2>6. e \in Nat /\ d \in Nat /\ Entry(s) = [m \in 1 .. d |-> e + m - 1]
    BY <1>1, LoweredFacts, EntryNumbers DEF IsLowered
  <2>7. Entry(s)[k] = e + k - 1 /\ Entry(s)[l] = e + l - 1 /\ k \in Int /\ l \in Int
    <3>1. k \in 1 .. d /\ l \in 1 .. d
      OBVIOUS
    <3> HIDE DEF e, d
    <3> QED BY <2>6, <3>1
  <2> HIDE DEF e, d
  <2> QED BY <2>5, <2>6, <2>7
<1> QED BY <1>3, <1>4

\* What the block leaves for a live entry register is live at its end.
LEMMA ExitLive ==
  ASSUME Allotted, Covers, NEW b \in Reachable, NEW s \in Successors(b)
  PROVE  \A k \in 1 .. depth[s] : lowered.exit[b][k] \in liveOut[b]
<1>1. IsLowered /\ LiveTyped /\ LiveSolved(b) /\ s \in Reachable
  BY EdgeFacts DEF Allotted
<1> SUFFICES ASSUME NEW k \in 1 .. depth[s] PROVE lowered.exit[b][k] \in liveOut[b]
  OBVIOUS
<1>2. Entry(s)[k] \in liveIn[s]
  BY <1>1, EntriesApart
<1>3. lowered.exit[b][k] \in ThroughEdge(b, s)
  BY <1>1, <1>2, ThroughEdgeIs
<1> QED BY <1>1, <1>3 DEF LiveSolved, NewLiveOut

\* The runs begin alike (Verify).
LEMMA PlacesBegin ==
  ASSUME IsLowered, Verify
  PROVE  PlacesInv'
<1>1. CASE pass' # "run"
  BY <1>1 DEF PlacesInv
<1>2. CASE pass' = "run"
  <2>1. /\ AllocationVerified /\ block' = 1 /\ UNCHANGED <<code, depth, lowered, vars>>
        /\ runs' = [kind \in Kinds |->
                      Begin(IF kind = "stack" THEN <<>> ELSE [p \in Places |-> NoValue])]
    BY <1>2 DEF Verify
  <2>2. /\ runs'["stack"] = Begin(<<>>)
        /\ runs'["allocated"] = Begin([p \in Places |-> NoValue])
    BY <2>1 DEF Kinds
  <2>3. /\ runs'["allocated"].values = [p \in Places |-> NoValue]
        /\ runs'["allocated"].locals = runs'["stack"].locals
        /\ runs'["allocated"].reads = runs'["stack"].reads
        /\ runs'["allocated"].effects = runs'["stack"].effects
    BY <2>2 DEF Begin
  <2>4. runs'["allocated"].values \in [Places -> Values]
    BY <2>3 DEF NoValue, Values
  <2>5. Covers'
    <3>1. Covers
      BY <2>1 DEF AllocationVerified, Covers, IsLowered, LoweredFunction
    <3>2. RegisterTotal' = RegisterTotal /\ items' = items
      BY <2>1, LoweringFramed DEF vars
    <3> QED BY <3>1, <3>2 DEF Covers
  <2>6. BeginsLike("allocated", 1)'
    <3>1. \A k : k \notin 1 .. depth'[1]
      BY <2>1 DEF IsLowered
    <3>2. runs'["allocated"].values \in [Places' -> Values']
      BY <2>1, <2>4, AssignedFramed
    <3> QED BY <2>3, <3>1, <3>2 DEF BeginsLike
  <2>7. BeginsLike("allocated", block)'
    BY <2>1, <2>6 DEF BeginsLike
  <2>8. PlacesAgree'
    BY <2>3, <2>7 DEF PlacesAgree
  <2> QED BY <2>5, <2>8 DEF PlacesInv
<1> QED BY <1>1, <1>2

\* They stay alike from block to block where no edge loses a value (RunBlock).
LEMMA PlacesStayAlike ==
  ASSUME Allotted, RunInv, PlacesInv, EdgesApart, RunBlock
  PROVE  PlacesAgree'
<1> DEFINE b == block
<1>0. IsLowered
  BY DEF Allotted
<1>1. /\ pass = "run" /\ pass' = "run" /\ b # 0 /\ b \in Reachable
      /\ UNCHANGED <<code, depth, lowered, vars>>
  BY DEF RunInv, RunBlock
<1>2. StackReady(b) /\ BeginsLike("allocated", b) /\ Covers
  BY <1>1 DEF RunInv, PlacesInv, PlacesAgree
<1>3. code \in Codes /\ b \in Leaders
  BY <1>0, <1>1, LoweredFacts DEF IsLowered
<1>4. EndsAllocated(b)
  BY <1>1, <1>2, AllocatedBlock
<1> DEFINE run == RunOfBlock("allocated", b)
           stack == RunOfBlock("stack", b)
<1>5. DOMAIN run = RunFields
  <2>1. Len(InOrder("allocated", b)) \in Nat \ {0}
    BY <1>3, CodesOrder
  <2> QED BY <2>1, RunDomain
<1>6. /\ run.values \in [Places -> Values]
      /\ \A k \in 1 .. DepthAfter(b)[LastOf(b)] :
           lowered.exit[b][k] \in liveOut[b] =>
             run.values[Assigned(lowered.exit[b][k])] = stack.values[k]
      /\ run.locals = stack.locals /\ run.reads = stack.reads /\ run.effects = stack.effects
  BY <1>4 DEF EndsAllocated
<1>7. CASE \E s \in Successors(b) :
             /\ block' = s
             /\ runs' = [kind \in Kinds |-> AlongEdge(kind, b, s, RunOfBlock(kind, b))]
  <2>1. PICK s \in Successors(b) :
          /\ block' = s
          /\ runs' = [kind \in Kinds |-> AlongEdge(kind, b, s, RunOfBlock(kind, b))]
    BY <1>7
  <2>2. s \in Reachable /\ depth[s] = DepthAfter(b)[LastOf(b)]
    BY <1>0, <1>1, <2>1, EdgeFacts
  <2>3. EdgeApart(b, s)
    BY <1>1, <2>1 DEF EdgesApart
  <2> DEFINE along == AlongEdge("allocated", b, s, run)
  <2>4. runs'["stack"] = stack /\ runs'["allocated"] = along
    <3>1. AlongEdge("stack", b, s, stack) = stack
      BY DEF AlongEdge
    <3> QED BY <2>1, <3>1 DEF Kinds
  <2>5. \A k \in 1 .. depth[s] : lowered.exit[b][k] \in liveOut[b]
    BY <1>1, <1>2, <2>1, ExitLive
  <2>6. \A k \in 1 .. depth[s] : Assigned(lowered.exit[b][k]) \in Places
    <3>1. \A k \in 1 .. depth[s] : lowered.exit[b][k] \in items
      BY <1>0, <1>1, <1>2, <2>2, ExitRegisters DEF Covers
    <3> QED BY <3>1, PlacesExist
  <2>7. /\ \A k \in 1 .. depth[s] : Assigned(Entry(s)[k]) \in Places
        /\ \A k, l \in 1 .. depth[s] : Assigned(Entry(s)[k]) = Assigned(Entry(s)[l]) => k = l
    BY <1>2, <2>2, EntriesApart
  <2> HIDE DEF along, run, stack
  <2>8. /\ along.values \in [Places -> Values]
        /\ \A k \in 1 .. depth[s] :
             along.values[Assigned(Entry(s)[k])] = run.values[Assigned(lowered.exit[b][k])]
        /\ along.locals = run.locals /\ along.reads = run.reads /\ along.effects = run.effects
    <3> DEFINE kind == "allocated"
    <3>1. kind # "stack" /\ \A v : Place(kind, v) = Assigned(v)
      BY DEF Place
    <3> HIDE DEF kind
    <3>2. /\ \A k \in 1 .. depth[s] : /\ Place(kind, Entry(s)[k]) \in Places
                                      /\ Place(kind, lowered.exit[b][k]) \in Places
          /\ \A k, l \in 1 .. depth[s] :
               Place(kind, Entry(s)[k]) = Place(kind, Entry(s)[l]) => k = l
      BY <2>6, <2>7, <3>1
    <3> DEFINE moved == AlongEdge(kind, b, s, run)
    <3>3. /\ moved.values \in [Places -> Values]
          /\ \A k \in 1 .. depth[s] :
               moved.values[Place(kind, Entry(s)[k])] = run.values[Place(kind, lowered.exit[b][k])]
          /\ moved.locals = run.locals /\ moved.reads = run.reads /\ moved.effects = run.effects
      BY <1>0, <1>1, <1>5, <1>6, <2>1, <2>3, <3>1, <3>2, EdgeMoves
    <3>4. moved = along
      BY DEF kind, along
    <3> HIDE DEF moved
    <3> QED BY <3>1, <3>3, <3>4
  <2>9. /\ Places' = Places /\ Values' = Values /\ Entry(s)' = Entry(s)
        /\ \A v : Assigned(v)' = Assigned(v)
    <3>1. Reachable' = Reachable
      BY <1>1, SameBlocks DEF Reachable
    <3>2. EntriesBefore(s)' = EntriesBefore(s)
      BY <1>1, <3>1 DEF EntriesBefore
    <3>3. Entry(s)' = Entry(s)
      BY <1>1, <3>1, <3>2 DEF Entry
    <3> QED BY <1>1, <3>3, AssignedFramed
  <2>10. BeginsLike("allocated", s)'
    <3>1. \A k \in 1 .. depth[s] : along.values[Assigned(Entry(s)[k])] = stack.values[k]
      BY <1>6, <2>2, <2>5, <2>8
    <3> QED BY <1>1, <1>6, <2>4, <2>8, <2>9, <3>1 DEF BeginsLike, Place
  <2>11. BeginsLike("allocated", block)'
    BY <2>1, <2>10 DEF BeginsLike
  <2>12. /\ runs'["allocated"].reads = runs'["stack"].reads
         /\ runs'["allocated"].effects = runs'["stack"].effects
    BY <1>6, <2>4, <2>8
  <2> QED BY <2>11, <2>12 DEF PlacesAgree
<1>8. CASE block' = 0 /\ runs' = [kind \in Kinds |-> RunOfBlock(kind, b)]
  <2>1. runs'["stack"] = stack /\ runs'["allocated"] = run
    BY <1>8 DEF Kinds
  <2> HIDE DEF run, stack
  <2> QED BY <1>6, <1>8, <2>1 DEF PlacesAgree
<1> QED BY <1>7, <1>8 DEF RunBlock

\* An edge that loses a value loses it in every state of the run.
LEMMA PlacesGoOn ==
  ASSUME Allotted, RunInv, PlacesInv, RunBlock
  PROVE  PlacesInv'
<1>1. pass = "run" /\ pass' = "run" /\ UNCHANGED <<code, depth, lowered, vars>>
  BY DEF RunBlock
<1>2. Covers'
  <2>1. RegisterTotal' = RegisterTotal /\ items' = items
    BY <1>1, LoweringFramed DEF vars
  <2> QED BY <1>1, <2>1 DEF PlacesInv, Covers
<1>3. EdgesApart' => PlacesAgree'
  BY <1>1, EdgesFramed, PlacesStayAlike
<1> QED BY <1>2, <1>3 DEF PlacesInv

-----------------------------------------------------------------------------
(***************************************************************************)
(* The passes together.                                                    *)
(***************************************************************************)
AllocationInv == ScheduleInv /\ LiveInv /\ ScanInv /\ PlacesInv

\* The initial states, with a function to compile or ranges given directly.
LEMMA AllocationBegins ==
  ASSUME PassesInit
  PROVE  AllocationInv
<1>1. /\ pass \in {"blocks", "allocator alone"} /\ Init /\ phase = "build"
      /\ pass \notin LoweredPasses /\ pass \notin Allocating
  BY DEF PassesInit, Init, LoweredPasses, Allocating
<1>2. LiveInv /\ PlacesInv
  BY <1>1 DEF LiveInv, PlacesInv
<1>3. FewestInv /\ SpillSlotsDistinct
  BY <1>1, FewestBegins, SlotsBegin
<1>4. ScanInv
  BY <1>1, <1>3 DEF ScanInv
<1> QED BY <1>2, <1>4, ScheduleInvBegins DEF AllocationInv

\* The passes before and after the scan leave its state alone.
LEMMA ScanFramed ==
  ASSUME ScanInv, UNCHANGED vars,
         pass' \in Allocating =>
           /\ UNCHANGED <<code, depth, lowered, liveIn, liveOut>>
           /\ pass \in Allocating,
         pass' \in {"blocks", "depths", "liveness"} => pass \in {"blocks", "depths", "liveness"},
         pass' \in {"verify", "run", "rejected"} => AllocationComplete
  PROVE  ScanInv'
<1>1. /\ FewestInv' /\ SpillSlotsDistinct'
      /\ phase' = "scan" => items' = {v \in VirtualRegisters : ranges'[v] # {}}
      /\ ranges' = ranges
  BY ScanSteps
<1>2. phase' = phase /\ pending' = pending
  BY DEF vars
<1>3. pass' \in {"blocks", "depths", "liveness"} => phase' = "build"
  BY <1>2 DEF ScanInv
<1>4. pass' \in {"verify", "run", "rejected"} => AllocationComplete'
  BY <1>2 DEF AllocationComplete
<1>5. ASSUME pass' \in Allocating
      PROVE  ranges' = [v \in VirtualRegisters |-> LiveRange(Positions(v))]'
  BY <1>1, <1>5, PositionsFramed DEF ScanInv
<1>6. Allocating' = Allocating
  BY DEF Allocating
<1> QED BY <1>1, <1>3, <1>4, <1>5, <1>6 DEF ScanInv

\* The passes after the analysis leave the live registers alone.
LEMMA LiveFramed ==
  ASSUME LiveInv, pass \in LoweredPasses, pass # "liveness", pass' # "liveness",
         UNCHANGED <<code, depth, lowered, liveIn, liveOut, cursor>>
  PROVE  LiveInv'
<1>1. LiveTyped /\ cursor \in 0 .. Size /\ \A b \in Reachable : LiveSolved(b)
  BY DEF LiveInv
<1> QED BY <1>1, LivenessFramed DEF LiveInv

\* A round that changed nothing ends the analysis, any other begins again.
LEMMA LivenessEnds ==
  ASSUME IsLowered, LiveInv, NextRound \/ BuildIntervals
  PROVE  LiveInv'
<1>1. /\ pass = "liveness" /\ cursor = 0 /\ UNCHANGED <<code, depth, lowered, liveIn, liveOut>>
      /\ LiveTyped
  BY DEF NextRound, BuildIntervals, LiveInv, LoweredPasses
<1>2. /\ LiveTyped' /\ \A b : LiveSolved(b)' = LiveSolved(b)
      /\ Reachable' = Reachable /\ Size' = Size
  BY <1>1, LivenessFramed
<1>3. Size \in Nat /\ Reachable \subseteq 1 .. Size
  BY ReachableFacts, CodeFacts DEF IsLowered
<1>4. CASE NextRound
  <2>1. pass' = "liveness" /\ cursor' = Size
    BY <1>4 DEF NextRound
  <2>2. \A b \in Reachable' : ~(b > cursor')
    BY <1>2, <1>3, <2>1
  <2>3. cursor' \in 0 .. Size'
    BY <1>2, <1>3, <2>1
  <2> QED BY <1>2, <2>1, <2>2, <2>3 DEF LiveInv
<1>5. CASE BuildIntervals
  <2>1. ~changed /\ pass' = "allocate" /\ cursor' = cursor
    BY <1>5 DEF BuildIntervals, AnotherRound
  <2>2. \A b \in Reachable : b > cursor
    BY <1>1, <1>3
  <2>3. \A b \in Reachable : LiveSolved(b)
    BY <1>1, <2>1, <2>2 DEF LiveInv, LoweredPasses
  <2>4. cursor' \in 0 .. Size'
    BY <1>1, <1>2, <1>3, <2>1
  <2> QED BY <1>2, <2>1, <2>3, <2>4 DEF LiveInv
<1> QED BY <1>4, <1>5

\* The inductive step, action by action.
LEMMA AllocationInvStep ==
  ASSUME AllocationInv, [PassesNext]_allVars
  PROVE  AllocationInv'
<1>0. /\ ScheduleInv /\ LiveInv /\ ScanInv /\ PlacesInv
      /\ CodeInv /\ DepthsInv /\ LoweredInv /\ OrderInv /\ RunInv
      /\ ScheduleInv'
  BY ScheduleInvStep DEF AllocationInv, ScheduleInv
<1>1. CASE BuildBlocks \/ \E b \in worklist : PropagateDepth(b)
  <2>1. /\ pass \in {"blocks", "depths"} /\ pass' \in {"depths", "failed"}
        /\ UNCHANGED vars
    BY <1>1 DEF BuildBlocks, PropagateDepth
  <2>2. ScanInv'
    BY <1>0, <2>1, ScanFramed DEF Allocating
  <2>3. LiveInv' /\ PlacesInv'
    BY <2>1 DEF LiveInv, LoweredPasses, PlacesInv
  <2> QED BY <1>0, <2>2, <2>3 DEF AllocationInv
<1>2. CASE Lower
  <2>1. pass = "depths" /\ pass' = "liveness" /\ UNCHANGED vars
    BY <1>2 DEF Lower
  <2>2. ScanInv'
    BY <1>0, <2>1, ScanFramed DEF Allocating
  <2>3. LiveInv'
    BY <1>0, <1>2, <2>1, LivenessBegins DEF CodeInv, DepthsInv
  <2> QED BY <1>0, <2>1, <2>2, <2>3 DEF AllocationInv, PlacesInv
<1>3. CASE LivenessOfBlock \/ NextRound
  <2>1. pass = "liveness" /\ pass' = "liveness" /\ UNCHANGED vars
    BY <1>3 DEF LivenessOfBlock, NextRound
  <2>2. ScanInv'
    BY <1>0, <2>1, ScanFramed DEF Allocating
  <2>3. IsLowered
    BY <1>0, <2>1, LoweredNow DEF LoweredPasses
  <2>4. LiveInv'
    BY <1>0, <1>3, <2>3, LivenessOfOne, LivenessEnds
  <2> QED BY <1>0, <2>1, <2>2, <2>4 DEF AllocationInv, PlacesInv
<1>4. CASE BuildIntervals
  <2>1. /\ pass = "liveness" /\ pass' = "allocate"
        /\ ranges' = [v \in VirtualRegisters |-> LiveRange(Positions(v))]
        /\ UNCHANGED <<code, depth, lowered, liveIn, liveOut, phase>>
    BY <1>4 DEF BuildIntervals
  <2>2. IsLowered /\ phase = "build"
    BY <1>0, <2>1, LoweredNow DEF LoweredPasses, ScanInv
  <2>3. FewestInv' /\ SpillSlotsDistinct'
    BY <1>0, <1>4, <2>2, RangesChange DEF ScanInv
  <2>4. ranges' = [v \in VirtualRegisters |-> LiveRange(Positions(v))]'
    BY <2>1, PositionsFramed
  <2>5. ScanInv'
    BY <2>1, <2>2, <2>3, <2>4 DEF ScanInv
  <2>6. LiveInv'
    BY <1>0, <1>4, <2>2, LivenessEnds
  <2> QED BY <1>0, <2>1, <2>5, <2>6 DEF AllocationInv, PlacesInv
<1>5. CASE AllocateRegisters
  <2>1. /\ pass \in {"allocate", "allocator alone"} /\ pass' = pass /\ Next
        /\ UNCHANGED <<code, depth, lowered, liveIn, liveOut, cursor>>
    BY <1>5 DEF AllocateRegisters, passVars
  <2>2. /\ FewestInv' /\ SpillSlotsDistinct' /\ ranges' = ranges
        /\ phase' = "scan" => items' = {v \in VirtualRegisters : ranges'[v] # {}}
    BY <1>0, <2>1, ScanSteps
  <2>3. ASSUME pass' \in Allocating
        PROVE  ranges' = [v \in VirtualRegisters |-> LiveRange(Positions(v))]'
    BY <1>0, <2>1, <2>2, <2>3, PositionsFramed DEF ScanInv
  <2>4. Allocating' = Allocating
    BY DEF Allocating
  <2>5. ScanInv'
    BY <2>1, <2>2, <2>3, <2>4 DEF ScanInv
  <2>6. LiveInv'
    <3>1. CASE pass = "allocate"
      BY <1>0, <2>1, <3>1, LiveFramed DEF LoweredPasses
    <3>2. CASE pass = "allocator alone"
      BY <2>1, <3>2 DEF LiveInv, LoweredPasses
    <3> QED BY <2>1, <3>1, <3>2
  <2> QED BY <1>0, <2>1, <2>5, <2>6 DEF AllocationInv, PlacesInv
<1>6. CASE Schedule \/ Verify
  <2>1. /\ \/ pass = "allocate" /\ AllocationComplete /\ pass' = "verify"
           \/ pass = "verify" /\ pass' \in {"run", "rejected"}
        /\ UNCHANGED <<vars, code, depth, lowered, liveIn, liveOut, cursor>>
    BY <1>6 DEF Schedule, Verify
  <2>2. AllocationComplete
    BY <1>0, <2>1 DEF ScanInv
  <2>3. ScanInv'
    BY <1>0, <2>1, <2>2, ScanFramed DEF Allocating
  <2>4. LiveInv'
    BY <1>0, <2>1, LiveFramed DEF LoweredPasses
  <2>5. PlacesInv'
    <3>1. CASE Schedule
      BY <3>1 DEF Schedule, PlacesInv
    <3>2. CASE Verify
      <4>1. IsLowered
        BY <1>0, <3>2, LoweredNow DEF Verify, LoweredPasses
      <4> QED BY <3>2, <4>1, PlacesBegin
    <3> QED BY <1>6, <3>1, <3>2
  <2> QED BY <1>0, <2>3, <2>4, <2>5 DEF AllocationInv
<1>7. CASE RunBlock
  <2>1. /\ pass = "run" /\ pass' = "run"
        /\ UNCHANGED <<vars, code, depth, lowered, liveIn, liveOut, cursor>>
    BY <1>7 DEF RunBlock
  <2>2. IsLowered /\ Allotted
    BY <1>0, <2>1, LoweredNow, AllottedNow DEF LoweredPasses
  <2>3. ScanInv'
    BY <1>0, <2>1, <2>2, ScanFramed DEF Allocating, Allotted
  <2>4. LiveInv'
    BY <1>0, <2>1, LiveFramed DEF LoweredPasses
  <2>5. PlacesInv'
    BY <1>0, <1>7, <2>2, PlacesGoOn
  <2> QED BY <1>0, <2>3, <2>4, <2>5 DEF AllocationInv
<1>8. CASE UNCHANGED allVars
  <2>1. UNCHANGED <<vars, code, pass, depth, lowered, liveIn, liveOut, cursor, changed, block, runs>>
    BY <1>8 DEF allVars, passVars
  <2>2. ScanInv'
    BY <1>0, <2>1, ScanFramed DEF ScanInv, Allocating
  <2>3. LiveInv'
    BY <1>0, <2>1, LivenessFramed DEF LiveInv, LoweredPasses
  <2>4. PlacesInv'
    <3>1. /\ Places' = Places /\ Values' = Values /\ \A v : Assigned(v)' = Assigned(v)
      BY <2>1, AssignedFramed
    <3>2. RegisterTotal' = RegisterTotal /\ items' = items
      BY <2>1, LoweringFramed DEF vars
    <3>3. \A b : Entry(b)' = Entry(b)
      <4>1. Reachable' = Reachable
        BY <2>1, SameBlocks DEF Reachable
      <4>2. \A b : EntriesBefore(b)' = EntriesBefore(b)
        BY <2>1, <4>1 DEF EntriesBefore
      <4> QED BY <2>1, <4>1, <4>2 DEF Entry
    <3>4. BeginsLike("allocated", block)' = BeginsLike("allocated", block)
      BY <2>1, <3>1, <3>3 DEF BeginsLike, Place
    <3>5. EdgesApart' = EdgesApart
      BY <2>1, EdgesFramed
    <3>6. PlacesAgree' <=> PlacesAgree
      BY <2>1, <3>4 DEF PlacesAgree
    <3>7. Covers' <=> Covers
      BY <3>2 DEF Covers
    <3> QED BY <1>0, <2>1, <3>5, <3>6, <3>7 DEF PlacesInv
  <2> QED BY <1>0, <2>2, <2>3, <2>4 DEF AllocationInv
<1> QED BY <1>1, <1>2, <1>3, <1>4, <1>5, <1>6, <1>7, <1>8 DEF PassesNext

\* Whatever branches are taken, every instruction finds in the registers and
\* slots assigned to its operands the values it would have popped from the
\* stack, and does what it would have done there: entry registers, edge moves,
\* live intervals, evictions and spill slots work together (buildIntervals,
\* allocateFunctionLinearScan, insertIrVirtualRegisterSpills), provided that no
\* edge reloads a value into a register it spills (sortAndUniqueOps).
THEOREM AllocationAgrees == PassesSpec => []AllocatedSame
<1>1. PassesInit => AllocationInv
  BY AllocationBegins
<1>2. AllocationInv /\ [PassesNext]_allVars => AllocationInv'
  BY AllocationInvStep
<1>3. AllocationInv => AllocatedSame
  BY DEF AllocationInv, ScheduleInv, RunInv, PlacesInv, PlacesAgree, AllocatedSame, SameRun
<1> QED BY <1>1, <1>2, <1>3, PTL DEF PassesSpec

-----------------------------------------------------------------------------
\* Among the passes as alone, the scan shares no register, spills as few
\* intervals as any allocation can and numbers its slots
\* (allocateModuleLinearScan).
THEOREM PassesScanWell ==
  PassesSpec => []NoRegisterShared /\ []SpillsFewest /\ []SpillSlotsDistinct
<1>1. PassesInit => AllocationInv
  BY AllocationBegins
<1>2. AllocationInv /\ [PassesNext]_allVars => AllocationInv'
  BY AllocationInvStep
<1>3. AllocationInv => NoRegisterShared /\ SpillsFewest /\ SpillSlotsDistinct
  BY HeldApart, FewestKnown DEF AllocationInv, ScanInv, FewestInv
<1> QED BY <1>1, <1>2, <1>3, PTL DEF PassesSpec

-----------------------------------------------------------------------------
(***************************************************************************)
(* The state's types.                                                      *)
(***************************************************************************)
TypesInv ==
  /\ pass = "allocator alone" => code = <<>>
  /\ pass \in {"allocator alone", "blocks"} => depth = <<>> /\ worklist = {}
  /\ pass = "failed" => DepthType /\ worklist \subseteq Leaders /\ phase = "build"
  /\ pass \notin LoweredPasses =>
       lowered = NotLowered /\ liveIn = <<>> /\ liveOut = <<>> /\ cursor = 0
  /\ pass # "run" => block = 0 /\ visits = 0
  /\ visits \in 0 .. (MaxBlocksRun + 1)

\* The initial states.
LEMMA TypesBegin == PassesInit => TypesInv
<1> SUFFICES ASSUME PassesInit PROVE TypesInv
  OBVIOUS
<1>1. /\ depth = <<>> /\ worklist = {} /\ lowered = NotLowered
      /\ liveIn = <<>> /\ liveOut = <<>> /\ cursor = 0 /\ block = 0 /\ visits = 0
      /\ pass = "blocks" \/ (pass = "allocator alone" /\ code = <<>>)
  BY DEF PassesInit
<1>2. visits \in 0 .. (MaxBlocksRun + 1)
  <2>1. MaxBlocksRun \in Nat
    BY CodesAssumption
  <2>2. visits = 0
    BY <1>1
  <2> QED BY <2>1, <2>2
<1> QED BY <1>1, <1>2 DEF TypesInv

\* What each pass leaves empty or known for the next.
LEMMA TypesStep ==
  ASSUME AllocationInv, TypesInv, [PassesNext]_allVars
  PROVE  TypesInv'
<1>0. /\ CodeInv /\ DepthsInv /\ ScanInv
      /\ pass = "allocator alone" => code = <<>>
      /\ pass \in {"allocator alone", "blocks"} => depth = <<>> /\ worklist = {}
      /\ pass = "failed" => DepthType /\ worklist \subseteq Leaders /\ phase = "build"
      /\ pass \notin LoweredPasses =>
           lowered = NotLowered /\ liveIn = <<>> /\ liveOut = <<>> /\ cursor = 0
      /\ pass # "run" => block = 0 /\ visits = 0
      /\ visits \in 0 .. (MaxBlocksRun + 1)
  BY DEF AllocationInv, ScheduleInv, TypesInv
<1>a. /\ MaxBlocksRun \in Nat
      /\ LoweredPasses = {"liveness", "allocate", "verify", "run", "rejected"}
      /\ LoweredPasses' = LoweredPasses /\ NotLowered' = NotLowered
  BY CodesAssumption DEF LoweredPasses, NotLowered
<1>1. CASE BuildBlocks
  <2>1. /\ pass = "blocks" /\ pass' \in {"failed", "depths"}
        /\ depth' = [b \in Leaders |-> IF b = 1 THEN 0 ELSE Unknown]
        /\ worklist' = Leaders \cap {1}
        /\ UNCHANGED <<code, lowered, liveIn, liveOut, cursor, block, visits, phase>>
    BY <1>1 DEF BuildBlocks, vars
  <2>2. Leaders' = Leaders
    BY <2>1, SameBlocks
  <2>3. DepthType' /\ worklist' \subseteq Leaders'
    BY <2>1, <2>2 DEF DepthType, Unknown
  <2>4. phase' = "build"
    BY <1>0, <2>1 DEF ScanInv
  <2> QED BY <1>0, <1>a, <2>1, <2>3, <2>4 DEF TypesInv
<1>2. CASE \E b \in worklist : PropagateDepth(b)
  <2>1. /\ pass = "depths" /\ pass' \in {"failed", "depths"}
        /\ pass' = "failed" => UNCHANGED <<depth, worklist>>
        /\ UNCHANGED <<code, lowered, liveIn, liveOut, cursor, block, visits, phase>>
    BY <1>2 DEF PropagateDepth, vars
  <2>2. Leaders' = Leaders
    BY <2>1, SameBlocks
  <2>3. DepthType /\ worklist \subseteq Leaders /\ phase = "build"
    BY <1>0, <2>1 DEF DepthsInv, Reachable, ScanInv
  <2>4. pass' = "failed" => DepthType' /\ worklist' \subseteq Leaders' /\ phase' = "build"
    BY <2>1, <2>2, <2>3 DEF DepthType
  <2> QED BY <1>0, <1>a, <2>1, <2>4 DEF TypesInv
<1>3. CASE Lower
  BY <1>0, <1>a, <1>3 DEF Lower, TypesInv
<1>4. CASE LivenessOfBlock \/ NextRound \/ BuildIntervals
  BY <1>0, <1>a, <1>4 DEF LivenessOfBlock, NextRound, BuildIntervals, TypesInv
<1>5. CASE AllocateRegisters
  BY <1>0, <1>a, <1>5 DEF AllocateRegisters, passVars, TypesInv
<1>6. CASE Schedule
  BY <1>0, <1>a, <1>6 DEF Schedule, TypesInv
<1>7. CASE Verify
  <2>1. /\ pass' \in {"run", "rejected"} /\ visits' \in {visits, 1}
        /\ pass' # "run" => block' = block /\ visits' = visits
        /\ pass = "verify"
    BY <1>7 DEF Verify
  <2>2. visits' \in 0 .. (MaxBlocksRun + 1)
    BY <1>0, <1>a, <2>1
  <2> QED BY <2>2, <1>0, <1>a, <2>1 DEF TypesInv
<1>8. CASE RunBlock
  <2>1. pass = "run" /\ pass' = pass /\ visits <= MaxBlocksRun /\ visits' = visits + 1
    BY <1>8 DEF RunBlock
  <2> QED BY <1>0, <1>a, <2>1 DEF TypesInv
<1>9. CASE UNCHANGED allVars
  <2>1. UNCHANGED <<code, pass, depth, worklist, lowered, liveIn, liveOut, cursor, block, visits, phase>>
    BY <1>9 DEF allVars, passVars, vars
  <2>2. Leaders' = Leaders
    BY <2>1, SameBlocks
  <2>3. DepthType' <=> DepthType
    BY <2>1, <2>2 DEF DepthType
  <2> QED BY <1>0, <1>a, <2>1, <2>2, <2>3 DEF TypesInv
<1> QED BY <1>1, <1>2, <1>3, <1>4, <1>5, <1>6, <1>7, <1>8, <1>9 DEF PassesNext

\* The invariants give each part of the state its type.
LEMMA TypesKnown ==
  ASSUME AllocationInv, TypesInv
  PROVE  PassesTypeOK
<1>0. /\ CodeInv /\ DepthsInv /\ LoweredInv /\ RunInv /\ LiveInv /\ ScanInv /\ Inv
  BY DEF AllocationInv, ScheduleInv, ScanInv, FewestInv
<1>1. TypeOK /\ code \in Codes \cup {<<>>}
  BY <1>0 DEF Inv, CodeInv, TypesInv
<1>2. Size \in Nat
  BY <1>1, CodeFacts DEF Size
<1>3. /\ DOMAIN depth \subseteq Leaders /\ worklist \subseteq Leaders
      /\ \A b \in DOMAIN depth : depth[b] \in Nat \cup {Unknown}
  <2>1. CASE depth = <<>> /\ worklist = {}
    BY <2>1
  <2>2. CASE DepthType /\ worklist \subseteq Leaders
    BY <2>2 DEF DepthType
  <2>3. Reachable \subseteq Leaders
    BY DEF Reachable
  <2> QED BY <1>0, <2>1, <2>2, <2>3 DEF CodeInv, DepthsInv, TypesInv
<1>4. CASE pass \notin LoweredPasses
  <2>1. /\ lowered = NotLowered /\ liveIn = <<>> /\ liveOut = <<>> /\ cursor = 0
        /\ block = 0 /\ pass # "run"
    BY <1>4 DEF TypesInv, LoweredPasses
  <2>2. 0 .. (lowered.count - 1) = {}
    BY <2>1 DEF NotLowered
  <2>3. code # <<>> => items = {}
    BY <1>0, <1>4 DEF CodeInv, ScanInv, TypesInv, LoweredPasses, Inv, Unscanned
  <2>4. \A b \in DOMAIN liveIn : liveIn[b] \cup liveOut[b] \subseteq 0 .. (lowered.count - 1)
    BY <2>1
  <2>5. cursor \in 0 .. Size /\ block \in Leaders \cup {0}
    BY <1>2, <2>1
  <2> QED BY <1>0, <1>1, <1>3, <2>2, <2>3, <2>4, <2>5 DEF PassesTypeOK, CodeInv, TypesInv
<1>5. CASE pass \in LoweredPasses
  <2>1. IsLowered /\ lowered.count = RegisterTotal /\ LiveTyped
    BY <1>0, <1>5, LoweredNow DEF IsLowered, LoweredFunction, LiveInv
  <2>2. 0 .. (lowered.count - 1) \subseteq VirtualRegisters
    BY <2>1 DEF IsLowered
  <2>3. ASSUME NEW b \in DOMAIN liveIn
        PROVE  liveIn[b] \cup liveOut[b] \subseteq 0 .. (lowered.count - 1)
    <3>1. b \in Leaders
      BY <2>1 DEF LiveTyped
    <3>2. CASE b \in Reachable
      BY <2>1, <3>2, KnownFacts DEF LiveTyped, Known
    <3>3. CASE b \notin Reachable
      BY <2>1, <3>1, <3>3 DEF LiveTyped
    <3> QED BY <3>2, <3>3
  <2>4. items \subseteq 0 .. (lowered.count - 1)
    <3>1. CASE phase # "scan"
      BY <1>0, <3>1 DEF Inv, Unscanned
    <3>2. CASE phase = "scan"
      <4>1. /\ items = {v \in VirtualRegisters : ranges[v] # {}}
            /\ ranges = [v \in VirtualRegisters |-> LiveRange(Positions(v))]
        BY <1>0, <1>5, <3>2 DEF ScanInv, LoweredPasses, Allocating
      <4> QED BY <2>1, <4>1, RangeNamed
    <3> QED BY <3>1, <3>2
  <2>5. cursor \in 0 .. Size
    BY <1>0, <1>5 DEF LiveInv
  <2>6. block \in Leaders \cup {0}
    BY <1>0 DEF RunInv, TypesInv, Reachable
  <2> QED BY <1>0, <1>1, <1>3, <2>2, <2>3, <2>4, <2>5, <2>6 DEF PassesTypeOK, CodeInv, TypesInv
<1> QED BY <1>4, <1>5

\* The allocator's state has its types, and the passes name only the function's
\* blocks and registers (lowerModuleToVirtualRegisters,
\* buildVirtualRegisterLiveness).
THEOREM PassesTypeCorrect == PassesSpec => []PassesTypeOK
<1>1. PassesInit => AllocationInv /\ TypesInv
  BY AllocationBegins, TypesBegin
<1>2. AllocationInv /\ TypesInv /\ [PassesNext]_allVars => AllocationInv' /\ TypesInv'
  BY AllocationInvStep, TypesStep
<1>3. AllocationInv /\ TypesInv => PassesTypeOK
  BY TypesKnown
<1> QED BY <1>1, <1>2, <1>3, PTL DEF PassesSpec

-----------------------------------------------------------------------------
(***************************************************************************)
(* Which functions the verifier rejects.                                   *)
(***************************************************************************)
\* An entry register keeps its place on the stack until the block reads it.
LEMMA EntryStays ==
  ASSUME IsLowered, NEW b \in Reachable, NEW k \in 1 .. depth[b],
         \A j \in Body(b) : Entry(b)[k] \notin Used(j)
  PROVE  /\ k \in 1 .. DepthAfter(b)[LastOf(b)]
         /\ lowered.exit[b][k] = Entry(b)[k]
<1> DEFINE r == Entry(b)[k]
           Stays(i) == k <= DepthAfter(b)[i] /\ StackAfter(b)[i][k] = r
           P == {i \in Int : Stays(i)}
<1>1. /\ b \in Int /\ b - 1 \in Int /\ LastOf(b) \in Int /\ Body(b) = b .. LastOf(b)
      /\ b - 1 <= LastOf(b) /\ LastOf(b) \in (b - 1) .. LastOf(b) /\ b - 1 \in (b - 1) .. LastOf(b)
      /\ code \in Codes /\ b \in Leaders /\ depth[b] \in Nat
  BY LoweredFacts, BlockFacts DEF IsLowered
<1>2. k \in Int /\ 1 <= k /\ k <= depth[b]
  BY <1>1
<1>3. b - 1 \in P
  <2>1. DepthAfter(b)[b - 1] = depth[b] /\ StackAfter(b)[b - 1] = Entry(b)
    BY <1>1, DepthSteps, StackSteps
  <2> QED BY <1>1, <1>2, <2>1
<1>4. ASSUME NEW i \in (b - 1) .. LastOf(b), i + 1 <= LastOf(b), i \in P PROVE i + 1 \in P
  <2> DEFINE j == i + 1
             before == StackAfter(b)[i]
             d == DepthAfter(b)[i]
             n == Needs(j)
  <2>1. j \in Body(b) /\ j - 1 = i /\ j \in Int /\ j \in (b - 1) .. LastOf(b)
    BY <1>1, <1>4
  <2>2. /\ before \in Seq(Nat) /\ Len(before) = d /\ d \in Nat
        /\ k <= d /\ before[k] = r
    BY <1>4, LoweredFacts DEF StackFitsAt
  <2>3. /\ n \in Nat /\ Pops(j) \in Nat /\ Pops(j) <= n /\ n <= d
        /\ \A l \in 1 .. n : /\ lowered.uses[j][l] = before[d - n + l]
                             /\ lowered.uses[j][l] \in Used(j)
    BY SMTT(30), <2>1, OperandFacts, UsesAndDefs
  <2> HIDE DEF j, before, d, n
  <2>4. k <= d - n
    <3>1. SUFFICES ASSUME ~(k <= d - n) PROVE FALSE
      OBVIOUS
    <3>2. k - (d - n) \in 1 .. n /\ d - n + (k - (d - n)) = k
      BY <1>2, <2>2, <2>3, <3>1
    <3>3. r \in Used(j)
      BY <2>2, <2>3, <3>2
    <3> QED BY <2>1, <3>3
  <2>5. /\ Without(before, Pops(j)) \in Seq(Nat) /\ Len(Without(before, Pops(j))) = d - Pops(j)
        /\ \A l \in 1 .. d - Pops(j) : Without(before, Pops(j))[l] = before[l]
    <3>1. Pops(j) \in Nat /\ Pops(j) <= Len(before)
      BY <2>2, <2>3
    <3> DEFINE m == Pops(j)
    <3> HIDE DEF m
    <3>2. m \in Nat /\ m <= Len(before)
      BY <3>1 DEF m
    <3>3. /\ Without(before, m) \in Seq(Nat) /\ Len(Without(before, m)) = Len(before) - m
          /\ \A l \in 1 .. (Len(before) - m) : Without(before, m)[l] = before[l]
      BY ZenonT(30), <2>2, <3>2, TopAndRest
    <3> QED BY <2>2, <3>3 DEF m
  <2>6. k \in 1 .. d - Pops(j)
    BY <1>2, <2>2, <2>3, <2>4
  <2>7. /\ StackAfter(b)[j] = Without(before, Pops(j)) \o Results(j)
        /\ DepthAfter(b)[j] = d - Pops(j) + Pushes(j)
        /\ Pushes(j) \in {0, 1}
        /\ Results(j) \in Seq(Nat)
    <3>1. StackAfter(b)[j] = Without(StackAfter(b)[j - 1], Pops(j)) \o Results(j)
      BY <1>1, <2>1, StackSteps
    <3>2. DepthAfter(b)[j] = DepthAfter(b)[j - 1] - Pops(j) + Pushes(j)
      BY <1>1, <2>1, DepthSteps
    <3>3. Pushes(j) \in {0, 1} /\ Results(j) \in Seq(Nat)
      BY <2>1, OperandFacts, MadeFacts DEF IsLowered
    <3> QED BY <2>1, <3>1, <3>2, <3>3 DEF before, d
  <2>8. StackAfter(b)[j][k] = r
    <3> DEFINE rest == Without(before, Pops(j))
    <3>1. rest \in Seq(Nat) /\ k \in 1 .. Len(rest) /\ rest[k] = r
      BY <2>2, <2>5, <2>6
    <3> HIDE DEF rest
    <3>2. (rest \o Results(j))[k] = rest[k]
      BY <2>7, <3>1, PushOnto
    <3> QED BY <2>7, <3>1, <3>2 DEF rest
  <2>9. k <= DepthAfter(b)[j]
    BY <1>2, <2>2, <2>3, <2>6, <2>7
  <2>10. j \in P
    BY <2>1, <2>8, <2>9
  <2> QED BY <2>10 DEF j
<1>5. \A i \in (b - 1) .. LastOf(b) : i \in P
  <2> HIDE DEF P
  <2> QED BY <1>1, <1>3, <1>4, IntervalInduction
<1>6. Stays(LastOf(b))
  BY <1>1, <1>5
<1>7. DepthAfter(b)[LastOf(b)] \in Nat /\ lowered.exit[b] = StackAfter(b)[LastOf(b)]
  BY <1>1, LoweredFacts
<1> QED BY <1>2, <1>6, <1>7

\* The entry registers of block b are live at its start.
EntriesLive(b) == \A k \in 1 .. depth[b] : Entry(b)[k] \in liveIn[b]

\* A block that leaves the function with nothing on the stack reads its entries.
LEMMA LastReadsAll ==
  ASSUME IsLowered, LiveTyped, NEW b \in Reachable, LiveSolved(b), lowered.exit[b] = <<>>
  PROVE  EntriesLive(b)
<1> SUFFICES ASSUME NEW k \in 1 .. depth[b] PROVE Entry(b)[k] \in liveIn[b]
  BY DEF EntriesLive
<1>1. Entry(b)[k] \in Elements(Entry(b))
  BY KnownFacts
<1>2. LastOf(b) \in (b - 1) .. LastOf(b)
  BY LoweredFacts, BlockFacts DEF IsLowered
<1>3. DepthAfter(b)[LastOf(b)] = 0
  <2>1. /\ StackAfter(b)[LastOf(b)] = <<>>
        /\ Len(StackAfter(b)[LastOf(b)]) = DepthAfter(b)[LastOf(b)]
    BY <1>2, LoweredFacts DEF StackFitsAt
  <2> QED BY <2>1
<1>4. k \notin 1 .. DepthAfter(b)[LastOf(b)]
  BY <1>3
<1>5. \E j \in Body(b) : Entry(b)[k] \in Used(j)
  BY <1>4, EntryStays
<1> QED BY <1>1, <1>5, EntryNeeded

\* A block whose successor's entries are live either reads its own or leaves
\* them to the successor.
LEMMA LiveBefore ==
  ASSUME IsLowered, LiveTyped, NEW b \in Reachable, LiveSolved(b), NEW s \in Successors(b),
         EntriesLive(s)
  PROVE  EntriesLive(b)
<1> SUFFICES ASSUME NEW k \in 1 .. depth[b] PROVE Entry(b)[k] \in liveIn[b]
  BY DEF EntriesLive
<1>1. Entry(b)[k] \in Elements(Entry(b))
  BY KnownFacts
<1>2. CASE \E j \in Body(b) : Entry(b)[k] \in Used(j)
  BY <1>1, <1>2, EntryNeeded
<1>3. CASE \A j \in Body(b) : Entry(b)[k] \notin Used(j)
  <2>1. k \in 1 .. DepthAfter(b)[LastOf(b)] /\ lowered.exit[b][k] = Entry(b)[k]
    BY <1>3, EntryStays
  <2>2. k \in 1 .. depth[s]
    BY <2>1, EdgeFacts
  <2>3. Entry(b)[k] \in ThroughEdge(b, s)
    BY <2>1, <2>2, ThroughEdgeIs DEF EntriesLive
  <2>4. Entry(b)[k] \in liveOut[b]
    BY <2>3 DEF LiveSolved, NewLiveOut
  <2> QED BY <1>1, <2>4, EntryNeeded
<1> QED BY <1>2, <1>3

-----------------------------------------------------------------------------
\* From where a function can end, the entry registers are live: if they go to
\* the end of it unread, something is left there.
LEMMA EndingsLive ==
  ASSUME IsLowered, LiveTyped, \A b \in Reachable : LiveSolved(b),
         \A b \in Reachable : Leaves(b) => lowered.exit[b] = <<>>
  PROVE  \A b \in CanEnd : b \in Reachable /\ EntriesLive(b)
<1>1. code \in Codes /\ Size \in Nat
  BY CodeFacts DEF IsLowered
<1>2. PICK f : /\ CanEnd = f[Size]
               /\ f[0] = {b \in Reachable : Leaves(b)}
               /\ \A n \in 1 .. Size :
                    f[n] = f[n - 1] \cup {b \in Reachable : Successors(b) \cap f[n - 1] # {}}
  BY <1>1, CanEndSteps
<1> DEFINE Good(n) == \A b \in f[n] : b \in Reachable /\ EntriesLive(b)
           P == {n \in Int : Good(n)}
<1>3. 0 \in P
  <2>1. \A b \in f[0] : b \in Reachable /\ Leaves(b)
    BY <1>2
  <2>2. Good(0)
    BY <2>1, LastReadsAll
  <2> QED BY <2>2
<1>4. ASSUME NEW n \in 0 .. Size, n + 1 <= Size, n \in P PROVE n + 1 \in P
  <2> DEFINE m == n + 1
  <2>1. m \in 1 .. Size /\ m - 1 = n
    BY <1>1, <1>4
  <2>2. Good(n)
    BY <1>4
  <2>3. f[m] = f[n] \cup {b \in Reachable : Successors(b) \cap f[n] # {}}
    <3>1. f[m] = f[m - 1] \cup {b \in Reachable : Successors(b) \cap f[m - 1] # {}}
      BY <1>2, <2>1
    <3> QED BY <2>1, <3>1
  <2> HIDE DEF m
  <2>4. Good(m)
    <3>1. SUFFICES ASSUME NEW b \in f[m] PROVE b \in Reachable /\ EntriesLive(b)
      OBVIOUS
    <3>2. CASE b \in f[n]
      BY <2>2, <3>2
    <3>3. CASE b \in Reachable /\ Successors(b) \cap f[n] # {}
      <4>1. PICK s \in Successors(b) : s \in f[n]
        BY <3>3
      <4>2. EntriesLive(s)
        BY <2>2, <4>1
      <4> QED BY <3>3, <4>1, <4>2, LiveBefore
    <3> QED BY <2>3, <3>1, <3>2, <3>3
  <2>5. m \in Int
    BY <2>1
  <2> QED BY <2>4, <2>5 DEF m
<1>5. \A n \in 0 .. Size : n \in P
  <2> HIDE DEF P
  <2>1. 0 \in Int /\ Size \in Int
    BY <1>1
  <2> QED BY <1>3, <1>4, <2>1, IntervalInduction
<1>6. Good(Size)
  <2>1. Size \in 0 .. Size
    BY <1>1
  <2> QED BY <1>5, <2>1
<1> QED BY <1>2, <1>6

\* Every register that is made, and every entry register that is live, is
\* allocated (the intervals of buildIntervals).
LEMMA AllAllocated ==
  ASSUME Allotted, \A b \in Reachable : EntriesLive(b)
  PROVE  items = 0 .. RegisterTotal - 1
<1>0. /\ IsLowered /\ code \in Codes /\ DepthType
      /\ 0 .. RegisterTotal - 1 \subseteq VirtualRegisters
  BY DEF Allotted, IsLowered
<1>1. items \subseteq 0 .. RegisterTotal - 1
  BY ItemsNamed
<1>2. EntryTotal \in Nat /\ RegisterTotal \in Nat /\ EntryTotal <= RegisterTotal
  BY <1>0, EntryNumbers, ResultNumbers
<1>3. ASSUME NEW r \in 0 .. RegisterTotal - 1 PROVE r \in items
  <2>1. r \in VirtualRegisters
    BY <1>0
  <2>2. CASE r < EntryTotal
    <3>1. r \in 0 .. EntryTotal - 1
      BY <1>2, <2>2
    <3>2. PICK b \in Reachable : \E k \in 1 .. depth[b] : Entry(b)[k] = r
      BY <1>0, <3>1, EntryNumbers
    <3>3. r \in liveIn[b]
      BY <3>2 DEF EntriesLive
    <3>4. UsePosition(b) \in Positions(r)
      BY <3>2, <3>3 DEF Positions
    <3> QED BY <2>1, <3>4, Covering
  <2>3. CASE ~(r < EntryTotal)
    <3>1. r \in EntryTotal .. RegisterTotal - 1
      BY <1>2, <2>3
    <3>2. PICK i \in Makers : ResultRegister(i) = r
      BY <1>0, <3>1, ResultNumbers
    <3>3. i \in Live /\ Pushes(i) = 1 /\ i \in 1 .. Size
      BY <1>0, <3>2, ReachableFacts DEF Makers
    <3>4. Defined(i) = {r}
      BY <1>0, <3>2, <3>3, UsedFacts
    <3>5. DefPosition(i) \in Positions(r)
      BY <3>3, <3>4 DEF Positions
    <3> QED BY <2>1, <3>5, Covering
  <2> QED BY <2>2, <2>3
<1> QED BY <1>1, <1>3

\* Such an allocation passes the verifier's checks of it.
LEMMA AllocationPasses ==
  ASSUME Allotted, \A b \in Reachable : EntriesLive(b)
  PROVE  AllocationVerified
<1>1. items = 0 .. RegisterTotal - 1
  BY AllAllocated
<1>2. lowered.count = RegisterTotal
  BY DEF Allotted, IsLowered, LoweredFunction
<1>3. ASSUME NEW v \in items, assignments[v].spilled
      PROVE  assignments[v].spillSlot < nextSpillSlot
  <2>1. v \in Allocated \ Resident
    BY <1>3 DEF Allotted, AllocationComplete, Allocated, Resident
  <2> QED BY <2>1 DEF Allotted, SpillSlotsDistinct
<1> QED BY <1>1, <1>2, <1>3 DEF AllocationVerified

-----------------------------------------------------------------------------
\* Only an allocation is ever found wrong, never a schedule.
RejectInv == pass = "rejected" => ~AllocationVerified

\* The verifier's answer stands.
LEMMA RejectStep ==
  ASSUME AllocationInv, RejectInv, [PassesNext]_allVars
  PROVE  RejectInv'
<1> SUFFICES ASSUME pass' = "rejected" PROVE ~AllocationVerified'
  BY DEF RejectInv
<1>1. /\ pass = "verify" /\ Verify /\ ~(AllocationVerified /\ \A b \in Leaders : BlockVerified(b))
      \/ pass = "rejected"
  <2>1. CASE Verify
    BY <2>1 DEF Verify
  <2>2. CASE PassesNext /\ ~Verify
    BY <2>2 DEF PassesNext, BuildBlocks, PropagateDepth, Lower, LivenessOfBlock, NextRound,
       BuildIntervals, AllocateRegisters, passVars, Schedule, RunBlock
  <2>3. CASE UNCHANGED allVars
    BY <2>3 DEF allVars, passVars
  <2> QED BY <2>1, <2>2, <2>3
<1>2. items' = items /\ assignments' = assignments /\ nextSpillSlot' = nextSpillSlot
      /\ lowered' = lowered
  <2>1. CASE pass = "verify" /\ Verify
    BY <2>1 DEF Verify, vars
  <2>2. CASE pass = "rejected"
    BY <2>2 DEF PassesNext, BuildBlocks, PropagateDepth, Lower, LivenessOfBlock, NextRound,
       BuildIntervals, AllocateRegisters, Schedule, Verify, RunBlock, allVars, passVars, vars
  <2> QED BY <1>1, <2>1, <2>2
<1>3. AllocationVerified' <=> AllocationVerified
  BY <1>2 DEF AllocationVerified
<1>4. CASE pass = "rejected"
  BY <1>3, <1>4 DEF RejectInv
<1>5. CASE pass = "verify" /\ ~(AllocationVerified /\ \A b \in Leaders : BlockVerified(b))
  <2>1. IsLowered /\ OrderInv
    BY <1>5, LoweredNow DEF AllocationInv, ScheduleInv, LoweredPasses
  <2>2. \A b \in Leaders : BlockVerified(b)
    BY <1>5, <2>1, OrderVerified DEF OrderInv
  <2> QED BY <1>3, <1>5, <2>2
<1> QED BY <1>1, <1>4, <1>5

\* A function that leaves nothing on the stack when it ends, and can end from
\* everywhere it gets to, is never rejected: each of its entry registers is live
\* on some path, so the allocation covers it (verifyFunctionAllocation).
THEOREM CleanFunctionsPass == PassesSpec => []CleanAccepted
<1>1. PassesInit => AllocationInv /\ RejectInv
  BY AllocationBegins DEF PassesInit, RejectInv
<1>2. AllocationInv /\ RejectInv /\ [PassesNext]_allVars => AllocationInv' /\ RejectInv'
  BY AllocationInvStep, RejectStep
<1>3. AllocationInv /\ RejectInv => CleanAccepted
  <2> SUFFICES ASSUME AllocationInv, RejectInv, pass = "rejected", Reachable \subseteq CanEnd,
                      \A b \in Reachable : Leaves(b) => lowered.exit[b] = <<>>
               PROVE  FALSE
    BY DEF CleanAccepted
  <2>1. Allotted
    BY AllottedNow, LoweredNow DEF AllocationInv, ScheduleInv, LoweredPasses
  <2>2. \A b \in Reachable : EntriesLive(b)
    BY <2>1, EndingsLive DEF Allotted
  <2> QED BY <2>1, <2>2, AllocationPasses DEF RejectInv
<1> QED BY <1>1, <1>2, <1>3, PTL DEF PassesSpec
=============================================================================
