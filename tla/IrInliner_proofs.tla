-------------------------- MODULE IrInliner_proofs --------------------------
(***************************************************************************)
(* What the inlining pass knows, when it ends, and that it changes nothing *)
(* of what a program does, for every module.                               *)
(*                                                                         *)
(* The pass's own invariant and its bound come first.  What follows runs a *)
(* module before and after one function is rewritten, as two machines in   *)
(* step: outside the callees put in its place both are at the same         *)
(* instruction, and inside one the rewritten code is at the callee's, with *)
(* the callee's locals in a window of its own.                             *)
(*                                                                         *)
(* The provers cannot use the library's induction rules, which take a      *)
(* predicate as a parameter.  Induction over naturals comes from a least   *)
(* counterexample, and a recursive function's equations from that.         *)
(***************************************************************************)
EXTENDS IrInliner, VmHeapHelpers_proofs, FiniteSetTheorems, WellFoundedInduction

\* A set of natural numbers has a least element.
LEMMA LeastNatural ==
  ASSUME NEW U \in SUBSET Nat, U # {}
  PROVE  \E u \in U : \A v \in U : u <= v
<1> DEFINE R == {pair \in Nat \X Nat : pair[1] < pair[2]}
<1>1. IsWellFoundedOn(R, Nat)
  BY NatLessThanWellFounded DEF OpToRel
<1>2. PICK u \in U : \A v \in U : <<v, u>> \notin R
  BY <1>1, WFMin
<1>3. \A v \in U : ~(v < u)
  BY <1>2, Zenon
<1> QED BY <1>3, SMT

\* A set that contains 0, and with each number the next, contains them all.
LEMMA SetInduction ==
  ASSUME NEW S, 0 \in S, \A n \in Nat : n \in S => n + 1 \in S
  PROVE  \A n \in Nat : n \in S
<1> DEFINE U == {n \in Nat : n \notin S}
<1>1. SUFFICES ASSUME U # {} PROVE FALSE
  OBVIOUS
<1>2. PICK u \in U : \A v \in U : u <= v
  <2> HIDE DEF U
  <2>1. U \in SUBSET Nat
    BY DEF U
  <2> QED BY <1>1, <2>1, LeastNatural
<1>3. u # 0 /\ u \in Nat
  OBVIOUS
<1>4. u - 1 \in Nat /\ ~(u <= u - 1)
  BY <1>3, SMT
<1>5. u - 1 \in S
  BY <1>2, <1>4
<1>6. (u - 1) + 1 \in S
  BY <1>4, <1>5
<1>7. (u - 1) + 1 = u
  BY <1>3, SMT
<1> QED BY <1>6, <1>7

IsStep(F, X, N) == F \in [X \X (1 .. N) -> X]
Iterated(f, F, a, X, N) ==
  f \in [0 .. N -> X] /\ f[0] = a /\ \A i \in 1 .. N : f[i] = F[<<f[i - 1], i>>]

\* A step function can be iterated any number of times.
LEMMA Recursion ==
  ASSUME NEW X, NEW a \in X, NEW N \in Nat, NEW F, IsStep(F, X, N)
  PROVE  \E f : Iterated(f, F, a, X, N)
<1> USE DEF IsStep
<1> DEFINE Iterates(f, n) ==
             f \in [0 .. n -> X] /\ f[0] = a /\ \A i \in 1 .. n : f[i] = F[<<f[i - 1], i>>]
<1> DEFINE S == {n \in Nat : n <= N => \E f : Iterates(f, n)}
<1>1. 0 \in S
  <2>1. Iterates([i \in 0 .. 0 |-> a], 0)
    BY SMT
  <2> QED BY <2>1
<1>2. ASSUME NEW n \in Nat, n \in S PROVE n + 1 \in S
  <2>1. SUFFICES ASSUME n + 1 <= N PROVE \E f : Iterates(f, n + 1)
    OBVIOUS
  <2>2. PICK f : Iterates(f, n)
    <3>1. n <= N
      BY <2>1, SMT
    <3> QED BY <1>2, <3>1
  <2> DEFINE g == [i \in 0 .. n + 1 |-> IF i = n + 1 THEN F[<<f[n], n + 1>>] ELSE f[i]]
  <2>3. f[n] \in X /\ n + 1 \in 1 .. N
    BY <2>1, <2>2, SMT
  <2>4. F[<<f[n], n + 1>>] \in X
    BY <2>3
  <2>5. g \in [0 .. n + 1 -> X]
    <3>1. \A i \in 0 .. n + 1 : i # n + 1 => f[i] \in X
      BY <2>2, SMT
    <3> QED BY <2>4, <3>1
  <2>6. g[0] = a
    BY <2>2, SMT
  <2>7. ASSUME NEW i \in 1 .. n + 1 PROVE g[i] = F[<<g[i - 1], i>>]
    <3>1. g[i - 1] = f[i - 1] /\ i - 1 \in 0 .. n
      BY SMT
    <3>2. CASE i = n + 1
      <4>1. i - 1 = n
        BY <3>2, SMT
      <4>2. g[i] = F[<<f[n], n + 1>>]
        BY <3>2
      <4>3. g[i - 1] = f[n]
        BY <3>1, <4>1
      <4> HIDE DEF g
      <4> QED BY <3>2, <4>2, <4>3
    <3>3. CASE i # n + 1
      <4>1. i \in 1 .. n /\ g[i] = f[i]
        BY <3>3, SMT
      <4> QED BY <2>2, <3>1, <4>1
    <3> QED BY <3>2, <3>3
  <2> QED BY <2>5, <2>6, <2>7
<1>3. \A n \in Nat : n \in S
  <2> HIDE DEF S
  <2> QED BY <1>1, <1>2, SetInduction
<1>4. N \in S
  <2> HIDE DEF S
  <2> QED BY <1>3
<1>5. N <= N
  OBVIOUS
<1> QED BY <1>4, <1>5 DEF Iterated

-----------------------------------------------------------------------------
(***************************************************************************)
(* Sequences of instructions.                                              *)
(***************************************************************************)
\* The provers do not know that a string constant is a string.
Instr == [op : STRING \cup Opcodes, imm : Nat]
InstrSeq == Seq(Instr)

\* The instructions of two sequences, one after the other.
LEMMA ToSetConcat ==
  ASSUME NEW X, NEW s \in Seq(X), NEW t \in Seq(X)
  PROVE  /\ s \o t \in Seq(X)
         /\ ToSet(s \o t) = ToSet(s) \cup ToSet(t)
<1>1. s \o t \in Seq(X) /\ Len(s \o t) = Len(s) + Len(t)
  OBVIOUS
<1>2. ASSUME NEW i \in DOMAIN (s \o t)
      PROVE  (s \o t)[i] \in ToSet(s) \cup ToSet(t)
  <2>1. CASE i <= Len(s)
    BY <2>1 DEF ToSet
  <2>2. CASE i > Len(s)
    <3>1. i - Len(s) \in DOMAIN t /\ (s \o t)[i] = t[i - Len(s)]
      BY <1>1, <2>2
    <3> QED BY <3>1 DEF ToSet
  <2> QED BY <1>1, <2>1, <2>2
<1>3. ASSUME NEW i \in DOMAIN s
      PROVE  s[i] \in ToSet(s \o t)
  <2>1. i \in DOMAIN (s \o t) /\ (s \o t)[i] = s[i]
    BY <1>1
  <2> QED BY <2>1 DEF ToSet
<1>4. ASSUME NEW i \in DOMAIN t
      PROVE  t[i] \in ToSet(s \o t)
  <2>1. i + Len(s) \in DOMAIN (s \o t) /\ (s \o t)[i + Len(s)] = t[i]
    BY <1>1
  <2> QED BY <2>1 DEF ToSet
<1> QED BY <1>1, <1>2, <1>3, <1>4 DEF ToSet

\* The instructions of a sequence and one more.
LEMMA ToSetAppend ==
  ASSUME NEW X, NEW s \in Seq(X), NEW x \in X
  PROVE  /\ Append(s, x) \in Seq(X)
         /\ ToSet(Append(s, x)) = ToSet(s) \cup {x}
<1>1. Append(s, x) \in Seq(X) /\ Len(Append(s, x)) = Len(s) + 1
  OBVIOUS
<1>2. /\ \A i \in DOMAIN s : i \in DOMAIN Append(s, x) /\ Append(s, x)[i] = s[i]
      /\ Len(s) + 1 \in DOMAIN Append(s, x) /\ Append(s, x)[Len(s) + 1] = x
  BY <1>1
<1>3. \A i \in DOMAIN Append(s, x) : i \in DOMAIN s \/ i = Len(s) + 1
  BY <1>1
<1> QED BY <1>2, <1>3 DEF ToSet

\* How FlattenSeq goes about it.
LEMMA FlattenSteps ==
  ASSUME NEW X, NEW seqs \in Seq(Seq(X)), Len(seqs) # 0
  PROVE  \E flat : /\ FlattenSeq(seqs) = flat[Len(seqs)]
                   /\ flat[1] = seqs[1]
                   /\ \A i \in 1 .. Len(seqs) : i # 1 => flat[i] = flat[i - 1] \o seqs[i]
<1> DEFINE n == Len(seqs)
           Solves(g) == g = [i \in 1 .. n |-> IF i = 1 THEN seqs[i] ELSE g[i - 1] \o seqs[i]]
           flatten == CHOOSE g : Solves(g)
<1>1. n \in Nat \ {0} /\ \A i \in 1 .. n : seqs[i] \in Seq(X)
  OBVIOUS
<1>2. FlattenSeq(seqs) = flatten[n]
  BY DEF FlattenSeq
<1>3. \E g : Solves(g)
  <2> DEFINE F == [pair \in Seq(X) \X (1 .. n - 1) |-> pair[1] \o seqs[pair[2] + 1]]
  <2>1. IsStep(F, Seq(X), n - 1)
    <3>1. ASSUME NEW pair \in Seq(X) \X (1 .. n - 1)
          PROVE  pair[1] \o seqs[pair[2] + 1] \in Seq(X)
      <4>1. pair[1] \in Seq(X) /\ pair[2] + 1 \in 1 .. n
        BY <1>1
      <4>2. seqs[pair[2] + 1] \in Seq(X)
        BY <1>1, <4>1
      <4> QED BY <4>1, <4>2
    <3> QED BY <3>1 DEF IsStep
  <2>2. seqs[1] \in Seq(X) /\ n - 1 \in Nat
    BY <1>1
  <2>3. PICK f : Iterated(f, F, seqs[1], Seq(X), n - 1)
    <3> HIDE DEF F, n
    <3> QED BY <2>1, <2>2, Recursion
  <2>4. /\ f[0] = seqs[1] /\ \A i \in 0 .. n - 1 : f[i] \in Seq(X)
        /\ \A i \in 1 .. n - 1 : f[i] = F[<<f[i - 1], i>>]
    BY <2>3 DEF Iterated
  <2> DEFINE g == [i \in 1 .. n |-> f[i - 1]]
  <2>5. ASSUME NEW i \in 1 .. n, i # 1
        PROVE  g[i] = g[i - 1] \o seqs[i]
    <3>1. i - 1 \in 1 .. n - 1 /\ i - 1 \in 1 .. n /\ (i - 1) + 1 = i /\ (i - 1) - 1 \in 0 .. n - 1
      BY <1>1, <2>5
    <3>2. f[i - 1] = F[<<f[(i - 1) - 1], i - 1>>] /\ f[(i - 1) - 1] \in Seq(X)
      BY <2>4, <3>1
    <3>3. f[i - 1] = f[(i - 1) - 1] \o seqs[(i - 1) + 1]
      BY <3>1, <3>2
    <3> QED BY <3>1, <3>3
  <2>6. g[1] = seqs[1]
    BY <1>1, <2>4
  <2>7. Solves(g)
    <3>1. \A i \in 1 .. n : g[i] = IF i = 1 THEN seqs[i] ELSE g[i - 1] \o seqs[i]
      BY <2>5, <2>6
    <3>2. g = [i \in 1 .. n |-> g[i]]
      OBVIOUS
    <3> HIDE DEF g
    <3> QED BY <3>1, <3>2
  <2> QED BY <2>7
<1>4. Solves(flatten)
  BY <1>3
<1> HIDE DEF flatten
<1>5. /\ flatten[1] = seqs[1]
      /\ \A i \in 1 .. n : i # 1 => flatten[i] = flatten[i - 1] \o seqs[i]
  <2>1. \A i \in 1 .. n : flatten[i] = IF i = 1 THEN seqs[i] ELSE flatten[i - 1] \o seqs[i]
    BY <1>4, Zenon
  <2>2. 1 \in 1 .. n
    BY <1>1
  <2> QED BY <2>1, <2>2
<1> QED BY <1>2, <1>5

\* Sequences put end to end have the elements of all of them.
LEMMA ToSetFlatten ==
  ASSUME NEW X, NEW seqs \in Seq(Seq(X))
  PROVE  /\ FlattenSeq(seqs) \in Seq(X)
         /\ \A e : e \in ToSet(FlattenSeq(seqs)) <=> \E i \in DOMAIN seqs : e \in ToSet(seqs[i])
<1>1. CASE Len(seqs) = 0
  <2>1. seqs = <<>> /\ FlattenSeq(seqs) = seqs
    BY <1>1 DEF FlattenSeq
  <2>2. DOMAIN seqs = {}
    BY <2>1
  <2>3. seqs \in Seq(X)
    BY <2>1
  <2> QED BY <2>1, <2>2, <2>3 DEF ToSet
<1>2. CASE Len(seqs) # 0
  <2> DEFINE n == Len(seqs)
  <2>1. n \in Nat \ {0} /\ \A i \in 1 .. n : seqs[i] \in Seq(X)
    BY <1>2
  <2>2. PICK flatten :
             /\ FlattenSeq(seqs) = flatten[n]
             /\ flatten[1] = seqs[1]
             /\ \A i \in 1 .. n : i # 1 => flatten[i] = flatten[i - 1] \o seqs[i]
    BY <1>2, FlattenSteps
  <2>5. /\ flatten[1] = seqs[1]
        /\ \A i \in 1 .. n : i # 1 => flatten[i] = flatten[i - 1] \o seqs[i]
    BY <2>2
  <2> DEFINE S == {m \in Nat : m + 1 <= n =>
                     /\ flatten[m + 1] \in Seq(X)
                     /\ \A e : e \in ToSet(flatten[m + 1]) <=>
                                 \E i \in 1 .. m + 1 : e \in ToSet(seqs[i])}
  <2>6. 0 \in S
    <3>1. 1 .. 0 + 1 = {1}
      OBVIOUS
    <3> QED BY <2>1, <2>5, <3>1
  <2>7. ASSUME NEW m \in Nat, m \in S
        PROVE  m + 1 \in S
    <3>1. SUFFICES ASSUME (m + 1) + 1 <= n
                   PROVE  /\ flatten[(m + 1) + 1] \in Seq(X)
                          /\ \A e : e \in ToSet(flatten[(m + 1) + 1]) <=>
                                      \E i \in 1 .. (m + 1) + 1 : e \in ToSet(seqs[i])
      OBVIOUS
    <3>2. /\ m + 1 <= n /\ (m + 1) + 1 \in 1 .. n /\ (m + 1) + 1 # 1
          /\ ((m + 1) + 1) - 1 = m + 1
          /\ 1 .. (m + 1) + 1 = (1 .. m + 1) \cup {(m + 1) + 1}
      BY <2>1, <3>1
    <3>3. /\ flatten[m + 1] \in Seq(X)
          /\ \A e : e \in ToSet(flatten[m + 1]) <=> \E i \in 1 .. m + 1 : e \in ToSet(seqs[i])
      BY <2>7, <3>2
    <3>4. flatten[(m + 1) + 1] = flatten[m + 1] \o seqs[(m + 1) + 1]
      BY <2>5, <3>2
    <3>5. seqs[(m + 1) + 1] \in Seq(X)
      BY <2>1, <3>2
    <3>6. /\ flatten[(m + 1) + 1] \in Seq(X)
          /\ ToSet(flatten[(m + 1) + 1]) = ToSet(flatten[m + 1]) \cup ToSet(seqs[(m + 1) + 1])
      BY <3>3, <3>4, <3>5, ToSetConcat
    <3>7. ASSUME NEW e
          PROVE  e \in ToSet(flatten[(m + 1) + 1]) <=>
                   \E i \in (1 .. m + 1) \cup {(m + 1) + 1} : e \in ToSet(seqs[i])
      BY <3>3, <3>6, Zenon
    <3> QED BY <3>2, <3>6, <3>7
  <2>8. \A m \in Nat : m \in S
    <3> HIDE DEF S
    <3> QED BY <2>6, <2>7, SetInduction
  <2>9. n - 1 \in S /\ (n - 1) + 1 = n /\ n <= n /\ DOMAIN seqs = 1 .. n
    <3>1. n - 1 \in Nat
      BY <2>1
    <3> HIDE DEF S
    <3> QED BY <2>1, <2>8, <3>1
  <2> QED BY <2>2, <2>9
<1> QED BY <1>1, <1>2
-----------------------------------------------------------------------------
(***************************************************************************)
(* Counting locals.                                                        *)
(***************************************************************************)
LocalInsts(code) == {inst \in ToSet(code) : inst.op \in LocalOps}

\* What computeLocalCount computes: one more than the largest index named, or 0.
IsLocalCount(n, code) ==
  /\ n \in Nat
  /\ \A inst \in LocalInsts(code) : inst.imm + 1 <= n
  /\ n = 0 \/ \E inst \in LocalInsts(code) : inst.imm + 1 = n

\* The instructions of a sequence are instructions.
LEMMA ToSetTyped ==
  ASSUME NEW code \in InstrSeq
  PROVE  \A inst \in ToSet(code) : inst \in Instr /\ inst.imm \in Nat
<1>1. \A i \in DOMAIN code : code[i] \in Instr
  BY DEF InstrSeq
<1>2. \A inst \in Instr : inst.imm \in Nat
  BY DEF Instr
<1> QED BY <1>1, <1>2 DEF ToSet

\* There is only one such number.
LEMMA LocalCountIs ==
  ASSUME NEW code \in InstrSeq, NEW n, IsLocalCount(n, code)
  PROVE  LocalCount(code) = n
<1> DEFINE sizes == {0} \cup {code[i].imm + 1 : i \in {j \in DOMAIN code : code[j].op \in LocalOps}}
<1>1. LocalCount(code) = CHOOSE m \in sizes : \A k \in sizes : k <= m
  BY DEF LocalCount
<1>2. \A k : k \in sizes <=> k = 0 \/ \E inst \in LocalInsts(code) : k = inst.imm + 1
  BY DEF LocalInsts, ToSet
<1>3. sizes \subseteq Nat
  BY <1>2, ToSetTyped DEF LocalInsts
<1> HIDE DEF sizes
<1>4. n \in sizes /\ \A k \in sizes : k <= n
  BY <1>2 DEF IsLocalCount
<1>5. ASSUME NEW m \in sizes, \A k \in sizes : k <= m
      PROVE  m = n
  BY <1>3, <1>4, <1>5
<1> QED BY <1>1, <1>4, <1>5

\* There is one for every sequence.
LEMMA LocalCountExists ==
  ASSUME NEW code \in InstrSeq
  PROVE  IsLocalCount(LocalCount(code), code)
<1> DEFINE Upto(n) == {code[i] : i \in {j \in 1 .. n : code[j].op \in LocalOps}}
           Counts(n, k) == /\ \A inst \in Upto(n) : inst.imm + 1 <= k
                           /\ k = 0 \/ \E inst \in Upto(n) : inst.imm + 1 = k
           S == {n \in Nat : n <= Len(code) => \E k \in Nat : Counts(n, k)}
<1>1. Len(code) \in Nat /\ DOMAIN code = 1 .. Len(code) /\ \A i \in DOMAIN code : code[i].imm \in Nat
  <2>1. \A i \in DOMAIN code : code[i] \in Instr
    BY DEF InstrSeq
  <2>2. \A inst \in Instr : inst.imm \in Nat
    BY DEF Instr
  <2> QED BY <2>1, <2>2 DEF InstrSeq
<1>2. 0 \in S
  <2>1. Upto(0) = {}
    OBVIOUS
  <2>2. Counts(0, 0)
    BY <2>1
  <2> QED BY <2>2
<1>3. ASSUME NEW n \in Nat, n \in S
      PROVE  n + 1 \in S
  <2>1. SUFFICES ASSUME n + 1 <= Len(code) PROVE \E k \in Nat : Counts(n + 1, k)
    OBVIOUS
  <2>2. PICK k \in Nat : Counts(n, k)
    <3>1. n <= Len(code)
      BY <1>1, <2>1
    <3> QED BY <1>3, <3>1
  <2>3. n + 1 \in DOMAIN code /\ code[n + 1].imm \in Nat
    BY <1>1, <2>1
  <2>4. \A i \in 1 .. n : code[i].imm \in Nat
    BY <1>1, <2>1
  <2>5. CASE code[n + 1].op \notin LocalOps
    <3>1. Upto(n + 1) = Upto(n)
      BY <2>5
    <3>2. Counts(n + 1, k)
      BY <2>2, <3>1
    <3> QED BY <3>2
  <2>6. CASE code[n + 1].op \in LocalOps
    <3>1. Upto(n + 1) = Upto(n) \cup {code[n + 1]}
      BY <2>6
    <3>2. \A inst \in Upto(n) : inst.imm \in Nat
      BY <2>4
    <3> HIDE DEF Upto
    <3>3. CASE code[n + 1].imm + 1 <= k
      <4>1. Counts(n + 1, k)
        BY <2>2, <3>1, <3>3
      <4> QED BY <4>1
    <3>4. CASE ~(code[n + 1].imm + 1 <= k)
      <4>1. Counts(n + 1, code[n + 1].imm + 1)
        BY <2>2, <2>3, <3>1, <3>2, <3>4
      <4> QED BY <2>3, <4>1
    <3> QED BY <3>3, <3>4
  <2> QED BY <2>5, <2>6
<1>4. Len(code) \in S
  <2> HIDE DEF S
  <2> QED BY <1>1, <1>2, <1>3, SetInduction
<1>5. PICK k \in Nat : Counts(Len(code), k)
  BY <1>1, <1>4
<1>6. Upto(Len(code)) = LocalInsts(code)
  BY <1>1 DEF LocalInsts, ToSet
<1>7. IsLocalCount(k, code)
  BY <1>5, <1>6 DEF IsLocalCount
<1> QED BY <1>7, LocalCountIs

-----------------------------------------------------------------------------
(***************************************************************************)
(* What stands for a call (appendInlinedCallee).                           *)
(***************************************************************************)
Shifted(inst, localBase) == [inst EXCEPT !.imm = @ + localBase]

\* A local is moved; any other instruction names no local and is no call.
LEMMA InlinedOne ==
  ASSUME NEW inst \in Instr, NEW localBase \in Nat, NEW push
  PROVE  /\ InlinedInstruction(inst, localBase, push) \in InstrSeq
         /\ inst.op \in LocalOps =>
              ToSet(InlinedInstruction(inst, localBase, push)) = {Shifted(inst, localBase)}
         /\ inst.op \notin LocalOps =>
              \A out \in ToSet(InlinedInstruction(inst, localBase, push)) :
                /\ out.op \notin LocalOps
                /\ out.op \in Calls => inst.op \in Calls
<1> DEFINE lines == InlinedInstruction(inst, localBase, push)
<1>1. inst.op \in STRING \cup Opcodes /\ inst.imm \in Nat /\ Shifted(inst, localBase) \in Instr
      /\ Shifted(inst, localBase).op = inst.op
  BY DEF Instr, Shifted
<1>2. CASE inst.op \in LocalOps
  <2>1. lines = <<Shifted(inst, localBase)>>
    BY <1>2 DEF InlinedInstruction, Shifted, LocalOps, Returns
  <2> QED BY <1>1, <1>2, <2>1 DEF InstrSeq, ToSet
<1>3. CASE inst.op \in Returns
  <2>1. \/ lines = <<>>
        \/ lines = <<[op |-> "PushI32", imm |-> 0]>>
        \/ lines = <<[op |-> "Pop", imm |-> 0]>>
    BY <1>3 DEF InlinedInstruction, LocalOps, Returns
  <2>2. inst.op \notin LocalOps
    BY <1>3 DEF Returns, LocalOps
  <2>3. CASE lines = <<>>
    <3>1. lines \in InstrSeq /\ ToSet(lines) = {}
      BY <2>3 DEF InstrSeq, ToSet
    <3> QED BY <2>2, <3>1
  <2>4. ASSUME NEW op \in {"PushI32", "Pop"}, lines = <<[op |-> op, imm |-> 0]>>
        PROVE  /\ lines \in InstrSeq
               /\ \A out \in ToSet(lines) : out.op \notin LocalOps /\ out.op \notin Calls
    <3>1. [op |-> op, imm |-> 0] \in Instr
      <4>1. [op |-> "PushI32", imm |-> 0] \in Instr /\ [op |-> "Pop", imm |-> 0] \in Instr
        BY DEF Instr, Opcodes, Constants, Unary
      <4> QED BY <4>1
    <3>2. lines \in InstrSeq /\ ToSet(lines) = {[op |-> op, imm |-> 0]}
      BY <2>4, <3>1 DEF InstrSeq, ToSet
    <3> QED BY <3>2 DEF LocalOps, Calls
  <2> QED BY <2>1, <2>2, <2>3, <2>4
<1>4. CASE inst.op \notin LocalOps /\ inst.op \notin Returns
  <2>1. lines = <<inst>>
    BY <1>4 DEF InlinedInstruction, Returns
  <2> QED BY <1>4, <2>1 DEF InstrSeq, ToSet
<1> QED BY <1>2, <1>3, <1>4

\* The inlined body names the callee's locals from localBase on and calls nothing
\* that the callee does not.
LEMMA InlinedAll ==
  ASSUME NEW code \in InstrSeq, NEW localBase \in Nat, NEW push
  PROVE  LET body == InlinedCallee(code, localBase, push) IN
         /\ body \in InstrSeq
         /\ \A out \in ToSet(body) : out.op \in Calls => Uses(code, Calls)
         /\ \A out \in LocalInsts(body) :
              \E inst \in LocalInsts(code) : out.imm = inst.imm + localBase
         /\ \A inst \in LocalInsts(code) :
              \E out \in LocalInsts(body) : out.imm = inst.imm + localBase
<1> DEFINE parts == [i \in DOMAIN code |-> InlinedInstruction(code[i], localBase, push)]
           body == FlattenSeq(parts)
<1>1. \A i \in DOMAIN code : code[i] \in Instr
  BY DEF InstrSeq
<1>2. parts \in Seq(InstrSeq) /\ DOMAIN parts = DOMAIN code
  <2>1. \A i \in DOMAIN code : InlinedInstruction(code[i], localBase, push) \in InstrSeq
    BY <1>1, InlinedOne
  <2>2. DOMAIN code = 1 .. Len(code) /\ Len(code) \in Nat
    BY DEF InstrSeq
  <2> QED BY <2>1, <2>2
<1>3. /\ body \in InstrSeq
      /\ \A out : out \in ToSet(body) <=> \E i \in DOMAIN code : out \in ToSet(parts[i])
  BY <1>2, ToSetFlatten DEF InstrSeq
<1>4. InlinedCallee(code, localBase, push) = body
  BY DEF InlinedCallee
<1>5. ASSUME NEW out \in ToSet(body), out.op \in Calls
      PROVE  Uses(code, Calls)
  <2>1. PICK i \in DOMAIN code : out \in ToSet(InlinedInstruction(code[i], localBase, push))
    BY <1>3
  <2>2. code[i].op \in LocalOps => out.op = code[i].op
    BY <1>1, <2>1, InlinedOne DEF Shifted, Instr
  <2>3. code[i].op \in Calls
    BY <1>1, <1>5, <2>1, <2>2, InlinedOne
  <2> QED BY <2>3 DEF Uses
<1>6. ASSUME NEW out \in LocalInsts(body)
      PROVE  \E inst \in LocalInsts(code) : out.imm = inst.imm + localBase
  <2>1. PICK i \in DOMAIN code : out \in ToSet(InlinedInstruction(code[i], localBase, push))
    BY <1>3 DEF LocalInsts
  <2>2. code[i].op \in LocalOps /\ out = Shifted(code[i], localBase)
    BY <1>1, <2>1, InlinedOne DEF LocalInsts
  <2>3. out.imm = code[i].imm + localBase
    BY <1>1, <2>2 DEF Shifted, Instr
  <2> QED BY <2>2, <2>3 DEF LocalInsts, ToSet
<1>7. ASSUME NEW inst \in LocalInsts(code)
      PROVE  \E out \in LocalInsts(body) : out.imm = inst.imm + localBase
  <2>1. PICK i \in DOMAIN code : inst = code[i] /\ code[i].op \in LocalOps
    BY DEF LocalInsts, ToSet
  <2>2. Shifted(inst, localBase) \in ToSet(parts[i])
    BY <1>1, <2>1, InlinedOne
  <2>3. Shifted(inst, localBase) \in ToSet(body)
    BY <1>3, <2>1, <2>2
  <2>4. /\ Shifted(inst, localBase).op = inst.op
        /\ Shifted(inst, localBase).imm = inst.imm + localBase
    BY <1>1, <2>1 DEF Shifted, Instr
  <2> QED BY <2>1, <2>3, <2>4 DEF LocalInsts
<1> HIDE DEF body
<1> QED BY <1>3, <1>4, <1>5, <1>6, <1>7
-----------------------------------------------------------------------------
(***************************************************************************)
(* Rewriting a function.                                                   *)
(***************************************************************************)
CallsInRange ==
  \A f \in Functions : \A i \in DOMAIN ir.functions[f] :
    ir.functions[f][i].op \in Calls => ir.functions[f][i].imm + 1 \in Functions

\* What the pass knows of the module while it works on it.
Known ==
  /\ ir \in [entryIndex : Int, functions : Seq(InstrSeq)]
  /\ CallsInRange
  /\ localCounts = [f \in Functions |-> LocalCount(ir.functions[f])]
  /\ leafInlineable = [f \in Functions |-> IsLeaf(ir.functions[f])]

CopyType == [code : InstrSeq, nextLocal : Nat]

\* What is so of the copy of a function's first instructions.  Calls in it are the
\* function's own, and none may be inlined; its locals end at nextLocal, where the last
\* callee's end that has any; without a call to inline it is what it was.
CopyOf(f, done, n) ==
  LET code == ir.functions[f] IN
  /\ done \in CopyType
  /\ localCounts[f] <= done.nextLocal
  /\ \A out \in ToSet(done.code) : out.op \in Calls =>
       ~Inlines(f, out) /\ \E j \in DOMAIN code : out = code[j]
  /\ \A j \in 1 .. n : code[j].op \in LocalOps => code[j] \in ToSet(done.code)
  /\ \A out \in LocalInsts(done.code) : out.imm + 1 <= done.nextLocal
  /\ \/ done.nextLocal = localCounts[f]
     \/ \E out \in LocalInsts(done.code) : out.imm + 1 = done.nextLocal
  /\ (\A j \in 1 .. n : ~Inlines(f, code[j])) =>
       /\ done.nextLocal = localCounts[f]
       /\ Len(done.code) = n
       /\ \A j \in 1 .. n : done.code[j] = code[j]

\* What Known says of one function.
LEMMA FunctionFacts ==
  ASSUME Known, NEW f \in Functions
  PROVE  /\ ir.functions[f] \in InstrSeq
         /\ Len(ir.functions[f]) \in Nat /\ DOMAIN ir.functions[f] = 1 .. Len(ir.functions[f])
         /\ \A i \in DOMAIN ir.functions[f] : ir.functions[f][i] \in Instr
         /\ localCounts[f] = LocalCount(ir.functions[f])
         /\ IsLocalCount(localCounts[f], ir.functions[f])
         /\ localCounts[f] \in Nat
         /\ leafInlineable[f] = IsLeaf(ir.functions[f])
         /\ \A i \in DOMAIN ir.functions[f] :
              ir.functions[f][i].op \in Calls => ir.functions[f][i].imm + 1 \in Functions
<1>1. ir.functions[f] \in InstrSeq
  BY DEF Known, Functions
<1>2. /\ localCounts[f] = LocalCount(ir.functions[f])
      /\ leafInlineable[f] = IsLeaf(ir.functions[f])
  BY DEF Known
<1>3. IsLocalCount(localCounts[f], ir.functions[f])
  BY <1>1, <1>2, LocalCountExists
<1> QED BY <1>1, <1>2, <1>3 DEF InstrSeq, IsLocalCount, Known, CallsInRange

\* A callee that may be inlined calls nothing.
LEMMA InlinedCalleeFacts ==
  ASSUME Known, NEW f \in Functions, NEW i \in DOMAIN ir.functions[f],
         Inlines(f, ir.functions[f][i])
  PROVE  LET callee == ir.functions[f][i].imm + 1 IN
         /\ callee \in Functions
         /\ ~Uses(ir.functions[callee], Calls)
<1> DEFINE callee == ir.functions[f][i].imm + 1
<1>1. callee \in Functions /\ leafInlineable[callee]
  BY FunctionFacts DEF Inlines
<1>2. IsLeaf(ir.functions[callee])
  BY <1>1, FunctionFacts
<1> QED BY <1>1, <1>2 DEF IsLeaf, Uses

\* A copy has a code and a next local, whatever is copied.
LEMMA CopiedType ==
  ASSUME Known, NEW f \in Functions, NEW i \in DOMAIN ir.functions[f], NEW done \in CopyType
  PROVE  Copied(f, done, ir.functions[f][i]) \in CopyType
<1> DEFINE inst == ir.functions[f][i]
           callee == inst.imm + 1
           body == InlinedCallee(ir.functions[callee], done.nextLocal, inst.op = "Call")
<1>1. inst \in Instr /\ done.code \in InstrSeq /\ done.nextLocal \in Nat
  BY FunctionFacts DEF CopyType
<1>2. CASE Inlines(f, inst)
  <2>1. callee \in Functions
    BY <1>2, InlinedCalleeFacts
  <2>2. body \in InstrSeq /\ localCounts[callee] \in Nat
    BY <1>1, <2>1, FunctionFacts, InlinedAll
  <2>3. done.code \o body \in InstrSeq
    BY <1>1, <2>2 DEF InstrSeq
  <2> HIDE DEF body, callee
  <2>4. Copied(f, done, inst) =
          [code |-> done.code \o body, nextLocal |-> done.nextLocal + localCounts[callee]]
    BY <1>2 DEF Copied, LocalsAfter, body, callee
  <2> HIDE DEF inst
  <2>5. done.nextLocal + localCounts[callee] \in Nat
    BY <1>1, <2>2
  <2> QED BY <2>3, <2>4, <2>5 DEF CopyType, inst
<1>3. CASE ~Inlines(f, inst)
  <2>1. Append(done.code, inst) \in InstrSeq
    BY <1>1 DEF InstrSeq
  <2> QED BY <1>1, <1>3, <2>1 DEF Copied, CopyType
<1> QED BY <1>2, <1>3

\* An instruction that is not a call to inline is copied.
LEMMA CopyInstruction ==
  ASSUME Known, NEW f \in Functions, NEW n \in Nat, n + 1 \in DOMAIN ir.functions[f], NEW done,
         CopyOf(f, done, n), ~Inlines(f, ir.functions[f][n + 1])
  PROVE  CopyOf(f, Copied(f, done, ir.functions[f][n + 1]), n + 1)
<1> DEFINE code == ir.functions[f]
           inst == code[n + 1]
           new == Copied(f, done, inst)
<1>1. inst \in Instr /\ done \in CopyType /\ done.code \in InstrSeq /\ done.nextLocal \in Nat
  BY FunctionFacts DEF CopyOf, CopyType
<1>2. new = [done EXCEPT !.code = Append(@, inst)]
  BY DEF Copied
<1>3. /\ new.code = Append(done.code, inst) /\ new.nextLocal = done.nextLocal
      /\ new \in CopyType
  <2>1. new \in CopyType
    BY <1>1, CopiedType
  <2> QED BY <1>1, <1>2, <2>1 DEF CopyType
<1>4. ToSet(new.code) = ToSet(done.code) \cup {inst}
  <2>1. done.code \in Seq(Instr)
    BY <1>1 DEF InstrSeq
  <2> QED BY <1>1, <1>3, <2>1, ToSetAppend
<1>5. 1 .. n + 1 = (1 .. n) \cup {n + 1}
  OBVIOUS
<1>6. IsLocalCount(localCounts[f], code) /\ localCounts[f] \in Nat
  BY FunctionFacts
<1>7. inst.op \in LocalOps => inst.imm + 1 <= localCounts[f]
  BY <1>6 DEF IsLocalCount, LocalInsts, ToSet
<1>8. localCounts[f] <= done.nextLocal
  BY DEF CopyOf
<1>9. inst.op \in LocalOps => inst.imm + 1 <= done.nextLocal
  <2>1. inst.imm \in Nat
    BY <1>1 DEF Instr
  <2> QED BY <1>1, <1>6, <1>7, <1>8, <2>1
<1> HIDE DEF new
<1>10. \A out \in ToSet(new.code) : out.op \in Calls =>
         ~Inlines(f, out) /\ \E j \in DOMAIN code : out = code[j]
  BY <1>4 DEF CopyOf
<1>11. \A j \in 1 .. n + 1 : code[j].op \in LocalOps => code[j] \in ToSet(new.code)
  BY <1>4, <1>5 DEF CopyOf
<1>12. \A out \in LocalInsts(new.code) : out.imm + 1 <= new.nextLocal
  BY <1>3, <1>4, <1>9 DEF CopyOf, LocalInsts
<1>13. \/ new.nextLocal = localCounts[f]
       \/ \E out \in LocalInsts(new.code) : out.imm + 1 = new.nextLocal
  BY <1>3, <1>4 DEF CopyOf, LocalInsts
<1>14. ASSUME \A j \in 1 .. n + 1 : ~Inlines(f, code[j])
       PROVE  /\ new.nextLocal = localCounts[f]
              /\ Len(new.code) = n + 1
              /\ \A j \in 1 .. n + 1 : new.code[j] = code[j]
  <2>1. /\ done.nextLocal = localCounts[f]
        /\ Len(done.code) = n
        /\ \A j \in 1 .. n : done.code[j] = code[j]
    BY <1>5, <1>14 DEF CopyOf
  <2>2. /\ Len(new.code) = n + 1 /\ new.code[n + 1] = inst
        /\ \A j \in 1 .. n : new.code[j] = done.code[j]
    BY <1>1, <1>3, <2>1 DEF InstrSeq
  <2> QED BY <1>3, <1>5, <2>1, <2>2
<1> QED BY <1>3, <1>8, <1>10, <1>11, <1>12, <1>13, <1>14 DEF CopyOf, new

\* A call to inline is replaced by its callee.
LEMMA CopyCallee ==
  ASSUME Known, NEW f \in Functions, NEW n \in Nat, n + 1 \in DOMAIN ir.functions[f], NEW done,
         CopyOf(f, done, n), Inlines(f, ir.functions[f][n + 1])
  PROVE  CopyOf(f, Copied(f, done, ir.functions[f][n + 1]), n + 1)
<1> DEFINE code == ir.functions[f]
           inst == code[n + 1]
           callee == inst.imm + 1
           base == done.nextLocal
           count == localCounts[callee]
           body == InlinedCallee(ir.functions[callee], base, inst.op = "Call")
           new == Copied(f, done, inst)
<1>1. /\ inst \in Instr /\ done \in CopyType /\ done.code \in InstrSeq /\ base \in Nat
      /\ inst.op \in Calls
  BY FunctionFacts DEF CopyOf, CopyType, Inlines
<1>2. callee \in Functions /\ ~Uses(ir.functions[callee], Calls)
  BY InlinedCalleeFacts
<1>3. /\ ir.functions[callee] \in InstrSeq /\ count \in Nat
      /\ IsLocalCount(count, ir.functions[callee])
  BY <1>2, FunctionFacts
<1>4. /\ body \in InstrSeq
      /\ \A out \in ToSet(body) : out.op \notin Calls
      /\ \A out \in LocalInsts(body) :
           \E i \in LocalInsts(ir.functions[callee]) : out.imm = i.imm + base
      /\ \A i \in LocalInsts(ir.functions[callee]) :
           \E out \in LocalInsts(body) : out.imm = i.imm + base
  <2> DEFINE given == ir.functions[callee]
  <2>1. given \in InstrSeq /\ base \in Nat /\ ~Uses(given, Calls)
    BY <1>1, <1>2, <1>3
  <2> HIDE DEF given, base
  <2>2. LET copy == InlinedCallee(given, base, inst.op = "Call") IN
        /\ copy \in InstrSeq
        /\ \A out \in ToSet(copy) : out.op \in Calls => Uses(given, Calls)
        /\ \A out \in LocalInsts(copy) : \E i \in LocalInsts(given) : out.imm = i.imm + base
        /\ \A i \in LocalInsts(given) : \E out \in LocalInsts(copy) : out.imm = i.imm + base
    BY <2>1, InlinedAll
  <2> QED BY <2>1, <2>2 DEF given, base
<1>5. /\ new.code = done.code \o body /\ new.nextLocal = base + count
      /\ new \in CopyType
  <2>1. new \in CopyType
    BY <1>1, CopiedType
  <2> QED BY <2>1 DEF Copied, LocalsAfter
<1>6. ToSet(new.code) = ToSet(done.code) \cup ToSet(body)
  <2>1. done.code \in Seq(Instr) /\ body \in Seq(Instr)
    BY <1>1, <1>4 DEF InstrSeq
  <2> HIDE DEF body, new
  <2> QED BY <1>5, <2>1, ToSetConcat
<1>7. localCounts[f] \in Nat /\ localCounts[f] <= base
  BY FunctionFacts DEF CopyOf
<1>8. \A i \in LocalInsts(ir.functions[callee]) : i.imm \in Nat /\ i.imm + 1 <= count
  BY <1>3, ToSetTyped DEF IsLocalCount, LocalInsts
<1>9. \A out \in LocalInsts(done.code) : out.imm \in Nat /\ out.imm + 1 <= base
  BY <1>1, ToSetTyped DEF CopyOf, LocalInsts
<1>10. inst.op \notin LocalOps
  BY <1>1 DEF Calls, LocalOps
<1>11. 1 .. n + 1 = (1 .. n) \cup {n + 1}
  OBVIOUS
<1> HIDE DEF new, body, base, count
<1>12. LocalInsts(new.code) = LocalInsts(done.code) \cup LocalInsts(body)
  BY <1>6 DEF LocalInsts
<1>13. localCounts[f] <= new.nextLocal
  BY <1>1, <1>3, <1>5, <1>7
<1>14. \A out \in ToSet(new.code) : out.op \in Calls =>
         ~Inlines(f, out) /\ \E j \in DOMAIN code : out = code[j]
  BY <1>4, <1>6 DEF CopyOf
<1>15. \A j \in 1 .. n + 1 : code[j].op \in LocalOps => code[j] \in ToSet(new.code)
  BY <1>6, <1>10, <1>11 DEF CopyOf
<1>16. ASSUME NEW out \in LocalInsts(new.code)
       PROVE  out.imm + 1 <= new.nextLocal
  <2>1. CASE out \in LocalInsts(done.code)
    BY <1>1, <1>3, <1>5, <1>9, <2>1
  <2>2. CASE out \in LocalInsts(body)
    <3>1. PICK i \in LocalInsts(ir.functions[callee]) : out.imm = i.imm + base
      BY <1>4, <2>2
    <3>2. i.imm \in Nat /\ i.imm + 1 <= count
      BY <1>8
    <3> QED BY <1>1, <1>3, <1>5, <3>1, <3>2
  <2> QED BY <1>12, <2>1, <2>2
<1>17. \/ new.nextLocal = localCounts[f]
       \/ \E out \in LocalInsts(new.code) : out.imm + 1 = new.nextLocal
  <2>1. CASE count = 0
    <3>1. new.nextLocal = base
      BY <1>1, <1>5, <2>1
    <3>2. base = localCounts[f] \/ \E out \in LocalInsts(done.code) : out.imm + 1 = base
      BY DEF CopyOf, base
    <3> QED BY <1>12, <3>1, <3>2
  <2>2. CASE count # 0
    <3>1. PICK i \in LocalInsts(ir.functions[callee]) : i.imm + 1 = count
      BY <1>3, <2>2 DEF IsLocalCount
    <3>2. PICK out \in LocalInsts(body) : out.imm = i.imm + base
      BY <1>4
    <3>3. i.imm \in Nat
      BY <1>8
    <3>4. out.imm + 1 = base + count
      <4>1. base \in Nat /\ count \in Nat
        BY <1>1, <1>3 DEF base
      <4> QED BY <3>1, <3>2, <3>3, <4>1
    <3> QED BY <1>5, <1>12, <3>4
  <2> QED BY <2>1, <2>2
<1>18. ~(\A j \in 1 .. n + 1 : ~Inlines(f, code[j]))
  BY <1>11
<1> QED BY <1>5, <1>13, <1>14, <1>15, <1>16, <1>17, <1>18 DEF CopyOf, new

FirstCopy(f) == [code |-> <<>>, nextLocal |-> localCounts[f]]
Copies(f, copies) ==
  /\ copies[0] = FirstCopy(f)
  /\ \A i \in 1 .. Len(ir.functions[f]) : copies[i] = Copied(f, copies[i - 1], ir.functions[f][i])
  /\ Rewritten(f) = copies[Len(ir.functions[f])]

\* The loop over a function's instructions: copies is what it has after each.
LEMMA RewrittenSteps ==
  ASSUME Known, NEW f \in Functions
  PROVE  \E copies : Copies(f, copies)
<1> DEFINE n == Len(ir.functions[f])
           first == [code |-> <<>>, nextLocal |-> localCounts[f]]
           Solves(g) == g = [i \in 0 .. n |-> IF i = 0 THEN first
                                              ELSE Copied(f, g[i - 1], ir.functions[f][i])]
           copied == CHOOSE g : Solves(g)
<1>1. /\ n \in Nat /\ DOMAIN ir.functions[f] = 1 .. n
      /\ localCounts[f] \in Nat
  BY FunctionFacts
<1>2. Rewritten(f) = copied[n]
  BY DEF Rewritten
<1>3. first \in CopyType
  <2>1. <<>> \in InstrSeq
    BY DEF InstrSeq
  <2> QED BY <1>1, <2>1 DEF CopyType
<1>4. \E g : Solves(g)
  <2> DEFINE F == [pair \in CopyType \X (1 .. n) |-> Copied(f, pair[1], ir.functions[f][pair[2]])]
  <2>1. IsStep(F, CopyType, n)
    <3>1. ASSUME NEW pair \in CopyType \X (1 .. n)
          PROVE  Copied(f, pair[1], ir.functions[f][pair[2]]) \in CopyType
      <4>1. pair[1] \in CopyType /\ pair[2] \in DOMAIN ir.functions[f]
        BY <1>1
      <4> QED BY <4>1, CopiedType
    <3> QED BY <3>1 DEF IsStep
  <2>2. PICK g : Iterated(g, F, first, CopyType, n)
    <3> HIDE DEF F, first, n
    <3> QED BY <1>1, <1>3, <2>1, Recursion
  <2>3. /\ g \in [0 .. n -> CopyType] /\ g[0] = first
        /\ \A i \in 1 .. n : g[i] = F[<<g[i - 1], i>>]
    BY <2>2 DEF Iterated
  <2>4. ASSUME NEW i \in 0 .. n
        PROVE  g[i] = IF i = 0 THEN first ELSE Copied(f, g[i - 1], ir.functions[f][i])
    <3>1. CASE i = 0
      BY <2>3, <3>1
    <3>2. CASE i # 0
      <4>1. i \in 1 .. n /\ i - 1 \in 0 .. n
        BY <1>1, <3>2
      <4>2. g[i - 1] \in CopyType /\ g[i] = F[<<g[i - 1], i>>]
        BY <2>3, <4>1
      <4>3. F[<<g[i - 1], i>>] = Copied(f, g[i - 1], ir.functions[f][i])
        BY <4>1, <4>2
      <4> HIDE DEF F
      <4> QED BY <3>2, <4>2, <4>3
    <3> QED BY <3>1, <3>2
  <2>5. g = [i \in 0 .. n |-> g[i]]
    BY <2>3
  <2>6. Solves(g)
    <3> HIDE DEF F, first, n
    <3> QED BY <2>4, <2>5
  <2> QED BY <2>6
<1>5. Solves(copied)
  BY <1>4
<1> HIDE DEF copied
<1>6. \A i \in 0 .. n : copied[i] = IF i = 0 THEN first ELSE Copied(f, copied[i - 1], ir.functions[f][i])
  BY <1>5, Zenon
<1>7. copied[0] = first /\ \A i \in 1 .. n : copied[i] = Copied(f, copied[i - 1], ir.functions[f][i])
  BY <1>1, <1>6
<1> QED BY <1>2, <1>7 DEF Copies, FirstCopy

\* The rewritten function, as the loop over its instructions leaves it.
LEMMA RewrittenCopies ==
  ASSUME Known, NEW f \in Functions
  PROVE  CopyOf(f, Rewritten(f), Len(ir.functions[f]))
<1> DEFINE n == Len(ir.functions[f])
           first == [code |-> <<>>, nextLocal |-> localCounts[f]]
<1>1. /\ n \in Nat /\ DOMAIN ir.functions[f] = 1 .. n
      /\ localCounts[f] \in Nat
  BY FunctionFacts
<1>2. PICK copied : Copies(f, copied)
  BY RewrittenSteps
<1>3. first \in CopyType
  <2>1. <<>> \in InstrSeq
    BY DEF InstrSeq
  <2> QED BY <1>1, <2>1 DEF CopyType
<1>6. /\ copied[0] = first /\ Rewritten(f) = copied[n]
      /\ \A i \in 1 .. n : copied[i] = Copied(f, copied[i - 1], ir.functions[f][i])
  BY <1>2 DEF Copies, FirstCopy
<1> DEFINE S == {i \in Nat : i <= n => CopyOf(f, copied[i], i)}
<1>7. 0 \in S
  <2>1. copied[0] = first
    BY <1>6
  <2>2. CopyOf(f, first, 0)
    <3>1. ToSet(first.code) = {} /\ LocalInsts(first.code) = {}
      BY DEF ToSet, LocalInsts
    <3>2. 1 .. 0 = {}
      OBVIOUS
    <3>3. Len(first.code) = 0 /\ first.nextLocal = localCounts[f]
      OBVIOUS
    <3> HIDE DEF first
    <3> QED BY <1>1, <1>3, <3>1, <3>2, <3>3 DEF CopyOf
  <2> QED BY <2>1, <2>2
<1>8. ASSUME NEW i \in Nat, i \in S
      PROVE  i + 1 \in S
  <2>1. SUFFICES ASSUME i + 1 <= n PROVE CopyOf(f, copied[i + 1], i + 1)
    OBVIOUS
  <2>2. i <= n /\ i + 1 \in 0 .. n /\ i + 1 # 0 /\ (i + 1) - 1 = i /\ i + 1 \in DOMAIN ir.functions[f]
    BY <1>1, <2>1
  <2>3. CopyOf(f, copied[i], i)
    BY <1>8, <2>2
  <2>4. copied[i + 1] = Copied(f, copied[i], ir.functions[f][i + 1])
    BY <1>6, <2>2
  <2> QED BY <2>2, <2>3, <2>4, CopyInstruction, CopyCallee
<1>9. \A i \in Nat : i \in S
  <2> HIDE DEF S
  <2> QED BY <1>7, <1>8, SetInduction
<1>10. n \in S /\ n <= n
  <2> HIDE DEF S
  <2> QED BY <1>1, <1>9
<1> QED BY <1>6, <1>10

\* What the pass needs to know of a rewritten function.
LEMMA RewrittenFacts ==
  ASSUME Known, NEW f \in Functions
  PROVE  /\ Rewritten(f) \in CopyType
         /\ LocalCount(Rewritten(f).code) = Rewritten(f).nextLocal
         /\ \A out \in ToSet(Rewritten(f).code) : out.op \in Calls =>
              ~Inlines(f, out) /\ \E j \in DOMAIN ir.functions[f] : out = ir.functions[f][j]
         /\ (\A j \in DOMAIN ir.functions[f] : ~Inlines(f, ir.functions[f][j])) =>
              Rewritten(f).code = ir.functions[f] /\ Rewritten(f).nextLocal = localCounts[f]
<1> DEFINE code == ir.functions[f]
           n == Len(code)
           new == Rewritten(f)
<1>1. CopyOf(f, new, n)
  BY RewrittenCopies
<1>2. /\ new \in CopyType /\ new.code \in InstrSeq /\ new.nextLocal \in Nat
  BY <1>1 DEF CopyOf, CopyType
<1>3. /\ n \in Nat /\ DOMAIN code = 1 .. n /\ code \in InstrSeq
      /\ IsLocalCount(localCounts[f], code) /\ localCounts[f] \in Nat
  BY FunctionFacts
<1>4. IsLocalCount(new.nextLocal, new.code)
  <2>1. \A inst \in LocalInsts(new.code) : inst.imm + 1 <= new.nextLocal
    BY <1>1 DEF CopyOf
  <2>2. CASE new.nextLocal = localCounts[f]
    <3>1. CASE localCounts[f] = 0
      BY <1>2, <2>1, <2>2, <3>1 DEF IsLocalCount
    <3>2. CASE localCounts[f] # 0
      <4>1. PICK inst \in LocalInsts(code) : inst.imm + 1 = localCounts[f]
        BY <1>3, <3>2 DEF IsLocalCount
      <4>2. PICK j \in 1 .. n : inst = code[j] /\ code[j].op \in LocalOps
        BY <1>3 DEF LocalInsts, ToSet
      <4>3. inst \in LocalInsts(new.code)
        BY <1>1, <4>2 DEF CopyOf, LocalInsts
      <4> QED BY <1>2, <2>1, <2>2, <4>1, <4>3 DEF IsLocalCount
    <3> QED BY <3>1, <3>2
  <2>3. CASE \E out \in LocalInsts(new.code) : out.imm + 1 = new.nextLocal
    BY <1>2, <2>1, <2>3 DEF IsLocalCount
  <2> QED BY <1>1, <2>2, <2>3 DEF CopyOf
<1>5. LocalCount(new.code) = new.nextLocal
  BY <1>2, <1>4, LocalCountIs
<1>6. ASSUME \A j \in DOMAIN code : ~Inlines(f, code[j])
      PROVE  new.code = code /\ new.nextLocal = localCounts[f]
  <2>1. /\ new.nextLocal = localCounts[f] /\ Len(new.code) = n
        /\ \A j \in 1 .. n : new.code[j] = code[j]
    BY <1>1, <1>3, <1>6 DEF CopyOf
  <2>2. code \in Seq(Instr) /\ new.code \in Seq(Instr)
    BY <1>2, <1>3 DEF InstrSeq
  <2> HIDE DEF new, code
  <2>3. new.code = code
    BY <2>1, <2>2 DEF n
  <2> QED BY <2>1, <2>3
<1> QED BY <1>1, <1>2, <1>5, <1>6 DEF CopyOf
-----------------------------------------------------------------------------
(***************************************************************************)
(* The passes.  A call that may be inlined is left behind a pass only if   *)
(* its callee became a leaf in that pass.  So a pass that changes anything *)
(* was preceded by one that made a leaf, each pass by one of its own, and  *)
(* there are fewer leaves than passes allowed.                             *)
(***************************************************************************)
Settled(f) == \A i \in DOMAIN ir.functions[f] : ~Inlines(f, ir.functions[f][i])
AllSettled == \A f \in Functions : Settled(f)
LeafSet == {f \in Functions : leafInlineable[f]}

Progress ==
  /\ ~changedInPass => \A g \in 1 .. position - 1 : Settled(g)
  /\ \/ Cardinality(LeafSet) >= pass + 1
     \/ Cardinality(LeafSet) >= pass /\ \A g \in 1 .. position - 1 : Settled(g)
     \/ AllSettled

Counters ==
  /\ position \in 1 .. Len(ir.functions) + 1
  /\ pass \in Nat /\ pass + 1 <= MaxPasses
  /\ changedInPass \in BOOLEAN

InlinerInv ==
  /\ ir \in [entryIndex : Int, functions : Seq(InstrSeq)]
  /\ stage \in {"validation", "plain", "inlining", "revalidation", "inlined", "rejected"}
  /\ stage = "validation" => localCounts = <<>>
  /\ stage = "plain" => localCounts = <<>> /\ CallsInRange
  /\ stage \in {"validation", "plain"} => position = 1 /\ pass = 0 /\ changedInPass = FALSE
  /\ stage \in {"inlining", "revalidation", "inlined"} => Known
  /\ stage = "inlining" => Counters /\ Progress
  /\ stage \in {"revalidation", "inlined"} => AllSettled
  /\ localCounts = <<>> \/ Known

\* There are no more leaves than functions.
LEMMA LeavesCounted ==
  ASSUME ir \in [entryIndex : Int, functions : Seq(InstrSeq)]
  PROVE  /\ Len(ir.functions) \in Nat /\ Functions = 1 .. Len(ir.functions)
         /\ IsFiniteSet(LeafSet) /\ Cardinality(LeafSet) \in Nat
         /\ Cardinality(LeafSet) <= Len(ir.functions)
<1>1. Len(ir.functions) \in Nat /\ Functions = 1 .. Len(ir.functions)
  BY DEF Functions
<1>2. IsFiniteSet(Functions) /\ Cardinality(Functions) = Len(ir.functions)
  BY SMTT(30), <1>1, FS_Interval
<1>3. LeafSet \in SUBSET Functions
  BY DEF LeafSet
<1> QED BY <1>1, <1>2, <1>3, FS_Subset, FS_CardinalityType

\* A function calls nothing when it is a leaf, so there is nothing to inline in it.
LEMMA LeavesSettled ==
  ASSUME Known, NEW f \in Functions, leafInlineable[f]
  PROVE  Settled(f)
<1>1. IsLeaf(ir.functions[f])
  BY FunctionFacts
<1> QED BY <1>1 DEF IsLeaf, Uses, Settled, Inlines

\* What one function's turn changes (InlineFunction).
LEMMA TurnFacts ==
  ASSUME Known, Counters, InlineFunction
  PROVE  /\ Known'
         /\ Functions' = Functions /\ Len(ir.functions)' = Len(ir.functions)
         /\ \A g \in Functions : g # position =>
              ir'.functions[g] = ir.functions[g] /\ leafInlineable'[g] = leafInlineable[g]
         /\ leafInlineable[position] => leafInlineable'[position]
         /\ \A i \in DOMAIN ir'.functions[position] : ~Inlines(position, ir'.functions[position][i])
         /\ Settled(position) => UNCHANGED <<ir, leafInlineable>>
<1> DEFINE f == position
           new == Rewritten(f)
<1>1. /\ f \in Functions
      /\ ir' = [ir EXCEPT !.functions[f] = new.code]
      /\ localCounts' = [localCounts EXCEPT ![f] = new.nextLocal]
      /\ leafInlineable' = [leafInlineable EXCEPT ![f] = IsLeaf(new.code)]
  BY DEF InlineFunction, CountsAfter
<1>2. /\ new \in CopyType /\ new.code \in InstrSeq
      /\ LocalCount(new.code) = new.nextLocal
      /\ \A out \in ToSet(new.code) : out.op \in Calls =>
           ~Inlines(f, out) /\ \E j \in DOMAIN ir.functions[f] : out = ir.functions[f][j]
      /\ Settled(f) => new.code = ir.functions[f] /\ new.nextLocal = localCounts[f]
  BY <1>1, RewrittenFacts DEF CopyType, Settled
<1> HIDE DEF new, f
<1>3. /\ ir.functions \in Seq(InstrSeq)
      /\ localCounts = [g \in Functions |-> LocalCount(ir.functions[g])]
      /\ leafInlineable = [g \in Functions |-> IsLeaf(ir.functions[g])]
  BY DEF Known
<1>4. /\ ir'.functions = [ir.functions EXCEPT ![f] = new.code]
      /\ ir' \in [entryIndex : Int, functions : Seq(InstrSeq)]
  <2>1. [ir.functions EXCEPT ![f] = new.code] \in Seq(InstrSeq)
    BY <1>1, <1>2, <1>3 DEF Functions
  <2> QED BY <1>1, <2>1 DEF Known
<1>5. Functions' = Functions /\ Len(ir.functions)' = Len(ir.functions)
  BY <1>3, <1>4 DEF Functions
<1>6. /\ ir'.functions[f] = new.code
      /\ \A g \in Functions : g # f => ir'.functions[g] = ir.functions[g]
  BY <1>1, <1>3, <1>4 DEF Functions
<1>7. localCounts' = [g \in Functions |-> LocalCount(ir'.functions[g])]
  <2>1. \A g \in Functions : localCounts'[g] = LocalCount(ir'.functions[g])
    BY <1>1, <1>2, <1>3, <1>6
  <2>2. localCounts' = [g \in Functions |-> localCounts'[g]]
    BY <1>1, <1>3
  <2> QED BY <2>1, <2>2
<1>8. leafInlineable' = [g \in Functions |-> IsLeaf(ir'.functions[g])]
  <2>1. \A g \in Functions : leafInlineable'[g] = IsLeaf(ir'.functions[g])
    BY <1>1, <1>3, <1>6
  <2>2. leafInlineable' = [g \in Functions |-> leafInlineable'[g]]
    BY <1>1, <1>3
  <2> QED BY <2>1, <2>2
<1>9. CallsInRange'
  <2> SUFFICES ASSUME NEW g \in Functions, NEW i \in DOMAIN ir'.functions[g],
                      ir'.functions[g][i].op \in Calls
               PROVE  ir'.functions[g][i].imm + 1 \in Functions
    BY <1>5 DEF CallsInRange
  <2>1. CASE g = f
    <3>1. ir'.functions[g][i] \in ToSet(new.code)
      BY <1>6, <2>1 DEF ToSet
    <3>2. PICK j \in DOMAIN ir.functions[f] : ir'.functions[g][i] = ir.functions[f][j]
      BY <1>2, <3>1
    <3> QED BY <1>1, <3>2 DEF Known, CallsInRange
  <2>2. CASE g # f
    BY <1>6, <2>2 DEF Known, CallsInRange
  <2> QED BY <2>1, <2>2
<1>10. Known'
  BY <1>4, <1>5, <1>7, <1>8, <1>9 DEF Known
<1>11. \A g \in Functions : g # f => leafInlineable'[g] = leafInlineable[g]
  BY <1>1, <1>3
<1>12. \A i \in DOMAIN ir'.functions[f] : ~Inlines(f, ir'.functions[f][i])
  BY <1>2, <1>6 DEF ToSet, Inlines
<1>13. ASSUME Settled(f)
       PROVE  ir' = ir /\ leafInlineable' = leafInlineable
  <2>1. new.code = ir.functions[f]
    BY <1>2, <1>13
  <2>2. ir'.functions = ir.functions
    BY <1>1, <1>3, <1>4, <2>1 DEF Functions
  <2>3. ir' = ir
    BY <1>1, <2>2 DEF Known
  <2> QED BY <1>3, <1>5, <1>8, <2>3
<1>14. leafInlineable[f] => leafInlineable'[f]
  <2>1. leafInlineable[f] => Settled(f)
    BY <1>1, LeavesSettled
  <2> QED BY <1>13, <2>1
<1> QED BY <1>5, <1>6, <1>10, <1>11, <1>12, <1>13, <1>14 DEF f

\* A turn settles a function, or makes a leaf.
LEMMA TurnProgress ==
  ASSUME Known, Counters, Progress, InlineFunction
  PROVE  Known' /\ Counters' /\ Progress'
<1> USE TurnFacts
<1>1. /\ position \in Functions /\ position' = position + 1 /\ pass' = pass
      /\ changedInPass' = (changedInPass \/ ~Settled(position))
      /\ Functions = 1 .. Len(ir.functions) /\ Len(ir.functions) \in Nat
      /\ pass \in Nat /\ position \in Nat
  <2>1. Functions = 1 .. Len(ir.functions) /\ Len(ir.functions) \in Nat
    BY LeavesCounted DEF Known
  <2>2. changedInPass' = (changedInPass \/ ~Settled(position))
    <3>1. changedInPass' = (\/ changedInPass
                            \/ \E i \in DOMAIN ir.functions[position] :
                                 Inlines(position, ir.functions[position][i]))
      BY DEF InlineFunction
    <3> QED BY <3>1 DEF Settled
  <2>3. position \in Functions /\ position' = position + 1 /\ pass' = pass
    BY DEF InlineFunction
  <2> QED BY <2>1, <2>2, <2>3 DEF Counters
<1>2. Counters'
  BY <1>1 DEF Counters, MaxPasses
<1>3. Settled(position) =>
        /\ \A g \in Functions : Settled(g) => Settled(g)'
        /\ LeafSet' = LeafSet
  BY DEF Settled, Inlines, LeafSet
<1>4. LeafSet \subseteq LeafSet'
  BY <1>1 DEF LeafSet
<1>5. /\ Cardinality(LeafSet) \in Nat /\ Cardinality(LeafSet') \in Nat
      /\ IsFiniteSet(LeafSet) /\ IsFiniteSet(LeafSet')
  <2>1. ir \in [entryIndex : Int, functions : Seq(InstrSeq)]
    BY DEF Known
  <2>2. IsFiniteSet(Functions)
    BY <1>1, FS_Interval
  <2>3. LeafSet \in SUBSET Functions /\ LeafSet' \in SUBSET Functions
    BY DEF LeafSet
  <2> QED BY <2>2, <2>3, FS_Subset, FS_CardinalityType
<1>6. Cardinality(LeafSet) <= Cardinality(LeafSet')
  BY <1>4, <1>5, FS_Subset
<1>7. 1 .. position' - 1 = (1 .. position - 1) \cup {position} /\ position \notin 1 .. position - 1
      /\ 1 .. position - 1 \subseteq Functions
  BY <1>1
<1>8. ASSUME ~changedInPass'
      PROVE  \A g \in 1 .. position' - 1 : Settled(g)'
  <2>1. Settled(position) /\ ~changedInPass
    BY <1>1, <1>8
  <2>2. \A g \in 1 .. position - 1 : Settled(g)
    BY <2>1 DEF Progress
  <2> QED BY <1>1, <1>3, <1>7, <2>1, <2>2
<1>9. CASE Cardinality(LeafSet) >= pass + 1
  <2>1. Cardinality(LeafSet') >= pass' + 1
    BY <1>1, <1>5, <1>6, <1>9
  <2> QED BY <1>2, <1>8, <2>1 DEF Progress
<1>10. CASE Cardinality(LeafSet) >= pass /\ \A g \in 1 .. position - 1 : Settled(g)
  <2>1. CASE LeafSet' = LeafSet
    <3>1. \A g \in Functions : leafInlineable'[g] <=> leafInlineable[g]
      BY <2>1 DEF LeafSet
    <3>2. ASSUME NEW g \in Functions, NEW inst, inst.op \in Calls => inst.imm + 1 \in Functions
          PROVE  Inlines(g, inst)' <=> Inlines(g, inst)
      BY <3>1, <3>2 DEF Inlines
    <3>3. ASSUME NEW g \in 1 .. position - 1
          PROVE  Settled(g)'
      <4>1. g \in Functions /\ g # position /\ Settled(g)
        BY <1>7, <1>10
      <4>2. ir'.functions[g] = ir.functions[g]
        BY <4>1
      <4>3. \A i \in DOMAIN ir.functions[g] :
              ir.functions[g][i].op \in Calls => ir.functions[g][i].imm + 1 \in Functions
        BY <4>1, FunctionFacts
      <4> QED BY <3>1, <4>1, <4>2, <4>3 DEF Settled, Inlines
    <3>4. ASSUME NEW f \in Functions, f = position
          PROVE  Settled(f)'
      <4> SUFFICES ASSUME NEW i \in DOMAIN ir'.functions[f]
                   PROVE  ~(/\ ir'.functions[f][i].op \in Calls
                            /\ ir'.functions[f][i].imm + 1 # f
                            /\ leafInlineable'[ir'.functions[f][i].imm + 1])
        BY DEF Settled, Inlines
      <4>1. ~Inlines(f, ir'.functions[f][i])
        BY <3>4
      <4>2. ir'.functions[f][i].op \in Calls => ir'.functions[f][i].imm + 1 \in Functions
        BY DEF Known, CallsInRange
      <4> QED BY <3>1, <4>1, <4>2 DEF Inlines
    <3>5. \A g \in 1 .. position' - 1 : Settled(g)'
      BY <1>1, <1>7, <3>3, <3>4
    <3>6. Cardinality(LeafSet') >= pass'
      BY <1>1, <1>10, <2>1
    <3> QED BY <1>2, <1>8, <3>5, <3>6 DEF Progress
  <2>2. CASE LeafSet' # LeafSet
    <3>1. Cardinality(LeafSet') # Cardinality(LeafSet)
      BY <1>4, <1>5, <2>2, FS_Subset
    <3>2. Cardinality(LeafSet') >= pass' + 1
      BY <1>1, <1>5, <1>6, <1>10, <3>1
    <3> QED BY <1>2, <1>8, <3>2 DEF Progress
  <2> QED BY <2>1, <2>2
<1>11. CASE AllSettled
  <2>1. AllSettled'
    BY <1>1, <1>3, <1>11 DEF AllSettled
  <2> QED BY <1>2, <1>8, <2>1 DEF Progress
<1> QED BY <1>9, <1>10, <1>11 DEF Progress
-----------------------------------------------------------------------------
(***************************************************************************)
(* Preparation as a whole.                                                 *)
(***************************************************************************)
\* The initial states.
LEMMA InitInliner == InlinerInit => InlinerInv
<1> SUFFICES ASSUME InlinerInit PROVE InlinerInv
  OBVIOUS
<1>1. ir \in [entryIndex : Int, functions : Seq(InstrSeq)]
  <2>1. ir \in [entryIndex : Int, functions : Seq(Seq([op : STRING, imm : Word]))]
    BY InlinerAssumption DEF InlinerInit
  <2>2. Word \subseteq Nat
    BY HeapAssumption DEF Word, WordLimit
  <2>3. [op : STRING, imm : Word] \subseteq Instr
    BY <2>2 DEF Instr
  <2>4. ASSUME NEW S, NEW T, S \subseteq T
        PROVE  Seq(S) \subseteq Seq(T)
    BY <2>4
  <2>5. Seq(Seq([op : STRING, imm : Word])) \subseteq Seq(InstrSeq)
    <3>1. Seq([op : STRING, imm : Word]) \subseteq InstrSeq
      BY <2>3, <2>4 DEF InstrSeq
    <3> QED BY <2>4, <3>1
  <2> QED BY <2>1, <2>5
<1> QED BY <1>1 DEF InlinerInit, InlinerInv

\* A valid module calls functions it has.
LEMMA ValidCalls ==
  ASSUME ir \in [entryIndex : Int, functions : Seq(InstrSeq)], ValidModule(ir)
  PROVE  CallsInRange
<1> SUFFICES ASSUME NEW f \in Functions, NEW i \in DOMAIN ir.functions[f],
                    ir.functions[f][i].op \in Calls
             PROVE  ir.functions[f][i].imm + 1 \in Functions
  BY DEF CallsInRange
<1>1. ir.functions[f][i].imm < Len(ir.functions)
  BY DEF ValidModule, ValidInstruction, Functions
<1>2. ir.functions[f][i].imm \in Nat
  <2>1. ir.functions[f] \in Seq(Instr)
    BY DEF Functions, InstrSeq
  <2>2. ir.functions[f][i] \in Instr
    BY <2>1
  <2> QED BY <2>2 DEF Instr
<1> QED BY <1>1, <1>2, LeavesCounted

\* The pass begins (StartInlining).
LEMMA StartKeeps == InlinerInv /\ StartInlining => InlinerInv'
<1> SUFFICES ASSUME InlinerInv, StartInlining PROVE InlinerInv'
  OBVIOUS
<1> USE DEF StartInlining
<1>1. /\ ir \in [entryIndex : Int, functions : Seq(InstrSeq)] /\ CallsInRange
      /\ ir' = ir /\ stage' = "inlining"
      /\ position' = 1 /\ pass' = 0 /\ changedInPass' = FALSE
  BY DEF InlinerInv
<1>2. Known'
  BY <1>1 DEF Known, CallsInRange, Functions
<1>3. Len(ir.functions) \in Nat
  BY <1>1
<1>4. Counters'
  <2>1. MaxPasses' = 2 * Len(ir.functions) + 1
    BY <1>1 DEF MaxPasses
  <2>2. pass' + 1 <= MaxPasses' /\ position' \in 1 .. Len(ir'.functions) + 1
    BY <1>1, <1>3, <2>1
  <2>3. pass' \in Nat
    BY <1>1
  <2>4. changedInPass' \in BOOLEAN
    BY <1>1, Zenon
  <2> QED BY <2>2, <2>3, <2>4, Zenon DEF Counters
<1>5. Progress'
  <2>1. Cardinality(LeafSet') \in Nat
    <3>1. LeafSet' \in SUBSET Functions
      BY <1>1 DEF LeafSet, Functions
    <3>2. IsFiniteSet(Functions)
      BY <1>1, LeavesCounted, FS_Interval
    <3> QED BY <3>1, <3>2, FS_Subset, FS_CardinalityType
  <2>2. 1 .. position' - 1 = {}
    BY <1>1
  <2> QED BY <1>1, <2>1, <2>2 DEF Progress
<1> QED BY <1>1, <1>2, <1>4, <1>5 DEF InlinerInv

\* Another pass, or the last one (EndPass): it cannot be the bound that ends the passes.
LEMMA EndKeeps == InlinerInv /\ EndPass => InlinerInv'
<1> SUFFICES ASSUME InlinerInv, EndPass PROVE InlinerInv'
  OBVIOUS
<1> USE DEF EndPass
<1>1. /\ Known /\ Counters /\ Progress
      /\ ir' = ir /\ localCounts' = localCounts /\ leafInlineable' = leafInlineable
      /\ position = Len(ir.functions) + 1
  BY DEF InlinerInv
<1>2. Known'
  BY <1>1 DEF Known, CallsInRange, Functions
<1>3. /\ Len(ir.functions) \in Nat /\ Functions = 1 .. Len(ir.functions)
      /\ Cardinality(LeafSet) \in Nat /\ Cardinality(LeafSet) <= Len(ir.functions)
  BY <1>1, LeavesCounted DEF Known
<1>4. 1 .. position - 1 = Functions
  BY <1>1, <1>3
<1>5. Cardinality(LeafSet) >= pass + 1 \/ AllSettled
  BY <1>1, <1>4 DEF Progress, AllSettled
<1>6. ~changedInPass => AllSettled
  BY <1>1, <1>4 DEF Progress, AllSettled
<1>7. AllSettled => AllSettled'
  BY <1>1 DEF AllSettled, Settled, Inlines, Functions
<1>8. pass \in Nat /\ MaxPasses = 2 * Len(ir.functions) + 1
  BY <1>1 DEF Counters, MaxPasses
<1>9. CASE /\ changedInPass /\ pass + 1 < MaxPasses
           /\ pass' = pass + 1 /\ position' = 1 /\ changedInPass' = FALSE
           /\ UNCHANGED stage
  <2>1. LeafSet' = LeafSet
    BY <1>1 DEF LeafSet, Functions
  <2>2. 1 .. position' - 1 = {}
    BY <1>9
  <2>3. Progress'
    BY <1>5, <1>7, <1>9, <2>1, <2>2 DEF Progress
  <2>4. Counters'
    <3>1. MaxPasses' = MaxPasses
      BY <1>1 DEF MaxPasses
    <3>2. pass' + 1 <= MaxPasses' /\ position' \in 1 .. Len(ir'.functions) + 1
      BY <1>1, <1>3, <1>8, <1>9, <3>1
    <3>3. pass' \in Nat
      BY <1>8, <1>9
    <3>4. changedInPass' \in BOOLEAN
      BY <1>9, Zenon
    <3> QED BY <3>2, <3>3, <3>4, Zenon DEF Counters
  <2> QED BY <1>1, <1>2, <1>9, <2>3, <2>4 DEF InlinerInv, Known
<1>10. CASE (~changedInPass \/ pass + 1 = MaxPasses) /\ stage' = "revalidation"
  <2>1. CASE pass + 1 = MaxPasses
    <3>1. ~(Cardinality(LeafSet) >= pass + 1)
      BY <1>3, <1>8, <2>1
    <3>2. AllSettled'
      BY <1>5, <1>7, <3>1
    <3> QED BY <1>1, <1>2, <1>10, <3>2 DEF InlinerInv, Known
  <2>2. CASE ~changedInPass
    <3>1. AllSettled'
      BY <1>6, <1>7, <2>2
    <3> QED BY <1>1, <1>2, <1>10, <3>1 DEF InlinerInv, Known
  <2> QED BY <1>10, <2>1, <2>2
<1> QED BY <1>9, <1>10

\* The invariant is kept by every step of the preparation and of the runs.
LEMMA InlinerKept == InlinerInv /\ [InlinerNext]_inlinerVars => InlinerInv'
<1> SUFFICES ASSUME InlinerInv, [InlinerNext]_inlinerVars PROVE InlinerInv'
  OBVIOUS
<1>1. ASSUME UNCHANGED <<ir, inlining>>,
             \/ stage' = stage
             \/ stage = "validation" /\ stage' = "rejected"
             \/ stage = "validation" /\ stage' = "plain" /\ ValidModule(ir)
             \/ stage = "revalidation" /\ stage' \in {"inlined", "rejected"}
      PROVE  InlinerInv'
  <2>1. /\ ir' = ir /\ localCounts' = localCounts /\ leafInlineable' = leafInlineable
        /\ position' = position /\ pass' = pass /\ changedInPass' = changedInPass
    BY <1>1 DEF inlining
  <2>2. /\ Known => Known'
        /\ CallsInRange => CallsInRange'
        /\ Counters => Counters'
        /\ AllSettled => AllSettled'
        /\ Progress => Progress'
    BY <2>1 DEF Known, CallsInRange, Counters, MaxPasses, AllSettled, Settled, Inlines,
                Functions, Progress, LeafSet
  <2>3. ir \in [entryIndex : Int, functions : Seq(InstrSeq)]
    BY DEF InlinerInv
  <2>4. ValidModule(ir) => CallsInRange
    BY <2>3, ValidCalls
  <2>5. CASE stage' = stage
    BY <2>1, <2>2, <2>5 DEF InlinerInv
  <2>6. CASE stage = "validation" /\ stage' = "rejected"
    BY <2>1, <2>2, <2>6 DEF InlinerInv
  <2>7. CASE stage = "validation" /\ stage' = "plain" /\ ValidModule(ir)
    BY <2>1, <2>2, <2>4, <2>7 DEF InlinerInv
  <2>8. CASE stage = "revalidation" /\ stage' \in {"inlined", "rejected"}
    BY <2>1, <2>2, <2>8 DEF InlinerInv
  <2> QED BY <1>1, <2>5, <2>6, <2>7, <2>8
<1>2. CASE ValidateLowered
  BY <1>1, <1>2 DEF ValidateLowered, Validate
<1>3. CASE RunModule
  BY <1>1, <1>3 DEF RunModule, prepared
<1>4. CASE ValidateInlined
  BY <1>1, <1>4 DEF ValidateInlined, Validate
<1>5. CASE UNCHANGED inlinerVars
  BY <1>1, <1>5 DEF inlinerVars, prepared
<1>6. CASE InlineFunction
  <2>1. /\ Known /\ Counters /\ Progress /\ stage = "inlining" /\ stage' = stage
    BY <1>6 DEF InlineFunction, InlinerInv
  <2>2. Known' /\ Counters' /\ Progress'
    BY <1>6, <2>1, TurnProgress
  <2> QED BY <2>1, <2>2 DEF InlinerInv, Known
<1> QED BY <1>2, <1>3, <1>4, <1>5, <1>6, StartKeeps, EndKeeps DEF InlinerNext

\* InlinerInv holds throughout.
LEMMA InlinerInvariance == InlinerSpec => []InlinerInv
<1>1. QED BY InitInliner, InlinerKept, PTL DEF InlinerSpec

\* The counts of locals and the leaves that the pass keeps from function to function
\* and from pass to pass are those of the code it has written so far
\* (computeLocalCount, inlineIrModuleCalls), for every module.
THEOREM CountsStayExact == InlinerSpec => []CountsExact
<1>1. InlinerInv => CountsExact
  <2> SUFFICES ASSUME InlinerInv, NEW f \in DOMAIN localCounts
               PROVE  /\ localCounts[f] = LocalCount(ir.functions[f])
                      /\ leafInlineable[f] = IsLeaf(ir.functions[f])
    BY DEF CountsExact
  <2>1. Known
    BY DEF InlinerInv
  <2> QED BY <2>1 DEF Known
<1> QED BY <1>1, InlinerInvariance, PTL

\* The passes that inlineIrModuleCalls allows itself are enough for every module: when
\* it stops, no function calls a leaf other than itself.
THEOREM PassesSuffice == InlinerSpec => []NoLeafCallLeft
<1>1. InlinerInv => NoLeafCallLeft
  BY DEF InlinerInv, NoLeafCallLeft, AllSettled, Settled
<1> QED BY <1>1, InlinerInvariance, PTL
-----------------------------------------------------------------------------
(***************************************************************************)
(* Sequences of anything.  What two runs have in common is what they put   *)
(* where, not of what kind it is.                                          *)
(***************************************************************************)
IsSeq(s) == \E S : s \in Seq(S)

\* A sequence has a length.
LEMMA SeqFacts ==
  ASSUME NEW s, IsSeq(s)
  PROVE  Len(s) \in Nat /\ DOMAIN s = 1 .. Len(s)
BY DEF IsSeq

\* The empty sequence, and a sequence of one.
LEMMA ShortSeq == IsSeq(<<>>) /\ Len(<<>>) = 0 /\ \A x : IsSeq(<<x>>) /\ Len(<<x>>) = 1
<1>1. <<>> \in Seq({})
  OBVIOUS
<1>2. ASSUME NEW x PROVE <<x>> \in Seq({x}) /\ Len(<<x>>) = 1
  OBVIOUS
<1> QED BY <1>1, <1>2 DEF IsSeq

\* Two sequences have elements in common with a larger set.
LEMMA SeqTogether ==
  ASSUME NEW s, IsSeq(s), NEW t, IsSeq(t)
  PROVE  \E S : s \in Seq(S) /\ t \in Seq(S)
<1>1. PICK S : s \in Seq(S)
  BY DEF IsSeq
<1>2. PICK T : t \in Seq(T)
  BY DEF IsSeq
<1>3. s \in Seq(S \cup T) /\ t \in Seq(S \cup T)
  BY <1>1, <1>2
<1> QED BY <1>3

\* One more element.
LEMMA AppendFacts ==
  ASSUME NEW s, IsSeq(s), NEW x
  PROVE  /\ IsSeq(Append(s, x))
         /\ Len(Append(s, x)) = Len(s) + 1
         /\ \A i \in 1 .. Len(s) : Append(s, x)[i] = s[i]
         /\ Append(s, x)[Len(s) + 1] = x
<1>1. PICK S : s \in Seq(S) /\ <<x>> \in Seq(S)
  BY ShortSeq, SeqTogether
<1>2. x \in S
  BY <1>1
<1>3. Append(s, x) \in Seq(S)
  BY <1>1, <1>2
<1> QED BY <1>1, <1>2, <1>3 DEF IsSeq

\* One sequence after another.
LEMMA ConcatFacts ==
  ASSUME NEW s, IsSeq(s), NEW t, IsSeq(t)
  PROVE  /\ IsSeq(s \o t)
         /\ Len(s \o t) = Len(s) + Len(t)
         /\ \A i \in 1 .. Len(s) : (s \o t)[i] = s[i]
         /\ \A i \in 1 .. Len(t) : (s \o t)[Len(s) + i] = t[i]
<1>1. PICK S : s \in Seq(S) /\ t \in Seq(S)
  BY SeqTogether
<1>2. s \o t \in Seq(S)
  BY <1>1
<1> QED BY <1>1, <1>2 DEF IsSeq

Without(s, n) == SubSeq(s, 1, Len(s) - n)

\* All but the last n elements.
LEMMA WithoutFacts ==
  ASSUME NEW s, IsSeq(s), NEW n \in Nat, n <= Len(s)
  PROVE  /\ IsSeq(Without(s, n))
         /\ Len(Without(s, n)) = Len(s) - n
         /\ \A i \in 1 .. Len(s) - n : Without(s, n)[i] = s[i]
<1>1. PICK S : s \in Seq(S)
  BY DEF IsSeq
<1>2. Without(s, n) \in Seq(S)
  BY <1>1 DEF Without
<1>3. Len(Without(s, n)) = Len(s) - n /\ \A i \in 1 .. Len(s) - n : Without(s, n)[i] = s[i]
  BY <1>1 DEF Without
<1> QED BY <1>2, <1>3 DEF IsSeq

\* Two sequences are the same if their elements are.
LEMMA SameSeq ==
  ASSUME NEW s, IsSeq(s), NEW t, IsSeq(t), Len(s) = Len(t), \A i \in 1 .. Len(s) : s[i] = t[i]
  PROVE  s = t
<1>1. PICK S : s \in Seq(S) /\ t \in Seq(S)
  BY SeqTogether
<1> QED BY <1>1

\* One element after a sequence.
LEMMA ConcatOne ==
  ASSUME NEW s, IsSeq(s), NEW x
  PROVE  s \o <<x>> = Append(s, x)
<1>1. PICK S : s \in Seq(S)
  BY DEF IsSeq
<1>2. s \in Seq(S \cup {x})
  BY <1>1
<1> QED BY <1>2

\* A stack keeps what is taken from it and put back, and gains what is appended.
LEMMA PutBack ==
  ASSUME NEW s, IsSeq(s)
  PROVE  /\ Len(s) >= 1 => Without(s, 1) \o <<s[Len(s)]>> = s
         /\ Without(s, 0) \o <<>> = s
         /\ \A x : Without(s, 0) \o <<x>> = Append(s, x)
<1>1. PICK S : s \in Seq(S)
  BY DEF IsSeq
<1>2. Without(s, 0) = s
  BY <1>1 DEF Without
<1>3. s \o <<>> = s
  BY <1>1
<1>4. ASSUME NEW t, IsSeq(t), NEW x, Len(s) = Len(t) + 1, x = s[Len(s)],
             \A i \in 1 .. Len(t) : t[i] = s[i]
      PROVE  Append(t, x) = s
  <2>1. /\ IsSeq(Append(t, x)) /\ Len(Append(t, x)) = Len(s)
        /\ \A i \in 1 .. Len(t) : Append(t, x)[i] = s[i]
        /\ Append(t, x)[Len(s)] = s[Len(s)]
    BY <1>4, AppendFacts
  <2>2. \A i \in 1 .. Len(s) : i \in 1 .. Len(t) \/ i = Len(s)
    BY <1>4, SeqFacts
  <2>3. \A i \in 1 .. Len(s) : Append(t, x)[i] = s[i]
    BY <2>1, <2>2
  <2> QED BY <2>1, <2>3, SameSeq
<1>5. ASSUME Len(s) >= 1
      PROVE  Without(s, 1) \o <<s[Len(s)]>> = s
  <2>1. /\ IsSeq(Without(s, 1)) /\ Len(Without(s, 1)) = Len(s) - 1 /\ Len(s) \in Nat
        /\ \A i \in 1 .. Len(s) - 1 : Without(s, 1)[i] = s[i]
    BY <1>5, SeqFacts, WithoutFacts
  <2>2. Append(Without(s, 1), s[Len(s)]) = s
    <3>1. Len(s) = Len(Without(s, 1)) + 1
      BY <2>1
    <3> QED BY <1>4, <2>1, <3>1
  <2> QED BY <2>1, <2>2, ConcatOne
<1> QED BY <1>2, <1>3, <1>5, ConcatOne
-----------------------------------------------------------------------------
(***************************************************************************)
(* One run of a module, apart from the machine that makes it: the frame    *)
(* that is running, its callers, the operands, the heap and what has been  *)
(* printed.  Steps are those that do not fail, and at which inlining is    *)
(* not seen: no callee names the address of a local or returns a word      *)
(* other than its operand.                                                 *)
(***************************************************************************)
Indirect == {"LoadIndirect", "StoreIndirect"}
Basics == Opcodes \ (Calls \cup Returns \cup Jumps)

\* What an instruction that stays in its function sees and changes.
Data(s) == [locals |-> s.top.locals, stack |-> s.stack, heap |-> s.heap, output |-> s.output]

Arg(d, n) == d.stack[Len(d.stack) - n]
Slot(inst, d) ==
  ResolveIndirectAddress(Arg(d, IF inst.op = "StoreIndirect" THEN 1 ELSE 0), Len(d.locals), d.heap)
HeapDone(inst, d) ==
  CASE inst.op = "HeapAlloc" -> AllocateVmHeapSlots(Arg(d, 0), d.heap)
    [] inst.op = "HeapFree" -> FreeVmHeapSlots(Arg(d, 0), d.heap)
    [] inst.op = "HeapRealloc" -> ReallocVmHeapSlots(Arg(d, 1), Arg(d, 0), d.heap)

Works(inst, d) ==
  /\ Operands(inst.op) <= Len(d.stack)
  /\ inst.op \in LocalOps => inst.imm < Len(d.locals)
  /\ inst.op = "DivU64" => Arg(d, 0) # 0
  /\ inst.op \in Indirect => Slot(inst, d).ok
  /\ inst.op \in HeapOps => HeapDone(inst, d).ok

SeesAddress(inst, d) ==
  \/ inst.op = "AddressOfLocal"
  \/ inst.op \in Indirect /\ Slot(inst, d).space = "local"

NewLocals(inst, d) ==
  IF inst.op = "StoreLocal" THEN [d.locals EXCEPT ![inst.imm + 1] = Arg(d, 0)]
  ELSE IF inst.op = "StoreIndirect" /\ Slot(inst, d).space = "local"
    THEN [d.locals EXCEPT ![Slot(inst, d).index] = Arg(d, 0)]
  ELSE d.locals

NewHeap(inst, d) ==
  IF inst.op \in HeapOps THEN HeapDone(inst, d).heap
  ELSE IF inst.op = "StoreIndirect" /\ Slot(inst, d).space = "heap"
    THEN [d.heap EXCEPT !.slots[Slot(inst, d).index] = Arg(d, 0)]
  ELSE d.heap

\* The words an instruction leaves in the place of its operands.
Left(inst, d) ==
  CASE inst.op = "PushI32" -> <<SignExtend(inst.imm)>>
    [] inst.op = "PushI64" -> <<inst.imm>>
    [] inst.op = "PushArgc" -> <<SignExtend(ArgCount)>>
    [] inst.op = "LoadLocal" -> <<d.locals[inst.imm + 1]>>
    [] inst.op = "AddressOfLocal" -> <<(inst.imm * SlotBytes) % WordLimit>>
    [] inst.op = "LoadIndirect" ->
         <<IF Slot(inst, d).space = "heap" THEN d.heap.slots[Slot(inst, d).index]
           ELSE d.locals[Slot(inst, d).index]>>
    [] inst.op = "StoreIndirect" -> <<Arg(d, 0)>>
    [] inst.op \in {"HeapAlloc", "HeapRealloc"} -> <<HeapDone(inst, d).address>>
    [] inst.op = "Dup" -> <<Arg(d, 0)>>
    [] inst.op \in {"StoreLocal", "HeapFree", "Pop", "PrintI32"} -> <<>>
    [] inst.op = "SubI64" -> <<(Arg(d, 1) - Arg(d, 0)) % WordLimit>>
    [] inst.op = "DivU64" -> <<Arg(d, 1) \div Arg(d, 0)>>

Taken(inst) == IF inst.op = "Dup" THEN 0 ELSE Operands(inst.op)
NewStack(inst, d) == Without(d.stack, Taken(inst)) \o Left(inst, d)
NewOutput(inst, d) == IF inst.op = "PrintI32" THEN Append(d.output, Arg(d, 0)) ELSE d.output

-----------------------------------------------------------------------------
\* A frame of the same activation, elsewhere and with other locals.
Moved(a, ip, locals) ==
  [functionIndex |-> a.functionIndex, ip |-> ip, locals |-> locals,
   returnValueToCaller |-> a.returnValueToCaller]

CodeOf(m, a) == m.functions[a.functionIndex + 1]
InstOf(m, a) == CodeOf(m, a)[a.ip + 1]

\* What a return returns, and whether it is what its caller gets when it is inlined.
ValueOf(op, words) ==
  CASE op = "ReturnVoid" -> 0
    [] op = "ReturnI32" -> SignExtend(words[Len(words)])
    [] op = "ReturnI64" -> words[Len(words)]
    [] op = "ReturnF32" -> words[Len(words)] % HalfLimit
Narrows(op, words) == op \in Returns \ {"ReturnVoid"} /\ ValueOf(op, words) # words[Len(words)]

BasicStep(m, s, t) ==
  LET inst == InstOf(m, s.top)
      d == Data(s) IN
  /\ inst.op \in Basics
  /\ Works(inst, d)
  /\ s.callers # <<>> => ~SeesAddress(inst, d)
  /\ t = [top |-> Moved(s.top, s.top.ip + 1, NewLocals(inst, d)), callers |-> s.callers,
          stack |-> NewStack(inst, d), heap |-> NewHeap(inst, d), output |-> NewOutput(inst, d)]

JumpStep(m, s, t) ==
  LET inst == InstOf(m, s.top)
      taken == (inst.op = "Jump") \/ (s.stack[Len(s.stack)] = 0) IN
  /\ inst.op \in Jumps
  /\ Operands(inst.op) <= Len(s.stack)
  /\ inst.imm <= Len(CodeOf(m, s.top))
  /\ t = [top |-> Moved(s.top, IF taken THEN inst.imm ELSE s.top.ip + 1, s.top.locals),
          callers |-> s.callers, stack |-> Without(s.stack, Operands(inst.op)),
          heap |-> s.heap, output |-> s.output]

CallStep(m, s, t) ==
  LET inst == InstOf(m, s.top) IN
  /\ inst.op \in Calls
  /\ inst.imm < Len(m.functions)
  /\ Len(s.callers) + 1 < MaxCallDepth
  /\ t = [top |-> NewFrame(m.functions, inst.imm, inst.op = "Call"),
          callers |-> Append(s.callers, Moved(s.top, s.top.ip + 1, s.top.locals)),
          stack |-> s.stack, heap |-> s.heap, output |-> s.output]

ReturnStep(m, s, t) ==
  LET inst == InstOf(m, s.top) IN
  /\ inst.op \in Returns
  /\ Operands(inst.op) <= Len(s.stack)
  /\ s.callers # <<>>
  /\ ~Narrows(inst.op, s.stack)
  /\ t = [top |-> s.callers[Len(s.callers)], callers |-> Without(s.callers, 1),
          stack |-> Without(s.stack, Operands(inst.op))
                      \o (IF s.top.returnValueToCaller THEN <<ValueOf(inst.op, s.stack)>>
                          ELSE <<>>),
          heap |-> s.heap, output |-> s.output]

InCode(m, s) == s.top.ip < Len(CodeOf(m, s.top))
Step(m, s, t) ==
  /\ InCode(m, s)
  /\ BasicStep(m, s, t) \/ JumpStep(m, s, t) \/ CallStep(m, s, t) \/ ReturnStep(m, s, t)

\* The return that ends the run, and what the run then came to.
ExitsWith(m, s, out) ==
  LET inst == InstOf(m, s.top) IN
  /\ InCode(m, s)
  /\ inst.op \in Returns
  /\ Operands(inst.op) <= Len(s.stack)
  /\ s.callers = <<>>
  /\ out = [status |-> "returned", result |-> ValueOf(inst.op, s.stack), output |-> s.output]

Begin(m) ==
  [top |-> NewFrame(m.functions, m.entryIndex, FALSE), callers |-> <<>>,
   stack |-> <<>>, heap |-> EmptyHeap, output |-> <<>>]

-----------------------------------------------------------------------------
(***************************************************************************)
(* A state from which the run comes to an outcome, in n steps or in some.  *)
(***************************************************************************)
ComesIn(m, s, out, n) ==
  \E r : /\ r[0] = s
         /\ \A i \in 0 .. n - 1 : Step(m, r[i], r[i + 1])
         /\ ExitsWith(m, r[n], out)
Comes(m, s, out) == \E n \in Nat : ComesIn(m, s, out, n)

\* In no steps.
LEMMA ComesNow ==
  ASSUME NEW m, NEW s, NEW out
  PROVE  ComesIn(m, s, out, 0) <=> ExitsWith(m, s, out)
<1>1. ASSUME ComesIn(m, s, out, 0) PROVE ExitsWith(m, s, out)
  BY <1>1, Zenon DEF ComesIn
<1>2. ASSUME ExitsWith(m, s, out) PROVE ComesIn(m, s, out, 0)
  <2> DEFINE r == [i \in {0} |-> s]
  <2>1. r[0] = s
    OBVIOUS
  <2>2. 0 .. 0 - 1 = {}
    OBVIOUS
  <2> HIDE DEF r
  <2>3. \A i \in 0 .. 0 - 1 : Step(m, r[i], r[i + 1])
    BY <2>2
  <2> QED BY <1>2, <2>1, <2>3, Zenon DEF ComesIn
<1> QED BY <1>1, <1>2

\* In one step more than what follows the first.
LEMMA ComesNext ==
  ASSUME NEW m, NEW s, NEW out, NEW n \in Nat
  PROVE  ComesIn(m, s, out, n + 1) <=> \E t : Step(m, s, t) /\ ComesIn(m, t, out, n)
<1>1. ASSUME ComesIn(m, s, out, n + 1)
      PROVE  \E t : Step(m, s, t) /\ ComesIn(m, t, out, n)
  <2>1. PICK r : /\ r[0] = s
                 /\ \A i \in 0 .. (n + 1) - 1 : Step(m, r[i], r[i + 1])
                 /\ ExitsWith(m, r[n + 1], out)
    BY <1>1, Zenon DEF ComesIn
  <2> DEFINE q == [i \in 0 .. n |-> r[i + 1]]
  <2>2. Step(m, s, r[1])
    <3>1. 0 \in 0 .. (n + 1) - 1 /\ 0 + 1 = 1
      OBVIOUS
    <3>2. Step(m, r[0], r[0 + 1])
      BY <2>1, <3>1, Zenon
    <3> QED BY <2>1, <3>1, <3>2
  <2>3. q[0] = r[1] /\ q[n] = r[n + 1]
    OBVIOUS
  <2>4. ASSUME NEW i \in 0 .. n - 1
        PROVE  Step(m, q[i], q[i + 1])
    <3>1. i + 1 \in 0 .. (n + 1) - 1 /\ q[i] = r[i + 1] /\ q[i + 1] = r[(i + 1) + 1]
      OBVIOUS
    <3>2. Step(m, r[i + 1], r[(i + 1) + 1])
      BY <2>1, <3>1, Zenon
    <3> HIDE DEF q
    <3> QED BY <3>1, <3>2
  <2>5. ComesIn(m, r[1], out, n)
    <3> HIDE DEF q
    <3>1. ExitsWith(m, q[n], out)
      BY <2>1, <2>3
    <3> QED BY <2>3, <2>4, <3>1, Zenon DEF ComesIn
  <2> QED BY <2>2, <2>5
<1>2. ASSUME NEW t, Step(m, s, t), ComesIn(m, t, out, n)
      PROVE  ComesIn(m, s, out, n + 1)
  <2>1. PICK r : /\ r[0] = t
                 /\ \A i \in 0 .. n - 1 : Step(m, r[i], r[i + 1])
                 /\ ExitsWith(m, r[n], out)
    BY <1>2, Zenon DEF ComesIn
  <2> DEFINE q == [i \in 0 .. n + 1 |-> IF i = 0 THEN s ELSE r[i - 1]]
  <2>2. q[0] = s /\ q[1] = r[0] /\ q[n + 1] = r[n]
    OBVIOUS
  <2>3. ASSUME NEW i \in 0 .. (n + 1) - 1
        PROVE  Step(m, q[i], q[i + 1])
    <3>1. CASE i = 0
      <4>1. q[i] = s /\ q[i + 1] = r[0]
        BY <2>2, <3>1
      <4> HIDE DEF q
      <4> QED BY <1>2, <2>1, <4>1
    <3>2. CASE i # 0
      <4>1. i - 1 \in 0 .. n - 1 /\ q[i] = r[i - 1] /\ q[i + 1] = r[(i - 1) + 1]
        BY <3>2
      <4>2. Step(m, r[i - 1], r[(i - 1) + 1])
        BY <2>1, <4>1, Zenon
      <4> HIDE DEF q
      <4> QED BY <4>1, <4>2
    <3> QED BY <3>1, <3>2
  <2>4. ExitsWith(m, q[n + 1], out)
    <3> HIDE DEF q
    <3> QED BY <2>1, <2>2
  <2> HIDE DEF q
  <2> QED BY <2>2, <2>3, <2>4, Zenon DEF ComesIn
<1> QED BY <1>1, <1>2

\* A run comes to an outcome with its last return or by a step.
LEMMA ComesFacts ==
  ASSUME NEW m, NEW s, NEW out
  PROVE  Comes(m, s, out) <=>
           ExitsWith(m, s, out) \/ \E t : (Step(m, s, t) /\ Comes(m, t, out))
<1>1. ASSUME NEW n \in Nat, ComesIn(m, s, out, n)
      PROVE  ExitsWith(m, s, out) \/ \E t : (Step(m, s, t) /\ Comes(m, t, out))
  <2>1. CASE n = 0
    <3>1. ComesIn(m, s, out, 0)
      BY <1>1, <2>1
    <3> QED BY <3>1, ComesNow
  <2>2. CASE n # 0
    <3>1. n - 1 \in Nat /\ (n - 1) + 1 = n
      BY <2>2
    <3>2. ComesIn(m, s, out, (n - 1) + 1)
      BY <1>1, <3>1
    <3>3. \E t : Step(m, s, t) /\ ComesIn(m, t, out, n - 1)
      BY <3>1, <3>2, ComesNext
    <3> QED BY <3>1, <3>3 DEF Comes
  <2> QED BY <2>1, <2>2
<1>2. ASSUME ExitsWith(m, s, out)
      PROVE  Comes(m, s, out)
  <2>1. ComesIn(m, s, out, 0) /\ 0 \in Nat
    BY <1>2, ComesNow
  <2> QED BY <2>1 DEF Comes
<1>3. ASSUME NEW t, Step(m, s, t), Comes(m, t, out)
      PROVE  Comes(m, s, out)
  <2>1. PICK n \in Nat : ComesIn(m, t, out, n)
    BY <1>3 DEF Comes
  <2>2. ComesIn(m, s, out, n + 1) /\ n + 1 \in Nat
    BY <1>3, <2>1, ComesNext
  <2> QED BY <2>2 DEF Comes
<1> QED BY <1>1, <1>2, <1>3 DEF Comes

\* There is at most one next step, and none after the last.
LEMMA StepDetermined ==
  ASSUME NEW m, NEW s, NEW t, Step(m, s, t)
  PROVE  /\ \A u : Step(m, s, u) => u = t
         /\ \A out : ~ExitsWith(m, s, out)
<1> DEFINE op == InstOf(m, s.top).op
<1>1. /\ Basics \cap Jumps = {} /\ Basics \cap Calls = {} /\ Basics \cap Returns = {}
      /\ Jumps \cap Calls = {} /\ Jumps \cap Returns = {} /\ Calls \cap Returns = {}
  BY DEF Basics, Jumps, Calls, Returns
<1>2. CASE BasicStep(m, s, t)
  <2>1. op \in Basics
    BY <1>2 DEF BasicStep
  <2>2. \A u : ~JumpStep(m, s, u) /\ ~CallStep(m, s, u) /\ ~ReturnStep(m, s, u)
    BY <1>1, <2>1 DEF JumpStep, CallStep, ReturnStep
  <2>3. \A u : BasicStep(m, s, u) => u = t
    BY <1>2, Zenon DEF BasicStep
  <2>4. \A out : ~ExitsWith(m, s, out)
    BY <1>1, <2>1 DEF ExitsWith
  <2> QED BY <2>2, <2>3, <2>4 DEF Step
<1>3. CASE JumpStep(m, s, t)
  <2>1. op \in Jumps
    BY <1>3 DEF JumpStep
  <2>2. \A u : ~BasicStep(m, s, u) /\ ~CallStep(m, s, u) /\ ~ReturnStep(m, s, u)
    BY <1>1, <2>1 DEF BasicStep, CallStep, ReturnStep
  <2>3. \A u : JumpStep(m, s, u) => u = t
    BY <1>3, Zenon DEF JumpStep
  <2>4. \A out : ~ExitsWith(m, s, out)
    BY <1>1, <2>1 DEF ExitsWith
  <2> QED BY <2>2, <2>3, <2>4 DEF Step
<1>4. CASE CallStep(m, s, t)
  <2>1. op \in Calls
    BY <1>4 DEF CallStep
  <2>2. \A u : ~BasicStep(m, s, u) /\ ~JumpStep(m, s, u) /\ ~ReturnStep(m, s, u)
    BY <1>1, <2>1 DEF BasicStep, JumpStep, ReturnStep
  <2>3. \A u : CallStep(m, s, u) => u = t
    BY <1>4, Zenon DEF CallStep
  <2>4. \A out : ~ExitsWith(m, s, out)
    BY <1>1, <2>1 DEF ExitsWith
  <2> QED BY <2>2, <2>3, <2>4 DEF Step
<1>5. CASE ReturnStep(m, s, t)
  <2>1. op \in Returns /\ s.callers # <<>>
    BY <1>5 DEF ReturnStep
  <2>2. \A u : ~BasicStep(m, s, u) /\ ~JumpStep(m, s, u) /\ ~CallStep(m, s, u)
    BY <1>1, <2>1 DEF BasicStep, JumpStep, CallStep
  <2>3. \A u : ReturnStep(m, s, u) => u = t
    BY <1>5, Zenon DEF ReturnStep
  <2>4. \A out : ~ExitsWith(m, s, out)
    BY <2>1 DEF ExitsWith
  <2> QED BY <2>2, <2>3, <2>4 DEF Step
<1> QED BY <1>2, <1>3, <1>4, <1>5 DEF Step
-----------------------------------------------------------------------------
(***************************************************************************)
(* The states of a run.                                                    *)
(***************************************************************************)
IsModule(m) ==
  /\ m \in [entryIndex : Int, functions : Seq(InstrSeq)]
  /\ \A g \in DOMAIN m.functions : \A i \in DOMAIN m.functions[g] :
       m.functions[g][i].op = "PushI64" => m.functions[g][i].imm \in Word

FrameOK(m, a) ==
  /\ a = Moved(a, a.ip, a.locals)
  /\ a.functionIndex \in Nat /\ a.functionIndex + 1 \in DOMAIN m.functions
  /\ a.ip \in Nat /\ a.ip <= Len(CodeOf(m, a))
  /\ a.locals \in Seq(Word) /\ Len(a.locals) = LocalCount(CodeOf(m, a))

StateOK(m, s) ==
  /\ FrameOK(m, s.top)
  /\ IsSeq(s.callers) /\ \A i \in 1 .. Len(s.callers) : FrameOK(m, s.callers[i])
  /\ s.stack \in Seq(Word)
  /\ HeapOK(s.heap)

\* A frame's function is a sequence of instructions, and so is its next instruction one.
LEMMA FrameFacts ==
  ASSUME NEW m, IsModule(m), NEW a, FrameOK(m, a)
  PROVE  /\ CodeOf(m, a) \in InstrSeq
         /\ Len(CodeOf(m, a)) \in Nat /\ DOMAIN CodeOf(m, a) = 1 .. Len(CodeOf(m, a))
         /\ LocalCount(CodeOf(m, a)) \in Nat
         /\ a.ip < Len(CodeOf(m, a)) =>
              /\ InstOf(m, a) \in Instr /\ InstOf(m, a).imm \in Nat
              /\ InstOf(m, a).op = "PushI64" => InstOf(m, a).imm \in Word
              /\ a.ip + 1 \in DOMAIN CodeOf(m, a)
<1>1. CodeOf(m, a) \in InstrSeq
  BY DEF IsModule, FrameOK, CodeOf
<1>2. LocalCount(CodeOf(m, a)) \in Nat
  BY <1>1, LocalCountExists DEF IsLocalCount
<1>3. Len(CodeOf(m, a)) \in Nat /\ DOMAIN CodeOf(m, a) = 1 .. Len(CodeOf(m, a))
  BY <1>1 DEF InstrSeq
<1>4. ASSUME a.ip < Len(CodeOf(m, a))
      PROVE  /\ InstOf(m, a) \in Instr /\ InstOf(m, a).imm \in Nat
             /\ InstOf(m, a).op = "PushI64" => InstOf(m, a).imm \in Word
             /\ a.ip + 1 \in DOMAIN CodeOf(m, a)
  <2>1. a.ip + 1 \in DOMAIN CodeOf(m, a)
    BY <1>3, <1>4 DEF FrameOK
  <2>2. InstOf(m, a) \in Instr
    BY <1>1, <2>1 DEF InstOf, InstrSeq
  <2>3. InstOf(m, a).imm \in Nat
    BY <2>2 DEF Instr
  <2>4. InstOf(m, a).op = "PushI64" => InstOf(m, a).imm \in Word
    BY <2>1 DEF IsModule, FrameOK, InstOf, CodeOf
  <2> QED BY <2>1, <2>2, <2>3, <2>4
<1> QED BY <1>1, <1>2, <1>3, <1>4

\* A frame that has moved.
LEMMA MovedFrame ==
  ASSUME NEW m, NEW a, FrameOK(m, a), NEW ip \in Nat, ip <= Len(CodeOf(m, a)),
         NEW locals \in Seq(Word), Len(locals) = Len(a.locals)
  PROVE  /\ FrameOK(m, Moved(a, ip, locals))
         /\ Moved(a, ip, locals).functionIndex = a.functionIndex
         /\ Moved(a, ip, locals).ip = ip
         /\ Moved(a, ip, locals).locals = locals
         /\ Moved(a, ip, locals).returnValueToCaller = a.returnValueToCaller
         /\ CodeOf(m, Moved(a, ip, locals)) = CodeOf(m, a)
<1>1. /\ Moved(a, ip, locals).functionIndex = a.functionIndex
      /\ Moved(a, ip, locals).ip = ip
      /\ Moved(a, ip, locals).locals = locals
      /\ Moved(a, ip, locals).returnValueToCaller = a.returnValueToCaller
  BY DEF Moved
<1>2. CodeOf(m, Moved(a, ip, locals)) = CodeOf(m, a)
  BY <1>1 DEF CodeOf
<1>3. Moved(Moved(a, ip, locals), ip, locals) = Moved(a, ip, locals)
  BY DEF Moved
<1> QED BY <1>1, <1>2, <1>3 DEF FrameOK

\* A function's locals are zero when it is called.
LEMMA NewFrameFacts ==
  ASSUME NEW m, IsModule(m), NEW k \in Nat, k + 1 \in DOMAIN m.functions, NEW wanted
  PROVE  LET a == NewFrame(m.functions, k, wanted) IN
         /\ FrameOK(m, a)
         /\ a.functionIndex = k /\ a.ip = 0 /\ a.returnValueToCaller = wanted
         /\ Len(a.locals) = LocalCount(m.functions[k + 1])
         /\ \A i \in 1 .. Len(a.locals) : a.locals[i] = 0
         /\ CodeOf(m, a) = m.functions[k + 1]
<1> DEFINE code == m.functions[k + 1]
           a == NewFrame(m.functions, k, wanted)
           locals == [i \in 1 .. LocalCount(code) |-> 0]
<1>1. code \in InstrSeq /\ LocalCount(code) \in Nat /\ Len(code) \in Nat
  <2>1. code \in InstrSeq
    BY DEF IsModule
  <2> QED BY <2>1, LocalCountExists DEF IsLocalCount, InstrSeq
<1>2. /\ a = [functionIndex |-> k, ip |-> 0, locals |-> locals, returnValueToCaller |-> wanted]
      /\ a.functionIndex = k /\ a.ip = 0 /\ a.returnValueToCaller = wanted /\ a.locals = locals
      /\ a = Moved(a, a.ip, a.locals)
  BY DEF NewFrame, Moved
<1>3. locals \in Seq(Word) /\ Len(locals) = LocalCount(code)
  BY <1>1, Words
<1>4. \A i \in 1 .. Len(locals) : locals[i] = 0
  BY <1>3
<1>5. CodeOf(m, a) = code
  BY <1>2 DEF CodeOf
<1> HIDE DEF a, locals, code
<1>7. FrameOK(m, a)
  BY <1>1, <1>2, <1>3, <1>5 DEF FrameOK
<1> QED BY <1>2, <1>3, <1>4, <1>5, <1>7 DEF a, code

Stored(t, s, i, x) == t = [s EXCEPT ![i] = x]

\* A store leaves a sequence as long as it was.
LEMMA StoredFacts ==
  ASSUME NEW s, IsSeq(s), NEW i, NEW x, NEW t, Stored(t, s, i, x)
  PROVE  /\ IsSeq(t)
         /\ Len(t) = Len(s)
         /\ \A j \in 1 .. Len(s) : t[j] = IF j = i THEN x ELSE s[j]
<1>1. PICK S : s \in Seq(S)
  BY DEF IsSeq
<1>2. s \in Seq(S \cup {x})
  BY <1>1
<1> DEFINE n == Len(s)
           u == [j \in 1 .. n |-> IF j = i THEN x ELSE s[j]]
<1>3. t = u
  <2>1. s = [j \in 1 .. n |-> s[j]] /\ DOMAIN s = 1 .. n
    BY <1>1
  <2> QED BY <2>1 DEF Stored
<1>4. u \in Seq(S \cup {x}) /\ Len(u) = n
  <2>1. \A j \in 1 .. n : u[j] \in S \cup {x}
    BY <1>2
  <2>2. n \in Nat
    BY <1>1
  <2> QED BY <2>1, <2>2
<1>5. \A j \in 1 .. n : u[j] = IF j = i THEN x ELSE s[j]
  OBVIOUS
<1> HIDE DEF u, n
<1> QED BY <1>3, <1>4, <1>5 DEF IsSeq, n

\* A word stored among words.
LEMMA StoreWords ==
  ASSUME NEW s \in Seq(Word), NEW i, NEW x \in Word
  PROVE  [s EXCEPT ![i] = x] \in Seq(Word) /\ Len([s EXCEPT ![i] = x]) = Len(s)
<1> DEFINE n == Len(s)
           t == [j \in 1 .. n |-> IF j = i THEN x ELSE s[j]]
<1>1. [s EXCEPT ![i] = x] = t
  <2>1. s = [j \in 1 .. n |-> s[j]] /\ DOMAIN s = 1 .. n
    OBVIOUS
  <2> QED BY <2>1
<1>2. n \in Nat /\ \A j \in 1 .. n : t[j] \in Word
  OBVIOUS
<1>3. t \in Seq(Word) /\ Len(t) = n
  BY <1>2
<1> HIDE DEF t
<1> QED BY <1>1, <1>3

\* The opcodes that stay in their function.
LEMMA BasicOps ==
  /\ Basics = {"StoreLocal", "LoadIndirect", "HeapAlloc", "HeapFree", "Dup", "Pop", "PrintI32",
               "StoreIndirect", "HeapRealloc", "SubI64", "DivU64", "PushI32", "PushI64",
               "PushArgc", "LoadLocal", "AddressOfLocal"}
  /\ HeapOps \subseteq Basics /\ LocalOps \subseteq Basics /\ Indirect \subseteq Basics
BY DEF Basics, Opcodes, Unary, Binary, Numerics, Constants, Calls, Returns, Jumps, LocalOps,
       HeapOps, Indirect

\* Words are made of words.
LEMMA WordArithmetic ==
  /\ \A v \in Nat : SignExtend(v) \in Word /\ v % WordLimit \in Word
  /\ \A v, w \in Word : (v - w) % WordLimit \in Word
  /\ \A v, w \in Word : w # 0 => v \div w \in Word
  /\ \A v \in Word : v % HalfLimit \in Word
<1>1. WordLimit \in Nat \ {0} /\ HalfLimit \in Nat \ {0} /\ HalfLimit <= WordLimit
      /\ Word = 0 .. (WordLimit - 1)
  BY Words, MachineAssumption
<1>2. ASSUME NEW v \in Nat
      PROVE  SignExtend(v) \in Word /\ v % WordLimit \in Word /\ v % HalfLimit \in Word
  <2>1. v % HalfLimit \in 0 .. HalfLimit - 1 /\ v % WordLimit \in 0 .. WordLimit - 1
    BY <1>1
  <2> DEFINE low == v % HalfLimit
  <2>2. SignExtend(v) = IF 2 * low >= HalfLimit THEN low + WordLimit - HalfLimit ELSE low
    BY DEF SignExtend
  <2> HIDE DEF low
  <2>3. low \in 0 .. HalfLimit - 1
    BY <2>1 DEF low
  <2> QED BY <1>1, <2>1, <2>2, <2>3
<1>3. ASSUME NEW v \in Word, NEW w \in Word, w # 0
      PROVE  v \div w \in Word
  <2>1. v \in Nat /\ w \in Nat \ {0} /\ v <= WordLimit - 1
    BY <1>1, <1>3
  <2>2. v \div w \in Nat /\ v \div w <= v
    BY <2>1
  <2> QED BY <1>1, <2>1, <2>2
<1>4. ASSUME NEW v \in Word, NEW w \in Word
      PROVE  (v - w) % WordLimit \in Word
  <2>1. v - w \in Int
    BY <1>1
  <2> HIDE DEF WordLimit
  <2> QED BY <1>1, <2>1
<1>5. \A v \in Word : v \in Nat
  BY Words
<1> QED BY <1>2, <1>3, <1>4, <1>5

\* Operands are words.
LEMMA ArgWord ==
  ASSUME NEW d, d.stack \in Seq(Word)
  PROVE  /\ Len(d.stack) >= 1 => Arg(d, 0) \in Word
         /\ Len(d.stack) >= 2 => Arg(d, 1) \in Word
  BY DEF Arg

\* The operands an instruction has when it works.
LEMMA WorksFacts ==
  ASSUME NEW inst, NEW d, inst.op \in Basics, Works(inst, d), d.stack \in Seq(Word)
  PROVE  /\ inst.op \in {"StoreLocal", "HeapAlloc", "HeapFree", "Dup", "Pop", "PrintI32",
                         "LoadIndirect"} => Arg(d, 0) \in Word /\ Len(d.stack) >= 1
         /\ inst.op \in {"StoreIndirect", "HeapRealloc", "SubI64", "DivU64"} =>
              Arg(d, 0) \in Word /\ Arg(d, 1) \in Word /\ Len(d.stack) >= 2
         /\ Taken(inst) \in Nat /\ Taken(inst) <= Len(d.stack) /\ Len(d.stack) \in Nat
<1>1. Len(d.stack) \in Nat /\ Operands(inst.op) <= Len(d.stack)
  BY DEF Works
<1>2. inst.op \in {"StoreLocal", "HeapAlloc", "HeapFree", "Dup", "Pop", "PrintI32", "LoadIndirect"}
        => Operands(inst.op) = 1
  BY DEF Operands, Unary, Binary, Numerics
<1>3. inst.op \in {"StoreIndirect", "HeapRealloc", "SubI64", "DivU64"} => Operands(inst.op) = 2
  BY DEF Operands, Unary, Binary, Numerics
<1>4. Taken(inst) \in Nat /\ Taken(inst) <= Len(d.stack)
  BY <1>1 DEF Taken, Operands
<1> QED BY <1>1, <1>2, <1>3, <1>4, ArgWord

\* Where an indirect access goes.
LEMMA SlotFacts ==
  ASSUME NEW inst, NEW d, inst.op \in Indirect, Works(inst, d),
         d.stack \in Seq(Word), d.locals \in Seq(Word), HeapOK(d.heap)
  PROVE  LET slot == Slot(inst, d) IN
         \/ /\ slot.space = "heap" /\ slot.index \in 1 .. Len(d.heap.slots)
            /\ \E i \in DOMAIN d.heap.allocations : Covers(d.heap.allocations[i], slot.index - 1)
         \/ slot.space = "local" /\ slot.index \in 1 .. Len(d.locals)
<1> DEFINE a == Arg(d, IF inst.op = "StoreIndirect" THEN 1 ELSE 0)
<1>1. inst.op \in {"LoadIndirect", "StoreIndirect"}
  BY DEF Indirect
<1>2. a \in Word
  BY <1>1, BasicOps, WorksFacts
<1>3. Slot(inst, d) = ResolveIndirectAddress(a, Len(d.locals), d.heap) /\ Slot(inst, d).ok
  BY DEF Slot, Works
<1> HIDE DEF a
<1>4. Len(d.locals) \in Nat
  OBVIOUS
<1> QED BY <1>2, <1>3, <1>4, HeapSlotType

\* What the heap opcodes answer.
LEMMA HeapDoneFacts ==
  ASSUME NEW inst, NEW d, inst.op \in HeapOps, Works(inst, d),
         d.stack \in Seq(Word), HeapOK(d.heap)
  PROVE  HeapOK(HeapDone(inst, d).heap) /\ HeapDone(inst, d).address \in Word
<1>1. inst.op \in {"HeapAlloc", "HeapFree", "HeapRealloc"} /\ inst.op \in Basics
  BY BasicOps DEF HeapOps
<1>2. Arg(d, 0) \in Word /\ (inst.op = "HeapRealloc" => Arg(d, 1) \in Word)
  BY <1>1, WorksFacts
<1>3. CASE inst.op = "HeapAlloc"
  <2>1. HeapDone(inst, d) = AllocateVmHeapSlots(Arg(d, 0), d.heap)
    BY <1>3 DEF HeapDone
  <2>2. Allocated(d.heap, Arg(d, 0), AllocateVmHeapSlots(Arg(d, 0), d.heap))
    BY <1>2, AllocateOK
  <2> QED BY <2>1, <2>2 DEF Allocated
<1>4. CASE inst.op = "HeapFree"
  <2>1. HeapDone(inst, d) = FreeVmHeapSlots(Arg(d, 0), d.heap)
    BY <1>4 DEF HeapDone
  <2> QED BY <1>2, <2>1, FreeOK DEF OperationOK
<1>5. CASE inst.op = "HeapRealloc"
  <2>1. HeapDone(inst, d) = ReallocVmHeapSlots(Arg(d, 1), Arg(d, 0), d.heap)
    BY <1>5 DEF HeapDone
  <2> QED BY <1>2, <1>5, <2>1, ReallocOK DEF OperationOK
<1> QED BY <1>1, <1>3, <1>4, <1>5

\* An instruction that works leaves words where there were words.
LEMMA BasicWords ==
  ASSUME NEW inst, NEW d, inst.op \in Basics, inst.imm \in Nat,
         inst.op = "PushI64" => inst.imm \in Word, Works(inst, d),
         d.stack \in Seq(Word), d.locals \in Seq(Word), HeapOK(d.heap)
  PROVE  /\ NewStack(inst, d) \in Seq(Word)
         /\ NewLocals(inst, d) \in Seq(Word) /\ Len(NewLocals(inst, d)) = Len(d.locals)
         /\ HeapOK(NewHeap(inst, d))
<1> DEFINE slot == Slot(inst, d)
<1>1. inst.op \in Indirect =>
        \/ /\ slot.space = "heap" /\ slot.index \in 1 .. Len(d.heap.slots)
           /\ \E i \in DOMAIN d.heap.allocations : Covers(d.heap.allocations[i], slot.index - 1)
        \/ slot.space = "local" /\ slot.index \in 1 .. Len(d.locals)
  BY SlotFacts
<1>2. d.heap.slots \in Seq(Word)
  BY DEF HeapOK, HeapType
<1>3. Left(inst, d) = <<>> \/ \E w \in Word : Left(inst, d) = <<w>>
  <2>1. CASE inst.op \in {"PushI32", "PushI64", "PushArgc", "AddressOfLocal"}
    <3>1. ArgCount \in Nat /\ inst.imm * SlotBytes \in Nat
      BY MachineAssumption DEF SlotBytes
    <3>2. SignExtend(inst.imm) \in Word /\ SignExtend(ArgCount) \in Word
          /\ (inst.imm * SlotBytes) % WordLimit \in Word
      BY <3>1, WordArithmetic
    <3> QED BY <2>1, <3>2 DEF Left
  <2>2. CASE inst.op = "LoadLocal"
    <3>1. inst.imm + 1 \in 1 .. Len(d.locals)
      BY <2>2 DEF Works, LocalOps
    <3>2. d.locals[inst.imm + 1] \in Word
      BY <3>1
    <3> QED BY <2>2, <3>2 DEF Left
  <2>3. CASE inst.op = "LoadIndirect"
    <3>1. \/ slot.space = "heap" /\ d.heap.slots[slot.index] \in Word
          \/ slot.space = "local" /\ d.locals[slot.index] \in Word
      BY <1>1, <1>2, <2>3 DEF Indirect
    <3> DEFINE w == IF slot.space = "heap" THEN d.heap.slots[slot.index] ELSE d.locals[slot.index]
    <3>2. w \in Word
      BY <3>1
    <3>3. Left(inst, d) = <<w>>
      BY <2>3 DEF Left
    <3> QED BY <3>2, <3>3
  <2>4. CASE inst.op \in {"HeapAlloc", "HeapRealloc"}
    BY <2>4, HeapDoneFacts DEF Left, HeapOps
  <2>5. CASE inst.op \in {"Dup", "StoreIndirect"}
    BY <2>5, WorksFacts DEF Left
  <2>6. CASE inst.op \in {"StoreLocal", "HeapFree", "Pop", "PrintI32"}
    BY <2>6 DEF Left
  <2>7. CASE inst.op = "SubI64"
    <3>1. (Arg(d, 1) - Arg(d, 0)) % WordLimit \in Word
      BY <2>7, WorksFacts, WordArithmetic
    <3> QED BY <2>7, <3>1 DEF Left
  <2>8. CASE inst.op = "DivU64"
    <3>1. Arg(d, 1) \div Arg(d, 0) \in Word
      BY <2>8, WorksFacts, WordArithmetic DEF Works
    <3> QED BY <2>8, <3>1 DEF Left
  <2> QED BY <2>1, <2>2, <2>3, <2>4, <2>5, <2>6, <2>7, <2>8, BasicOps
<1>4. NewStack(inst, d) \in Seq(Word)
  <2>1. Left(inst, d) \in Seq(Word)
    <3>1. CASE Left(inst, d) = <<>>
      BY <3>1
    <3>2. CASE \E w \in Word : Left(inst, d) = <<w>>
      BY <3>2
    <3> QED BY <1>3, <3>1, <3>2
  <2>2. Without(d.stack, Taken(inst)) \in Seq(Word)
    BY WorksFacts DEF Without
  <2> QED BY <2>1, <2>2 DEF NewStack
<1>5. NewLocals(inst, d) \in Seq(Word) /\ Len(NewLocals(inst, d)) = Len(d.locals)
  <2>0. ASSUME NEW i, NEW x \in Word
        PROVE  \E e \in Seq(Word) : e = [d.locals EXCEPT ![i] = x] /\ Len(e) = Len(d.locals)
    <3>1. PICK l : l = d.locals
      OBVIOUS
    <3>2. l \in Seq(Word)
      BY <3>1
    <3>3. [l EXCEPT ![i] = x] \in Seq(Word) /\ Len([l EXCEPT ![i] = x]) = Len(l)
      BY <3>2, StoreWords
    <3>4. [l EXCEPT ![i] = x] = [d.locals EXCEPT ![i] = x] /\ Len(l) = Len(d.locals)
      BY <3>1, Zenon
    <3> QED BY <3>3, <3>4, Zenon
  <2>1. CASE inst.op = "StoreLocal"
    <3>1. Arg(d, 0) \in Word
      BY <2>1, WorksFacts
    <3>2. PICK e \in Seq(Word) : e = [d.locals EXCEPT ![inst.imm + 1] = Arg(d, 0)] /\ Len(e) = Len(d.locals)
      BY <2>0, <3>1, Zenon
    <3>3. NewLocals(inst, d) = [d.locals EXCEPT ![inst.imm + 1] = Arg(d, 0)]
      BY <2>1 DEF NewLocals
    <3> QED BY <3>2, <3>3, Zenon
  <2>2. CASE inst.op = "StoreIndirect" /\ slot.space = "local"
    <3>1. Arg(d, 0) \in Word
      BY <2>2, WorksFacts
    <3>2. PICK e \in Seq(Word) : e = [d.locals EXCEPT ![slot.index] = Arg(d, 0)] /\ Len(e) = Len(d.locals)
      BY <2>0, <3>1, Zenon
    <3>3. NewLocals(inst, d) = [d.locals EXCEPT ![slot.index] = Arg(d, 0)]
      BY <2>2 DEF NewLocals
    <3> QED BY <3>2, <3>3, Zenon
  <2>3. CASE inst.op # "StoreLocal" /\ ~(inst.op = "StoreIndirect" /\ slot.space = "local")
    BY <2>3 DEF NewLocals
  <2> QED BY <2>1, <2>2, <2>3
<1>6. HeapOK(NewHeap(inst, d))
  <2>1. CASE inst.op \in HeapOps
    BY <2>1, HeapDoneFacts DEF NewHeap
  <2>2. CASE inst.op = "StoreIndirect" /\ slot.space = "heap"
    <3>1. Arg(d, 0) \in Word
      BY <2>2, WorksFacts
    <3>2. /\ slot.index \in 1 .. Len(d.heap.slots)
          /\ \E i \in DOMAIN d.heap.allocations : Covers(d.heap.allocations[i], slot.index - 1)
      BY <1>1, <2>2 DEF Indirect
    <3>3. HeapOK([d.heap EXCEPT !.slots[slot.index] = Arg(d, 0)])
      BY <3>1, <3>2, StoreSlotOK
    <3>4. inst.op \notin HeapOps
      BY <2>2 DEF HeapOps
    <3> QED BY <2>2, <3>3, <3>4 DEF NewHeap
  <2>3. CASE inst.op \notin HeapOps /\ ~(inst.op = "StoreIndirect" /\ slot.space = "heap")
    BY <2>3 DEF NewHeap
  <2> QED BY <2>1, <2>2, <2>3
<1> QED BY <1>4, <1>5, <1>6

\* What is so of the frames of a state is so of them after a call and a return.
LEMMA CallersKept ==
  ASSUME NEW m, NEW callers, IsSeq(callers),
         \A i \in 1 .. Len(callers) : FrameOK(m, callers[i])
  PROVE  /\ \A a : FrameOK(m, a) =>
              /\ IsSeq(Append(callers, a))
              /\ \A i \in 1 .. Len(Append(callers, a)) : FrameOK(m, Append(callers, a)[i])
         /\ callers # <<>> =>
              /\ FrameOK(m, callers[Len(callers)])
              /\ IsSeq(Without(callers, 1)) /\ Len(Without(callers, 1)) = Len(callers) - 1
              /\ Len(callers) \in Nat \ {0}
              /\ \A i \in 1 .. Len(callers) - 1 : Without(callers, 1)[i] = callers[i]
              /\ \A i \in 1 .. Len(Without(callers, 1)) : FrameOK(m, Without(callers, 1)[i])
<1>1. ASSUME NEW a, FrameOK(m, a)
      PROVE  /\ IsSeq(Append(callers, a))
             /\ \A i \in 1 .. Len(Append(callers, a)) : FrameOK(m, Append(callers, a)[i])
  <2>1. /\ IsSeq(Append(callers, a)) /\ Len(Append(callers, a)) = Len(callers) + 1
        /\ \A i \in 1 .. Len(callers) : Append(callers, a)[i] = callers[i]
        /\ Append(callers, a)[Len(callers) + 1] = a
        /\ Len(callers) \in Nat
    BY AppendFacts, SeqFacts
  <2>2. \A i \in 1 .. Len(Append(callers, a)) : i \in 1 .. Len(callers) \/ i = Len(callers) + 1
    BY <2>1
  <2>3. \A i \in 1 .. Len(Append(callers, a)) : FrameOK(m, Append(callers, a)[i])
    BY <1>1, <2>1, <2>2
  <2> QED BY <2>1, <2>3
<1>2. ASSUME callers # <<>>
      PROVE  /\ FrameOK(m, callers[Len(callers)])
             /\ IsSeq(Without(callers, 1)) /\ Len(Without(callers, 1)) = Len(callers) - 1
             /\ Len(callers) \in Nat \ {0}
             /\ \A i \in 1 .. Len(callers) - 1 : Without(callers, 1)[i] = callers[i]
             /\ \A i \in 1 .. Len(Without(callers, 1)) : FrameOK(m, Without(callers, 1)[i])
  <2>1. Len(callers) \in Nat \ {0}
    <3>1. PICK S : callers \in Seq(S)
      BY DEF IsSeq
    <3> QED BY <1>2, <3>1
  <2>2. /\ IsSeq(Without(callers, 1)) /\ Len(Without(callers, 1)) = Len(callers) - 1
        /\ \A i \in 1 .. Len(callers) - 1 : Without(callers, 1)[i] = callers[i]
    BY <2>1, WithoutFacts
  <2>3. /\ Len(callers) \in 1 .. Len(callers)
        /\ \A i \in 1 .. Len(callers) - 1 : i \in 1 .. Len(callers)
    BY <2>1
  <2>4. \A i \in 1 .. Len(Without(callers, 1)) : FrameOK(m, Without(callers, 1)[i])
    BY <2>2, <2>3
  <2> QED BY <2>1, <2>2, <2>3, <2>4
<1> QED BY <1>1, <1>2

\* What a return returns is a word.
LEMMA ValueWord ==
  ASSUME NEW op \in Returns, NEW words \in Seq(Word), Operands(op) <= Len(words)
  PROVE  ValueOf(op, words) \in Word
<1>1. CASE op = "ReturnVoid"
  BY <1>1, Words DEF ValueOf
<1>2. CASE op # "ReturnVoid"
  <2>1. Operands(op) = 1
    BY <1>2 DEF Operands, Unary, Binary, Numerics, Returns
  <2>2. words[Len(words)] \in Word
    BY <2>1
  <2> DEFINE w == words[Len(words)]
  <2>3. w \in Nat
    BY <2>2, Words
  <2>4. SignExtend(w) \in Word /\ w % HalfLimit \in Word
    BY <2>2, <2>3, WordArithmetic
  <2>5. ValueOf(op, words) = SignExtend(w) \/ ValueOf(op, words) = w
        \/ ValueOf(op, words) = w % HalfLimit
    BY <1>2 DEF ValueOf, Returns
  <2> QED BY <2>2, <2>4, <2>5
<1> QED BY <1>1, <1>2

\* A step leads to a state.
LEMMA StepKeeps ==
  ASSUME NEW m, IsModule(m), NEW s, StateOK(m, s), NEW t, Step(m, s, t)
  PROVE  StateOK(m, t)
<1> DEFINE a == s.top
           inst == InstOf(m, s.top)
<1>1. /\ FrameOK(m, a) /\ IsSeq(s.callers) /\ s.stack \in Seq(Word) /\ a.locals \in Seq(Word)
      /\ HeapOK(s.heap) /\ IsSeq(s.stack)
      /\ \A i \in 1 .. Len(s.callers) : FrameOK(m, s.callers[i])
      /\ a.ip < Len(CodeOf(m, a)) /\ a.ip \in Nat
  BY DEF StateOK, Step, InCode, FrameOK, IsSeq
<1>2. inst.imm \in Nat /\ (inst.op = "PushI64" => inst.imm \in Word)
       /\ a.ip + 1 \in Nat /\ a.ip + 1 <= Len(CodeOf(m, a))
      /\ Len(CodeOf(m, a)) \in Nat
  BY <1>1, FrameFacts
<1>3. Len(s.stack) \in Nat /\ Operands(inst.op) \in Nat
  BY <1>1, SeqFacts DEF Operands
<1>4. CASE BasicStep(m, s, t)
  <2> DEFINE d == Data(s)
             locals == NewLocals(inst, d)
  <2>1. /\ t.top = Moved(a, a.ip + 1, locals) /\ t.callers = s.callers /\ t.stack = NewStack(inst, d)
        /\ t.heap = NewHeap(inst, d)
        /\ inst.op \in Basics /\ Works(inst, d)
    BY <1>4, Zenon DEF BasicStep
  <2>2. d.locals = a.locals /\ d.stack = s.stack /\ d.heap = s.heap
    BY DEF Data
  <2> HIDE DEF d, inst
  <2>3. /\ locals \in Seq(Word) /\ Len(locals) = Len(a.locals)
        /\ NewStack(inst, d) \in Seq(Word) /\ HeapOK(NewHeap(inst, d))
    BY <1>1, <1>2, <2>1, <2>2, BasicWords
  <2>4. FrameOK(m, t.top)
    BY <1>1, <1>2, <2>1, <2>3, MovedFrame
  <2> QED BY <1>1, <2>1, <2>3, <2>4 DEF StateOK
<1>5. CASE JumpStep(m, s, t)
  <2> DEFINE ip == IF (inst.op = "Jump") \/ (s.stack[Len(s.stack)] = 0) THEN inst.imm ELSE a.ip + 1
  <2>1. /\ t.top = Moved(a, ip, a.locals) /\ t.callers = s.callers
        /\ t.stack = Without(s.stack, Operands(inst.op)) /\ t.heap = s.heap
        /\ Operands(inst.op) <= Len(s.stack) /\ inst.imm <= Len(CodeOf(m, a))
    BY <1>5, Zenon DEF JumpStep
  <2>2. ip \in Nat /\ ip <= Len(CodeOf(m, a))
    BY <1>2, <2>1
  <2> HIDE DEF ip, inst
  <2>3. FrameOK(m, t.top)
    BY <1>1, <2>1, <2>2, MovedFrame
  <2>4. t.stack \in Seq(Word)
    BY <1>1, <1>3, <2>1 DEF Without
  <2> QED BY <1>1, <2>1, <2>3, <2>4 DEF StateOK
<1>6. CASE CallStep(m, s, t)
  <2> DEFINE b == Moved(a, a.ip + 1, a.locals)
  <2>1. /\ t.top = NewFrame(m.functions, inst.imm, inst.op = "Call")
        /\ t.callers = Append(s.callers, b)
        /\ t.stack = s.stack /\ t.heap = s.heap /\ inst.imm < Len(m.functions)
    BY <1>6, Zenon DEF CallStep
  <2>2. inst.imm + 1 \in DOMAIN m.functions
    BY <1>2, <2>1 DEF IsModule
  <2> HIDE DEF inst
  <2>3. FrameOK(m, t.top)
    <3>1. PICK wanted : t.top = NewFrame(m.functions, inst.imm, wanted)
      BY <2>1, Zenon
    <3>2. FrameOK(m, NewFrame(m.functions, inst.imm, wanted))
      BY <1>2, <2>2, NewFrameFacts
    <3> QED BY <3>1, <3>2
  <2>4. FrameOK(m, b)
    BY <1>1, <1>2, MovedFrame
  <2> HIDE DEF b, a
  <2>5. /\ IsSeq(Append(s.callers, b))
        /\ \A i \in 1 .. Len(Append(s.callers, b)) : FrameOK(m, Append(s.callers, b)[i])
    <3>1. /\ IsSeq(s.callers) /\ \A i \in 1 .. Len(s.callers) : FrameOK(m, s.callers[i])
      BY <1>1
    <3> QED BY <2>4, <3>1, CallersKept, Zenon
  <2>6. t.stack \in Seq(Word) /\ HeapOK(t.heap)
    BY <1>1, <2>1
  <2>7. IsSeq(t.callers) /\ \A i \in 1 .. Len(t.callers) : FrameOK(m, t.callers[i])
    BY <2>1, <2>5, Zenon
  <2> QED BY <2>3, <2>6, <2>7 DEF StateOK
<1>7. CASE ReturnStep(m, s, t)
  <2> DEFINE words == IF a.returnValueToCaller THEN <<ValueOf(inst.op, s.stack)>> ELSE <<>>
  <2>1. /\ t.top = s.callers[Len(s.callers)] /\ t.callers = Without(s.callers, 1)
        /\ t.stack = Without(s.stack, Operands(inst.op)) \o words /\ t.heap = s.heap
        /\ s.callers # <<>> /\ Operands(inst.op) <= Len(s.stack)
        /\ inst.op \in Returns
    BY <1>7, Zenon DEF ReturnStep
  <2>2. words \in Seq(Word)
    BY <1>1, <2>1, ValueWord
  <2> HIDE DEF words, inst, a
  <2>3. t.stack \in Seq(Word)
    <3>1. Without(s.stack, Operands(inst.op)) \in Seq(Word)
      BY <1>1, <1>3, <2>1 DEF Without
    <3> QED BY <2>1, <2>2, <3>1
  <2> QED BY <1>1, <2>1, <2>3, CallersKept DEF StateOK
<1> QED BY <1>4, <1>5, <1>6, <1>7 DEF Step

\* The first state of a run.
LEMMA BeginOK ==
  ASSUME NEW m, IsModule(m), ValidEntry(m)
  PROVE  StateOK(m, Begin(m))
<1>1. m.entryIndex \in Nat /\ m.entryIndex + 1 \in DOMAIN m.functions
  BY DEF IsModule, ValidEntry
<1>2. FrameOK(m, NewFrame(m.functions, m.entryIndex, FALSE))
  BY <1>1, NewFrameFacts
<1>3. /\ Begin(m).top = NewFrame(m.functions, m.entryIndex, FALSE)
      /\ Begin(m).callers = <<>> /\ Begin(m).stack = <<>> /\ Begin(m).heap = EmptyHeap
  BY DEF Begin
<1>5. Len(Begin(m).callers) = 0 /\ IsSeq(Begin(m).callers) /\ Begin(m).stack \in Seq(Word)
  BY <1>3, ShortSeq
<1>6. \A i \in 1 .. Len(Begin(m).callers) : FrameOK(m, Begin(m).callers[i])
  BY <1>5
<1> QED BY <1>2, <1>3, <1>5, <1>6, EmptyHeapOK DEF StateOK
-----------------------------------------------------------------------------
(***************************************************************************)
(* The locals of a function inside those of a longer frame.                *)
(***************************************************************************)
Window(x, y, base) ==
  /\ base + Len(x) <= Len(y)
  /\ \A i \in 1 .. Len(x) : y[base + i] = x[i]

There(inst, base) == IF inst.op \in LocalOps THEN [inst EXCEPT !.imm = @ + base] ELSE inst

\* The instruction that stands for another where the locals begin at base.
LEMMA ThereFacts ==
  ASSUME NEW inst \in Instr, NEW base \in Nat
  PROVE  /\ There(inst, base) \in Instr
         /\ There(inst, base).op = inst.op
         /\ There(inst, base).imm = IF inst.op \in LocalOps THEN inst.imm + base ELSE inst.imm
         /\ base = 0 => There(inst, base) = inst
<1>1. inst = [op |-> inst.op, imm |-> inst.imm] /\ inst.imm \in Nat /\ inst.op \in STRING \cup Opcodes
  BY DEF Instr
<1>2. [inst EXCEPT !.imm = @ + base] = [op |-> inst.op, imm |-> inst.imm + base]
  BY <1>1
<1>3. inst.imm + base \in Nat /\ (base = 0 => inst.imm + base = inst.imm)
  BY <1>1
<1> QED BY <1>1, <1>2, <1>3 DEF There, Instr

\* An address that is good is as good when there are more locals.
LEMMA SlotWider ==
  ASSUME NEW a \in Nat, NEW n \in Nat, NEW k \in Nat, n <= k, NEW h,
         ResolveIndirectAddress(a, n, h).ok
  PROVE  ResolveIndirectAddress(a, k, h) = ResolveIndirectAddress(a, n, h)
<1> DEFINE index == SlotIndex(a)
           local == a \div SlotBytes
           onHeap == /\ a % SlotBytes = 0 /\ IsVmHeapAddress(a)
                     /\ index < Len(h.slots)
                     /\ \E i \in DOMAIN h.allocations : Covers(h.allocations[i], index)
           Near(m) == a % SlotBytes = 0 /\ ~IsVmHeapAddress(a) /\ local < m
           Answer(m) == IF onHeap THEN [ok |-> TRUE, space |-> "heap", index |-> index + 1]
                        ELSE IF Near(m) THEN [ok |-> TRUE, space |-> "local", index |-> local + 1]
                        ELSE [ok |-> FALSE, space |-> "none", index |-> 0]
<1>1. \A m : ResolveIndirectAddress(a, m, h) = Answer(m)
  BY Zenon DEF ResolveIndirectAddress
<1>2. Answer(n).ok
  BY <1>1, Zenon
<1>3. CASE onHeap
  <2>1. Answer(k) = Answer(n)
    BY <1>3, Zenon
  <2> QED BY <1>1, <2>1, Zenon
<1>4. CASE ~onHeap
  <2>1. Near(n)
    <3>1. ~Near(n) => Answer(n) = [ok |-> FALSE, space |-> "none", index |-> 0]
      BY <1>4, Zenon
    <3>2. PICK r : r = Answer(n)
      OBVIOUS
    <3>3. r = [ok |-> FALSE, space |-> "none", index |-> 0] => ~r.ok
      OBVIOUS
    <3>4. ~Near(n) => ~Answer(n).ok
      BY <3>1, <3>2, <3>3, Zenon
    <3> QED BY <1>2, <3>4, Zenon
  <2>2. Near(k)
    <3>1. local < n
      BY <2>1, Zenon
    <3>2. PICK l \in Int : l = local
      <4>1. local \in Int
        BY DEF SlotBytes
      <4> QED BY <4>1, Zenon
    <3>3. l < n => l < k
      OBVIOUS
    <3> QED BY <2>1, <3>1, <3>2, <3>3, Zenon
  <2>3. Answer(k) = Answer(n)
    BY <1>4, <2>1, <2>2, Zenon
  <2> QED BY <1>1, <2>3, Zenon
<1> QED BY <1>3, <1>4

\* A store is seen in a window where it is inside it.
LEMMA StoreInWindow ==
  ASSUME NEW x, IsSeq(x), NEW y, IsSeq(y), NEW base \in Nat, Window(x, y, base),
         NEW i \in 1 .. Len(x), NEW w,
         NEW u, Stored(u, x, i, w), NEW v, Stored(v, y, base + i, w)
  PROVE  /\ Window(u, v, base)
         /\ Len(v) = Len(y)
         /\ \A j \in 1 .. Len(y) : j \notin base + 1 .. base + Len(x) => v[j] = y[j]
<1>1. Len(x) \in Nat /\ Len(y) \in Nat
  BY SeqFacts
<1>2. /\ Len(u) = Len(x) /\ Len(v) = Len(y)
      /\ \A j \in 1 .. Len(x) : u[j] = IF j = i THEN w ELSE x[j]
      /\ \A j \in 1 .. Len(y) : v[j] = IF j = base + i THEN w ELSE y[j]
  BY StoredFacts
<1>3. ASSUME NEW j \in 1 .. Len(x)
      PROVE  v[base + j] = u[j]
  <2>1. base + j \in 1 .. Len(y) /\ (base + j = base + i <=> j = i)
    BY <1>1 DEF Window
  <2>2. y[base + j] = x[j]
    BY DEF Window
  <2>3. v[base + j] = IF base + j = base + i THEN w ELSE y[base + j]
    BY <1>2, <2>1, Zenon
  <2>4. u[j] = IF j = i THEN w ELSE x[j]
    BY <1>2, Zenon
  <2> QED BY <2>1, <2>2, <2>3, <2>4, Zenon
<1>4. Window(u, v, base)
  <2>1. base + Len(u) <= Len(v)
    BY <1>2, Zenon DEF Window
  <2> QED BY <1>2, <1>3, <2>1, Zenon DEF Window
<1>5. ASSUME NEW j \in 1 .. Len(y), j \notin base + 1 .. base + Len(x)
      PROVE  v[j] = y[j]
  <2>1. j # base + i
    BY <1>1, <1>5
  <2> QED BY <1>2, <2>1, Zenon
<1> QED BY <1>2, <1>4, <1>5, Zenon

\* An instruction does in a window what it does in its own function, where it
\* names the locals by what they are called there, and only names no addresses.
LEMMA BasicInWindow ==
  ASSUME NEW inst \in Instr, inst.op \in Basics, NEW d, NEW e,
         d.stack \in Seq(Word), d.locals \in Seq(Word), HeapOK(d.heap), e.locals \in Seq(Word),
         e.stack = d.stack, e.heap = d.heap, e.output = d.output,
         NEW base \in Nat, Window(d.locals, e.locals, base),
         Works(inst, d), base # 0 => ~SeesAddress(inst, d)
  PROVE  LET u == There(inst, base) IN
         /\ Works(u, e)
         /\ ~SeesAddress(inst, d) => ~SeesAddress(u, e)
         /\ NewStack(u, e) = NewStack(inst, d)
         /\ NewHeap(u, e) = NewHeap(inst, d)
         /\ NewOutput(u, e) = NewOutput(inst, d)
         /\ Window(NewLocals(inst, d), NewLocals(u, e), base)
         /\ Len(NewLocals(u, e)) = Len(e.locals)
         /\ \A j \in 1 .. Len(e.locals) : j \notin base + 1 .. base + Len(d.locals) =>
              NewLocals(u, e)[j] = e.locals[j]
<1> DEFINE u == There(inst, base)
<1>1. /\ u.op = inst.op /\ inst.imm \in Nat
      /\ u.imm = IF inst.op \in LocalOps THEN inst.imm + base ELSE inst.imm
  BY ThereFacts DEF Instr
<1>2. \A n : Arg(e, n) = Arg(d, n)
  BY DEF Arg
<1>3. HeapDone(u, e) = HeapDone(inst, d)
  <2>1. Arg(e, 0) = Arg(d, 0) /\ Arg(e, 1) = Arg(d, 1) /\ u.op = inst.op /\ e.heap = d.heap
    BY <1>1, <1>2
  <2> HIDE DEF u
  <2> QED BY <2>1 DEF HeapDone
<1>4. /\ Len(d.locals) \in Nat /\ Len(e.locals) \in Nat /\ IsSeq(d.locals) /\ IsSeq(e.locals)
      /\ Len(d.locals) <= Len(e.locals)
  BY DEF Window, IsSeq
<1>5. inst.op \in Indirect => Slot(u, e) = Slot(inst, d)
  <2>1. ASSUME inst.op \in Indirect
        PROVE  Slot(u, e) = Slot(inst, d)
    <3> DEFINE a == Arg(d, IF inst.op = "StoreIndirect" THEN 1 ELSE 0)
    <3>1. /\ Slot(inst, d) = ResolveIndirectAddress(a, Len(d.locals), d.heap)
          /\ Slot(u, e) = ResolveIndirectAddress(a, Len(e.locals), d.heap)
      <4>1. inst.op = "StoreIndirect" \/ inst.op = "LoadIndirect"
        BY <2>1 DEF Indirect
      <4>2. u.op = inst.op /\ e.heap = d.heap
        BY <1>1
      <4> HIDE DEF u
      <4>3. /\ Slot(inst, d) = ResolveIndirectAddress(a, Len(d.locals), d.heap)
            /\ Slot(u, e) = ResolveIndirectAddress(a, Len(e.locals), d.heap)
        BY <1>2, <4>1, <4>2 DEF Slot
      <4> QED BY <4>3
    <3>2. Slot(inst, d).ok
      BY <2>1 DEF Works
    <3>3. a \in Nat
      <4>1. inst.op \in Basics /\ inst.op \in {"LoadIndirect", "StoreIndirect"}
        BY <2>1, BasicOps DEF Indirect
      <4>2. a \in Word
        BY <4>1, WorksFacts
      <4> QED BY <4>2, Words
    <3> HIDE DEF a
    <3> QED BY <1>4, <3>1, <3>2, <3>3, SlotWider
  <2> QED BY <2>1
<1>6. inst.op \in LocalOps => inst.imm + 1 \in 1 .. Len(d.locals) /\ u.imm + 1 = base + (inst.imm + 1)
  <2>1. inst.op \in LocalOps => inst.imm < Len(d.locals)
    BY DEF Works
  <2>2. inst.op \in LocalOps => u.imm = inst.imm + base
    BY <1>1
  <2>3. inst.imm \in Nat /\ Len(d.locals) \in Nat
    BY <1>1, <1>4
  <2> HIDE DEF u
  <2>4. inst.imm < Len(d.locals) => inst.imm + 1 \in 1 .. Len(d.locals)
    BY <2>3
  <2>5. u.imm = inst.imm + base => u.imm + 1 = base + (inst.imm + 1)
    BY <2>3
  <2> QED BY <2>1, <2>2, <2>4, <2>5, Zenon
<1>7. Works(u, e)
  <2>1. Operands(u.op) <= Len(e.stack)
    BY <1>1 DEF Works
  <2>2. u.op \in LocalOps => u.imm < Len(e.locals)
    BY <1>1, <1>4, <1>6 DEF Window
  <2>3. u.op = "DivU64" => Arg(e, 0) # 0
    BY <1>1, <1>2 DEF Works
  <2>4. u.op \in Indirect => Slot(u, e).ok
    BY <1>1, <1>5 DEF Works
  <2>5. u.op \in HeapOps => HeapDone(u, e).ok
    BY <1>1, <1>3 DEF Works
  <2> QED BY <2>1, <2>2, <2>3, <2>4, <2>5 DEF Works
<1>8. ~SeesAddress(inst, d) => ~SeesAddress(u, e)
  BY <1>1, <1>5 DEF SeesAddress
<1>9. inst.op \in Indirect /\ Slot(inst, d).space = "local" =>
        base = 0 /\ Slot(inst, d).index \in 1 .. Len(d.locals)
  <2>1. inst.op \in Indirect /\ Slot(inst, d).space = "local" =>
          Slot(inst, d).index \in 1 .. Len(d.locals)
    BY SlotFacts
  <2> QED BY <2>1 DEF SeesAddress
<1>10. inst.op = "AddressOfLocal" => u.imm = inst.imm
  BY <1>1 DEF SeesAddress
<1>11. Left(u, e) = Left(inst, d)
  <2>1. CASE inst.op = "LoadLocal"
    <3>1. e.locals[u.imm + 1] = d.locals[inst.imm + 1]
      BY <1>6, <2>1 DEF LocalOps, Window
    <3>2. Left(u, e) = <<e.locals[u.imm + 1]>> /\ Left(inst, d) = <<d.locals[inst.imm + 1]>>
      BY <1>1, <2>1 DEF Left
    <3> QED BY <3>1, <3>2
  <2>2. CASE inst.op = "LoadIndirect"
    <3> DEFINE slot == Slot(inst, d)
    <3>1. /\ Left(u, e) = <<IF slot.space = "heap" THEN d.heap.slots[slot.index]
                            ELSE e.locals[slot.index]>>
          /\ Left(inst, d) = <<IF slot.space = "heap" THEN d.heap.slots[slot.index]
                               ELSE d.locals[slot.index]>>
      BY <1>1, <1>5, <2>2 DEF Left, Indirect
    <3>2. CASE slot.space = "heap"
      BY <3>1, <3>2
    <3>3. CASE slot.space # "heap"
      <4>1. slot.space = "local"
        BY <2>2, <3>3, SlotFacts DEF Indirect
      <4>2. base = 0 /\ slot.index \in 1 .. Len(d.locals)
        BY <1>9, <2>2, <4>1 DEF Indirect
      <4>3. e.locals[0 + slot.index] = d.locals[slot.index] /\ 0 + slot.index = slot.index
        BY <4>2 DEF Window
      <4> QED BY <3>1, <3>3, <4>3
    <3> QED BY <3>2, <3>3
  <2>3. CASE inst.op = "AddressOfLocal"
    BY <1>1, <1>10, <2>3 DEF Left
  <2>4. CASE inst.op \in {"PushI32", "PushI64", "PushArgc"}
    BY <1>1, <2>4 DEF Left, LocalOps
  <2>5. CASE inst.op \in {"StoreIndirect", "Dup", "StoreLocal", "HeapFree", "Pop", "PrintI32", "SubI64",
                          "DivU64"}
    BY <1>1, <1>2, <2>5 DEF Left
  <2>6. CASE inst.op \in {"HeapAlloc", "HeapRealloc"}
    BY <1>1, <1>3, <2>6 DEF Left
  <2> QED BY <2>1, <2>2, <2>3, <2>4, <2>5, <2>6, BasicOps
<1>12. NewStack(u, e) = NewStack(inst, d)
  BY <1>1, <1>11 DEF NewStack, Taken
<1>13. NewOutput(u, e) = NewOutput(inst, d)
  BY <1>1, <1>2 DEF NewOutput
<1>14. NewHeap(u, e) = NewHeap(inst, d)
  <2>1. CASE inst.op = "StoreIndirect"
    <3>1. Slot(u, e) = Slot(inst, d)
      BY <1>5, <2>1 DEF Indirect
    <3> QED BY <1>1, <1>2, <1>3, <3>1, Zenon DEF NewHeap
  <2>2. CASE inst.op # "StoreIndirect"
    BY <1>1, <1>3, <2>2, Zenon DEF NewHeap
  <2> QED BY <2>1, <2>2
<1>15. /\ Window(NewLocals(inst, d), NewLocals(u, e), base)
       /\ Len(NewLocals(u, e)) = Len(e.locals)
       /\ \A j \in 1 .. Len(e.locals) : j \notin base + 1 .. base + Len(d.locals) =>
            NewLocals(u, e)[j] = e.locals[j]
  <2>1. ASSUME NEW i \in 1 .. Len(d.locals), NewLocals(inst, d) = [d.locals EXCEPT ![i] = Arg(d, 0)],
               NewLocals(u, e) = [e.locals EXCEPT ![base + i] = Arg(d, 0)]
        PROVE  /\ Window(NewLocals(inst, d), NewLocals(u, e), base)
               /\ Len(NewLocals(u, e)) = Len(e.locals)
               /\ \A j \in 1 .. Len(e.locals) : j \notin base + 1 .. base + Len(d.locals) =>
                    NewLocals(u, e)[j] = e.locals[j]
    <3>1. PICK x, y : x = d.locals /\ y = e.locals
      OBVIOUS
    <3>2. /\ IsSeq(x) /\ IsSeq(y) /\ Window(x, y, base) /\ i \in 1 .. Len(x)
          /\ NewLocals(inst, d) = [x EXCEPT ![i] = Arg(d, 0)]
          /\ NewLocals(u, e) = [y EXCEPT ![base + i] = Arg(d, 0)]
      BY <1>4, <2>1, <3>1, Zenon
    <3> HIDE DEF u
    <3>4. base \in Nat
      OBVIOUS
    <3>3. /\ Window(NewLocals(inst, d), NewLocals(u, e), base)
          /\ Len(NewLocals(u, e)) = Len(y)
          /\ \A j \in 1 .. Len(y) : j \notin base + 1 .. base + Len(x) => NewLocals(u, e)[j] = y[j]
      <4>1. PICK p, q, w : p = NewLocals(inst, d) /\ q = NewLocals(u, e) /\ w = Arg(d, 0)
        BY Zenon
      <4>2. Stored(p, x, i, w) /\ Stored(q, y, base + i, w)
        BY <3>2, <4>1, Zenon DEF Stored
      <4>3. /\ Window(p, q, base) /\ Len(q) = Len(y)
            /\ \A j \in 1 .. Len(y) : j \notin base + 1 .. base + Len(x) => q[j] = y[j]
        BY <3>2, <3>4, <4>2, StoreInWindow
      <4> QED BY <4>1, <4>3, Zenon
    <3> QED BY <3>1, <3>3, Zenon
  <2>2. CASE inst.op = "StoreLocal"
    <3>1. inst.imm + 1 \in 1 .. Len(d.locals) /\ u.imm + 1 = base + (inst.imm + 1)
      BY <1>6, <2>2 DEF LocalOps
    <3>2. /\ NewLocals(inst, d) = [d.locals EXCEPT ![inst.imm + 1] = Arg(d, 0)]
          /\ NewLocals(u, e) = [e.locals EXCEPT ![u.imm + 1] = Arg(d, 0)]
      BY <1>1, <1>2, <2>2, Zenon DEF NewLocals
    <3> QED BY <2>1, <3>1, <3>2, Zenon
  <2>3. CASE inst.op = "StoreIndirect" /\ Slot(inst, d).space = "local"
    <3>1. base = 0 /\ Slot(inst, d).index \in 1 .. Len(d.locals) /\ Slot(u, e) = Slot(inst, d)
      BY <1>5, <1>9, <2>3 DEF Indirect
    <3>2. base + Slot(inst, d).index = Slot(inst, d).index
      BY <1>4, <3>1
    <3>3. /\ NewLocals(inst, d) = [d.locals EXCEPT ![Slot(inst, d).index] = Arg(d, 0)]
          /\ NewLocals(u, e) = [e.locals EXCEPT ![Slot(inst, d).index] = Arg(d, 0)]
      <4>1. inst.op # "StoreLocal" /\ u.op # "StoreLocal"
        BY <1>1, <2>3
      <4> QED BY <1>1, <1>2, <2>3, <3>1, <4>1, Zenon DEF NewLocals
    <3> QED BY <2>1, <3>1, <3>2, <3>3, Zenon
  <2>4. CASE inst.op # "StoreLocal" /\ ~(inst.op = "StoreIndirect" /\ Slot(inst, d).space = "local")
    <3>1. inst.op = "StoreIndirect" => Slot(u, e) = Slot(inst, d)
      BY <1>5 DEF Indirect
    <3>2. NewLocals(inst, d) = d.locals /\ NewLocals(u, e) = e.locals
      BY <1>1, <2>4, <3>1, Zenon DEF NewLocals
    <3> QED BY <3>2, Zenon
  <2> QED BY <2>2, <2>3, <2>4
<1> QED BY <1>7, <1>8, <1>12, <1>13, <1>14, <1>15, Zenon
-----------------------------------------------------------------------------
(***************************************************************************)
(* Where the instructions of a rewritten function went.                    *)
(***************************************************************************)
\* A function that ends once has returns and calls nowhere else.
LEMMA EndsOnceFacts ==
  ASSUME NEW code \in InstrSeq, EndsOnce(code), ~Uses(code, Jumps)
  PROVE  /\ Len(code) \in Nat \ {0} /\ DOMAIN code = 1 .. Len(code)
         /\ code[Len(code)].op \in Returns
         /\ \A j \in 1 .. Len(code) - 1 : code[j].op \notin Returns
<1>1. code # <<>> /\ code \in Seq(Instr)
  BY DEF EndsOnce, InstrSeq
<1>2. Len(code) \in Nat \ {0} /\ DOMAIN code = 1 .. Len(code)
  BY <1>1
<1>3. Last(code) = code[Len(code)]
  BY DEF Last
<1>4. ASSUME NEW j \in 1 .. Len(code) - 1
      PROVE  code[j].op \notin Returns
  <2>1. Front(code) = SubSeq(code, 1, Len(code) - 1)
    BY DEF Front
  <2>2. j \in DOMAIN Front(code) /\ Front(code)[j] = code[j]
    BY <1>1, <1>2, <2>1
  <2>3. ~Uses(Front(code), Returns)
    BY DEF EndsOnce
  <2> QED BY <2>2, <2>3 DEF Uses
<1> QED BY <1>2, <1>3, <1>4 DEF EndsOnce

\* What is left of a return.
Remains(wanted, op) ==
  IF op = "ReturnVoid" THEN IF wanted THEN <<[op |-> "PushI32", imm |-> 0]>> ELSE <<>>
  ELSE IF wanted THEN <<>> ELSE <<[op |-> "Pop", imm |-> 0]>>

\* It is one instruction at most.
LEMMA RemainsFacts ==
  ASSUME NEW wanted, NEW op
  PROVE  /\ Remains(wanted, op) \in InstrSeq
         /\ Len(Remains(wanted, op)) \in {0, 1}
<1>1. [op |-> "PushI32", imm |-> 0] \in Instr /\ [op |-> "Pop", imm |-> 0] \in Instr
  BY DEF Instr, Opcodes, Constants, Unary
<1>2. \/ Remains(wanted, op) = <<>>
      \/ Remains(wanted, op) = <<[op |-> "PushI32", imm |-> 0]>>
      \/ Remains(wanted, op) = <<[op |-> "Pop", imm |-> 0]>>
  BY DEF Remains
<1>3. \A i \in Instr : <<i>> \in InstrSeq /\ Len(<<i>>) = 1
  BY DEF InstrSeq
<1>4. <<>> \in InstrSeq /\ Len(<<>>) = 0
  BY DEF InstrSeq
<1> QED BY <1>1, <1>2, <1>3, <1>4

\* What stands for one instruction.
LEMMA InlinedIs ==
  ASSUME NEW inst \in Instr, NEW base \in Nat, NEW push
  PROVE  /\ inst.op \notin Returns => InlinedInstruction(inst, base, push) = <<There(inst, base)>>
         /\ inst.op \in Returns => InlinedInstruction(inst, base, push) = Remains(push, inst.op)
<1>1. CASE inst.op \in LocalOps
  <2>1. inst.op \notin Returns
    BY <1>1 DEF LocalOps, Returns
  <2>2. InlinedInstruction(inst, base, push) = <<Shifted(inst, base)>>
    BY <1>1 DEF InlinedInstruction, Shifted, LocalOps, Returns
  <2>3. There(inst, base) = Shifted(inst, base)
    BY <1>1, Zenon DEF There, Shifted
  <2> QED BY <2>1, <2>2, <2>3
<1>2. CASE inst.op \notin LocalOps /\ inst.op \notin Returns
  <2>1. inst.op # "ReturnVoid" /\ inst.op \notin Returns \ {"ReturnVoid"}
    BY <1>2 DEF Returns
  <2>2. InlinedInstruction(inst, base, push) = <<inst>>
    BY <1>2, <2>1 DEF InlinedInstruction
  <2> QED BY <1>2, <2>2 DEF There
<1>3. CASE inst.op \notin LocalOps /\ inst.op = "ReturnVoid"
  BY <1>3 DEF InlinedInstruction, Remains, Returns
<1>4. CASE inst.op \notin LocalOps /\ inst.op \in Returns \ {"ReturnVoid"}
  BY <1>4 DEF InlinedInstruction, Remains, Returns
<1> QED BY <1>1, <1>2, <1>3, <1>4

\* The body that is put in the place of a call: the callee's instructions but its
\* return, then what is left of that.
LEMMA InlinedBody ==
  ASSUME NEW code \in InstrSeq, EndsOnce(code), ~Uses(code, Jumps), NEW base \in Nat, NEW push
  PROVE  LET body == InlinedCallee(code, base, push)
             tail == Remains(push, code[Len(code)].op) IN
         /\ body \in InstrSeq
         /\ Len(body) = Len(code) - 1 + Len(tail)
         /\ \A j \in 1 .. Len(code) - 1 : body[j] = There(code[j], base)
         /\ Len(tail) = 1 => body[Len(code)] = tail[1]
<1> DEFINE n == Len(code)
           tail == Remains(push, code[n].op)
           parts == [i \in DOMAIN code |-> InlinedInstruction(code[i], base, push)]
           body == FlattenSeq(parts)
<1>1. /\ n \in Nat \ {0} /\ DOMAIN code = 1 .. n
      /\ code[n].op \in Returns /\ \A j \in 1 .. n - 1 : code[j].op \notin Returns
  BY EndsOnceFacts
<1>2. \A i \in 1 .. n : code[i] \in Instr
  BY <1>1 DEF InstrSeq
<1>3. parts \in Seq(InstrSeq) /\ DOMAIN parts = 1 .. n /\ Len(parts) = n
  <2>1. \A i \in 1 .. n : InlinedInstruction(code[i], base, push) \in InstrSeq
    BY <1>2, InlinedOne
  <2> HIDE DEF n
  <2> QED BY <1>1, <2>1
<1>4. /\ parts[n] = tail
      /\ \A j \in 1 .. n - 1 : parts[j] = <<There(code[j], base)>>
  <2>1. parts[n] = tail
    <3>1. n \in 1 .. n
      BY <1>1
    <3>2. InlinedInstruction(code[n], base, push) = tail
      BY <1>1, <1>2, <3>1, InlinedIs
    <3> QED BY <1>1, <3>1, <3>2
  <2>2. ASSUME NEW j \in 1 .. n - 1
        PROVE  parts[j] = <<There(code[j], base)>>
    <3>1. j \in 1 .. n
      BY <1>1
    <3>2. InlinedInstruction(code[j], base, push) = <<There(code[j], base)>>
      BY <1>1, <1>2, <3>1, InlinedIs
    <3> QED BY <1>1, <3>1, <3>2
  <2> QED BY <2>1, <2>2
<1>5. InlinedCallee(code, base, push) = body
  BY DEF InlinedCallee
<1>6. tail \in InstrSeq /\ Len(tail) \in {0, 1}
  BY RemainsFacts
<1> HIDE DEF parts, tail
<1>7. PICK flat : /\ body = flat[n]
                  /\ flat[1] = parts[1]
                  /\ \A i \in 1 .. n : i # 1 => flat[i] = flat[i - 1] \o parts[i]
  <2>1. parts \in Seq(Seq(Instr)) /\ Len(parts) # 0
    BY <1>1, <1>3 DEF InstrSeq
  <2>2. \E flat : /\ FlattenSeq(parts) = flat[Len(parts)]
                  /\ flat[1] = parts[1]
                  /\ \A i \in 1 .. Len(parts) : i # 1 => flat[i] = flat[i - 1] \o parts[i]
    BY <2>1, FlattenSteps
  <2> QED BY <1>3, <2>2
<1> DEFINE Laid(s, k) == /\ s \in InstrSeq /\ Len(s) = k
                         /\ \A j \in 1 .. k : s[j] = There(code[j], base)
           S == {k \in Nat : k + 1 <= n - 1 => Laid(flat[k + 1], k + 1)}
<1> HIDE DEF body, n
<1>8. ASSUME NEW j \in 1 .. n - 1
      PROVE  There(code[j], base) \in Instr
  <2>1. code[j] \in Instr
    BY <1>1, <1>2
  <2> QED BY <2>1, ThereFacts
<1>9. 0 \in S
  <2>1. ASSUME 1 <= n - 1
        PROVE  Laid(flat[1], 1)
    <3>1. 1 \in 1 .. n - 1
      BY <1>1, <2>1
    <3>2. flat[1] = <<There(code[1], base)>> /\ There(code[1], base) \in Instr
      BY <1>4, <1>7, <1>8, <3>1
    <3>3. PICK x \in Instr : x = There(code[1], base)
      BY <3>2
    <3>4. <<x>> \in InstrSeq /\ Len(<<x>>) = 1 /\ <<x>>[1] = x
      BY DEF InstrSeq
    <3>5. \A j \in 1 .. 1 : j = 1
      OBVIOUS
    <3> QED BY <3>2, <3>3, <3>4, <3>5
  <2> QED BY <2>1
<1>10. ASSUME NEW k \in Nat, k \in S
       PROVE  k + 1 \in S
  <2>1. SUFFICES ASSUME (k + 1) + 1 <= n - 1 PROVE Laid(flat[(k + 1) + 1], (k + 1) + 1)
    OBVIOUS
  <2>2. /\ k + 1 <= n - 1 /\ (k + 1) + 1 \in 1 .. n - 1 /\ (k + 1) + 1 \in 1 .. n
        /\ (k + 1) + 1 # 1 /\ ((k + 1) + 1) - 1 = k + 1
    BY <1>1, <2>1
  <2>3. Laid(flat[k + 1], k + 1)
    BY <1>10, <2>2
  <2>4. PICK x \in Instr : x = There(code[(k + 1) + 1], base)
    BY <1>8, <2>2
  <2>5. parts[(k + 1) + 1] = <<x>>
    BY <1>4, <2>2, <2>4
  <2>6. flat[(k + 1) + 1] = flat[k + 1] \o <<x>>
    BY <1>7, <2>2, <2>5
  <2>7. ASSUME NEW s, Laid(s, k + 1)
        PROVE  Laid(s \o <<x>>, (k + 1) + 1)
    <3>1. s \in Seq(Instr) /\ Len(s) = k + 1
      BY <2>7 DEF InstrSeq
    <3>2. /\ s \o <<x>> \in Seq(Instr) /\ Len(s \o <<x>>) = (k + 1) + 1
          /\ \A j \in 1 .. k + 1 : (s \o <<x>>)[j] = s[j]
          /\ (s \o <<x>>)[(k + 1) + 1] = x
      BY <3>1
    <3>3. \A j \in 1 .. (k + 1) + 1 : j \in 1 .. k + 1 \/ j = (k + 1) + 1
      OBVIOUS
    <3>4. \A j \in 1 .. (k + 1) + 1 : (s \o <<x>>)[j] = There(code[j], base)
      BY <2>4, <2>7, <3>2, <3>3
    <3> QED BY <3>2, <3>4 DEF InstrSeq
  <2> QED BY <2>3, <2>6, <2>7
<1>11. \A k \in Nat : k \in S
  <2> HIDE DEF S
  <2> QED BY <1>9, <1>10, SetInduction
<1>12. /\ body \in InstrSeq /\ Len(body) = n - 1 + Len(tail)
       /\ \A j \in 1 .. n - 1 : body[j] = There(code[j], base)
       /\ Len(tail) = 1 => body[n] = tail[1]
  <2>1. CASE n = 1
    <3>1. body = tail /\ 1 .. n - 1 = {}
      BY <1>4, <1>7, <2>1
    <3> QED BY <1>6, <2>1, <3>1
  <2>2. CASE n # 1
    <3>1. n - 2 \in Nat /\ (n - 2) + 1 = n - 1 /\ (n - 2) + 1 <= n - 1 /\ n \in 1 .. n
      BY <1>1, <2>2
    <3>2. n - 2 \in S
      BY <1>11, <3>1
    <3>3. Laid(flat[n - 1], n - 1)
      BY <3>1, <3>2
    <3>4. body = flat[n - 1] \o tail
      BY <1>4, <1>7, <2>2, <3>1
    <3>5. ASSUME NEW s, Laid(s, n - 1), body = s \o tail
          PROVE  /\ body \in InstrSeq /\ Len(body) = n - 1 + Len(tail)
                 /\ \A j \in 1 .. n - 1 : body[j] = There(code[j], base)
                 /\ Len(tail) = 1 => body[n] = tail[1]
      <4>1. s \in Seq(Instr) /\ tail \in Seq(Instr) /\ Len(s) = n - 1
        BY <1>6, <3>5 DEF InstrSeq
      <4>2. /\ s \o tail \in Seq(Instr) /\ Len(s \o tail) = n - 1 + Len(tail)
            /\ \A j \in 1 .. n - 1 : (s \o tail)[j] = s[j]
        BY <4>1
      <4>3. Len(tail) = 1 => (s \o tail)[n] = tail[1]
        BY <1>1, <4>1
      <4> QED BY <3>5, <4>2, <4>3 DEF InstrSeq
    <3> QED BY <3>3, <3>4, <3>5
  <2> QED BY <2>1, <2>2
<1> QED BY <1>5, <1>12 DEF n, tail, body
-----------------------------------------------------------------------------
(***************************************************************************)
(* One rewriting of one function: w.old is the module before, w.new the    *)
(* module after, w.f the function, and w.at[k] what the loop has when k    *)
(* instructions are done.                                                  *)
(***************************************************************************)
OldCode(w) == w.old.functions[w.f]
NewCode(w) == w.new.functions[w.f]
Pos(w, k) == Len(w.at[k].code)
Base(w, k) == w.at[k].nextLocal
CalleeAt(w, k) == w.old.functions[OldCode(w)[k + 1].imm + 1]
RestAt(w, k) ==
  Remains(OldCode(w)[k + 1].op = "Call", CalleeAt(w, k)[Len(CalleeAt(w, k))].op)

\* The instruction after the first k has been copied.
Kept(w, k) ==
  /\ NewCode(w)[Pos(w, k) + 1] = OldCode(w)[k + 1]
  /\ Pos(w, k + 1) = Pos(w, k) + 1
  /\ Base(w, k + 1) = Base(w, k)

\* A function without calls, jumps and returns but one, the last.
Plain(code) ==
  /\ Len(code) \in Nat \ {0}
  /\ code[Len(code)].op \in Returns
  /\ \A j \in 1 .. Len(code) - 1 : code[j].op \in Basics

\* It is a call, and its callee is there instead.
PutIn(w, k) ==
  LET inst == OldCode(w)[k + 1]
      callee == CalleeAt(w, k)
      rest == RestAt(w, k) IN
  /\ inst.op \in Calls
  /\ inst.imm + 1 \in DOMAIN w.old.functions \ {w.f}
  /\ Plain(callee)
  /\ \A j \in 1 .. Len(callee) - 1 : NewCode(w)[Pos(w, k) + j] = There(callee[j], Base(w, k))
  /\ Len(rest) = 1 => NewCode(w)[Pos(w, k) + Len(callee)] = rest[1]
  /\ Pos(w, k + 1) = Pos(w, k) + (Len(callee) - 1) + Len(rest)
  /\ Base(w, k + 1) = Base(w, k) + LocalCount(callee)

Layout(w) ==
  /\ Pos(w, 0) = 0 /\ Base(w, 0) = LocalCount(OldCode(w))
  /\ Pos(w, Len(OldCode(w))) = Len(NewCode(w))
  /\ \A k \in 0 .. Len(OldCode(w)) :
       /\ Pos(w, k) \in Nat /\ Pos(w, k) <= Len(NewCode(w))
       /\ Base(w, k) \in Nat /\ LocalCount(OldCode(w)) <= Base(w, k)
       /\ Base(w, k) <= LocalCount(NewCode(w))
  /\ \A k \in 0 .. Len(OldCode(w)) - 1 : Kept(w, k) \/ PutIn(w, k)

Fits(w) ==
  /\ IsModule(w.old) /\ IsModule(w.new)
  /\ w.new.entryIndex = w.old.entryIndex
  /\ w.f \in DOMAIN w.old.functions /\ DOMAIN w.new.functions = DOMAIN w.old.functions
  /\ \A g \in DOMAIN w.old.functions : g # w.f => w.new.functions[g] = w.old.functions[g]
  /\ ~Uses(OldCode(w), Jumps)
  /\ Layout(w)

\* What lowering and the validation say of a module, but for its local indices.
Sound(m) ==
  /\ IsModule(m)
  /\ ValidEntry(m)
  /\ \A g \in DOMAIN m.functions :
       /\ EndsOnce(m.functions[g])
       /\ \A i \in DOMAIN m.functions[g] :
            LET inst == m.functions[g][i] IN
            /\ inst.op \in Opcodes
            /\ inst.op \in Jumps => inst.imm <= Len(m.functions[g])
            /\ inst.op \in Calls => inst.imm < Len(m.functions)

\* A leaf of a sound module.
LEMMA LeafPlain ==
  ASSUME NEW m, Sound(m), NEW g \in DOMAIN m.functions, IsLeaf(m.functions[g])
  PROVE  Plain(m.functions[g])
<1> DEFINE code == m.functions[g]
<1>1. code \in InstrSeq /\ EndsOnce(code)
  BY DEF Sound, IsModule
<1>2. ~Uses(code, Jumps) /\ ~Uses(code, Calls)
  BY DEF IsLeaf, Uses
<1>3. /\ Len(code) \in Nat \ {0} /\ DOMAIN code = 1 .. Len(code)
      /\ code[Len(code)].op \in Returns
      /\ \A j \in 1 .. Len(code) - 1 : code[j].op \notin Returns
  BY <1>1, <1>2, EndsOnceFacts
<1>4. ASSUME NEW j \in 1 .. Len(code) - 1
      PROVE  code[j].op \in Basics
  <2>1. j \in DOMAIN code
    BY <1>3
  <2>2. code[j].op \in Opcodes /\ code[j].op \notin Jumps /\ code[j].op \notin Calls
    BY <1>2, <2>1 DEF Sound, Uses
  <2> QED BY <1>3, <2>2 DEF Basics
<1> QED BY <1>3, <1>4 DEF Plain

Prefixed(s, t) == Len(s) <= Len(t) /\ \A i \in 1 .. Len(s) : t[i] = s[i]

\* The code only grows, and so do the locals.
LEMMA CopiesGrow ==
  ASSUME Known, NEW f \in Functions, NEW c, Copies(f, c)
  PROVE  /\ \A k \in 0 .. Len(ir.functions[f]) : c[k] \in CopyType
         /\ \A k \in 0 .. Len(ir.functions[f]) : \A l \in 0 .. Len(ir.functions[f]) :
              k <= l => Prefixed(c[k].code, c[l].code) /\ c[k].nextLocal <= c[l].nextLocal
<1> DEFINE n == Len(ir.functions[f])
<1>1. n \in Nat /\ DOMAIN ir.functions[f] = 1 .. n /\ localCounts[f] \in Nat
  BY FunctionFacts
<1>2. /\ c[0] = FirstCopy(f)
      /\ \A i \in 1 .. n : c[i] = Copied(f, c[i - 1], ir.functions[f][i])
  BY DEF Copies
<1> DEFINE T == {k \in Nat : k <= n => c[k] \in CopyType}
<1>3. 0 \in T
  <2>1. <<>> \in InstrSeq
    BY DEF InstrSeq
  <2>2. c[0] \in CopyType
    BY <1>1, <1>2, <2>1 DEF CopyType, FirstCopy
  <2> QED BY <2>2
<1>4. ASSUME NEW k \in Nat, k \in T
      PROVE  k + 1 \in T
  <2>1. SUFFICES ASSUME k + 1 <= n PROVE c[k + 1] \in CopyType
    OBVIOUS
  <2>2. k <= n /\ k + 1 \in 1 .. n /\ (k + 1) - 1 = k
    BY <1>1, <2>1
  <2>3. c[k] \in CopyType /\ c[k + 1] = Copied(f, c[k], ir.functions[f][k + 1])
    BY <1>2, <1>4, <2>2
  <2> QED BY <1>1, <2>2, <2>3, CopiedType
<1>5. \A k \in Nat : k \in T
  <2> HIDE DEF T
  <2> QED BY <1>3, <1>4, SetInduction
<1>6. \A k \in 0 .. n : c[k] \in CopyType
  BY <1>1, <1>5
<1>7. ASSUME NEW k \in Nat, k + 1 <= n
      PROVE  Prefixed(c[k].code, c[k + 1].code) /\ c[k].nextLocal <= c[k + 1].nextLocal
  <2> DEFINE inst == ir.functions[f][k + 1]
             q == inst.imm + 1
  <2>1. k \in 0 .. n /\ k + 1 \in 1 .. n /\ (k + 1) - 1 = k
    BY <1>1, <1>7
  <2>2. c[k] \in CopyType /\ c[k + 1] = Copied(f, c[k], inst)
    BY <1>2, <1>6, <2>1
  <2>3. c[k].code \in Seq(Instr) /\ c[k].nextLocal \in Nat
    BY <2>2 DEF CopyType, InstrSeq
  <2>4. CASE Inlines(f, inst)
    <3>1. q \in Functions
      BY <1>1, <2>1, <2>4, InlinedCalleeFacts
    <3> DEFINE body == InlinedCallee(ir.functions[q], c[k].nextLocal, inst.op = "Call")
    <3>2. localCounts[q] \in Nat /\ ir.functions[q] \in InstrSeq
      BY <3>1, FunctionFacts
    <3>3. body \in Seq(Instr)
      BY <2>3, <3>2, InlinedAll DEF InstrSeq
    <3>4. c[k + 1] = [code |-> c[k].code \o body, nextLocal |-> c[k].nextLocal + localCounts[q]]
      BY <2>2, <2>4 DEF Copied, LocalsAfter
    <3> HIDE DEF body, q, inst
    <3>5. /\ c[k + 1].code = c[k].code \o body
          /\ c[k + 1].nextLocal = c[k].nextLocal + localCounts[q]
      BY <3>4
    <3>6. \A s \in Seq(Instr) : Prefixed(s, s \o body)
      BY <3>3 DEF Prefixed
    <3>7. \A x \in Nat : x <= x + localCounts[q]
      BY <3>2
    <3> QED BY <2>3, <3>5, <3>6, <3>7
  <2>5. CASE ~Inlines(f, inst)
    <3>1. inst \in Instr
      BY <1>1, <2>1, FunctionFacts
    <3>2. c[k + 1] = [c[k] EXCEPT !.code = Append(@, inst)]
      BY <2>2, <2>5 DEF Copied
    <3> HIDE DEF inst
    <3>3. c[k + 1].code = Append(c[k].code, inst) /\ c[k + 1].nextLocal = c[k].nextLocal
      BY <2>2, <3>2 DEF CopyType
    <3>4. \A s \in Seq(Instr) : Prefixed(s, Append(s, inst))
      BY <3>1 DEF Prefixed
    <3> QED BY <2>3, <3>3, <3>4
  <2> QED BY <2>4, <2>5
<1>8. ASSUME NEW k \in 0 .. n
      PROVE  \A l \in 0 .. n : k <= l =>
               Prefixed(c[k].code, c[l].code) /\ c[k].nextLocal <= c[l].nextLocal
  <2> DEFINE S == {d \in Nat : k + d <= n =>
                     Prefixed(c[k].code, c[k + d].code) /\ c[k].nextLocal <= c[k + d].nextLocal}
  <2>1. 0 \in S
    <3>1. k + 0 = k
      BY <1>1
    <3>2. c[k].code \in Seq(Instr) /\ c[k].nextLocal \in Nat
      BY <1>6 DEF CopyType, InstrSeq
    <3> QED BY <3>1, <3>2 DEF Prefixed
  <2>2. ASSUME NEW d \in Nat, d \in S
        PROVE  d + 1 \in S
    <3>1. SUFFICES ASSUME k + (d + 1) <= n
                   PROVE  /\ Prefixed(c[k].code, c[k + (d + 1)].code)
                          /\ c[k].nextLocal <= c[k + (d + 1)].nextLocal
      OBVIOUS
    <3>2. k + d \in Nat /\ (k + d) + 1 = k + (d + 1) /\ (k + d) + 1 <= n /\ k + d <= n
          /\ k + d \in 0 .. n /\ k + (d + 1) \in 0 .. n
      BY <1>1, <3>1
    <3>3. Prefixed(c[k].code, c[k + d].code) /\ c[k].nextLocal <= c[k + d].nextLocal
      BY <2>2, <3>2
    <3>4. /\ Prefixed(c[k + d].code, c[k + (d + 1)].code)
          /\ c[k + d].nextLocal <= c[k + (d + 1)].nextLocal
      BY <1>7, <3>2
    <3>5. c[k] \in CopyType /\ c[k + d] \in CopyType /\ c[k + (d + 1)] \in CopyType
      BY <1>6, <3>2
    <3>6. \A x, y, z \in CopyType :
            /\ Prefixed(x.code, y.code) /\ Prefixed(y.code, z.code) => Prefixed(x.code, z.code)
            /\ x.nextLocal <= y.nextLocal /\ y.nextLocal <= z.nextLocal => x.nextLocal <= z.nextLocal
      BY DEF CopyType, Prefixed, InstrSeq
    <3> QED BY <3>3, <3>4, <3>5, <3>6
  <2>3. \A d \in Nat : d \in S
    <3> HIDE DEF S
    <3> QED BY <2>1, <2>2, SetInduction
  <2>4. ASSUME NEW l \in 0 .. n, k <= l
        PROVE  Prefixed(c[k].code, c[l].code) /\ c[k].nextLocal <= c[l].nextLocal
    <3>1. l - k \in Nat /\ k + (l - k) = l /\ l <= n
      BY <1>1, <2>4
    <3>2. l - k \in S
      BY <2>3, <3>1
    <3> QED BY <3>1, <3>2
  <2> QED BY <2>4
<1> QED BY <1>6, <1>8

Rewriting(f, c) ==
  [old |-> ir, new |-> [ir EXCEPT !.functions[f] = Rewritten(f).code], f |-> f, at |-> c]

\* What is put in the place of a call is laid out as PutIn says, and anything else
\* is copied.
LEMMA LaidOut ==
  ASSUME Known, Sound(ir), NEW f \in Functions, NEW c, Copies(f, c)
  PROVE  Layout(Rewriting(f, c))
<1> DEFINE w == Rewriting(f, c)
           code == ir.functions[f]
           n == Len(code)
           new == Rewritten(f).code
<1>1. /\ w.old = ir /\ w.f = f /\ w.at = c
      /\ OldCode(w) = code /\ NewCode(w) = new /\ DOMAIN w.old.functions = Functions
  <2>1. w.old = ir /\ w.f = f /\ w.at = c /\ w.new = [ir EXCEPT !.functions[f] = new]
    BY DEF Rewriting
  <2>2. [ir EXCEPT !.functions[f] = new].functions[f] = new
    BY DEF Known, Functions
  <2> QED BY <2>1, <2>2 DEF OldCode, NewCode, Functions
<1>2. /\ code \in InstrSeq /\ n \in Nat /\ DOMAIN code = 1 .. n /\ localCounts[f] \in Nat
      /\ \A i \in 1 .. n : code[i] \in Instr
      /\ localCounts[f] = LocalCount(code)
  BY FunctionFacts
<1>3. /\ c[0] = FirstCopy(f) /\ Rewritten(f) = c[n]
      /\ \A i \in 1 .. n : c[i] = Copied(f, c[i - 1], code[i])
  BY DEF Copies
<1>4. new \in InstrSeq /\ LocalCount(new) = Rewritten(f).nextLocal
  BY RewrittenFacts DEF CopyType
<1>5. /\ \A k \in 0 .. n : c[k] \in CopyType
      /\ \A k \in 0 .. n : \A l \in 0 .. n :
           k <= l => Prefixed(c[k].code, c[l].code) /\ c[k].nextLocal <= c[l].nextLocal
  BY CopiesGrow
<1> HIDE DEF w, code, n, new
<1>6. \A k : Pos(w, k) = Len(c[k].code) /\ Base(w, k) = c[k].nextLocal
  BY <1>1 DEF Pos, Base
<1>7. Pos(w, 0) = 0 /\ Base(w, 0) = LocalCount(code)
  BY <1>2, <1>3, <1>6 DEF FirstCopy
<1>8. Pos(w, n) = Len(new) /\ Base(w, n) = LocalCount(new)
  BY <1>3, <1>4, <1>6 DEF new
<1>9. ASSUME NEW k \in 0 .. n
      PROVE  /\ Pos(w, k) \in Nat /\ Pos(w, k) <= Len(new)
             /\ Base(w, k) \in Nat /\ LocalCount(code) <= Base(w, k)
             /\ Base(w, k) <= LocalCount(new)
  <2>1. 0 \in 0 .. n /\ n \in 0 .. n /\ 0 <= k /\ k <= n
    BY <1>2
  <2>2. c[k].code \in Seq(Instr) /\ c[k].nextLocal \in Nat
    BY <1>5 DEF CopyType, InstrSeq
  <2>3. Len(c[k].code) <= Len(c[n].code) /\ c[0].nextLocal <= c[k].nextLocal
        /\ c[k].nextLocal <= c[n].nextLocal
    BY <1>5, <2>1 DEF Prefixed
  <2> QED BY <1>6, <1>7, <1>8, <2>2, <2>3
<1>10. ASSUME NEW k \in 0 .. n - 1
       PROVE  Kept(w, k) \/ PutIn(w, k)
  <2> DEFINE inst == code[k + 1]
             q == inst.imm + 1
             s == c[k].code
  <2>1. /\ k \in 0 .. n /\ k + 1 \in 0 .. n /\ k + 1 \in 1 .. n /\ (k + 1) - 1 = k /\ n \in 0 .. n
        /\ k + 1 <= n
    BY <1>2
  <2>2. c[k + 1] = Copied(f, c[k], inst) /\ inst \in Instr
    BY <1>2, <1>3, <2>1
  <2>3. s \in Seq(Instr) /\ c[k].nextLocal \in Nat /\ c[k] \in CopyType
    BY <1>5, <2>1 DEF CopyType, InstrSeq
  <2>4. Prefixed(c[k + 1].code, new)
    BY <1>3, <1>5, <2>1 DEF new
  <2>5. CASE ~Inlines(f, inst)
    <3>1. c[k + 1] = [c[k] EXCEPT !.code = Append(@, inst)]
      BY <2>2, <2>5 DEF Copied
    <3> HIDE DEF inst
    <3>2. c[k + 1].code = Append(c[k].code, inst) /\ c[k + 1].nextLocal = c[k].nextLocal
      BY <2>3, <3>1 DEF CopyType
    <3>3. Len(Append(s, inst)) = Len(s) + 1 /\ Append(s, inst)[Len(s) + 1] = inst
      BY <2>2, <2>3
    <3>4. Len(s) + 1 \in 1 .. Len(c[k + 1].code)
      BY <2>3, <3>2, <3>3
    <3>5. new[Len(s) + 1] = inst
      BY <2>4, <3>2, <3>3, <3>4 DEF Prefixed
    <3>6. Kept(w, k)
      BY <1>1, <1>6, <3>2, <3>3, <3>5 DEF Kept, inst
    <3> QED BY <3>6
  <2>6. CASE Inlines(f, inst)
    <3>1. q \in Functions /\ q # f /\ inst.op \in Calls /\ leafInlineable[q]
      BY <1>2, <2>1, <2>6, InlinedCalleeFacts DEF Inlines, code
    <3> DEFINE callee == ir.functions[q]
               base == c[k].nextLocal
               body == InlinedCallee(callee, base, inst.op = "Call")
               rest == Remains(inst.op = "Call", callee[Len(callee)].op)
    <3>2. callee \in InstrSeq /\ localCounts[q] = LocalCount(callee) /\ IsLeaf(callee)
      BY <3>1, FunctionFacts
    <3>3. Plain(callee) /\ EndsOnce(callee) /\ ~Uses(callee, Jumps)
      <4>1. q \in DOMAIN ir.functions
        BY <3>1 DEF Functions
      <4>2. EndsOnce(callee)
        BY <4>1 DEF Sound
      <4> QED BY <3>2, <4>1, <4>2, LeafPlain DEF IsLeaf, Uses
    <3>4. /\ body \in InstrSeq
          /\ Len(body) = Len(callee) - 1 + Len(rest)
          /\ \A j \in 1 .. Len(callee) - 1 : body[j] = There(callee[j], base)
          /\ Len(rest) = 1 => body[Len(callee)] = rest[1]
      <4>1. PICK x : x = callee
        OBVIOUS
      <4>2. PICK b : b = base
        OBVIOUS
      <4>3. x \in InstrSeq /\ EndsOnce(x) /\ ~Uses(x, Jumps) /\ b \in Nat
        BY <2>3, <3>2, <3>3, <4>1, <4>2
      <4>4. \A push : LET copy == InlinedCallee(x, b, push)
                          left == Remains(push, x[Len(x)].op) IN
              /\ copy \in InstrSeq
              /\ Len(copy) = Len(x) - 1 + Len(left)
              /\ \A j \in 1 .. Len(x) - 1 : copy[j] = There(x[j], b)
              /\ Len(left) = 1 => copy[Len(x)] = left[1]
        BY <4>3, InlinedBody, Zenon
      <4> QED BY <4>1, <4>2, <4>4, Zenon
    <3>5. c[k + 1] = [code |-> s \o body, nextLocal |-> base + localCounts[q]]
      BY <2>2, <2>6 DEF Copied, LocalsAfter
    <3>6. Len(rest) \in Nat /\ Len(callee) \in Nat \ {0}
      BY <3>3, RemainsFacts DEF Plain
    <3>7. OldCode(w)[k + 1] = inst /\ CalleeAt(w, k) = callee /\ RestAt(w, k) = rest
      BY <1>1 DEF CalleeAt, RestAt
    <3> HIDE DEF body, rest, callee, base, s
    <3>8. c[k + 1].code = s \o body /\ c[k + 1].nextLocal = base + localCounts[q]
      BY <3>5
    <3>9. /\ Len(s) \in Nat /\ Len(s \o body) = Len(s) + Len(body)
          /\ \A j \in 1 .. Len(body) : (s \o body)[Len(s) + j] = body[j]
      <4>1. ASSUME NEW x \in Seq(Instr), NEW y \in Seq(Instr)
            PROVE  /\ Len(x) \in Nat /\ Len(x \o y) = Len(x) + Len(y)
                   /\ \A j \in 1 .. Len(y) : (x \o y)[Len(x) + j] = y[j]
        OBVIOUS
      <4>2. s \in Seq(Instr) /\ body \in Seq(Instr)
        BY <2>3, <3>4 DEF InstrSeq
      <4> QED BY <4>1, <4>2
    <3>10. ASSUME NEW j \in 1 .. Len(body)
           PROVE  new[Len(s) + j] = body[j]
      <4>1. Len(s) + j \in 1 .. Len(s \o body)
        BY <3>4, <3>9
      <4> QED BY <2>4, <3>8, <3>9, <4>1 DEF Prefixed
    <3>11. \A j \in 1 .. Len(callee) - 1 : j \in 1 .. Len(body)
      BY <3>4, <3>6
    <3>12. Len(rest) = 1 => Len(callee) \in 1 .. Len(body)
      BY <3>4, <3>6
    <3>13. \A j \in 1 .. Len(callee) - 1 : new[Len(s) + j] = There(callee[j], base)
      BY <3>4, <3>10, <3>11
    <3>14. Len(rest) = 1 => new[Len(s) + Len(callee)] = rest[1]
      BY <3>4, <3>10, <3>12
    <3>15. Pos(w, k) = Len(s) /\ Base(w, k) = base
           /\ Pos(w, k + 1) = Len(s) + (Len(callee) - 1) + Len(rest)
           /\ Base(w, k + 1) = base + LocalCount(callee)
      <4>1. Len(s \o body) = Len(s) + (Len(callee) - 1) + Len(rest)
        BY <3>4, <3>6, <3>9
      <4> QED BY <1>6, <3>2, <3>8, <4>1 DEF s, base
    <3>16. inst.imm + 1 \in DOMAIN w.old.functions \ {w.f}
      BY <1>1, <3>1
    <3> HIDE DEF inst, q
    <3>17. PutIn(w, k)
      BY <1>1, <3>1, <3>3, <3>7, <3>13, <3>14, <3>15, <3>16, Zenon DEF PutIn
    <3> QED BY <3>17
  <2> QED BY <2>5, <2>6
<1> QED BY <1>1, <1>7, <1>8, <1>9, <1>10 DEF Layout, w, n

-----------------------------------------------------------------------------
\* Where an instruction of the new code came from.
Came(w, p) ==
  \E k \in 0 .. Len(OldCode(w)) - 1 :
    \/ Kept(w, k) /\ p = Pos(w, k) + 1
    \/ PutIn(w, k) /\ \E j \in 1 .. Len(CalleeAt(w, k)) - 1 : p = Pos(w, k) + j
    \/ PutIn(w, k) /\ Len(RestAt(w, k)) = 1 /\ p = Pos(w, k) + Len(CalleeAt(w, k))

\* They all came from somewhere.
LEMMA AllCame ==
  ASSUME NEW w, Layout(w), Len(OldCode(w)) \in Nat
  PROVE  \A p \in 1 .. Len(NewCode(w)) : Came(w, p)
<1> DEFINE n == Len(OldCode(w))
           S == {k \in Nat : k <= n => \A p \in 1 .. Pos(w, k) : Came(w, p)}
<1>1. 0 \in S
  <2>1. Pos(w, 0) = 0
    BY DEF Layout
  <2>2. 1 .. Pos(w, 0) = {}
    BY <2>1
  <2> QED BY <2>2
<1>2. ASSUME NEW k \in Nat, k \in S
      PROVE  k + 1 \in S
  <2>1. SUFFICES ASSUME k + 1 <= n, NEW p \in 1 .. Pos(w, k + 1) PROVE Came(w, p)
    OBVIOUS
  <2>2. k \in 0 .. n - 1 /\ k \in 0 .. n /\ k + 1 \in 0 .. n /\ k <= n
    BY <2>1
  <2>3. Pos(w, k) \in Nat /\ Pos(w, k + 1) \in Nat
    BY <2>2 DEF Layout
  <2>4. \A i \in 1 .. Pos(w, k) : Came(w, i)
    BY <1>2, <2>2
  <2>5. CASE p <= Pos(w, k)
    BY <2>3, <2>4, <2>5
  <2>6. CASE p > Pos(w, k) /\ Kept(w, k)
    <3>1. Pos(w, k + 1) = Pos(w, k) + 1
      BY <2>6 DEF Kept
    <3>2. p = Pos(w, k) + 1
      BY <2>3, <2>6, <3>1
    <3> QED BY <2>2, <2>6, <3>2 DEF Came
  <2>7. CASE p > Pos(w, k) /\ PutIn(w, k)
    <3> DEFINE l == Len(CalleeAt(w, k))
               r == Len(RestAt(w, k))
    <3>1. l \in Nat \ {0} /\ r \in {0, 1} /\ Pos(w, k + 1) = Pos(w, k) + (l - 1) + r
      BY <2>7, RemainsFacts DEF PutIn, Plain, RestAt
    <3> HIDE DEF l, r
    <3>2. p = Pos(w, k) + (p - Pos(w, k))
      BY <2>3
    <3>3. p - Pos(w, k) \in 1 .. l - 1 \/ (r = 1 /\ p = Pos(w, k) + l)
      BY <2>3, <2>7, <3>1
    <3>4. CASE p - Pos(w, k) \in 1 .. l - 1
      BY <2>2, <2>7, <3>2, <3>4 DEF Came, l
    <3>5. CASE r = 1 /\ p = Pos(w, k) + l
      BY <2>2, <2>7, <3>5 DEF Came, l, r
    <3> QED BY <3>3, <3>4, <3>5
  <2>8. Kept(w, k) \/ PutIn(w, k)
    BY <2>2 DEF Layout
  <2> QED BY <2>3, <2>5, <2>6, <2>7, <2>8
<1>3. \A k \in Nat : k \in S
  <2> HIDE DEF S
  <2> QED BY <1>1, <1>2, SetInduction
<1>4. n \in S /\ n <= n
  <2> HIDE DEF S
  <2> QED BY <1>3
<1> QED BY <1>4 DEF Layout

\* What is so of an instruction of the new code.
LEMMA NewInstruction ==
  ASSUME NEW w, Layout(w), Sound(w.old), w.f \in DOMAIN w.old.functions,
         ~Uses(OldCode(w), Jumps), NewCode(w) \in InstrSeq, NEW p \in 1 .. Len(NewCode(w))
  PROVE  LET x == NewCode(w)[p] IN
         /\ x.op \in Opcodes /\ x.op \notin Jumps
         /\ x.op \in Calls => \E i \in DOMAIN OldCode(w) : x = OldCode(w)[i]
         /\ x.op = "PushI64" => x.imm \in Word
         /\ x.op \in Returns => p = Len(NewCode(w))
<1> DEFINE x == NewCode(w)[p]
           code == OldCode(w)
           n == Len(code)
<1>1. /\ code \in InstrSeq /\ n \in Nat \ {0} /\ DOMAIN code = 1 .. n
      /\ \A j \in 1 .. n - 1 : code[j].op \notin Returns
      /\ \A j \in 1 .. n : code[j].op \in Opcodes /\ code[j].op \notin Jumps
      /\ \A j \in 1 .. n : code[j].op = "PushI64" => code[j].imm \in Word
  <2>1. code \in InstrSeq /\ EndsOnce(code)
    BY DEF Sound, IsModule, OldCode
  <2>2. n \in Nat \ {0} /\ DOMAIN code = 1 .. n /\ \A j \in 1 .. n - 1 : code[j].op \notin Returns
    BY <2>1, EndsOnceFacts
  <2>3. \A j \in DOMAIN code : /\ code[j].op \in Opcodes /\ code[j].op \notin Jumps
                               /\ code[j].op = "PushI64" => code[j].imm \in Word
    BY DEF Sound, IsModule, OldCode, Uses
  <2> QED BY <2>1, <2>2, <2>3
<1>2. /\ Basics \cap Jumps = {} /\ Basics \cap Calls = {} /\ Basics \cap Returns = {}
      /\ Basics \subseteq Opcodes /\ "PushI64" \notin Calls /\ "PushI64" \notin Returns
  BY DEF Basics, Jumps, Calls, Returns
<1>3. PICK k \in 0 .. n - 1 :
        \/ Kept(w, k) /\ p = Pos(w, k) + 1
        \/ PutIn(w, k) /\ \E j \in 1 .. Len(CalleeAt(w, k)) - 1 : p = Pos(w, k) + j
        \/ PutIn(w, k) /\ Len(RestAt(w, k)) = 1 /\ p = Pos(w, k) + Len(CalleeAt(w, k))
  BY <1>1, AllCame DEF Came
<1>4. k + 1 \in 1 .. n /\ (k + 1 \in 1 .. n - 1 \/ k + 1 = n)
  <2>1. n \in Nat \ {0} /\ k \in 0 .. n - 1
    BY <1>1
  <2> HIDE DEF n
  <2> QED BY <2>1
<1>5. CASE Kept(w, k) /\ p = Pos(w, k) + 1
  <2>1. x = code[k + 1]
    BY <1>5 DEF Kept
  <2>2. k + 1 = n => p = Len(NewCode(w))
    BY <1>5 DEF Kept, Layout
  <2> QED BY <1>1, <1>4, <2>1, <2>2
<1>6. CASE PutIn(w, k) /\ \E j \in 1 .. Len(CalleeAt(w, k)) - 1 : p = Pos(w, k) + j
  <2> DEFINE callee == CalleeAt(w, k)
  <2>1. PICK j \in 1 .. Len(callee) - 1 : p = Pos(w, k) + j
    BY <1>6
  <2>2. x = There(callee[j], Base(w, k)) /\ callee[j].op \in Basics
    BY <1>6, <2>1 DEF PutIn, Plain
  <2>3. callee \in InstrSeq /\ j \in DOMAIN callee
        /\ (callee[j].op = "PushI64" => callee[j].imm \in Word)
    <3>1. code[k + 1].imm + 1 \in DOMAIN w.old.functions
      BY <1>6 DEF PutIn
    <3>2. callee = w.old.functions[code[k + 1].imm + 1]
      BY DEF CalleeAt
    <3> HIDE DEF callee
    <3>3. callee \in InstrSeq
      BY <3>1, <3>2 DEF Sound, IsModule
    <3>4. j \in DOMAIN callee
      BY <3>3 DEF InstrSeq
    <3> QED BY <3>1, <3>2, <3>3, <3>4 DEF Sound, IsModule
  <2>4. callee[j] \in Instr
    BY <2>3 DEF InstrSeq
  <2>5. Base(w, k) \in Nat
    BY <1>1 DEF Layout
  <2>6. x.op = callee[j].op /\ (x.op = "PushI64" => x.imm = callee[j].imm)
    <3>1. "PushI64" \notin LocalOps
      BY DEF LocalOps
    <3> QED BY <2>2, <2>4, <2>5, <3>1, ThereFacts
  <2> QED BY <1>2, <2>2, <2>3, <2>6
<1>7. CASE PutIn(w, k) /\ Len(RestAt(w, k)) = 1 /\ p = Pos(w, k) + Len(CalleeAt(w, k))
  <2>1. x = RestAt(w, k)[1]
    BY <1>7 DEF PutIn
  <2>2. x.op \in {"PushI32", "Pop"}
    <3>1. /\ Len(<<>>) = 0 /\ <<[op |-> "PushI32", imm |-> 0]>>[1].op = "PushI32"
          /\ <<[op |-> "Pop", imm |-> 0]>>[1].op = "Pop"
      OBVIOUS
    <3>2. \A wanted, op : Len(Remains(wanted, op)) = 1 =>
            Remains(wanted, op)[1].op \in {"PushI32", "Pop"}
      BY <3>1 DEF Remains
    <3> QED BY <1>7, <2>1, <3>2 DEF RestAt
  <2>3. {"PushI32", "Pop"} \subseteq Basics /\ "PushI64" \notin {"PushI32", "Pop"}
    BY BasicOps
  <2> QED BY <1>2, <2>2, <2>3
<1> QED BY <1>3, <1>5, <1>6, <1>7

\* The module after the rewriting is one like that before, with the same functions
\* but one, which is laid out as Layout says.
LEMMA RewritingFits ==
  ASSUME Known, Sound(ir), NEW f \in Functions, ~Uses(ir.functions[f], Jumps),
         NEW c, Copies(f, c)
  PROVE  LET w == Rewriting(f, c) IN Fits(w) /\ Sound(w.new)
<1> DEFINE w == Rewriting(f, c)
           new == Rewritten(f).code
<1>1. /\ w.old = ir /\ w.f = f /\ w.at = c /\ OldCode(w) = ir.functions[f]
      /\ w.new = [ir EXCEPT !.functions[f] = new]
  BY DEF Rewriting, OldCode
<1>2. /\ w.new \in [entryIndex : Int, functions : Seq(InstrSeq)]
      /\ w.new.entryIndex = ir.entryIndex
      /\ DOMAIN w.new.functions = DOMAIN ir.functions /\ Len(w.new.functions) = Len(ir.functions)
      /\ w.new.functions[f] = new
      /\ \A g \in DOMAIN ir.functions : g # f => w.new.functions[g] = ir.functions[g]
  <2>1. new \in InstrSeq
    BY RewrittenFacts DEF CopyType
  <2>2. ir \in [entryIndex : Int, functions : Seq(InstrSeq)] /\ f \in DOMAIN ir.functions
    BY DEF Known, Functions
  <2> HIDE DEF new, w
  <2>3. w.new = [entryIndex |-> ir.entryIndex, functions |-> [ir.functions EXCEPT ![f] = new]]
    BY <1>1, <2>2
  <2>4. ASSUME NEW s \in Seq(InstrSeq), NEW t, t = [s EXCEPT ![f] = new], f \in DOMAIN s
        PROVE  /\ t \in Seq(InstrSeq) /\ DOMAIN t = DOMAIN s /\ Len(t) = Len(s) /\ t[f] = new
               /\ \A g \in DOMAIN s : g # f => t[g] = s[g]
    <3>1. /\ DOMAIN t = DOMAIN s /\ t[f] = new /\ \A g \in DOMAIN s : g # f => t[g] = s[g]
          /\ t = [g \in DOMAIN s |-> t[g]]
      BY <2>4
    <3>2. DOMAIN s = 1 .. Len(s) /\ Len(s) \in Nat
      OBVIOUS
    <3>3. \A g \in 1 .. Len(s) : t[g] \in InstrSeq
      BY <2>1, <3>1, <3>2
    <3>4. t \in [1 .. Len(s) -> InstrSeq]
      BY <3>1, <3>2, <3>3
    <3>5. t \in Seq(InstrSeq) /\ Len(t) = Len(s)
      BY <3>2, <3>4
    <3> QED BY <3>1, <3>5
  <2>5. PICK s \in Seq(InstrSeq) : s = ir.functions
    BY <2>2
  <2>6. PICK t : t = [s EXCEPT ![f] = new]
    OBVIOUS
  <2>7. w.new = [entryIndex |-> ir.entryIndex, functions |-> t]
    BY <2>3, <2>5, <2>6, Zenon
  <2>8. w.new.entryIndex = ir.entryIndex /\ w.new.functions = t
        /\ w.new \in [entryIndex : Int, functions : Seq(InstrSeq)]
    BY <2>2, <2>4, <2>5, <2>6, <2>7
  <2> QED BY <2>2, <2>4, <2>5, <2>6, <2>8
<1>3. Layout(w)
  BY LaidOut
<1>4. NewCode(w) = new /\ new \in InstrSeq
  BY <1>1, <1>2, RewrittenFacts DEF NewCode, CopyType
<1>5. f \in DOMAIN ir.functions
  BY DEF Functions
<1> HIDE DEF w, new
<1>6. ASSUME NEW p \in 1 .. Len(new)
      PROVE  /\ new[p].op \in Opcodes /\ new[p].op \notin Jumps
             /\ new[p].op \in Calls => \E i \in DOMAIN ir.functions[f] : new[p] = ir.functions[f][i]
             /\ new[p].op = "PushI64" => new[p].imm \in Word
             /\ new[p].op \in Returns => p = Len(new)
  <2>1. Sound(w.old) /\ w.f \in DOMAIN w.old.functions /\ ~Uses(OldCode(w), Jumps)
        /\ NewCode(w) \in InstrSeq /\ p \in 1 .. Len(NewCode(w))
    BY <1>1, <1>4, <1>5
  <2>2. LET x == NewCode(w)[p] IN
        /\ x.op \in Opcodes /\ x.op \notin Jumps
        /\ x.op \in Calls => \E i \in DOMAIN OldCode(w) : x = OldCode(w)[i]
        /\ x.op = "PushI64" => x.imm \in Word
        /\ x.op \in Returns => p = Len(NewCode(w))
    BY <1>3, <2>1, NewInstruction
  <2> QED BY <1>1, <1>4, <2>2
<1>7. DOMAIN new = 1 .. Len(new) /\ Len(new) \in Nat
  BY <1>4 DEF InstrSeq
<1>8. IsModule(w.new)
  <2>1. ASSUME NEW g \in DOMAIN w.new.functions, NEW i \in DOMAIN w.new.functions[g],
               w.new.functions[g][i].op = "PushI64"
        PROVE  w.new.functions[g][i].imm \in Word
    <3>1. CASE g = f
      BY <1>2, <1>6, <1>7, <2>1, <3>1
    <3>2. CASE g # f
      BY <1>2, <2>1, <3>2 DEF Sound, IsModule
    <3> QED BY <3>1, <3>2
  <2> QED BY <1>2, <2>1 DEF IsModule
<1>9. Fits(w)
  BY <1>1, <1>2, <1>3, <1>5, <1>8 DEF Fits, Sound
<1>10. EndsOnce(new) /\ ~Uses(new, Jumps)
  <2> DEFINE code == ir.functions[f]
             n == Len(code)
  <2>1. code \in InstrSeq /\ EndsOnce(code)
    BY <1>5 DEF Sound, IsModule
  <2>2. n \in Nat \ {0} /\ code[n].op \in Returns
    BY <2>1, EndsOnceFacts
  <2> HIDE DEF code, n
  <2>3. n - 1 \in 0 .. n - 1 /\ (n - 1) + 1 = n /\ n \in 0 .. n /\ n - 1 \in 0 .. n
    BY <2>2
  <2>4. OldCode(w) = code /\ Len(OldCode(w)) = n
    BY <1>1 DEF code, n
  <2>5. ~PutIn(w, n - 1)
    <3>1. code[n].op \notin Calls
      BY <2>2 DEF Calls, Returns
    <3> QED BY <2>3, <2>4, <3>1, Zenon DEF PutIn
  <2>6. Kept(w, n - 1)
    BY <1>3, <2>3, <2>4, <2>5 DEF Layout
  <2>7. Len(new) = Pos(w, n - 1) + 1 /\ new[Pos(w, n - 1) + 1] = code[n]
    BY <1>3, <1>4, <2>3, <2>4, <2>6 DEF Layout, Kept
  <2>8. Pos(w, n - 1) \in Nat
    BY <1>3, <2>3, <2>4 DEF Layout
  <2>9. new # <<>> /\ Last(new) = new[Len(new)] /\ new[Len(new)].op \in Returns
    BY <2>2, <2>7, <2>8 DEF Last
  <2>10. ~Uses(new, Jumps)
    BY <1>6, <1>7 DEF Uses
  <2>11. ~Uses(Front(new), Returns)
    <3>1. ASSUME NEW j \in DOMAIN Front(new), Front(new)[j].op \in Returns
          PROVE  FALSE
      <4>1. Front(new) = SubSeq(new, 1, Len(new) - 1)
        BY DEF Front
      <4>2. new \in Seq(Instr) /\ Len(new) - 1 \in Nat
        BY <1>4, <2>7, <2>8 DEF InstrSeq
      <4>3. j \in 1 .. Len(new) - 1 /\ Front(new)[j] = new[j]
        BY <1>7, <4>1, <4>2
      <4>4. j \in 1 .. Len(new) /\ j # Len(new)
        BY <1>7, <4>3
      <4> QED BY <1>6, <3>1, <4>3, <4>4
    <3> QED BY <3>1 DEF Uses
  <2> QED BY <2>9, <2>10, <2>11 DEF EndsOnce
<1>11. Sound(w.new)
  <2>1. ValidEntry(w.new)
    BY <1>2 DEF Sound, ValidEntry
  <2>2. ASSUME NEW g \in DOMAIN w.new.functions
        PROVE  /\ EndsOnce(w.new.functions[g])
               /\ \A i \in DOMAIN w.new.functions[g] :
                    LET inst == w.new.functions[g][i] IN
                    /\ inst.op \in Opcodes
                    /\ inst.op \in Jumps => inst.imm <= Len(w.new.functions[g])
                    /\ inst.op \in Calls => inst.imm < Len(w.new.functions)
    <3>1. CASE g = f
      <4>1. \A i \in DOMAIN ir.functions[f] :
              ir.functions[f][i].op \in Calls => ir.functions[f][i].imm < Len(ir.functions)
        BY <1>5 DEF Sound
      <4>2. \A i \in 1 .. Len(new) : new[i].op \in Calls => new[i].imm < Len(w.new.functions)
        BY <1>2, <1>6, <4>1
      <4> QED BY <1>2, <1>6, <1>7, <1>10, <3>1, <4>2
    <3>2. CASE g # f
      BY <1>2, <2>2, <3>2 DEF Sound
    <3> QED BY <3>1, <3>2
  <2> QED BY <1>8, <2>1, <2>2, Zenon DEF Sound
<1> QED BY <1>9, <1>11 DEF w
-----------------------------------------------------------------------------
(***************************************************************************)
(* The run of the new module beside that of the old one.  A frame of the   *)
(* rewritten function has its locals first, and zeros where no callee has  *)
(* been; the frame of a callee that is put in is not there, its locals are *)
(* among its caller's.                                                     *)
(***************************************************************************)
Beside(w, a, b, pos, base) ==
  /\ b = Moved(a, pos, b.locals)
  /\ b.locals \in Seq(Word) /\ Len(b.locals) = LocalCount(NewCode(w))
  /\ Window(a.locals, b.locals, 0)
  /\ \A i \in base + 1 .. Len(b.locals) : b.locals[i] = 0

Matches(w, a, b) ==
  IF a.functionIndex + 1 = w.f THEN Beside(w, a, b, Pos(w, a.ip), Base(w, a.ip)) ELSE b = a

MatchAll(w, x, y) ==
  /\ IsSeq(y) /\ Len(y) = Len(x)
  /\ \A i \in 1 .. Len(x) : Matches(w, x[i], y[i])

SameData(s, t) == t.stack = s.stack /\ t.heap = s.heap /\ t.output = s.output

Outer(w, s, t) ==
  /\ SameData(s, t)
  /\ Matches(w, s.top, t.top)
  /\ MatchAll(w, s.callers, t.callers)

Caller(s) == s.callers[Len(s.callers)]
Inner(w, s, t) ==
  LET p == Caller(s)
      k == p.ip - 1 IN
  /\ SameData(s, t)
  /\ s.callers # <<>>
  /\ p.functionIndex + 1 = w.f
  /\ k \in 0 .. Len(OldCode(w)) - 1 /\ PutIn(w, k)
  /\ s.top.functionIndex = OldCode(w)[k + 1].imm
  /\ s.top.returnValueToCaller = (OldCode(w)[k + 1].op = "Call")
  /\ Beside(w, p, t.top, Pos(w, k) + s.top.ip, Base(w, k) + Len(s.top.locals))
  /\ Window(s.top.locals, t.top.locals, Base(w, k))
  /\ MatchAll(w, Without(s.callers, 1), t.callers)

-----------------------------------------------------------------------------
\* What a frame has.
LEMMA FrameParts ==
  ASSUME NEW a, NEW ip, NEW locals
  PROVE  /\ Moved(a, ip, locals).functionIndex = a.functionIndex
         /\ Moved(a, ip, locals).ip = ip
         /\ Moved(a, ip, locals).locals = locals
         /\ Moved(a, ip, locals).returnValueToCaller = a.returnValueToCaller
         /\ \A ip2, locals2 : Moved(Moved(a, ip, locals), ip2, locals2) = Moved(a, ip2, locals2)
  BY DEF Moved

\* An instruction that is copied: both frames are at it, and go past it together.
LEMMA BothAt ==
  ASSUME NEW w, Fits(w), NEW a, FrameOK(w.old, a), a.ip < Len(CodeOf(w.old, a)), NEW b,
         Matches(w, a, b), a.functionIndex + 1 = w.f => Kept(w, a.ip)
  PROVE  /\ InstOf(w.new, b) = InstOf(w.old, a)
         /\ b.ip < Len(CodeOf(w.new, b))
         /\ a.functionIndex + 1 # w.f => b = a /\ CodeOf(w.new, b) = CodeOf(w.old, a)
         /\ b.returnValueToCaller = a.returnValueToCaller
         /\ b.locals \in Seq(Word) /\ Window(a.locals, b.locals, 0)
         /\ \A l, l2 \in Seq(Word) :
              /\ Len(l) = Len(a.locals) /\ Len(l2) = Len(b.locals)
              /\ Window(l, l2, 0)
              /\ \A j \in 1 .. Len(b.locals) : j \notin 1 .. Len(a.locals) => l2[j] = b.locals[j]
              => Matches(w, Moved(a, a.ip + 1, l), Moved(b, b.ip + 1, l2))
<1>1. /\ a = Moved(a, a.ip, a.locals) /\ a.functionIndex \in Nat /\ a.ip \in Nat
      /\ a.functionIndex + 1 \in DOMAIN w.old.functions
      /\ a.locals \in Seq(Word) /\ Len(a.locals) = LocalCount(CodeOf(w.old, a))
  BY DEF FrameOK
<1>2. CASE a.functionIndex + 1 # w.f
  <2>1. b = a
    BY <1>2 DEF Matches
  <2>2. CodeOf(w.new, b) = CodeOf(w.old, a)
    BY <1>1, <1>2, <2>1 DEF CodeOf, Fits
  <2>3. InstOf(w.new, b) = InstOf(w.old, a)
    BY <2>1, <2>2 DEF InstOf
  <2>4. Window(a.locals, b.locals, 0)
    BY <1>1, <2>1 DEF Window
  <2>5. ASSUME NEW l \in Seq(Word), NEW l2 \in Seq(Word),
               Len(l) = Len(a.locals), Len(l2) = Len(b.locals), Window(l, l2, 0)
        PROVE  Matches(w, Moved(a, a.ip + 1, l), Moved(b, b.ip + 1, l2))
    <3>1. l2 = l
      BY <2>1, <2>5 DEF Window
    <3>2. Moved(a, a.ip + 1, l) = Moved(b, b.ip + 1, l2)
      BY <2>1, <3>1
    <3>3. Moved(a, a.ip + 1, l).functionIndex = a.functionIndex
      BY FrameParts
    <3> QED BY <1>2, <3>2, <3>3 DEF Matches
  <2> QED BY <1>1, <1>2, <2>1, <2>2, <2>3, <2>4, <2>5
<1>3. CASE a.functionIndex + 1 = w.f
  <2> DEFINE k == a.ip
             n == Len(OldCode(w))
  <2>1. Beside(w, a, b, Pos(w, k), Base(w, k)) /\ Kept(w, k)
    BY <1>3 DEF Matches
  <2>2. /\ b.functionIndex = a.functionIndex /\ b.ip = Pos(w, k)
        /\ b.returnValueToCaller = a.returnValueToCaller
        /\ b.locals \in Seq(Word) /\ Len(b.locals) = LocalCount(NewCode(w))
        /\ Window(a.locals, b.locals, 0) /\ b = Moved(a, Pos(w, k), b.locals)
        /\ \A i \in Base(w, k) + 1 .. Len(b.locals) : b.locals[i] = 0
    BY <2>1, FrameParts DEF Beside
  <2>3. CodeOf(w.old, a) = OldCode(w) /\ CodeOf(w.new, b) = NewCode(w)
    BY <1>3, <2>2 DEF CodeOf, OldCode, NewCode
  <2>4. n \in Nat
    BY <1>1, <1>3 DEF Fits, IsModule, InstrSeq, OldCode
  <2>5. k \in 0 .. n - 1 /\ k + 1 \in 0 .. n /\ k \in 0 .. n
    BY <1>1, <2>3, <2>4
  <2> HIDE DEF k, n
  <2>6. /\ NewCode(w)[Pos(w, k) + 1] = OldCode(w)[k + 1]
        /\ Pos(w, k + 1) = Pos(w, k) + 1 /\ Base(w, k + 1) = Base(w, k)
        /\ Pos(w, k) \in Nat /\ Pos(w, k + 1) <= Len(NewCode(w))
    BY <2>1, <2>4, <2>5 DEF Kept, Fits, Layout, n
  <2>7. InstOf(w.new, b) = InstOf(w.old, a)
    BY <2>2, <2>3, <2>6 DEF InstOf, k
  <2>8. Len(NewCode(w)) \in Nat /\ Len(b.locals) \in Nat /\ Base(w, k) \in Nat
        /\ Len(a.locals) <= Base(w, k) /\ Len(a.locals) \in Nat
    <3>1. NewCode(w) \in InstrSeq
      BY DEF Fits, NewCode, IsModule
    <3>2. Base(w, k) \in Nat /\ LocalCount(OldCode(w)) <= Base(w, k)
      BY <2>5 DEF Fits, Layout, n
    <3> QED BY <1>1, <2>2, <2>3, <3>1, <3>2 DEF InstrSeq
  <2>9. b.ip < Len(CodeOf(w.new, b))
    BY <2>2, <2>3, <2>6, <2>8
  <2>10. ASSUME NEW l \in Seq(Word), NEW l2 \in Seq(Word),
                Len(l) = Len(a.locals), Len(l2) = Len(b.locals), Window(l, l2, 0),
                \A j \in 1 .. Len(b.locals) : j \notin 1 .. Len(a.locals) => l2[j] = b.locals[j]
         PROVE  Matches(w, Moved(a, k + 1, l), Moved(b, b.ip + 1, l2))
    <3> DEFINE x == Moved(a, k + 1, l)
               y == Moved(b, b.ip + 1, l2)
    <3>1. /\ x.functionIndex = a.functionIndex /\ x.ip = k + 1 /\ x.locals = l /\ y.locals = l2
          /\ Moved(x, Pos(w, k + 1), l2) = Moved(a, Pos(w, k + 1), l2)
      BY FrameParts
    <3>2. y = Moved(a, b.ip + 1, l2)
      BY <2>2, FrameParts
    <3>3. b.ip + 1 = Pos(w, k + 1)
      BY <2>2, <2>6
    <3>4. ASSUME NEW i \in Base(w, k + 1) + 1 .. Len(l2)
          PROVE  l2[i] = 0
      <4>1. i \in Base(w, k) + 1 .. Len(b.locals)
        BY <2>6, <2>10
      <4>2. i \in 1 .. Len(b.locals) /\ i \notin 1 .. Len(a.locals)
        BY <2>8, <4>1
      <4> QED BY <2>2, <2>10, <4>1, <4>2
    <3> HIDE DEF x, y
    <3>5. Beside(w, x, y, Pos(w, x.ip), Base(w, x.ip))
      BY <2>2, <2>10, <3>1, <3>2, <3>3, <3>4 DEF Beside
    <3> QED BY <1>3, <3>1, <3>5 DEF Matches, x, y
  <2> QED BY <1>3, <2>2, <2>7, <2>9, <2>10 DEF k
<1> QED BY <1>2, <1>3

\* Only calls are not copied.
LEMMA KeptUnlessCall ==
  ASSUME NEW w, Fits(w), NEW a, FrameOK(w.old, a), a.ip < Len(CodeOf(w.old, a)),
         a.functionIndex + 1 = w.f
  PROVE  /\ CodeOf(w.old, a) = OldCode(w)
         /\ a.ip \in 0 .. Len(OldCode(w)) - 1 /\ Len(OldCode(w)) \in Nat
         /\ InstOf(w.old, a) = OldCode(w)[a.ip + 1]
         /\ Kept(w, a.ip) \/ PutIn(w, a.ip)
         /\ InstOf(w.old, a).op \notin Calls => Kept(w, a.ip)
         /\ InstOf(w.old, a).op \notin Jumps
<1>1. CodeOf(w.old, a) = OldCode(w)
  BY DEF CodeOf, OldCode
<1>2. OldCode(w) \in InstrSeq
  BY DEF Fits, IsModule, OldCode
<1>3. Len(OldCode(w)) \in Nat /\ DOMAIN OldCode(w) = 1 .. Len(OldCode(w))
  BY <1>2 DEF InstrSeq
<1>4. a.ip \in 0 .. Len(OldCode(w)) - 1 /\ a.ip + 1 \in DOMAIN OldCode(w)
  BY <1>1, <1>3 DEF FrameOK
<1>5. InstOf(w.old, a) = OldCode(w)[a.ip + 1]
  BY <1>1 DEF InstOf
<1>6. Kept(w, a.ip) \/ PutIn(w, a.ip)
  BY <1>4 DEF Fits, Layout
<1>7. PutIn(w, a.ip) => OldCode(w)[a.ip + 1].op \in Calls
  BY DEF PutIn
<1>8. OldCode(w)[a.ip + 1].op \notin Jumps
  BY <1>4 DEF Fits, Uses
<1> QED BY <1>1, <1>3, <1>4, <1>5, <1>6, <1>7, <1>8

\* An empty sequence is one without elements.
LEMMA EmptySeq ==
  ASSUME NEW s, IsSeq(s)
  PROVE  s = <<>> <=> Len(s) = 0
<1>1. PICK S : s \in Seq(S)
  BY DEF IsSeq
<1> QED BY <1>1

\* The parts of a step's outcome.
LEMMA BasicParts ==
  ASSUME NEW m, NEW s, NEW t, BasicStep(m, s, t)
  PROVE  LET inst == InstOf(m, s.top) IN
         /\ inst.op \in Basics /\ Works(inst, Data(s))
         /\ s.callers # <<>> => ~SeesAddress(inst, Data(s))
         /\ t.top = Moved(s.top, s.top.ip + 1, NewLocals(inst, Data(s))) /\ t.callers = s.callers
         /\ t.stack = NewStack(inst, Data(s)) /\ t.heap = NewHeap(inst, Data(s))
         /\ t.output = NewOutput(inst, Data(s))
<1> DEFINE inst == InstOf(m, s.top)
<1>1. /\ inst.op \in Basics /\ Works(inst, Data(s))
      /\ s.callers # <<>> => ~SeesAddress(inst, Data(s))
  BY Zenon DEF BasicStep
<1>2. t = [top |-> Moved(s.top, s.top.ip + 1, NewLocals(inst, Data(s))), callers |-> s.callers,
           stack |-> NewStack(inst, Data(s)), heap |-> NewHeap(inst, Data(s)),
           output |-> NewOutput(inst, Data(s))]
  BY Zenon DEF BasicStep
<1> HIDE DEF inst
<1>3. /\ t.top = Moved(s.top, s.top.ip + 1, NewLocals(inst, Data(s))) /\ t.callers = s.callers
      /\ t.stack = NewStack(inst, Data(s)) /\ t.heap = NewHeap(inst, Data(s))
      /\ t.output = NewOutput(inst, Data(s))
  BY <1>2
<1> QED BY <1>1, <1>3 DEF inst

\* What a state of the old run says that the proofs use.
LEMMA StateParts ==
  ASSUME NEW m, IsModule(m), NEW s, StateOK(m, s), InCode(m, s)
  PROVE  /\ FrameOK(m, s.top) /\ s.top.ip < Len(CodeOf(m, s.top)) /\ s.top.ip \in Nat
         /\ s.top.locals \in Seq(Word) /\ s.stack \in Seq(Word) /\ HeapOK(s.heap)
         /\ IsSeq(s.stack) /\ IsSeq(s.callers) /\ Len(s.callers) \in Nat
         /\ InstOf(m, s.top) \in Instr /\ InstOf(m, s.top).imm \in Nat
         /\ InstOf(m, s.top).op = "PushI64" => InstOf(m, s.top).imm \in Word
         /\ Data(s).locals = s.top.locals /\ Data(s).stack = s.stack /\ Data(s).heap = s.heap
         /\ Data(s).output = s.output
<1>1. /\ FrameOK(m, s.top) /\ s.top.ip < Len(CodeOf(m, s.top))
      /\ s.stack \in Seq(Word) /\ HeapOK(s.heap) /\ IsSeq(s.callers) /\ IsSeq(s.stack)
  BY DEF StateOK, InCode, IsSeq
<1>2. s.top.ip \in Nat /\ s.top.locals \in Seq(Word)
  BY <1>1 DEF FrameOK
<1>3. Len(s.callers) \in Nat
  BY <1>1, SeqFacts
<1> QED BY <1>1, <1>2, <1>3, FrameFacts DEF Data

\* An instruction that stays in its function, outside a callee that is put in.
LEMMA OuterBasic ==
  ASSUME NEW w, Fits(w), NEW s, StateOK(w.old, s), InCode(w.old, s), NEW t, Outer(w, s, t),
         NEW u, BasicStep(w.old, s, u)
  PROVE  \E v : Step(w.new, t, v) /\ Outer(w, u, v)
<1> DEFINE a == s.top
           b == t.top
           inst == InstOf(w.old, a)
           d == Data(s)
           e == Data(t)
<1>1. IsModule(w.old)
  BY DEF Fits
<1>2. /\ FrameOK(w.old, a) /\ a.ip < Len(CodeOf(w.old, a)) /\ a.ip \in Nat
      /\ a.locals \in Seq(Word) /\ s.stack \in Seq(Word) /\ HeapOK(s.heap)
      /\ inst \in Instr /\ inst.imm \in Nat /\ (inst.op = "PushI64" => inst.imm \in Word)
      /\ d.locals = a.locals /\ d.stack = s.stack /\ d.heap = s.heap /\ d.output = s.output
  BY <1>1, StateParts
<1>3. /\ inst.op \in Basics /\ Works(inst, d)
      /\ s.callers # <<>> => ~SeesAddress(inst, d)
      /\ u.top = Moved(a, a.ip + 1, NewLocals(inst, d)) /\ u.callers = s.callers
      /\ u.stack = NewStack(inst, d) /\ u.heap = NewHeap(inst, d) /\ u.output = NewOutput(inst, d)
  BY BasicParts
<1>4. Matches(w, a, b) /\ MatchAll(w, s.callers, t.callers) /\ SameData(s, t)
  BY DEF Outer
<1>5. a.functionIndex + 1 = w.f => Kept(w, a.ip)
  <2>1. inst.op \notin Calls
    BY <1>3 DEF Basics
  <2> QED BY <1>2, <2>1, KeptUnlessCall
<1>6. e.locals = b.locals /\ e.stack = d.stack /\ e.heap = d.heap /\ e.output = d.output
  BY <1>2, <1>4 DEF SameData, Data
<1> HIDE DEF a, b, inst, d, e
<1>7. /\ InstOf(w.new, b) = inst /\ b.ip < Len(CodeOf(w.new, b))
      /\ b.locals \in Seq(Word) /\ Window(a.locals, b.locals, 0)
      /\ \A l, l2 \in Seq(Word) :
           /\ Len(l) = Len(a.locals) /\ Len(l2) = Len(b.locals)
           /\ Window(l, l2, 0)
           /\ \A j \in 1 .. Len(b.locals) : j \notin 1 .. Len(a.locals) => l2[j] = b.locals[j]
           => Matches(w, Moved(a, a.ip + 1, l), Moved(b, b.ip + 1, l2))
  <2>1. InstOf(w.old, a) = inst
    BY DEF inst, a
  <2> QED BY <1>2, <1>4, <1>5, <2>1, BothAt
<1>8. There(inst, 0) = inst
  BY <1>2, ThereFacts
<1>9. /\ Works(inst, e)
      /\ ~SeesAddress(inst, d) => ~SeesAddress(inst, e)
      /\ NewStack(inst, e) = NewStack(inst, d)
      /\ NewHeap(inst, e) = NewHeap(inst, d)
      /\ NewOutput(inst, e) = NewOutput(inst, d)
      /\ Window(NewLocals(inst, d), NewLocals(inst, e), 0)
      /\ Len(NewLocals(inst, e)) = Len(e.locals)
      /\ \A j \in 1 .. Len(e.locals) : j \notin 0 + 1 .. 0 + Len(d.locals) =>
           NewLocals(inst, e)[j] = e.locals[j]
  <2>1. LET x == There(inst, 0) IN
        /\ Works(x, e)
        /\ ~SeesAddress(inst, d) => ~SeesAddress(x, e)
        /\ NewStack(x, e) = NewStack(inst, d)
        /\ NewHeap(x, e) = NewHeap(inst, d)
        /\ NewOutput(x, e) = NewOutput(inst, d)
        /\ Window(NewLocals(inst, d), NewLocals(x, e), 0)
        /\ Len(NewLocals(x, e)) = Len(e.locals)
        /\ \A j \in 1 .. Len(e.locals) : j \notin 0 + 1 .. 0 + Len(d.locals) =>
             NewLocals(x, e)[j] = e.locals[j]
    <3>1. /\ d.stack \in Seq(Word) /\ d.locals \in Seq(Word) /\ HeapOK(d.heap)
          /\ e.locals \in Seq(Word) /\ Window(d.locals, e.locals, 0) /\ inst \in Instr
          /\ inst.op \in Basics /\ Works(inst, d) /\ 0 \in Nat
      BY <1>2, <1>3, <1>6, <1>7
    <3> QED BY <1>6, <3>1, BasicInWindow
  <2> QED BY <1>8, <2>1
<1>10. /\ NewLocals(inst, d) \in Seq(Word) /\ Len(NewLocals(inst, d)) = Len(a.locals)
       /\ NewLocals(inst, e) \in Seq(Word)
  <2>1. d.stack \in Seq(Word) /\ d.locals \in Seq(Word) /\ HeapOK(d.heap)
        /\ e.stack \in Seq(Word) /\ e.locals \in Seq(Word) /\ HeapOK(e.heap)
    BY <1>2, <1>6, <1>7
  <2> QED BY <1>2, <1>3, <1>9, <2>1, BasicWords
<1> DEFINE v == [top |-> Moved(b, b.ip + 1, NewLocals(inst, e)), callers |-> t.callers,
                 stack |-> NewStack(inst, e), heap |-> NewHeap(inst, e),
                 output |-> NewOutput(inst, e)]
<1>11. t.callers # <<>> => ~SeesAddress(inst, e)
  <2>1. s.callers = <<>> => t.callers = <<>>
    <3>1. IsSeq(s.callers) /\ IsSeq(t.callers) /\ Len(s.callers) = Len(t.callers)
      BY <1>1, <1>4, StateParts DEF MatchAll
    <3> QED BY <3>1, EmptySeq
  <2> QED BY <1>3, <1>9, <2>1
<1>12. BasicStep(w.new, t, v)
  <2>1. InstOf(w.new, t.top) = inst /\ Data(t) = e /\ t.top = b
    BY <1>7 DEF b, e
  <2> QED BY <1>3, <1>9, <1>11, <2>1, Zenon DEF BasicStep
<1>13. Step(w.new, t, v)
  BY <1>7, <1>12 DEF Step, InCode, b
<1>14. Matches(w, u.top, Moved(b, b.ip + 1, NewLocals(inst, e)))
  <2>1. \A j \in 1 .. Len(b.locals) : j \notin 1 .. Len(a.locals) => NewLocals(inst, e)[j] = b.locals[j]
    <3>1. Len(a.locals) \in Nat
      BY <1>2
    <3> QED BY <1>2, <1>6, <1>9, <3>1
  <2> QED BY <1>3, <1>6, <1>7, <1>9, <1>10, <2>1
<1>15. Outer(w, u, v)
  <2>1. /\ v.top = Moved(b, b.ip + 1, NewLocals(inst, e)) /\ v.callers = t.callers
        /\ v.stack = u.stack /\ v.heap = u.heap /\ v.output = u.output
    BY <1>3, <1>9
  <2> HIDE DEF v
  <2> QED BY <1>3, <1>4, <1>14, <2>1 DEF Outer, SameData
<1> QED BY <1>13, <1>15

\* A jump: it is not in the function that was rewritten.
LEMMA OuterJump ==
  ASSUME NEW w, Fits(w), NEW s, StateOK(w.old, s), InCode(w.old, s), NEW t, Outer(w, s, t),
         NEW u, JumpStep(w.old, s, u)
  PROVE  \E v : Step(w.new, t, v) /\ Outer(w, u, v)
<1> DEFINE a == s.top
           inst == InstOf(w.old, a)
           ip == IF (inst.op = "Jump") \/ (s.stack[Len(s.stack)] = 0) THEN inst.imm ELSE a.ip + 1
<1>1. /\ FrameOK(w.old, a) /\ a.ip < Len(CodeOf(w.old, a)) /\ a.ip \in Nat
      /\ a.locals \in Seq(Word)
  <2>1. IsModule(w.old)
    BY DEF Fits
  <2> QED BY <2>1, StateParts
<1>2. /\ inst.op \in Jumps /\ Operands(inst.op) <= Len(s.stack)
      /\ inst.imm <= Len(CodeOf(w.old, a))
      /\ u = [top |-> Moved(a, ip, a.locals), callers |-> s.callers,
              stack |-> Without(s.stack, Operands(inst.op)), heap |-> s.heap, output |-> s.output]
  BY Zenon DEF JumpStep
<1>3. Matches(w, a, t.top) /\ MatchAll(w, s.callers, t.callers) /\ SameData(s, t)
  BY DEF Outer
<1>4. a.functionIndex + 1 # w.f
  BY <1>1, <1>2, KeptUnlessCall
<1>5. t.top = a
  BY <1>3, <1>4 DEF Matches
<1>6. InstOf(w.new, t.top) = inst /\ CodeOf(w.new, t.top) = CodeOf(w.old, a)
  BY <1>1, <1>3, <1>4, BothAt
<1> DEFINE v == [top |-> Moved(a, ip, a.locals), callers |-> t.callers,
                 stack |-> Without(t.stack, Operands(inst.op)), heap |-> t.heap, output |-> t.output]
<1>7. JumpStep(w.new, t, v)
  <2>1. t.stack = s.stack
    BY <1>3 DEF SameData
  <2> HIDE DEF inst
  <2> QED BY <1>2, <1>5, <1>6, <2>1, Zenon DEF JumpStep
<1>8. Step(w.new, t, v)
  BY <1>1, <1>5, <1>6, <1>7 DEF Step, InCode
<1>9. Outer(w, u, v)
  <2> HIDE DEF ip, inst
  <2>1. /\ u.top = Moved(a, ip, a.locals) /\ v.top = u.top /\ u.callers = s.callers
        /\ v.callers = t.callers /\ u.stack = Without(s.stack, Operands(inst.op))
        /\ v.stack = Without(t.stack, Operands(inst.op))
        /\ u.heap = s.heap /\ v.heap = t.heap /\ u.output = s.output /\ v.output = t.output
    BY <1>2
  <2>2. u.top.functionIndex + 1 # w.f
    BY <1>4, <2>1, FrameParts
  <2>3. Matches(w, u.top, v.top)
    BY <2>1, <2>2 DEF Matches
  <2> HIDE DEF v
  <2> QED BY <1>3, <2>1, <2>3 DEF Outer, SameData
<1> QED BY <1>8, <1>9

\* A frame that is new.
Fresh(m, k, wanted, a) ==
  /\ FrameOK(m, a)
  /\ a.functionIndex = k /\ a.ip = 0 /\ a.returnValueToCaller = wanted
  /\ Len(a.locals) = LocalCount(m.functions[k + 1])
  /\ \A i \in 1 .. Len(a.locals) : a.locals[i] = 0

\* The frame of a function that is entered is one.
LEMMA FreshFrame ==
  ASSUME NEW m, IsModule(m), NEW k \in Nat, k + 1 \in DOMAIN m.functions, NEW wanted,
         NEW a, a = NewFrame(m.functions, k, wanted)
  PROVE  Fresh(m, k, wanted, a)
<1>1. FrameOK(m, a)
  BY NewFrameFacts
<1>2. /\ a.functionIndex = k /\ a.ip = 0 /\ a.returnValueToCaller = wanted
      /\ a.locals = [i \in 1 .. LocalCount(m.functions[k + 1]) |-> 0]
  BY DEF NewFrame
<1>3. Len(a.locals) = LocalCount(m.functions[k + 1])
  BY <1>1, <1>2 DEF FrameOK, CodeOf
<1> QED BY <1>1, <1>2, <1>3 DEF Fresh

\* Frames that are new match.
LEMMA NewFramesMatch ==
  ASSUME NEW w, Fits(w), NEW k \in Nat, k + 1 \in DOMAIN w.old.functions, NEW wanted
  PROVE  Matches(w, NewFrame(w.old.functions, k, wanted), NewFrame(w.new.functions, k, wanted))
<1> DEFINE a == NewFrame(w.old.functions, k, wanted)
           b == NewFrame(w.new.functions, k, wanted)
<1>1. a.functionIndex = k
  BY DEF NewFrame
<1>2. CASE k + 1 # w.f
  <2>1. w.new.functions[k + 1] = w.old.functions[k + 1]
    BY <1>2 DEF Fits
  <2>2. b = a
    BY <2>1, Zenon DEF NewFrame
  <2> QED BY <1>1, <1>2, <2>2, Zenon DEF Matches
<1>3. CASE k + 1 = w.f
  <2>1. /\ FrameOK(w.old, a) /\ a.ip = 0 /\ a.returnValueToCaller = wanted
        /\ Len(a.locals) = LocalCount(OldCode(w))
        /\ \A i \in 1 .. Len(a.locals) : a.locals[i] = 0
    <3>1. IsModule(w.old) /\ OldCode(w) = w.old.functions[k + 1]
      BY <1>3 DEF Fits, OldCode
    <3>2. a = NewFrame(w.old.functions, k, wanted)
      OBVIOUS
    <3> HIDE DEF a
    <3>3. Fresh(w.old, k, wanted, a)
      BY <3>1, <3>2, FreshFrame
    <3> QED BY <3>1, <3>3 DEF Fresh
  <2>2. /\ FrameOK(w.new, b) /\ b.functionIndex = k /\ b.ip = 0 /\ b.returnValueToCaller = wanted
        /\ Len(b.locals) = LocalCount(NewCode(w))
        /\ \A i \in 1 .. Len(b.locals) : b.locals[i] = 0
    <3>1. IsModule(w.new) /\ NewCode(w) = w.new.functions[k + 1] /\ k + 1 \in DOMAIN w.new.functions
      BY <1>3 DEF Fits, NewCode
    <3>2. b = NewFrame(w.new.functions, k, wanted)
      OBVIOUS
    <3> HIDE DEF b
    <3>3. Fresh(w.new, k, wanted, b)
      BY <3>1, <3>2, FreshFrame
    <3> QED BY <3>1, <3>3 DEF Fresh
  <2> HIDE DEF a, b
  <2>3. b = Moved(a, 0, b.locals)
    <3>1. b = Moved(b, 0, b.locals)
      BY <2>2 DEF FrameOK
    <3> QED BY <1>1, <2>1, <2>2, <3>1 DEF Moved
  <2>4. Pos(w, a.ip) = 0 /\ Base(w, a.ip) = LocalCount(OldCode(w))
    BY <2>1 DEF Fits, Layout
  <2>5. LocalCount(OldCode(w)) <= LocalCount(NewCode(w)) /\ LocalCount(OldCode(w)) \in Nat
        /\ LocalCount(NewCode(w)) \in Nat
    <3>1. Len(OldCode(w)) \in Nat /\ LocalCount(NewCode(w)) \in Nat
      <4>1. OldCode(w) \in InstrSeq /\ NewCode(w) \in InstrSeq
        BY DEF Fits, IsModule, OldCode, NewCode
      <4> QED BY <4>1, LocalCountExists DEF IsLocalCount, InstrSeq
    <3>2. 0 \in 0 .. Len(OldCode(w))
      BY <3>1
    <3>3. Base(w, 0) \in Nat /\ Base(w, 0) = LocalCount(OldCode(w)) /\ Base(w, 0) <= LocalCount(NewCode(w))
      BY <3>2 DEF Fits, Layout
    <3> QED BY <3>1, <3>3
  <2>6. Window(a.locals, b.locals, 0)
    BY <2>1, <2>2, <2>5 DEF Window
  <2>7. \A i \in LocalCount(OldCode(w)) + 1 .. Len(b.locals) : b.locals[i] = 0
    BY <2>2, <2>5
  <2>8. Beside(w, a, b, Pos(w, a.ip), Base(w, a.ip))
    BY <2>2, <2>3, <2>4, <2>6, <2>7 DEF Beside, FrameOK
  <2> QED BY <1>1, <1>3, <2>8 DEF Matches, a, b
<1> QED BY <1>2, <1>3

\* One more caller.
LEMMA MatchAppend ==
  ASSUME NEW w, NEW x, IsSeq(x), NEW y, MatchAll(w, x, y), NEW p, NEW q, Matches(w, p, q)
  PROVE  MatchAll(w, Append(x, p), Append(y, q))
<1>1. /\ IsSeq(y) /\ Len(y) = Len(x) /\ Len(x) \in Nat
      /\ \A i \in 1 .. Len(x) : Matches(w, x[i], y[i])
  BY SeqFacts DEF MatchAll
<1>2. /\ Len(Append(x, p)) = Len(x) + 1 /\ \A i \in 1 .. Len(x) : Append(x, p)[i] = x[i]
      /\ Append(x, p)[Len(x) + 1] = p
  BY AppendFacts
<1>3. /\ IsSeq(Append(y, q)) /\ Len(Append(y, q)) = Len(x) + 1
      /\ \A i \in 1 .. Len(x) : Append(y, q)[i] = y[i]
      /\ Append(y, q)[Len(x) + 1] = q
  BY <1>1, AppendFacts
<1>4. \A i \in 1 .. Len(x) + 1 : i \in 1 .. Len(x) \/ i = Len(x) + 1
  BY <1>1
<1>5. \A i \in 1 .. Len(x) + 1 : Matches(w, Append(x, p)[i], Append(y, q)[i])
  BY <1>1, <1>2, <1>3, <1>4
<1> QED BY <1>2, <1>3, <1>5 DEF MatchAll

\* One caller less.
LEMMA MatchDrop ==
  ASSUME NEW w, NEW x, IsSeq(x), NEW y, MatchAll(w, x, y), x # <<>>
  PROVE  /\ y # <<>> /\ Matches(w, x[Len(x)], y[Len(y)])
         /\ MatchAll(w, Without(x, 1), Without(y, 1))
<1>1. /\ IsSeq(y) /\ Len(y) = Len(x) /\ Len(x) \in Nat
      /\ \A i \in 1 .. Len(x) : Matches(w, x[i], y[i])
  BY SeqFacts DEF MatchAll
<1>2. Len(x) \in Nat \ {0} /\ y # <<>>
  BY <1>1, EmptySeq
<1>3. /\ Len(Without(x, 1)) = Len(x) - 1 /\ \A i \in 1 .. Len(x) - 1 : Without(x, 1)[i] = x[i]
  BY <1>2, WithoutFacts
<1>4. /\ IsSeq(Without(y, 1)) /\ Len(Without(y, 1)) = Len(x) - 1
      /\ \A i \in 1 .. Len(x) - 1 : Without(y, 1)[i] = y[i]
  BY <1>1, <1>2, WithoutFacts
<1>5. Len(x) \in 1 .. Len(x) /\ \A i \in 1 .. Len(x) - 1 : i \in 1 .. Len(x)
  BY <1>2
<1>6. \A i \in 1 .. Len(x) - 1 : Matches(w, Without(x, 1)[i], Without(y, 1)[i])
  BY <1>1, <1>3, <1>4, <1>5
<1> QED BY <1>1, <1>2, <1>3, <1>4, <1>5, <1>6 DEF MatchAll

\* A caller that comes and goes.
LEMMA AppendDropped ==
  ASSUME NEW s, IsSeq(s), NEW x
  PROVE  /\ Append(s, x) # <<>> /\ Append(s, x)[Len(Append(s, x))] = x
         /\ Without(Append(s, x), 1) = s
<1>1. /\ IsSeq(Append(s, x)) /\ Len(Append(s, x)) = Len(s) + 1 /\ Len(s) \in Nat
      /\ \A i \in 1 .. Len(s) : Append(s, x)[i] = s[i]
      /\ Append(s, x)[Len(s) + 1] = x
  BY AppendFacts, SeqFacts
<1>2. Append(s, x) # <<>>
  BY <1>1, EmptySeq
<1>3. PICK t : t = Append(s, x)
  OBVIOUS
<1>4. /\ IsSeq(Without(t, 1)) /\ Len(Without(t, 1)) = Len(s)
      /\ \A i \in 1 .. Len(s) : Without(t, 1)[i] = t[i]
  <2>1. IsSeq(t) /\ Len(t) = Len(s) + 1 /\ 1 <= Len(t) /\ Len(t) - 1 = Len(s)
    BY <1>1, <1>3
  <2> QED BY <2>1, WithoutFacts
<1>5. Without(t, 1) = s
  BY <1>1, <1>3, <1>4, SameSeq
<1> QED BY <1>1, <1>2, <1>3, <1>5

\* The parts of a call's outcome.
LEMMA CallParts ==
  ASSUME NEW m, NEW s, NEW t, CallStep(m, s, t)
  PROVE  LET inst == InstOf(m, s.top) IN
         /\ inst.op \in Calls /\ inst.imm < Len(m.functions) /\ Len(s.callers) + 1 < MaxCallDepth
         /\ \E wanted : /\ wanted = (inst.op = "Call")
                        /\ t.top = NewFrame(m.functions, inst.imm, wanted)
         /\ t.callers = Append(s.callers, Moved(s.top, s.top.ip + 1, s.top.locals))
         /\ t.stack = s.stack /\ t.heap = s.heap /\ t.output = s.output
<1> DEFINE inst == InstOf(m, s.top)
<1>1. inst.op \in Calls /\ inst.imm < Len(m.functions) /\ Len(s.callers) + 1 < MaxCallDepth
  BY Zenon DEF CallStep
<1>2. PICK wanted : wanted = (inst.op = "Call")
  BY Zenon
<1>3. t = [top |-> NewFrame(m.functions, inst.imm, wanted),
           callers |-> Append(s.callers, Moved(s.top, s.top.ip + 1, s.top.locals)),
           stack |-> s.stack, heap |-> s.heap, output |-> s.output]
  BY <1>2, Zenon DEF CallStep
<1> HIDE DEF inst
<1>4. /\ t.top = NewFrame(m.functions, inst.imm, wanted)
      /\ t.callers = Append(s.callers, Moved(s.top, s.top.ip + 1, s.top.locals))
      /\ t.stack = s.stack /\ t.heap = s.heap /\ t.output = s.output
  BY <1>3
<1> QED BY <1>1, <1>2, <1>4, Zenon DEF inst

\* A call that stays.
LEMMA OuterCall ==
  ASSUME NEW w, Fits(w), NEW s, StateOK(w.old, s), InCode(w.old, s), NEW t, Outer(w, s, t),
         NEW u, CallStep(w.old, s, u), s.top.functionIndex + 1 = w.f => Kept(w, s.top.ip)
  PROVE  \E v : Step(w.new, t, v) /\ Outer(w, u, v)
<1> DEFINE a == s.top
           b == t.top
           inst == InstOf(w.old, a)
<1>1. /\ FrameOK(w.old, a) /\ a.ip < Len(CodeOf(w.old, a)) /\ a.ip \in Nat
      /\ a.locals \in Seq(Word) /\ inst.imm \in Nat /\ IsSeq(s.callers)
  <2>1. IsModule(w.old)
    BY DEF Fits
  <2> QED BY <2>1, StateParts
<1>2. /\ inst.op \in Calls /\ inst.imm < Len(w.old.functions) /\ Len(s.callers) + 1 < MaxCallDepth
      /\ u.callers = Append(s.callers, Moved(a, a.ip + 1, a.locals))
      /\ u.stack = s.stack /\ u.heap = s.heap /\ u.output = s.output
  BY CallParts
<1>3. PICK wanted : wanted = (inst.op = "Call") /\ u.top = NewFrame(w.old.functions, inst.imm, wanted)
  BY CallParts
<1>4. Matches(w, a, b) /\ MatchAll(w, s.callers, t.callers) /\ SameData(s, t)
  BY DEF Outer
<1>5. /\ InstOf(w.new, b) = inst /\ b.ip < Len(CodeOf(w.new, b))
      /\ Matches(w, Moved(a, a.ip + 1, a.locals), Moved(b, b.ip + 1, b.locals))
  <2>1. /\ InstOf(w.new, b) = inst /\ b.ip < Len(CodeOf(w.new, b))
        /\ b.locals \in Seq(Word) /\ Window(a.locals, b.locals, 0)
        /\ \A l, l2 \in Seq(Word) :
             /\ Len(l) = Len(a.locals) /\ Len(l2) = Len(b.locals)
             /\ Window(l, l2, 0)
             /\ \A j \in 1 .. Len(b.locals) : j \notin 1 .. Len(a.locals) => l2[j] = b.locals[j]
             => Matches(w, Moved(a, a.ip + 1, l), Moved(b, b.ip + 1, l2))
    <3> HIDE DEF b
    <3> QED BY <1>1, <1>4, BothAt
  <2> QED BY <1>1, <2>1
<1>6. w.new.functions \in Seq(InstrSeq) /\ w.old.functions \in Seq(InstrSeq)
      /\ DOMAIN w.new.functions = DOMAIN w.old.functions
  BY DEF Fits, IsModule
<1>7. Len(w.new.functions) = Len(w.old.functions) /\ inst.imm + 1 \in DOMAIN w.old.functions
  BY <1>1, <1>2, <1>6
<1> HIDE DEF a, b, inst
<1>8. Matches(w, u.top, NewFrame(w.new.functions, inst.imm, wanted))
  BY <1>1, <1>3, <1>7, NewFramesMatch
<1> DEFINE q == Moved(b, b.ip + 1, b.locals)
           v == [top |-> NewFrame(w.new.functions, inst.imm, wanted),
                 callers |-> Append(t.callers, q),
                 stack |-> t.stack, heap |-> t.heap, output |-> t.output]
<1>9. Step(w.new, t, v)
  <2>1. InstOf(w.new, t.top) = inst /\ t.top = b /\ Len(t.callers) = Len(s.callers)
    BY <1>4, <1>5 DEF b, MatchAll
  <2>2. inst.imm < Len(w.new.functions) /\ Len(t.callers) + 1 < MaxCallDepth
    BY <1>2, <1>7, <2>1
  <2>3. CallStep(w.new, t, v)
    BY <1>2, <1>3, <2>1, <2>2, Zenon DEF CallStep
  <2> QED BY <1>5, <2>3 DEF Step, InCode, b
<1>10. Outer(w, u, v)
  <2>1. /\ v.top = NewFrame(w.new.functions, inst.imm, wanted) /\ v.callers = Append(t.callers, q)
        /\ v.stack = t.stack /\ v.heap = t.heap /\ v.output = t.output
    BY Zenon
  <2>2. MatchAll(w, u.callers, v.callers)
    <3>1. MatchAll(w, Append(s.callers, Moved(a, a.ip + 1, a.locals)), Append(t.callers, q))
      BY <1>1, <1>4, <1>5, MatchAppend
    <3> QED BY <1>2, <2>1, <3>1
  <2> HIDE DEF v
  <2> QED BY <1>2, <1>4, <1>8, <2>1, <2>2 DEF Outer, SameData
<1> QED BY <1>9, <1>10

\* A call that is not there: the new run is where it was.
LEMMA OuterEnters ==
  ASSUME NEW w, Fits(w), NEW s, StateOK(w.old, s), InCode(w.old, s), NEW t, Outer(w, s, t),
         NEW u, CallStep(w.old, s, u), s.top.functionIndex + 1 = w.f, PutIn(w, s.top.ip)
  PROVE  Inner(w, u, t)
<1> DEFINE a == s.top
           b == t.top
           k == a.ip
           inst == InstOf(w.old, a)
           p == Moved(a, k + 1, a.locals)
<1>1. /\ FrameOK(w.old, a) /\ k < Len(CodeOf(w.old, a)) /\ k \in Nat
      /\ a.locals \in Seq(Word) /\ inst.imm \in Nat /\ IsSeq(s.callers)
  <2>1. IsModule(w.old)
    BY DEF Fits
  <2> QED BY <2>1, StateParts
<1>2. /\ inst.op \in Calls /\ inst.imm < Len(w.old.functions)
      /\ u.callers = Append(s.callers, p)
      /\ u.stack = s.stack /\ u.heap = s.heap /\ u.output = s.output
  BY CallParts
<1>3. PICK wanted : wanted = (inst.op = "Call") /\ u.top = NewFrame(w.old.functions, inst.imm, wanted)
  BY CallParts
<1>4. Beside(w, a, b, Pos(w, k), Base(w, k)) /\ MatchAll(w, s.callers, t.callers) /\ SameData(s, t)
  BY DEF Outer, Matches
<1>5. k \in 0 .. Len(OldCode(w)) - 1 /\ inst = OldCode(w)[k + 1] /\ Len(OldCode(w)) \in Nat
  BY <1>1, KeptUnlessCall
<1>6. /\ inst.imm + 1 \in DOMAIN w.old.functions
      /\ CalleeAt(w, k) = w.old.functions[inst.imm + 1]
      /\ Base(w, k + 1) = Base(w, k) + LocalCount(CalleeAt(w, k))
  BY <1>5 DEF PutIn, CalleeAt
<1> HIDE DEF k, inst, p
<1>7. /\ u.top.functionIndex = inst.imm /\ u.top.ip = 0 /\ u.top.returnValueToCaller = wanted
      /\ Len(u.top.locals) = LocalCount(CalleeAt(w, k))
      /\ \A i \in 1 .. Len(u.top.locals) : u.top.locals[i] = 0
      /\ u.top.locals \in Seq(Word)
  <2>1. IsModule(w.old)
    BY DEF Fits
  <2>2. /\ u.top.functionIndex = inst.imm /\ u.top.ip = 0 /\ u.top.returnValueToCaller = wanted
        /\ Len(u.top.locals) = LocalCount(CalleeAt(w, k))
        /\ \A i \in 1 .. Len(u.top.locals) : u.top.locals[i] = 0
        /\ FrameOK(w.old, u.top)
    <3>1. Fresh(w.old, inst.imm, wanted, u.top)
      BY <1>1, <1>3, <1>6, <2>1, FreshFrame
    <3> QED BY <1>6, <3>1 DEF Fresh
  <2> QED BY <2>2 DEF FrameOK
<1>8. /\ p.functionIndex = a.functionIndex /\ p.ip = k + 1 /\ p.locals = a.locals
      /\ \A ip2, locals2 : Moved(p, ip2, locals2) = Moved(a, ip2, locals2)
  BY FrameParts DEF p
<1>9. u.callers # <<>> /\ Caller(u) = p /\ Without(u.callers, 1) = s.callers
  <2>1. /\ Append(s.callers, p) # <<>> /\ Append(s.callers, p)[Len(Append(s.callers, p))] = p
        /\ Without(Append(s.callers, p), 1) = s.callers
    BY <1>1, AppendDropped
  <2> QED BY <1>2, <2>1, Zenon DEF Caller
<1>10. /\ Base(w, k) \in Nat /\ Pos(w, k) \in Nat /\ Base(w, k + 1) <= LocalCount(NewCode(w))
       /\ Len(u.top.locals) \in Nat
  <2>1. k \in 0 .. Len(OldCode(w)) /\ k + 1 \in 0 .. Len(OldCode(w))
    BY <1>5
  <2>2. /\ Base(w, k) \in Nat /\ Pos(w, k) \in Nat /\ Base(w, k + 1) <= LocalCount(NewCode(w))
    BY <2>1 DEF Fits, Layout
  <2> QED BY <1>7, <2>2
<1>11. /\ b = Moved(a, Pos(w, k), b.locals)
       /\ b.locals \in Seq(Word) /\ Len(b.locals) = LocalCount(NewCode(w))
       /\ Window(a.locals, b.locals, 0)
       /\ \A i \in Base(w, k) + 1 .. Len(b.locals) : b.locals[i] = 0
  BY <1>4 DEF Beside
<1> HIDE DEF a, b
<1>12. Beside(w, p, b, Pos(w, k) + u.top.ip, Base(w, k) + Len(u.top.locals))
  <2>1. \A i \in Base(w, k) + Len(u.top.locals) + 1 .. Len(b.locals) : b.locals[i] = 0
    BY <1>10, <1>11
  <2>2. Pos(w, k) + u.top.ip = Pos(w, k)
    BY <1>7, <1>10
  <2> QED BY <1>8, <1>11, <2>1, <2>2 DEF Beside
<1>13. Window(u.top.locals, b.locals, Base(w, k))
  <2>1. Base(w, k) + Len(u.top.locals) <= Len(b.locals)
    BY <1>6, <1>7, <1>10, <1>11
  <2>2. \A i \in 1 .. Len(u.top.locals) : b.locals[Base(w, k) + i] = u.top.locals[i]
    <3>1. \A i \in 1 .. Len(u.top.locals) : Base(w, k) + i \in Base(w, k) + 1 .. Len(b.locals)
      <4>1. Len(b.locals) \in Nat
        BY <1>11
      <4> QED BY <1>10, <2>1, <4>1
    <3> QED BY <1>7, <1>11, <3>1
  <2> QED BY <2>1, <2>2 DEF Window
<1>14. SameData(u, t) /\ p.ip - 1 = k
  BY <1>1, <1>2, <1>4, <1>8 DEF SameData, k
<1>15. a.functionIndex + 1 = w.f /\ PutIn(w, k) /\ b = t.top
  BY DEF a, b, k
<1> QED BY <1>3, <1>4, <1>5, <1>7, <1>8, <1>9, <1>12, <1>13, <1>14, <1>15, Zenon DEF Inner

\* The operands after a return.
StackAfter(op, words, wanted) ==
  Without(words, Operands(op)) \o (IF wanted THEN <<ValueOf(op, words)>> ELSE <<>>)

\* The parts of a return's outcome.
LEMMA ReturnParts ==
  ASSUME NEW m, NEW s, NEW t, ReturnStep(m, s, t)
  PROVE  LET inst == InstOf(m, s.top) IN
         /\ inst.op \in Returns /\ Operands(inst.op) <= Len(s.stack)
         /\ s.callers # <<>> /\ ~Narrows(inst.op, s.stack)
         /\ t.top = s.callers[Len(s.callers)] /\ t.callers = Without(s.callers, 1)
         /\ t.stack = StackAfter(inst.op, s.stack, s.top.returnValueToCaller)
         /\ t.heap = s.heap /\ t.output = s.output
<1> DEFINE inst == InstOf(m, s.top)
<1>1. /\ inst.op \in Returns /\ Operands(inst.op) <= Len(s.stack)
      /\ s.callers # <<>> /\ ~Narrows(inst.op, s.stack)
  BY Zenon DEF ReturnStep
<1>2. PICK left : left = StackAfter(inst.op, s.stack, s.top.returnValueToCaller)
  BY Zenon
<1>3. t = [top |-> s.callers[Len(s.callers)], callers |-> Without(s.callers, 1),
           stack |-> left, heap |-> s.heap, output |-> s.output]
  BY <1>2, Zenon DEF ReturnStep, StackAfter
<1> HIDE DEF inst
<1>4. /\ t.top = s.callers[Len(s.callers)] /\ t.callers = Without(s.callers, 1)
      /\ t.stack = left /\ t.heap = s.heap /\ t.output = s.output
  BY <1>3
<1> QED BY <1>1, <1>2, <1>4, Zenon DEF inst

\* A return that stays.
LEMMA OuterReturn ==
  ASSUME NEW w, Fits(w), NEW s, StateOK(w.old, s), InCode(w.old, s), NEW t, Outer(w, s, t),
         NEW u, ReturnStep(w.old, s, u)
  PROVE  \E v : Step(w.new, t, v) /\ Outer(w, u, v)
<1> DEFINE a == s.top
           b == t.top
           inst == InstOf(w.old, a)
<1>1. /\ FrameOK(w.old, a) /\ a.ip < Len(CodeOf(w.old, a)) /\ IsSeq(s.callers)
  <2>1. IsModule(w.old)
    BY DEF Fits
  <2> QED BY <2>1, StateParts
<1>2. /\ inst.op \in Returns /\ Operands(inst.op) <= Len(s.stack)
      /\ s.callers # <<>> /\ ~Narrows(inst.op, s.stack)
      /\ u.top = s.callers[Len(s.callers)] /\ u.callers = Without(s.callers, 1)
      /\ u.heap = s.heap /\ u.output = s.output
  BY ReturnParts
<1>3. u.stack = StackAfter(inst.op, s.stack, a.returnValueToCaller)
  BY ReturnParts
<1>4. Matches(w, a, b) /\ MatchAll(w, s.callers, t.callers) /\ SameData(s, t)
  BY DEF Outer
<1>5. /\ InstOf(w.new, b) = inst /\ b.ip < Len(CodeOf(w.new, b))
      /\ b.returnValueToCaller = a.returnValueToCaller
  <2>1. a.functionIndex + 1 = w.f => Kept(w, a.ip)
    <3>1. inst.op \notin Calls
      BY <1>2 DEF Returns, Calls
    <3> HIDE DEF a, inst
    <3>2. ASSUME a.functionIndex + 1 = w.f
          PROVE  InstOf(w.old, a).op \notin Calls => Kept(w, a.ip)
      BY <1>1, <3>2, KeptUnlessCall
    <3> QED BY <3>1, <3>2 DEF inst
  <2> HIDE DEF a, b
  <2> QED BY <1>1, <1>4, <2>1, BothAt
<1>6. /\ t.callers # <<>> /\ Matches(w, s.callers[Len(s.callers)], t.callers[Len(t.callers)])
      /\ MatchAll(w, Without(s.callers, 1), Without(t.callers, 1))
  BY <1>1, <1>2, <1>4, MatchDrop
<1> HIDE DEF a, b, inst
<1>7. PICK left : left = StackAfter(inst.op, t.stack, b.returnValueToCaller)
  BY Zenon
<1>8. left = u.stack /\ t.stack = s.stack
  <2>1. t.stack = s.stack
    BY <1>4 DEF SameData
  <2> QED BY <1>3, <1>5, <1>7, <2>1
<1> DEFINE v == [top |-> t.callers[Len(t.callers)], callers |-> Without(t.callers, 1),
                 stack |-> left, heap |-> t.heap, output |-> t.output]
<1>9. Step(w.new, t, v)
  <2>1. InstOf(w.new, t.top) = inst /\ t.top = b
    BY <1>5 DEF b
  <2>2. ReturnStep(w.new, t, v)
    BY <1>2, <1>6, <1>7, <1>8, <2>1, Zenon DEF ReturnStep, StackAfter
  <2> QED BY <1>5, <2>2 DEF Step, InCode, b
<1>10. /\ v.top = t.callers[Len(t.callers)] /\ v.callers = Without(t.callers, 1)
       /\ v.stack = left /\ v.heap = t.heap /\ v.output = t.output
  OBVIOUS
<1> HIDE DEF v
<1>11. Outer(w, u, v)
  BY <1>2, <1>4, <1>6, <1>8, <1>10 DEF Outer, SameData
<1> QED BY <1>9, <1>11

\* The last return.
LEMMA OuterExit ==
  ASSUME NEW w, Fits(w), NEW s, StateOK(w.old, s), NEW t, Outer(w, s, t),
         NEW out, ExitsWith(w.old, s, out)
  PROVE  ExitsWith(w.new, t, out)
<1> DEFINE a == s.top
           b == t.top
           inst == InstOf(w.old, a)
<1>1. /\ InCode(w.old, s) /\ inst.op \in Returns /\ Operands(inst.op) <= Len(s.stack)
      /\ s.callers = <<>>
      /\ out = [status |-> "returned", result |-> ValueOf(inst.op, s.stack), output |-> s.output]
  BY Zenon DEF ExitsWith
<1>2. /\ FrameOK(w.old, a) /\ a.ip < Len(CodeOf(w.old, a)) /\ IsSeq(s.callers)
  <2>1. IsModule(w.old)
    BY DEF Fits
  <2> QED BY <1>1, <2>1, StateParts
<1>4. Matches(w, a, b) /\ MatchAll(w, s.callers, t.callers) /\ SameData(s, t)
  BY DEF Outer
<1>5. /\ InstOf(w.new, b) = inst /\ b.ip < Len(CodeOf(w.new, b))
  <2>1. a.functionIndex + 1 = w.f => Kept(w, a.ip)
    <3>1. inst.op \notin Calls
      BY <1>1 DEF Returns, Calls
    <3> HIDE DEF a, inst
    <3>2. ASSUME a.functionIndex + 1 = w.f
          PROVE  InstOf(w.old, a).op \notin Calls => Kept(w, a.ip)
      BY <1>2, <3>2, KeptUnlessCall
    <3> QED BY <3>1, <3>2 DEF inst
  <2> HIDE DEF a, b
  <2> QED BY <1>2, <1>4, <2>1, BothAt
<1>6. t.callers = <<>>
  <2>1. IsSeq(t.callers) /\ Len(t.callers) = 0
    BY <1>1, <1>4, ShortSeq DEF MatchAll
  <2> QED BY <2>1, EmptySeq
<1>7. t.stack = s.stack /\ t.output = s.output
  BY <1>4 DEF SameData
<1>8. InstOf(w.new, t.top) = inst /\ InCode(w.new, t)
  BY <1>5 DEF InCode
<1> HIDE DEF a, b, inst
<1> QED BY <1>1, <1>6, <1>7, <1>8, Zenon DEF ExitsWith

\* The run of a callee that is put in: p is its caller, at the call after the
\* first k instructions.
Within(w, s, t, p, k) ==
  /\ p = Caller(s) /\ k = p.ip - 1 /\ p.ip = k + 1 /\ k \in Nat
  /\ FrameOK(w.old, p) /\ FrameOK(w.old, s.top)
  /\ p.functionIndex + 1 = w.f
  /\ k \in 0 .. Len(OldCode(w)) - 1 /\ PutIn(w, k)
  /\ CodeOf(w.old, s.top) = CalleeAt(w, k)
  /\ Len(s.top.locals) = LocalCount(CalleeAt(w, k)) /\ Len(s.top.locals) \in Nat
  /\ Len(p.locals) = LocalCount(OldCode(w)) /\ Len(p.locals) \in Nat
  /\ Len(CalleeAt(w, k)) \in Nat \ {0}
  /\ Pos(w, k) \in Nat /\ Base(w, k) \in Nat /\ Len(p.locals) <= Base(w, k)
  /\ Len(RestAt(w, k)) \in {0, 1}
  /\ Pos(w, k) + (Len(CalleeAt(w, k)) - 1) + Len(RestAt(w, k)) <= Len(NewCode(w))
  /\ Len(NewCode(w)) \in Nat
  /\ CodeOf(w.new, t.top) = NewCode(w)
  /\ t.top.ip = Pos(w, k) + s.top.ip

\* While the two runs are inside a callee, that is where they are.
LEMMA InnerPlace ==
  ASSUME NEW w, Fits(w), NEW s, StateOK(w.old, s), NEW t, Inner(w, s, t),
         NEW p, p = Caller(s), NEW k, k = p.ip - 1
  PROVE  Within(w, s, t, p, k)
<1>1. /\ s.callers # <<>> /\ p.functionIndex + 1 = w.f
      /\ k \in 0 .. Len(OldCode(w)) - 1 /\ PutIn(w, k)
      /\ s.top.functionIndex = OldCode(w)[k + 1].imm
      /\ Beside(w, p, t.top, Pos(w, k) + s.top.ip, Base(w, k) + Len(s.top.locals))
  BY DEF Inner
<1>2. FrameOK(w.old, p) /\ FrameOK(w.old, s.top)
  BY <1>1, CallersKept DEF StateOK, Caller
<1>3. p.ip = k + 1 /\ k \in Nat
  BY <1>1, <1>2 DEF FrameOK
<1>4. CodeOf(w.old, s.top) = CalleeAt(w, k)
  BY <1>1 DEF CodeOf, CalleeAt
<1>5. CodeOf(w.old, p) = OldCode(w)
  BY <1>1 DEF CodeOf, OldCode
<1>6. IsModule(w.old) /\ IsModule(w.new) /\ w.f \in DOMAIN w.new.functions /\ Layout(w)
  BY DEF Fits
<1>7. /\ Len(s.top.locals) = LocalCount(CalleeAt(w, k)) /\ Len(s.top.locals) \in Nat
      /\ Len(p.locals) = LocalCount(OldCode(w)) /\ Len(p.locals) \in Nat
  BY <1>2, <1>4, <1>5 DEF FrameOK
<1>8. /\ Len(CalleeAt(w, k)) \in Nat \ {0}
      /\ Pos(w, k + 1) = Pos(w, k) + (Len(CalleeAt(w, k)) - 1) + Len(RestAt(w, k))
  BY <1>1 DEF PutIn, Plain
<1>9. /\ Len(OldCode(w)) \in Nat /\ Len(NewCode(w)) \in Nat
  <2>1. Len(OldCode(w)) \in Nat
    BY <1>2, <1>5, <1>6, FrameFacts
  <2>2. NewCode(w) \in InstrSeq
    BY <1>6 DEF IsModule, NewCode
  <2> QED BY <2>1, <2>2 DEF InstrSeq
<1>10. /\ Pos(w, k) \in Nat /\ Base(w, k) \in Nat /\ LocalCount(OldCode(w)) <= Base(w, k)
       /\ Pos(w, k + 1) <= Len(NewCode(w))
  <2>1. k \in 0 .. Len(OldCode(w)) /\ k + 1 \in 0 .. Len(OldCode(w))
    BY <1>1, <1>9
  <2> QED BY <1>6, <2>1 DEF Layout
<1>11. Len(RestAt(w, k)) \in {0, 1}
  BY RemainsFacts DEF RestAt
<1>12. t.top = Moved(p, Pos(w, k) + s.top.ip, t.top.locals)
  BY <1>1 DEF Beside
<1>13. t.top.functionIndex = p.functionIndex /\ t.top.ip = Pos(w, k) + s.top.ip
  BY <1>12, FrameParts
<1>14. CodeOf(w.new, t.top) = NewCode(w)
  BY <1>1, <1>13 DEF CodeOf, NewCode
<1>15. Pos(w, k) + (Len(CalleeAt(w, k)) - 1) + Len(RestAt(w, k)) <= Len(NewCode(w))
  BY <1>8, <1>10
<1>16. /\ Pos(w, k) \in Nat /\ Base(w, k) \in Nat /\ Len(p.locals) <= Base(w, k)
  BY <1>7, <1>10
<1>17. k \in 0 .. Len(OldCode(w)) - 1 /\ PutIn(w, k) /\ p.functionIndex + 1 = w.f
       /\ Len(CalleeAt(w, k)) \in Nat \ {0} /\ Len(NewCode(w)) \in Nat
  BY <1>1, <1>8, <1>9
<1> HIDE DEF Within
<1> QED BY <1>2, <1>3, <1>4, <1>7, <1>11, <1>13, <1>14, <1>15, <1>16, <1>17, Zenon DEF Within

\* The new run is at the instruction that stands for the callee's next, or at what
\* is left of its return.
LEMMA InnerAt ==
  ASSUME NEW w, NEW s, NEW t, NEW p, NEW k, Within(w, s, t, p, k), InCode(w.old, s)
  PROVE  LET inst == InstOf(w.old, s.top) IN
         \/ /\ inst.op \in Basics /\ inst.op \notin Returns
            /\ InstOf(w.new, t.top) = There(inst, Base(w, k))
            /\ InCode(w.new, t)
            /\ s.top.ip + 1 < Len(CalleeAt(w, k))
         \/ /\ inst.op \in Returns /\ inst.op \notin Basics
            /\ s.top.ip + 1 = Len(CalleeAt(w, k))
            /\ RestAt(w, k) = Remains(OldCode(w)[k + 1].op = "Call", inst.op)
            /\ Len(RestAt(w, k)) = 1 =>
                 InstOf(w.new, t.top) = RestAt(w, k)[1] /\ InCode(w.new, t)
<1> DEFINE inst == InstOf(w.old, s.top)
           callee == CalleeAt(w, k)
           j == s.top.ip + 1
<1>1. /\ FrameOK(w.old, s.top) /\ PutIn(w, k) /\ CodeOf(w.old, s.top) = callee
      /\ Len(callee) \in Nat \ {0} /\ Pos(w, k) \in Nat /\ Len(RestAt(w, k)) \in {0, 1}
      /\ Pos(w, k) + (Len(callee) - 1) + Len(RestAt(w, k)) <= Len(NewCode(w))
      /\ Len(NewCode(w)) \in Nat
      /\ CodeOf(w.new, t.top) = NewCode(w) /\ t.top.ip = Pos(w, k) + s.top.ip
  BY Zenon DEF Within
<1>2. s.top.ip \in Nat /\ j \in 1 .. Len(callee) /\ inst = callee[j]
  BY <1>1 DEF FrameOK, InCode, InstOf
<1>3. /\ callee[Len(callee)].op \in Returns
      /\ \A i \in 1 .. Len(callee) - 1 : callee[i].op \in Basics
      /\ \A i \in 1 .. Len(callee) - 1 : NewCode(w)[Pos(w, k) + i] = There(callee[i], Base(w, k))
      /\ Len(RestAt(w, k)) = 1 => NewCode(w)[Pos(w, k) + Len(callee)] = RestAt(w, k)[1]
  BY <1>1 DEF PutIn, Plain
<1>4. \A op : op \in Basics => op \notin Returns
  BY DEF Basics
<1>5. InstOf(w.new, t.top) = NewCode(w)[Pos(w, k) + j] /\ t.top.ip + 1 = Pos(w, k) + j
  <2>1. t.top.ip + 1 = Pos(w, k) + j
    BY <1>1, <1>2
  <2> QED BY <1>1, <2>1 DEF InstOf
<1>6. RestAt(w, k) = Remains(OldCode(w)[k + 1].op = "Call", callee[Len(callee)].op)
  BY Zenon DEF RestAt
<1> HIDE DEF callee, inst
<1>7. CASE j < Len(callee)
  <2>1. j \in 1 .. Len(callee) - 1
    BY <1>1, <1>2, <1>7
  <2>2. inst.op \in Basics /\ inst.op \notin Returns /\ InstOf(w.new, t.top) = There(inst, Base(w, k))
    BY <1>2, <1>3, <1>4, <1>5, <2>1
  <2>3. t.top.ip < Len(NewCode(w))
    BY <1>1, <1>2, <1>5, <2>1
  <2>4. InCode(w.new, t)
    BY <1>1, <2>3 DEF InCode
  <2> QED BY <1>7, <2>2, <2>4 DEF inst, callee
<1>8. CASE j = Len(callee)
  <2>1. inst.op \in Returns /\ inst.op \notin Basics /\ inst = callee[Len(callee)]
    BY <1>2, <1>3, <1>4, <1>8
  <2>2. RestAt(w, k) = Remains(OldCode(w)[k + 1].op = "Call", inst.op)
    BY <1>6, <2>1, Zenon
  <2>3. ASSUME Len(RestAt(w, k)) = 1
        PROVE  InstOf(w.new, t.top) = RestAt(w, k)[1] /\ InCode(w.new, t)
    <3>1. t.top.ip < Len(NewCode(w))
      BY <1>1, <1>2, <1>5, <1>8, <2>3
    <3> QED BY <1>1, <1>3, <1>5, <1>8, <2>3, <3>1 DEF InCode
  <2> QED BY <1>8, <2>1, <2>2, <2>3, Zenon DEF inst, callee
<1> QED BY <1>1, <1>2, <1>7, <1>8

\* What an instruction does in a window, as the proofs use it.
DoneIn(inst, d, x, e, base) ==
         /\ Works(x, e)
         /\ ~SeesAddress(inst, d) => ~SeesAddress(x, e)
         /\ NewStack(x, e) = NewStack(inst, d)
         /\ NewHeap(x, e) = NewHeap(inst, d)
         /\ NewOutput(x, e) = NewOutput(inst, d)
         /\ Window(NewLocals(inst, d), NewLocals(x, e), base)
         /\ Len(NewLocals(x, e)) = Len(e.locals)
         /\ \A j \in 1 .. Len(e.locals) : j \notin base + 1 .. base + Len(d.locals) =>
              NewLocals(x, e)[j] = e.locals[j]

\* The same in one word.
LEMMA BasicDone ==
  ASSUME NEW inst \in Instr, inst.op \in Basics, NEW d, NEW e,
         d.stack \in Seq(Word), d.locals \in Seq(Word), HeapOK(d.heap), e.locals \in Seq(Word),
         e.stack = d.stack, e.heap = d.heap, e.output = d.output,
         NEW base \in Nat, Window(d.locals, e.locals, base),
         Works(inst, d), base # 0 => ~SeesAddress(inst, d)
  PROVE  DoneIn(inst, d, There(inst, base), e, base)
BY BasicInWindow DEF DoneIn

\* An instruction of a callee that is put in.
LEMMA InnerBasic ==
  ASSUME NEW w, Fits(w), NEW s, StateOK(w.old, s), InCode(w.old, s), NEW t, Inner(w, s, t),
         NEW u, BasicStep(w.old, s, u)
  PROVE  \E v : Step(w.new, t, v) /\ Inner(w, u, v)
<1>1. PICK p : p = Caller(s)
  OBVIOUS
<1>2. PICK k : k = p.ip - 1
  OBVIOUS
<1>3. Within(w, s, t, p, k)
  BY <1>1, <1>2, InnerPlace
<1>4. PICK inst : inst = InstOf(w.old, s.top)
  OBVIOUS
<1>5. PICK base : base = Base(w, k)
  OBVIOUS
<1>6. PICK x : x = There(inst, base)
  OBVIOUS
<1>7. PICK d : d = Data(s)
  OBVIOUS
<1>8. PICK e : e = Data(t)
  OBVIOUS
<1>9. /\ s.callers # <<>>
      /\ SameData(s, t)
      /\ Beside(w, p, t.top, Pos(w, k) + s.top.ip, base + Len(s.top.locals))
      /\ Window(s.top.locals, t.top.locals, base)
      /\ MatchAll(w, Without(s.callers, 1), t.callers)
      /\ s.top.functionIndex = OldCode(w)[k + 1].imm
  BY <1>1, <1>2, <1>5 DEF Inner
<1>10. s.top.returnValueToCaller = (OldCode(w)[k + 1].op = "Call")
  BY <1>1, <1>2, Zenon DEF Inner
<1>11. /\ inst.op \in Basics /\ Works(inst, d) /\ ~SeesAddress(inst, d)
       /\ u.top = Moved(s.top, s.top.ip + 1, NewLocals(inst, d)) /\ u.callers = s.callers
       /\ u.stack = NewStack(inst, d) /\ u.heap = NewHeap(inst, d) /\ u.output = NewOutput(inst, d)
  BY <1>4, <1>7, <1>9, BasicParts
<1>12. /\ FrameOK(w.old, s.top) /\ s.top.ip \in Nat
       /\ d.locals = s.top.locals /\ d.stack = s.stack /\ d.heap = s.heap /\ d.output = s.output
       /\ d.locals \in Seq(Word) /\ d.stack \in Seq(Word) /\ HeapOK(d.heap)
       /\ inst \in Instr /\ inst.imm \in Nat /\ (inst.op = "PushI64" => inst.imm \in Word)
  <2>1. IsModule(w.old)
    BY DEF Fits
  <2> QED BY <1>4, <1>7, <2>1, StateParts
<1>13. e.locals = t.top.locals /\ e.stack = d.stack /\ e.heap = d.heap /\ e.output = d.output
  BY <1>8, <1>9, <1>12 DEF Data, SameData
<1>14. /\ base \in Nat /\ e.locals \in Seq(Word) /\ Window(d.locals, e.locals, base)
       /\ Len(e.locals) = LocalCount(NewCode(w))
  BY <1>3, <1>5, <1>9, <1>12, <1>13 DEF Within, Beside
<1>15. /\ x.op = inst.op /\ x.imm \in Nat /\ (x.op = "PushI64" => x.imm \in Word)
  <2>1. x.imm = IF inst.op \in LocalOps THEN inst.imm + base ELSE inst.imm
    BY <1>6, <1>12, <1>14, ThereFacts
  <2>2. x.op = inst.op
    BY <1>6, <1>12, <1>14, ThereFacts
  <2> QED BY <1>12, <1>14, <2>1, <2>2 DEF LocalOps
<1>16. /\ Works(x, e) /\ ~SeesAddress(x, e)
       /\ NewStack(x, e) = NewStack(inst, d) /\ NewHeap(x, e) = NewHeap(inst, d)
       /\ NewOutput(x, e) = NewOutput(inst, d)
       /\ Window(NewLocals(inst, d), NewLocals(x, e), base)
       /\ Len(NewLocals(x, e)) = Len(e.locals)
       /\ \A j \in 1 .. Len(e.locals) : j \notin base + 1 .. base + Len(d.locals) =>
            NewLocals(x, e)[j] = e.locals[j]
  <2>1. /\ d.stack \in Seq(Word) /\ d.locals \in Seq(Word) /\ HeapOK(d.heap)
        /\ e.locals \in Seq(Word) /\ Window(d.locals, e.locals, base) /\ inst \in Instr
        /\ e.stack = d.stack /\ e.heap = d.heap /\ e.output = d.output
        /\ inst.op \in Basics /\ Works(inst, d) /\ base \in Nat /\ ~SeesAddress(inst, d)
    BY <1>11, <1>12, <1>13, <1>14
  <2>2. /\ Works(x, e) /\ (~SeesAddress(inst, d) => ~SeesAddress(x, e))
        /\ NewStack(x, e) = NewStack(inst, d) /\ NewHeap(x, e) = NewHeap(inst, d)
        /\ NewOutput(x, e) = NewOutput(inst, d)
        /\ Window(NewLocals(inst, d), NewLocals(x, e), base)
        /\ Len(NewLocals(x, e)) = Len(e.locals)
        /\ \A j \in 1 .. Len(e.locals) : j \notin base + 1 .. base + Len(d.locals) =>
             NewLocals(x, e)[j] = e.locals[j]
    <3>1. DoneIn(inst, d, x, e, base)
      BY <1>6, <2>1, BasicDone
    <3> QED BY <3>1 DEF DoneIn
  <2> QED BY <2>1, <2>2
<1>17. NewLocals(x, e) \in Seq(Word)
  BY <1>11, <1>12, <1>13, <1>14, <1>15, <1>16, BasicWords
<1>18. Len(NewLocals(inst, d)) = Len(d.locals)
  BY <1>11, <1>12, BasicWords
<1>19. InstOf(w.new, t.top) = x /\ InCode(w.new, t)
  BY <1>3, <1>4, <1>5, <1>6, <1>11, InnerAt
<1>20. PICK l : l = NewLocals(x, e)
  OBVIOUS
<1>21. PICK v : v = [top |-> Moved(t.top, t.top.ip + 1, l), callers |-> t.callers,
                     stack |-> NewStack(x, e), heap |-> NewHeap(x, e), output |-> NewOutput(x, e)]
  BY Zenon
<1>22. Step(w.new, t, v)
  <2>1. BasicStep(w.new, t, v)
    BY <1>8, <1>11, <1>15, <1>16, <1>19, <1>20, <1>21, Zenon DEF BasicStep
  <2> QED BY <1>19, <2>1 DEF Step
<1>23. /\ v.top = Moved(t.top, t.top.ip + 1, l) /\ v.callers = t.callers
       /\ v.stack = NewStack(x, e) /\ v.heap = NewHeap(x, e) /\ v.output = NewOutput(x, e)
  BY <1>21
<1>24. SameData(u, v)
  BY <1>11, <1>16, <1>23 DEF SameData
<1>25. /\ u.top.functionIndex = s.top.functionIndex /\ u.top.ip = s.top.ip + 1
       /\ u.top.locals = NewLocals(inst, d)
       /\ u.top.returnValueToCaller = s.top.returnValueToCaller
  BY <1>11, FrameParts
<1>26. /\ v.top.locals = l /\ v.top = Moved(p, t.top.ip + 1, l)
       /\ t.top = Moved(p, Pos(w, k) + s.top.ip, t.top.locals)
       /\ t.top.ip + 1 = Pos(w, k) + u.top.ip
  <2>1. t.top = Moved(p, Pos(w, k) + s.top.ip, t.top.locals)
    BY <1>9 DEF Beside
  <2>2. t.top.ip = Pos(w, k) + s.top.ip /\ Pos(w, k) \in Nat
    BY <1>3 DEF Within
  <2>3. Moved(t.top, t.top.ip + 1, l) = Moved(p, t.top.ip + 1, l)
    BY <2>1, FrameParts
  <2> QED BY <1>12, <1>23, <1>25, <2>1, <2>2, <2>3, FrameParts
<1>27. /\ Len(p.locals) \in Nat /\ Len(p.locals) <= base /\ Len(s.top.locals) \in Nat
       /\ Window(p.locals, t.top.locals, 0)
       /\ \A i \in base + Len(s.top.locals) + 1 .. Len(t.top.locals) : t.top.locals[i] = 0
  BY <1>3, <1>5, <1>9 DEF Within, Beside
<1>28. Len(t.top.locals) \in Nat /\ base + Len(s.top.locals) <= Len(t.top.locals)
  BY <1>9, <1>13, <1>14 DEF Window
<1>29. Window(p.locals, l, 0)
  <2>1. \A i \in 1 .. Len(p.locals) : i \in 1 .. Len(t.top.locals) /\ i \notin base + 1 .. base + Len(s.top.locals)
    BY <1>14, <1>27, <1>28
  <2>2. \A i \in 1 .. Len(p.locals) : l[0 + i] = p.locals[i]
    <3>1. ASSUME NEW i \in 1 .. Len(p.locals)
          PROVE  l[i] = p.locals[i]
      <4>1. l[i] = t.top.locals[i]
        BY <1>12, <1>13, <1>16, <1>20, <2>1
      <4>2. t.top.locals[0 + i] = p.locals[i] /\ 0 + i = i
        BY <1>27 DEF Window
      <4> QED BY <4>1, <4>2
    <3> QED BY <3>1
  <2>3. 0 + Len(p.locals) <= Len(l)
    BY <1>13, <1>14, <1>16, <1>20, <1>27, <1>28
  <2> QED BY <2>2, <2>3 DEF Window
<1>30. \A i \in base + Len(u.top.locals) + 1 .. Len(l) : l[i] = 0
  <2>1. Len(u.top.locals) = Len(s.top.locals) /\ Len(l) = Len(t.top.locals)
    BY <1>12, <1>13, <1>16, <1>18, <1>20, <1>25
  <2>2. \A i \in base + Len(s.top.locals) + 1 .. Len(t.top.locals) :
          i \in 1 .. Len(t.top.locals) /\ i \notin base + 1 .. base + Len(s.top.locals)
    BY <1>14, <1>27, <1>28
  <2> QED BY <1>12, <1>13, <1>16, <1>20, <1>27, <2>1, <2>2
<1>31. Beside(w, p, v.top, Pos(w, k) + u.top.ip, base + Len(u.top.locals))
  <2>1. l \in Seq(Word) /\ Len(l) = LocalCount(NewCode(w))
    BY <1>14, <1>16, <1>17, <1>20
  <2> QED BY <1>26, <1>29, <1>30, <2>1 DEF Beside
<1>32. Window(u.top.locals, v.top.locals, base)
  BY <1>16, <1>20, <1>25, <1>26
<1>33. /\ Caller(u) = p /\ u.callers # <<>> /\ MatchAll(w, Without(u.callers, 1), v.callers)
  BY <1>1, <1>9, <1>11, <1>23 DEF Caller
<1>34. /\ p.functionIndex + 1 = w.f /\ k \in 0 .. Len(OldCode(w)) - 1 /\ PutIn(w, k)
  BY <1>3 DEF Within
<1>35. Inner(w, u, v)
  BY <1>2, <1>5, <1>9, <1>10, <1>24, <1>25, <1>31, <1>32, <1>33, <1>34, Zenon DEF Inner
<1> QED BY <1>22, <1>35

\* What is left of a return leaves the operands the return leaves.
LEMMA RestDoes ==
  ASSUME NEW op \in Returns, NEW words \in Seq(Word), Operands(op) <= Len(words),
         ~Narrows(op, words), NEW wanted, NEW e, e.stack = words
  PROVE  LET rest == Remains(wanted, op)
             after == StackAfter(op, words, wanted) IN
         /\ rest = <<>> => after = words
         /\ Len(rest) = 1 =>
              /\ rest[1].op \in Basics /\ rest[1].op \notin LocalOps \cup Indirect \cup HeapOps
              /\ Works(rest[1], e) /\ ~SeesAddress(rest[1], e)
              /\ NewStack(rest[1], e) = after
              /\ NewLocals(rest[1], e) = e.locals /\ NewHeap(rest[1], e) = e.heap
              /\ NewOutput(rest[1], e) = e.output
<1> DEFINE zero == [op |-> "PushI32", imm |-> 0]
           pop == [op |-> "Pop", imm |-> 0]
<1>1. IsSeq(words) /\ Len(words) \in Nat
  BY DEF IsSeq
<1>2. CASE op = "ReturnVoid"
  <2>1. Operands(op) = 0 /\ ValueOf(op, words) = 0
    BY <1>2 DEF Operands, Unary, Binary, Numerics, ValueOf
  <2>2. CASE wanted
    <3>1. Remains(wanted, op) = <<zero>>
      BY <1>2, <2>2 DEF Remains
    <3>2. StackAfter(op, words, wanted) = Without(words, 0) \o <<0>>
      BY <2>1, <2>2 DEF StackAfter
    <3>3. <<zero>> # <<>> /\ Len(<<zero>>) = 1 /\ <<zero>>[1] = zero
      OBVIOUS
    <3>4. SignExtend(0) = 0
      <4>1. HalfLimit \in Nat \ {0}
        BY Words, MachineAssumption
      <4>2. 0 % HalfLimit = 0
        BY <4>1
      <4> QED BY <4>1, <4>2 DEF SignExtend
    <3>5. zero.op = "PushI32" /\ zero.imm = 0
      OBVIOUS
    <3> HIDE DEF zero
    <3>6. zero.op \in Basics /\ zero.op \notin LocalOps \cup Indirect \cup HeapOps
      BY <3>5 DEF Basics, Opcodes, Constants, Calls, Returns, Jumps, LocalOps, Indirect, HeapOps
    <3>7. Works(zero, e) /\ ~SeesAddress(zero, e)
      <4>1. Operands(zero.op) = 0
        BY <3>5 DEF Operands, Unary, Binary, Numerics
      <4>2. Operands(zero.op) <= Len(e.stack)
        BY <1>1, <4>1
      <4> QED BY <3>5, <3>6, <4>2, Zenon DEF Works, SeesAddress
    <3>8. NewStack(zero, e) = Without(words, 0) \o <<0>>
      <4>1. Taken(zero) = 0
        BY <3>5 DEF Taken, Operands, Unary, Binary, Numerics
      <4>2. Left(zero, e) = <<0>>
        BY <3>4, <3>5 DEF Left
      <4> QED BY <4>1, <4>2 DEF NewStack
    <3>9. NewLocals(zero, e) = e.locals /\ NewHeap(zero, e) = e.heap /\ NewOutput(zero, e) = e.output
      BY <3>5 DEF NewLocals, NewHeap, NewOutput, HeapOps
    <3> QED BY <3>1, <3>2, <3>3, <3>6, <3>7, <3>8, <3>9
  <2>3. CASE ~wanted
    <3>1. Remains(wanted, op) = <<>>
      BY <1>2, <2>3 DEF Remains
    <3>2. StackAfter(op, words, wanted) = words
      BY <1>1, <2>1, <2>3, PutBack DEF StackAfter
    <3> QED BY <3>1, <3>2, ShortSeq
  <2> QED BY <2>2, <2>3
<1>3. CASE op # "ReturnVoid"
  <2>1. Operands(op) = 1
    BY <1>3 DEF Operands, Unary, Binary, Numerics, Returns
  <2>2. ValueOf(op, words) = words[Len(words)]
    BY <1>3 DEF Narrows
  <2>3. CASE ~wanted
    <3>1. Remains(wanted, op) = <<pop>>
      BY <1>3, <2>3 DEF Remains
    <3>2. StackAfter(op, words, wanted) = Without(words, 1) \o <<>>
      BY <2>1, <2>3 DEF StackAfter
    <3>3. <<pop>> # <<>> /\ Len(<<pop>>) = 1 /\ <<pop>>[1] = pop
      OBVIOUS
    <3>5. pop.op = "Pop"
      OBVIOUS
    <3> HIDE DEF pop
    <3>6. pop.op \in Basics /\ pop.op \notin LocalOps \cup Indirect \cup HeapOps
      BY <3>5 DEF Basics, Opcodes, Unary, Calls, Returns, Jumps, LocalOps, Indirect, HeapOps
    <3>7. Works(pop, e) /\ ~SeesAddress(pop, e)
      <4>1. Operands(pop.op) = 1
        BY <3>5 DEF Operands, Unary, Binary, Numerics
      <4>2. Operands(pop.op) <= Len(e.stack)
        BY <1>1, <2>1, <4>1
      <4> QED BY <3>5, <3>6, <4>2, Zenon DEF Works, SeesAddress
    <3>8. NewStack(pop, e) = Without(words, 1) \o <<>>
      <4>1. Taken(pop) = 1
        BY <3>5 DEF Taken, Operands, Unary, Binary, Numerics
      <4>2. Left(pop, e) = <<>>
        BY <3>5 DEF Left
      <4> QED BY <4>1, <4>2 DEF NewStack
    <3>9. NewLocals(pop, e) = e.locals /\ NewHeap(pop, e) = e.heap /\ NewOutput(pop, e) = e.output
      BY <3>5 DEF NewLocals, NewHeap, NewOutput, HeapOps
    <3> QED BY <3>1, <3>2, <3>3, <3>6, <3>7, <3>8, <3>9
  <2>4. CASE wanted
    <3>1. Remains(wanted, op) = <<>>
      BY <1>3, <2>4 DEF Remains
    <3>2. StackAfter(op, words, wanted) = words
      <4>1. Len(words) >= 1
        BY <1>1, <2>1
      <4> QED BY <1>1, <2>1, <2>2, <2>4, <4>1, PutBack DEF StackAfter
    <3> QED BY <3>1, <3>2, ShortSeq
  <2> QED BY <2>3, <2>4
<1> QED BY <1>2, <1>3

\* The return of a callee that is put in: the new run is past it, or comes past it
\* with what is left of it.
LEMMA InnerReturn ==
  ASSUME NEW w, Fits(w), NEW s, StateOK(w.old, s), InCode(w.old, s), NEW t, Inner(w, s, t),
         NEW u, ReturnStep(w.old, s, u)
  PROVE  Outer(w, u, t) \/ \E v : Step(w.new, t, v) /\ Outer(w, u, v)
<1>1. PICK p : p = Caller(s)
  OBVIOUS
<1>2. PICK k : k = p.ip - 1
  OBVIOUS
<1>3. Within(w, s, t, p, k)
  BY <1>1, <1>2, InnerPlace
<1>4. PICK inst : inst = InstOf(w.old, s.top)
  OBVIOUS
<1>5. PICK base : base = Base(w, k)
  OBVIOUS
<1>6. PICK wanted : wanted = (OldCode(w)[k + 1].op = "Call")
  BY Zenon
<1>7. PICK e : e = Data(t)
  OBVIOUS
<1>8. PICK rest : rest = RestAt(w, k)
  OBVIOUS
<1>9. /\ s.callers # <<>>
      /\ SameData(s, t)
      /\ Beside(w, p, t.top, Pos(w, k) + s.top.ip, base + Len(s.top.locals))
      /\ MatchAll(w, Without(s.callers, 1), t.callers)
  BY <1>1, <1>2, <1>5 DEF Inner
<1>10. s.top.returnValueToCaller = wanted
  BY <1>1, <1>2, <1>6, Zenon DEF Inner
<1>11. /\ inst.op \in Returns /\ Operands(inst.op) <= Len(s.stack)
       /\ ~Narrows(inst.op, s.stack)
       /\ u.top = p /\ u.callers = Without(s.callers, 1)
       /\ u.stack = StackAfter(inst.op, s.stack, s.top.returnValueToCaller)
       /\ u.heap = s.heap /\ u.output = s.output
  BY <1>1, <1>4, ReturnParts DEF Caller
<1>12. u.stack = StackAfter(inst.op, s.stack, wanted)
  BY <1>10, <1>11, Zenon
<1>13. /\ s.top.ip + 1 = Len(CalleeAt(w, k))
       /\ Len(rest) = 1 => InstOf(w.new, t.top) = rest[1] /\ InCode(w.new, t)
  BY <1>3, <1>4, <1>8, <1>11, InnerAt
<1>14. rest = Remains(wanted, inst.op)
  <2>1. RestAt(w, k) = Remains(OldCode(w)[k + 1].op = "Call", inst.op)
    BY <1>3, <1>4, <1>11, InnerAt
  <2> QED BY <1>6, <1>8, <2>1, Zenon
<1>15. /\ e.locals = t.top.locals /\ e.stack = s.stack /\ e.heap = s.heap /\ e.output = s.output
       /\ s.stack \in Seq(Word) /\ t.stack = s.stack /\ t.heap = s.heap /\ t.output = s.output
  BY <1>7, <1>9 DEF Data, SameData, StateOK
<1>16. /\ rest = <<>> => u.stack = s.stack
       /\ Len(rest) = 1 =>
            /\ rest[1].op \in Basics
            /\ Works(rest[1], e) /\ ~SeesAddress(rest[1], e)
            /\ NewStack(rest[1], e) = u.stack
            /\ NewLocals(rest[1], e) = e.locals /\ NewHeap(rest[1], e) = e.heap
            /\ NewOutput(rest[1], e) = e.output
  BY <1>11, <1>12, <1>14, <1>15, RestDoes
<1>17. /\ p.functionIndex + 1 = w.f /\ p.ip = k + 1 /\ PutIn(w, k)
       /\ Pos(w, k) \in Nat /\ base \in Nat /\ Len(CalleeAt(w, k)) \in Nat \ {0}
       /\ Len(rest) \in {0, 1} /\ Len(s.top.locals) = LocalCount(CalleeAt(w, k))
       /\ t.top.ip = Pos(w, k) + s.top.ip
  BY <1>3, <1>5, <1>8 DEF Within
<1>18. /\ Pos(w, p.ip) = Pos(w, k) + (Len(CalleeAt(w, k)) - 1) + Len(rest)
       /\ Base(w, p.ip) = base + Len(s.top.locals)
  BY <1>5, <1>8, <1>17 DEF PutIn
<1>19. s.top.ip = Len(CalleeAt(w, k)) - 1 /\ s.top.ip \in Nat
  <2>1. s.top.ip \in Nat
    BY <1>3 DEF Within, FrameOK
  <2> QED BY <1>13, <1>17, <2>1
<1>20. Pos(w, p.ip) = t.top.ip + Len(rest) /\ t.top.ip \in Nat
  BY <1>17, <1>18, <1>19
<1>21. \A b : /\ b = Moved(t.top, Pos(w, p.ip), t.top.locals) => Matches(w, p, b)
  <2>1. ASSUME NEW b, b = Moved(t.top, Pos(w, p.ip), t.top.locals)
        PROVE  Matches(w, p, b)
    <3>1. b.locals = t.top.locals /\ b = Moved(p, Pos(w, p.ip), b.locals)
      <4>1. t.top = Moved(p, Pos(w, k) + s.top.ip, t.top.locals)
        BY <1>9 DEF Beside
      <4>2. Moved(t.top, Pos(w, p.ip), t.top.locals) = Moved(p, Pos(w, p.ip), t.top.locals)
        BY <4>1, FrameParts
      <4> QED BY <2>1, <4>2, FrameParts
    <3>2. /\ t.top.locals \in Seq(Word) /\ Len(t.top.locals) = LocalCount(NewCode(w))
          /\ Window(p.locals, t.top.locals, 0)
          /\ \A i \in base + Len(s.top.locals) + 1 .. Len(t.top.locals) : t.top.locals[i] = 0
      BY <1>9 DEF Beside
    <3>3. Beside(w, p, b, Pos(w, p.ip), Base(w, p.ip))
      BY <1>18, <3>1, <3>2 DEF Beside
    <3> QED BY <1>17, <3>3 DEF Matches
  <2> QED BY <2>1
<1>22. CASE Len(rest) = 0
  <2>1. rest = <<>>
    BY <1>8, <1>22, RemainsFacts, EmptySeq DEF RestAt, IsSeq, InstrSeq
  <2>2. Matches(w, p, t.top)
    <3>1. t.top = Moved(t.top, t.top.ip, t.top.locals)
      BY <1>9, FrameParts DEF Beside
    <3>2. Pos(w, p.ip) = t.top.ip
      BY <1>20, <1>22
    <3> QED BY <1>21, <3>1, <3>2
  <2>3. Outer(w, u, t)
    BY <1>9, <1>11, <1>15, <1>16, <2>1, <2>2 DEF Outer, SameData
  <2> QED BY <2>3
<1>23. CASE Len(rest) = 1
  <2>1. PICK x : x = rest[1]
    OBVIOUS
  <2>2. /\ x.op \in Basics /\ Works(x, e) /\ ~SeesAddress(x, e)
        /\ NewStack(x, e) = u.stack /\ NewLocals(x, e) = t.top.locals
        /\ NewHeap(x, e) = s.heap /\ NewOutput(x, e) = s.output
        /\ InstOf(w.new, t.top) = x /\ InCode(w.new, t)
    BY <1>13, <1>15, <1>16, <1>23, <2>1
  <2>3. PICK v : v = [top |-> Moved(t.top, t.top.ip + 1, NewLocals(x, e)), callers |-> t.callers,
                      stack |-> NewStack(x, e), heap |-> NewHeap(x, e), output |-> NewOutput(x, e)]
    BY Zenon
  <2>4. Step(w.new, t, v)
    <3>1. BasicStep(w.new, t, v)
      BY <1>7, <2>2, <2>3, Zenon DEF BasicStep
    <3> QED BY <2>2, <3>1 DEF Step
  <2>5. /\ v.top = Moved(t.top, t.top.ip + 1, t.top.locals) /\ v.callers = t.callers
        /\ v.stack = u.stack /\ v.heap = s.heap /\ v.output = s.output
    BY <2>2, <2>3
  <2>6. Matches(w, p, v.top)
    <3>1. Pos(w, p.ip) = t.top.ip + 1
      BY <1>20, <1>23
    <3> QED BY <1>21, <2>5, <3>1
  <2>7. Outer(w, u, v)
    BY <1>9, <1>11, <2>5, <2>6 DEF Outer, SameData
  <2> QED BY <2>4, <2>7
<1> QED BY <1>17, <1>22, <1>23

-----------------------------------------------------------------------------
(***************************************************************************)
(* The rewriting is seen by nobody: what a run came to before, it comes to *)
(* after.                                                                  *)
(***************************************************************************)
Rel(w, s, t) == Outer(w, s, t) \/ Inner(w, s, t)

\* A step of the old run is a step of the new one, or none.
LEMMA StepFollowed ==
  ASSUME NEW w, Fits(w), NEW s, StateOK(w.old, s), NEW t, Rel(w, s, t),
         NEW u, Step(w.old, s, u)
  PROVE  Rel(w, u, t) \/ \E v : Step(w.new, t, v) /\ Rel(w, u, v)
<1>1. InCode(w.old, s)
  BY DEF Step
<1>2. CASE Outer(w, s, t)
  <2>1. CASE BasicStep(w.old, s, u)
    BY <1>1, <1>2, <2>1, OuterBasic DEF Rel
  <2>2. CASE JumpStep(w.old, s, u)
    BY <1>1, <1>2, <2>2, OuterJump DEF Rel
  <2>3. CASE ReturnStep(w.old, s, u)
    BY <1>1, <1>2, <2>3, OuterReturn DEF Rel
  <2>4. CASE CallStep(w.old, s, u)
    <3>1. CASE s.top.functionIndex + 1 = w.f => Kept(w, s.top.ip)
      BY <1>1, <1>2, <2>4, <3>1, OuterCall DEF Rel
    <3>2. CASE ~(s.top.functionIndex + 1 = w.f => Kept(w, s.top.ip))
      <4>1. FrameOK(w.old, s.top) /\ s.top.ip < Len(CodeOf(w.old, s.top))
        BY <1>1 DEF StateOK, InCode
      <4>2. PutIn(w, s.top.ip)
        <5>1. PICK a : a = s.top
          OBVIOUS
        <5>2. Kept(w, a.ip) \/ PutIn(w, a.ip)
          BY <3>2, <4>1, <5>1, KeptUnlessCall
        <5> QED BY <3>2, <5>1, <5>2
      <4>3. Inner(w, u, t)
        BY <1>1, <1>2, <2>4, <3>2, <4>2, OuterEnters
      <4> QED BY <4>3 DEF Rel
    <3> QED BY <3>1, <3>2
  <2> QED BY <2>1, <2>2, <2>3, <2>4 DEF Step
<1>3. CASE Inner(w, s, t)
  <2>1. CASE BasicStep(w.old, s, u)
    BY <1>1, <1>3, <2>1, InnerBasic DEF Rel
  <2>2. CASE ReturnStep(w.old, s, u)
    BY <1>1, <1>3, <2>2, InnerReturn DEF Rel
  <2>3. InstOf(w.old, s.top).op \in Basics \cup Returns
    <3>1. PICK p, k : Within(w, s, t, p, k)
      BY <1>3, InnerPlace
    <3> QED BY <1>1, <3>1, InnerAt
  <2>4. InstOf(w.old, s.top).op \notin Calls \cup Jumps
    BY <2>3 DEF Basics, Returns, Calls, Jumps
  <2>5. ~JumpStep(w.old, s, u) /\ ~CallStep(w.old, s, u)
    BY <2>4, Zenon DEF JumpStep, CallStep
  <2> QED BY <2>1, <2>2, <2>5 DEF Step
<1> QED BY <1>2, <1>3 DEF Rel

\* The last return of the old run is that of the new one.
LEMMA ExitFollowed ==
  ASSUME NEW w, Fits(w), NEW s, StateOK(w.old, s), NEW t, Rel(w, s, t),
         NEW out, ExitsWith(w.old, s, out)
  PROVE  ExitsWith(w.new, t, out)
<1>1. s.callers = <<>>
  BY Zenon DEF ExitsWith
<1>2. Outer(w, s, t)
  BY <1>1, Zenon DEF Rel, Inner
<1> QED BY <1>2, OuterExit

\* What the old run comes to, the new one comes to.
LEMMA RunFollowed ==
  ASSUME NEW w, Fits(w), NEW s, StateOK(w.old, s), NEW t, Rel(w, s, t),
         NEW out, Comes(w.old, s, out)
  PROVE  Comes(w.new, t, out)
<1> DEFINE good == {n \in Nat : \A x, y : /\ StateOK(w.old, x) /\ Rel(w, x, y)
                                          /\ ComesIn(w.old, x, out, n)
                                          => Comes(w.new, y, out)}
<1>1. 0 \in good
  <2>1. ASSUME NEW x, NEW y, StateOK(w.old, x), Rel(w, x, y), ComesIn(w.old, x, out, 0)
        PROVE  Comes(w.new, y, out)
    <3>1. ExitsWith(w.old, x, out)
      BY <2>1, ComesNow
    <3>2. ExitsWith(w.new, y, out)
      BY <2>1, <3>1, ExitFollowed
    <3> QED BY <3>2, ComesFacts
  <2> QED BY <2>1
<1>2. ASSUME NEW n \in Nat, n \in good
      PROVE  n + 1 \in good
  <2>1. ASSUME NEW x, NEW y, StateOK(w.old, x), Rel(w, x, y), ComesIn(w.old, x, out, n + 1)
        PROVE  Comes(w.new, y, out)
    <3>1. PICK u : Step(w.old, x, u) /\ ComesIn(w.old, u, out, n)
      BY <2>1, ComesNext
    <3>2. StateOK(w.old, u)
      BY <2>1, <3>1, StepKeeps DEF Fits
    <3>3. CASE Rel(w, u, y)
      BY <1>2, <3>1, <3>2, <3>3
    <3>4. CASE \E v : Step(w.new, y, v) /\ Rel(w, u, v)
      <4>1. PICK v : Step(w.new, y, v) /\ Rel(w, u, v)
        BY <3>4
      <4>2. Comes(w.new, v, out)
        BY <1>2, <3>1, <3>2, <4>1
      <4> QED BY <4>1, <4>2, ComesFacts
    <3> QED BY <2>1, <3>1, <3>3, <3>4, StepFollowed
  <2> QED BY <2>1
<1>3. good \subseteq Nat
  OBVIOUS
<1> HIDE DEF good
<1>4. \A n \in Nat : n \in good
  BY <1>1, <1>2, <1>3, SetInduction
<1>5. PICK n \in Nat : ComesIn(w.old, s, out, n)
  BY DEF Comes
<1> QED BY <1>4, <1>5 DEF good

\* The parts of a run's first state.
LEMMA BeginParts ==
  ASSUME NEW m
  PROVE  /\ Begin(m).top = NewFrame(m.functions, m.entryIndex, FALSE)
         /\ Begin(m).callers = <<>> /\ Begin(m).stack = <<>>
         /\ Begin(m).heap = EmptyHeap /\ Begin(m).output = <<>>
BY DEF Begin

\* A rewriting changes nothing of what the program comes to: what it prints and
\* returns with calls, it prints and returns with the callees in their place
\* (appendInlinedCallee).
THEOREM RewritingSame ==
  ASSUME NEW w, Fits(w), ValidEntry(w.old), NEW out, Comes(w.old, Begin(w.old), out)
  PROVE  Comes(w.new, Begin(w.new), out)
<1>1. StateOK(w.old, Begin(w.old))
  BY BeginOK DEF Fits
<1>2. Outer(w, Begin(w.old), Begin(w.new))
  <2>1. w.old.entryIndex \in Nat /\ w.old.entryIndex + 1 \in DOMAIN w.old.functions
        /\ w.new.entryIndex = w.old.entryIndex
    BY DEF Fits, IsModule, ValidEntry
  <2>2. PICK wanted : wanted = FALSE
    OBVIOUS
  <2>3. Matches(w, NewFrame(w.old.functions, w.old.entryIndex, wanted),
                   NewFrame(w.new.functions, w.old.entryIndex, wanted))
    BY <2>1, NewFramesMatch
  <2>4. Matches(w, Begin(w.old).top, Begin(w.new).top)
    BY <2>1, <2>2, <2>3, BeginParts
  <2>5. MatchAll(w, <<>>, <<>>)
    BY ShortSeq DEF MatchAll
  <2> QED BY <2>4, <2>5, BeginParts DEF Outer, SameData
<1> QED BY <1>1, <1>2, RunFollowed DEF Rel
-----------------------------------------------------------------------------
(***************************************************************************)
(* The machine's run is one of these runs.                                 *)
(***************************************************************************)
StateOf(running, words, slots, printed) ==
  [top |-> running[Len(running)], callers |-> Without(running, 1),
   stack |-> words, heap |-> slots, output |-> printed]
Now == StateOf(frames, stack, heap, output)

InFrames == IsSeq(frames) /\ frames # <<>> /\ StateOK(module, Now)

\* The parts of the state.
LEMMA NowParts ==
  ASSUME NEW running, NEW words, NEW slots, NEW printed
  PROVE  LET s == StateOf(running, words, slots, printed) IN
         /\ s.top = running[Len(running)] /\ s.callers = Without(running, 1)
         /\ s.stack = words /\ s.heap = slots /\ s.output = printed
BY DEF StateOf

LocalStored(b, a, i, word, ip) == b = [a EXCEPT !.locals[i] = word, !.ip = ip]

\* A frame that moves, and one that stores a word.
LEMMA FrameMoves ==
  ASSUME NEW a, a = Moved(a, a.ip, a.locals), NEW ip
  PROVE  /\ [a EXCEPT !.ip = ip] = Moved(a, ip, a.locals)
         /\ \A i, word, b : LocalStored(b, a, i, word, ip) => b = Moved(a, ip, [a.locals EXCEPT ![i] = word])
<1>1. PICK k, l, r, p : /\ k = a.functionIndex /\ l = a.locals /\ r = a.returnValueToCaller
                        /\ p = a.ip
  OBVIOUS
<1>2. a = [functionIndex |-> k, ip |-> p, locals |-> l, returnValueToCaller |-> r]
  BY <1>1 DEF Moved
<1>3. [a EXCEPT !.ip = ip] = Moved(a, ip, a.locals)
  BY <1>1, <1>2 DEF Moved
<1>4. ASSUME NEW i, NEW word
      PROVE  [a EXCEPT !.locals[i] = word, !.ip = ip] = Moved(a, ip, [a.locals EXCEPT ![i] = word])
  <2>1. PICK l2 : l2 = [l EXCEPT ![i] = word]
    OBVIOUS
  <2>2. [a EXCEPT !.locals = l2, !.ip = ip] = Moved(a, ip, l2)
    <3>1. PICK b : b = [a EXCEPT !.locals = l2]
      OBVIOUS
    <3>2. b = [functionIndex |-> k, ip |-> p, locals |-> l2, returnValueToCaller |-> r]
      BY <1>2, <3>1
    <3>3. [b EXCEPT !.ip = ip] = [functionIndex |-> k, ip |-> ip, locals |-> l2, returnValueToCaller |-> r]
      BY <3>2
    <3>4. Moved(a, ip, l2) = [functionIndex |-> k, ip |-> ip, locals |-> l2, returnValueToCaller |-> r]
      BY <1>1, Zenon DEF Moved
    <3>5. [a EXCEPT !.locals = l2, !.ip = ip] = [b EXCEPT !.ip = ip]
      BY <3>1
    <3> QED BY <3>3, <3>4, <3>5
  <2>3. [a EXCEPT !.locals[i] = word, !.ip = ip] = [a EXCEPT !.locals = l2, !.ip = ip]
    BY <1>1, <2>1
  <2> QED BY <1>1, <2>1, <2>2, <2>3
<1> QED BY <1>3, <1>4 DEF LocalStored

\* The frames when the running one moves.
LEMMA TopMoves ==
  ASSUME NEW fs, IsSeq(fs), fs # <<>>, NEW b, NEW gs, Stored(gs, fs, Len(fs), b)
  PROVE  /\ IsSeq(gs) /\ gs # <<>>
         /\ gs[Len(gs)] = b /\ Without(gs, 1) = Without(fs, 1)
<1>1. /\ IsSeq(gs) /\ Len(gs) = Len(fs) /\ Len(fs) \in Nat
      /\ \A j \in 1 .. Len(fs) : gs[j] = IF j = Len(fs) THEN b ELSE fs[j]
  BY StoredFacts, SeqFacts
<1>2. Len(fs) >= 1
  BY <1>1, EmptySeq
<1>3. gs # <<>> /\ gs[Len(gs)] = b
  BY <1>1, <1>2, EmptySeq
<1>4. /\ IsSeq(Without(gs, 1)) /\ Len(Without(gs, 1)) = Len(fs) - 1
      /\ \A i \in 1 .. Len(fs) - 1 : Without(gs, 1)[i] = gs[i]
  BY <1>1, <1>2, WithoutFacts
<1>5. /\ IsSeq(Without(fs, 1)) /\ Len(Without(fs, 1)) = Len(fs) - 1
      /\ \A i \in 1 .. Len(fs) - 1 : Without(fs, 1)[i] = fs[i]
  BY <1>1, <1>2, WithoutFacts
<1>6. \A i \in 1 .. Len(fs) - 1 : gs[i] = fs[i]
  BY <1>1
<1>7. Without(gs, 1) = Without(fs, 1)
  BY <1>4, <1>5, <1>6, SameSeq
<1> QED BY <1>1, <1>3, <1>7

\* The frames when the running one calls.
LEMMA TopCalls ==
  ASSUME NEW fs, IsSeq(fs), fs # <<>>, NEW b, NEW gs, Stored(gs, fs, Len(fs), b), NEW c
  PROVE  /\ IsSeq(Append(gs, c)) /\ Append(gs, c) # <<>>
         /\ Append(gs, c)[Len(Append(gs, c))] = c
         /\ Without(Append(gs, c), 1) = Append(Without(fs, 1), b)
<1>1. /\ IsSeq(gs) /\ gs # <<>> /\ gs[Len(gs)] = b /\ Without(gs, 1) = Without(fs, 1)
  BY TopMoves
<1>2. /\ Append(gs, c) # <<>> /\ Append(gs, c)[Len(Append(gs, c))] = c
      /\ Without(Append(gs, c), 1) = gs /\ IsSeq(Append(gs, c))
  BY <1>1, AppendDropped, AppendFacts
<1>3. gs = Append(Without(gs, 1), gs[Len(gs)])
  <2>1. Len(gs) \in Nat /\ Len(gs) >= 1
    BY <1>1, SeqFacts, EmptySeq
  <2>2. Without(gs, 1) \o <<gs[Len(gs)]>> = gs /\ IsSeq(Without(gs, 1))
    BY <1>1, <2>1, PutBack, WithoutFacts
  <2> QED BY <2>2, ConcatOne
<1> QED BY <1>1, <1>2, <1>3

\* What the machine looks at is what a step looks at.
LEMMA NowSees ==
  ASSUME IsModule(module), InFrames
  PROVE  /\ Now.top = Frame /\ Now.callers = Without(frames, 1)
         /\ Now.stack = stack /\ Now.heap = heap /\ Now.output = output
         /\ FrameOK(module, Frame) /\ stack \in Seq(Word) /\ Len(stack) \in Nat
         /\ Depth \in Nat \ {0} /\ Len(Now.callers) = Depth - 1
         /\ Now.callers # <<>> <=> Depth > 1
         /\ Code(Frame.functionIndex) = CodeOf(module, Now.top)
         /\ Inst = InstOf(module, Now.top)
         /\ AtEnd <=> ~InCode(module, Now)
<1>1. /\ Now.top = Frame /\ Now.callers = Without(frames, 1)
      /\ Now.stack = stack /\ Now.heap = heap /\ Now.output = output
  BY NowParts DEF Now, Frame, Depth
<1>2. FrameOK(module, Frame) /\ stack \in Seq(Word) /\ Len(stack) \in Nat
  BY <1>1 DEF InFrames, StateOK
<1>3. /\ Depth \in Nat \ {0} /\ Len(Now.callers) = Depth - 1 /\ IsSeq(Now.callers)
  <2>1. Len(frames) \in Nat \ {0}
    BY SeqFacts, EmptySeq DEF InFrames
  <2> QED BY <1>1, <2>1, WithoutFacts DEF InFrames, Depth
<1>4. Now.callers # <<>> <=> Depth > 1
  BY <1>3, EmptySeq
<1>5. /\ Code(Frame.functionIndex) = CodeOf(module, Now.top)
      /\ Inst = InstOf(module, Now.top)
  BY <1>1 DEF Code, CodeOf, Inst, InstOf
<1>6. AtEnd <=> ~InCode(module, Now)
  <2>1. Len(CodeOf(module, Now.top)) \in Nat
    BY <1>1, <1>2, FrameFacts
  <2> QED BY <1>1, <1>2, <1>5, <2>1 DEF AtEnd, InCode, FrameOK
<1> QED BY <1>1, <1>2, <1>3, <1>4, <1>5, <1>6

\* So are its operands and what it makes of them.
LEMMA NowMakes ==
  ASSUME IsModule(module), InFrames
  PROVE  LET d == Data(Now) IN
         /\ d.locals = Frame.locals /\ d.stack = stack /\ d.heap = heap /\ d.output = output
         /\ Arg(d, 0) = Operand(0) /\ Arg(d, 1) = Operand(1)
         /\ Operand(0) = stack[Len(stack)]
         /\ \A n : Without(stack, n) = Drop(n)
         /\ Inst.op \in Indirect => Slot(Inst, d) = IndirectSlot
         /\ HeapDone(Inst, d) = HeapResult
         /\ ValueOf(Inst.op, stack) = ReturnValue
<1> DEFINE d == Data(Now)
<1>1. d.locals = Frame.locals /\ d.stack = stack /\ d.heap = heap /\ d.output = output
  BY NowSees DEF Data
<1>2. Len(stack) \in Nat
  BY NowSees
<1> HIDE DEF d
<1>3. Arg(d, 0) = Operand(0) /\ Arg(d, 1) = Operand(1) /\ Operand(0) = stack[Len(stack)]
  BY <1>1, <1>2 DEF Arg, Operand
<1>4. \A n : Without(stack, n) = Drop(n)
  BY DEF Without, Drop
<1>5. Slot(Inst, d) = IndirectSlot
  BY <1>1, <1>3, Zenon DEF Slot, IndirectSlot, Arg, Operand
<1>6. HeapDone(Inst, d) = HeapResult
  BY <1>1, <1>3, Zenon DEF HeapDone, HeapResult
<1>7. ValueOf(Inst.op, stack) = ReturnValue
  BY <1>3, Zenon DEF ValueOf, ReturnValue
<1> QED BY <1>1, <1>3, <1>4, <1>5, <1>6, <1>7, Zenon DEF d

\* An instruction that does not fault works.
LEMMA NoFaultWorks ==
  ASSUME IsModule(module), InFrames, ~AtEnd
  PROVE  /\ ~Faults => Operands(Inst.op) <= Len(stack)
         /\ ~Faults /\ Inst.op \in Basics => Works(Inst, Data(Now))
         /\ ~Faults /\ Inst.op \in Jumps => Inst.imm <= Len(CodeOf(module, Now.top))
         /\ ~Faults /\ Inst.op \in Calls => Inst.imm < Len(module.functions) /\ Depth < MaxCallDepth
         /\ ~Faults => Inst.op \in Opcodes
<1>1. /\ Inst.imm \in Nat /\ Len(CodeOf(module, Now.top)) \in Nat
      /\ Len(Frame.locals) \in Nat /\ Len(stack) \in Nat /\ Depth \in Nat
      /\ Len(module.functions) \in Nat
      /\ Code(Frame.functionIndex) = CodeOf(module, Now.top)
  <2>1. InCode(module, Now) /\ StateOK(module, Now)
    BY NowSees DEF InFrames
  <2>2. Inst.imm \in Nat /\ FrameOK(module, Frame)
    BY <2>1, NowSees, StateParts
  <2>3. Len(CodeOf(module, Now.top)) \in Nat
    BY <2>2, NowSees, FrameFacts
  <2>4. Len(Frame.locals) \in Nat
    BY <2>2 DEF FrameOK
  <2>5. Len(module.functions) \in Nat
    BY DEF IsModule
  <2> QED BY <2>2, <2>3, <2>4, <2>5, NowSees
<1>2. MaxCallDepth \in Nat
  BY MachineAssumption
<1>3. Operands(Inst.op) \in Nat
  BY DEF Operands
<1>4. ASSUME ~Faults
      PROVE  /\ Operands(Inst.op) <= Len(stack)
             /\ Inst.op \in LocalOps => Inst.imm < Len(Frame.locals)
             /\ Inst.op \in Jumps => Inst.imm <= Len(CodeOf(module, Now.top))
             /\ Inst.op \in Calls => Inst.imm < Len(module.functions) /\ Depth < MaxCallDepth
             /\ Inst.op = "DivU64" => Operand(0) # 0
             /\ Inst.op \in Indirect => IndirectSlot.ok
             /\ Inst.op \in HeapOps => HeapResult.ok
             /\ Inst.op \in Opcodes
  <2>1. ~Underflow /\ ~BadInstruction
    BY <1>4, Zenon DEF Faults
  <2>2. Operands(Inst.op) <= Len(stack)
    BY <1>1, <1>3, <2>1 DEF Underflow
  <2>3. /\ ~(Inst.op \in LocalOps /\ Inst.imm >= Len(Frame.locals))
        /\ ~(Inst.op \in Jumps /\ Inst.imm > Len(Code(Frame.functionIndex)))
        /\ ~(Inst.op \in Calls /\ (Inst.imm >= Len(module.functions) \/ Depth >= MaxCallDepth))
        /\ ~(Inst.op = "DivU64" /\ Operand(0) = 0)
        /\ ~(Inst.op \in {"LoadIndirect", "StoreIndirect"} /\ ~IndirectSlot.ok)
        /\ ~(Inst.op \in HeapOps /\ ~HeapResult.ok)
        /\ Inst.op \in Opcodes
    BY <2>1, Zenon DEF BadInstruction
  <2>4. /\ Inst.op \in LocalOps => Inst.imm < Len(Frame.locals)
        /\ Inst.op \in Jumps => Inst.imm <= Len(CodeOf(module, Now.top))
        /\ Inst.op \in Calls => Inst.imm < Len(module.functions) /\ Depth < MaxCallDepth
    BY <1>1, <1>2, <2>3
  <2>5. Inst.op \in Indirect => IndirectSlot.ok
    BY <2>3, Zenon DEF Indirect
  <2> QED BY <2>2, <2>3, <2>4, <2>5, Zenon
<1>5. ASSUME ~Faults, Inst.op \in Basics
      PROVE  Works(Inst, Data(Now))
  <2>1. PICK d : d = Data(Now)
    OBVIOUS
  <2>2. /\ d.locals = Frame.locals /\ d.stack = stack /\ Arg(d, 0) = Operand(0)
        /\ HeapDone(Inst, d) = HeapResult
    BY <2>1, NowMakes
  <2>3. Inst.op \in Indirect => Slot(Inst, d) = IndirectSlot
    BY <2>1, NowMakes
  <2>4. Works(Inst, d)
    BY <1>4, <1>5, <2>2, <2>3, Zenon DEF Works
  <2> QED BY <2>1, <2>4
<1> QED BY <1>4, <1>5

\* What an instruction that stays in its function does to the machine.
Does(d) ==
  /\ Inst.op \in Basics
  /\ Stored(frames', frames, Depth, Moved(Frame, Frame.ip + 1, NewLocals(Inst, d)))
  /\ stack' = NewStack(Inst, d) /\ heap' = NewHeap(Inst, d)

\* Going on, and storing a local.
LEMMA MovesOn ==
  ASSUME IsModule(module), InFrames
  PROVE  /\ \A ip : MoveTo(ip) => Stored(frames', frames, Depth, Moved(Frame, ip, Frame.locals))
         /\ \A i, word : SetLocal(i, word) =>
              Stored(frames', frames, Depth, Moved(Frame, Frame.ip + 1, [Frame.locals EXCEPT ![i] = word]))
<1>1. Frame = Moved(Frame, Frame.ip, Frame.locals)
  BY NowSees DEF FrameOK
<1>2. ASSUME NEW ip, MoveTo(ip)
      PROVE  Stored(frames', frames, Depth, Moved(Frame, ip, Frame.locals))
  <2>1. PICK b : b = [Frame EXCEPT !.ip = ip]
    OBVIOUS
  <2>2. frames' = [frames EXCEPT ![Depth] = b]
    BY <1>2, <2>1 DEF MoveTo, Frame
  <2>3. b = Moved(Frame, ip, Frame.locals)
    BY <1>1, <2>1, FrameMoves
  <2> QED BY <2>2, <2>3 DEF Stored
<1>3. ASSUME NEW i, NEW word, SetLocal(i, word)
      PROVE  Stored(frames', frames, Depth, Moved(Frame, Frame.ip + 1, [Frame.locals EXCEPT ![i] = word]))
  <2>1. PICK b : b = [Frame EXCEPT !.locals[i] = word, !.ip = Frame.ip + 1]
    OBVIOUS
  <2>2. frames' = [frames EXCEPT ![Depth] = b]
    BY <1>3, <2>1 DEF SetLocal, Frame
  <2>3. b = Moved(Frame, Frame.ip + 1, [Frame.locals EXCEPT ![i] = word])
    <3>1. PICK ip : ip = Frame.ip + 1
      OBVIOUS
    <3>2. LocalStored(b, Frame, i, word, ip)
      BY <2>1, <3>1 DEF LocalStored
    <3> QED BY <1>1, <3>1, <3>2, FrameMoves
  <2> QED BY <2>2, <2>3 DEF Stored
<1> QED BY <1>2, <1>3

\* A constant, a local or its address is pushed.
LEMMA PushDoes ==
  ASSUME IsModule(module), InFrames, Push \/ LoadLocal, NEW d, d = Data(Now)
  PROVE  Does(d)
<1>1. /\ d.locals = Frame.locals /\ d.stack = stack /\ d.heap = heap
  BY NowMakes
<1>2. Inst.op \in Constants \cup {"LoadLocal", "AddressOfLocal"} /\ Advance /\ heap' = heap
  BY Zenon DEF Push, LoadLocal
<1>3. Inst.op \in Basics /\ Inst.op \notin HeapOps /\ Inst.op \notin {"StoreIndirect", "StoreLocal"}
  BY <1>2 DEF Basics, Opcodes, Constants, LocalOps, Calls, Returns, Jumps, HeapOps
<1>4. NewLocals(Inst, d) = Frame.locals /\ NewHeap(Inst, d) = heap
  BY <1>1, <1>3 DEF NewLocals, NewHeap
<1>5. Stored(frames', frames, Depth, Moved(Frame, Frame.ip + 1, NewLocals(Inst, d)))
  BY <1>2, <1>4, MovesOn DEF Advance
<1>6. stack' = NewStack(Inst, d)
  <2>1. Taken(Inst) = 0
    BY <1>2 DEF Taken, Operands, Unary, Binary, Numerics, Constants
  <2>2. \A x : Without(stack, 0) \o <<x>> = Append(stack, x)
    <3>1. IsSeq(stack)
      BY NowSees DEF IsSeq
    <3> QED BY <3>1, PutBack
  <2>3. CASE Push
    <3>1. PICK x : x = CASE Inst.op = "PushI32" -> SignExtend(Inst.imm)
                         [] Inst.op = "PushI64" -> Inst.imm
                         [] Inst.op = "PushArgc" -> SignExtend(ArgCount)
      BY Zenon
    <3>2. stack' = Append(stack, x)
      BY <2>3, <3>1, Zenon DEF Push
    <3>3. Inst.op \in Constants
      BY <2>3 DEF Push
    <3>4. Left(Inst, d) = <<x>>
      BY <3>1, <3>3 DEF Left, Constants
    <3> QED BY <1>1, <2>1, <2>2, <3>2, <3>4 DEF NewStack
  <2>4. CASE LoadLocal
    <3>1. PICK x : x = IF Inst.op = "LoadLocal" THEN Frame.locals[Inst.imm + 1]
                       ELSE (Inst.imm * SlotBytes) % WordLimit
      BY Zenon
    <3>2. stack' = Append(stack, x)
      BY <2>4, <3>1, Zenon DEF LoadLocal
    <3>3. Inst.op \in {"LoadLocal", "AddressOfLocal"}
      BY <2>4 DEF LoadLocal
    <3>4. Left(Inst, d) = <<x>>
      BY <1>1, <3>1, <3>3 DEF Left
    <3> QED BY <1>1, <2>1, <2>2, <3>2, <3>4 DEF NewStack
  <2> QED BY <2>3, <2>4
<1> QED BY <1>2, <1>3, <1>4, <1>5, <1>6 DEF Does

\* A local is stored.
LEMMA StoreLocalDoes ==
  ASSUME IsModule(module), InFrames, StoreLocal, NEW d, d = Data(Now)
  PROVE  Does(d)
<1>1. /\ d.locals = Frame.locals /\ d.stack = stack /\ d.heap = heap /\ Arg(d, 0) = Operand(0)
      /\ \A n : Without(stack, n) = Drop(n)
  BY NowMakes
<1>2. Inst.op = "StoreLocal" /\ SetLocal(Inst.imm + 1, Operand(0)) /\ heap' = heap
      /\ stack' = Drop(1) \o <<>>
  BY Zenon DEF StoreLocal, ReplaceOperands
<1>3. Inst.op \in Basics /\ Inst.op \notin HeapOps
  BY <1>2 DEF Basics, Opcodes, Unary, Calls, Returns, Jumps, HeapOps
<1>4. NewLocals(Inst, d) = [Frame.locals EXCEPT ![Inst.imm + 1] = Operand(0)] /\ NewHeap(Inst, d) = heap
  BY <1>1, <1>2, <1>3 DEF NewLocals, NewHeap
<1>5. Stored(frames', frames, Depth, Moved(Frame, Frame.ip + 1, NewLocals(Inst, d)))
  <2>1. PICK l : l = [Frame.locals EXCEPT ![Inst.imm + 1] = Operand(0)]
    OBVIOUS
  <2>2. Stored(frames', frames, Depth, Moved(Frame, Frame.ip + 1, l))
    BY <1>2, <2>1, MovesOn
  <2> QED BY <1>4, <2>1, <2>2
<1>6. stack' = NewStack(Inst, d)
  <2>1. Taken(Inst) = 1
    BY <1>2 DEF Taken, Operands, Unary, Binary, Numerics
  <2>2. Left(Inst, d) = <<>>
    BY <1>2 DEF Left
  <2> QED BY <1>1, <1>2, <2>1, <2>2 DEF NewStack
<1> QED BY <1>2, <1>3, <1>4, <1>5, <1>6 DEF Does

\* A word is loaded from an address, or stored there.
LEMMA IndirectDoes ==
  ASSUME IsModule(module), InFrames, LoadIndirect \/ StoreIndirect, NEW d, d = Data(Now)
  PROVE  Does(d)
<1>1. /\ d.locals = Frame.locals /\ d.stack = stack /\ d.heap = heap /\ Arg(d, 0) = Operand(0)
      /\ \A n : Without(stack, n) = Drop(n)
  BY NowMakes
<1>2. Inst.op \in Indirect
  BY Zenon DEF LoadIndirect, StoreIndirect, Indirect
<1>3. Slot(Inst, d) = IndirectSlot
  BY <1>2, NowMakes
<1>4. Inst.op \in Basics /\ Inst.op \notin HeapOps /\ Inst.op # "StoreLocal"
  BY <1>2 DEF Basics, Opcodes, Unary, Binary, Calls, Returns, Jumps, HeapOps, Indirect
<1>5. CASE LoadIndirect
  <2>1. PICK x : x = IF IndirectSlot.space = "heap" THEN heap.slots[IndirectSlot.index]
                     ELSE Frame.locals[IndirectSlot.index]
    BY Zenon
  <2>2. Inst.op = "LoadIndirect" /\ stack' = Drop(1) \o <<x>> /\ Advance /\ heap' = heap
    BY <1>5, <2>1, Zenon DEF LoadIndirect, ReplaceOperands
  <2>3. NewLocals(Inst, d) = Frame.locals /\ NewHeap(Inst, d) = heap
    BY <1>1, <1>4, <2>2 DEF NewLocals, NewHeap
  <2>4. Stored(frames', frames, Depth, Moved(Frame, Frame.ip + 1, NewLocals(Inst, d)))
    BY <2>2, <2>3, MovesOn DEF Advance
  <2>5. Taken(Inst) = 1
    BY <2>2 DEF Taken, Operands, Unary, Binary, Numerics
  <2>6. Left(Inst, d) = <<x>>
    BY <1>1, <1>3, <2>1, <2>2 DEF Left
  <2>7. stack' = NewStack(Inst, d)
    BY <1>1, <2>2, <2>5, <2>6 DEF NewStack
  <2> QED BY <1>4, <2>2, <2>3, <2>4, <2>7 DEF Does
<1>6. CASE StoreIndirect
  <2>1. Inst.op = "StoreIndirect" /\ stack' = Drop(2) \o <<Operand(0)>>
    BY <1>6, Zenon DEF StoreIndirect, ReplaceOperands
  <2>2. Taken(Inst) = 2
    BY <2>1 DEF Taken, Operands, Unary, Binary, Numerics
  <2>3. Left(Inst, d) = <<Operand(0)>>
    BY <1>1, <2>1 DEF Left
  <2>4. stack' = NewStack(Inst, d)
    BY <1>1, <2>1, <2>2, <2>3 DEF NewStack
  <2>5. CASE /\ IndirectSlot.space = "heap"
             /\ heap' = [heap EXCEPT !.slots[IndirectSlot.index] = Operand(0)]
             /\ Advance
    <3>1. NewLocals(Inst, d) = Frame.locals
      BY <1>1, <1>3, <1>4, <2>5 DEF NewLocals
    <3>2. NewHeap(Inst, d) = heap'
      BY <1>1, <1>3, <1>4, <2>1, <2>5 DEF NewHeap
    <3>3. Stored(frames', frames, Depth, Moved(Frame, Frame.ip + 1, NewLocals(Inst, d)))
      BY <2>5, <3>1, MovesOn DEF Advance
    <3> QED BY <1>4, <2>4, <3>2, <3>3 DEF Does
  <2>6. CASE /\ IndirectSlot.space = "local"
             /\ SetLocal(IndirectSlot.index, Operand(0))
             /\ UNCHANGED heap
    <3>1. PICK l : l = [Frame.locals EXCEPT ![IndirectSlot.index] = Operand(0)]
      OBVIOUS
    <3>2. NewLocals(Inst, d) = l
      BY <1>1, <1>3, <1>4, <2>1, <2>6, <3>1 DEF NewLocals
    <3>3. NewHeap(Inst, d) = heap'
      BY <1>1, <1>3, <1>4, <2>1, <2>6 DEF NewHeap
    <3>4. Stored(frames', frames, Depth, Moved(Frame, Frame.ip + 1, l))
      BY <2>6, <3>1, MovesOn
    <3> QED BY <1>4, <2>4, <3>2, <3>3, <3>4 DEF Does
  <2> QED BY <1>6, <2>5, <2>6, Zenon DEF StoreIndirect
<1> QED BY <1>5, <1>6

\* The heap opcodes.
LEMMA HeapDoes ==
  ASSUME IsModule(module), InFrames, HeapOp, NEW d, d = Data(Now)
  PROVE  Does(d)
<1>1. /\ d.locals = Frame.locals /\ d.stack = stack /\ d.heap = heap
      /\ \A n : Without(stack, n) = Drop(n) /\ HeapDone(Inst, d) = HeapResult
  BY NowMakes
<1>2. PICK words : words = IF Inst.op = "HeapFree" THEN <<>> ELSE <<HeapResult.address>>
  BY Zenon
<1>3. /\ Inst.op \in HeapOps /\ stack' = Drop(Operands(Inst.op)) \o words
      /\ heap' = HeapResult.heap /\ Advance
  BY <1>2, Zenon DEF HeapOp, ReplaceOperands
<1>4. Inst.op \in Basics /\ Inst.op \notin {"StoreLocal", "StoreIndirect", "Dup"}
  BY <1>3 DEF Basics, Opcodes, Unary, Binary, Calls, Returns, Jumps, HeapOps
<1>5. NewLocals(Inst, d) = Frame.locals /\ NewHeap(Inst, d) = HeapResult.heap
  BY <1>1, <1>3, <1>4 DEF NewLocals, NewHeap
<1>6. Stored(frames', frames, Depth, Moved(Frame, Frame.ip + 1, NewLocals(Inst, d)))
  BY <1>3, <1>5, MovesOn DEF Advance
<1>7. stack' = NewStack(Inst, d)
  <2>1. Taken(Inst) = Operands(Inst.op)
    BY <1>4 DEF Taken
  <2>2. Left(Inst, d) = words
    BY <1>1, <1>2, <1>3 DEF Left, HeapOps
  <2> QED BY <1>1, <1>3, <2>1, <2>2 DEF NewStack
<1> QED BY <1>3, <1>4, <1>5, <1>6, <1>7 DEF Does

\* The opcodes that only work on operands.
LEMMA ShuffleDoes ==
  ASSUME IsModule(module), InFrames, Shuffle, NEW d, d = Data(Now)
  PROVE  Does(d)
<1>1. /\ d.locals = Frame.locals /\ d.stack = stack /\ d.heap = heap
      /\ Arg(d, 0) = Operand(0) /\ Arg(d, 1) = Operand(1)
      /\ \A n : Without(stack, n) = Drop(n)
  BY NowMakes
<1>2. /\ Inst.op \in {"Dup", "Pop", "PrintI32", "SubI64", "DivU64"} /\ Advance /\ heap' = heap
      /\ Inst.op = "Dup" => stack' = Drop(0) \o <<Operand(0)>>
      /\ Inst.op \in {"Pop", "PrintI32"} => stack' = Drop(1) \o <<>>
      /\ Inst.op = "SubI64" => stack' = Drop(2) \o <<(Operand(1) - Operand(0)) % WordLimit>>
      /\ Inst.op = "DivU64" => stack' = Drop(2) \o <<Operand(1) \div Operand(0)>>
  <2>1. Advance /\ heap' = heap
    BY Zenon DEF Shuffle
  <2>2. \/ Inst.op = "Dup" /\ stack' = Drop(0) \o <<Operand(0)>>
        \/ Inst.op \in {"Pop", "PrintI32"} /\ stack' = Drop(1) \o <<>>
        \/ Inst.op = "SubI64" /\ stack' = Drop(2) \o <<(Operand(1) - Operand(0)) % WordLimit>>
        \/ Inst.op = "DivU64" /\ stack' = Drop(2) \o <<Operand(1) \div Operand(0)>>
    BY Zenon DEF Shuffle, ReplaceOperands
  <2>3. PICK x, y : x = (Operand(1) - Operand(0)) % WordLimit /\ y = Operand(1) \div Operand(0)
    OBVIOUS
  <2> QED BY <2>1, <2>2, <2>3
<1>4. Inst.op \in Basics /\ Inst.op \notin {"StoreLocal", "StoreIndirect"} /\ Inst.op \notin HeapOps
  BY <1>2 DEF Basics, Opcodes, Unary, Binary, Numerics, Calls, Returns, Jumps, HeapOps
<1>5. NewLocals(Inst, d) = Frame.locals /\ NewHeap(Inst, d) = heap
  BY <1>1, <1>4 DEF NewLocals, NewHeap
<1>6. Stored(frames', frames, Depth, Moved(Frame, Frame.ip + 1, NewLocals(Inst, d)))
  BY <1>2, <1>5, MovesOn DEF Advance
<1>7. stack' = NewStack(Inst, d)
  <2>1. Taken(Inst) = IF Inst.op = "Dup" THEN 0 ELSE IF Inst.op \in {"Pop", "PrintI32"} THEN 1 ELSE 2
    BY <1>2 DEF Taken, Operands, Unary, Binary, Numerics
  <2>2. CASE Inst.op = "Dup"
    BY <1>1, <1>2, <2>1, <2>2 DEF NewStack, Left
  <2>3. CASE Inst.op \in {"Pop", "PrintI32"}
    BY <1>1, <1>2, <2>1, <2>3 DEF NewStack, Left
  <2>4. CASE Inst.op = "SubI64"
    BY <1>1, <1>2, <2>1, <2>4 DEF NewStack, Left
  <2>5. CASE Inst.op = "DivU64"
    BY <1>1, <1>2, <2>1, <2>5 DEF NewStack, Left
  <2> QED BY <1>2, <2>2, <2>3, <2>4, <2>5
<1> QED BY <1>2, <1>4, <1>5, <1>6, <1>7 DEF Does

\* The state after an instruction.
LEMMA NextState ==
  Now' = [top |-> frames'[Len(frames')], callers |-> Without(frames', 1), stack |-> stack',
          heap |-> heap', output |-> output']
BY DEF Now, StateOf

Printed == output' = IF Inst.op = "PrintI32" THEN Append(output, Operand(0)) ELSE output

\* An instruction that stays in its function.
LEMMA BasicIsStep ==
  ASSUME IsModule(module), InFrames, ~AtEnd, ~Faults, Printed, NEW d, d = Data(Now), Does(d),
         Now.callers # <<>> => ~SeesAddress(Inst, d)
  PROVE  Step(module, Now, Now') /\ IsSeq(frames') /\ frames' # <<>>
<1>1. /\ Inst.op \in Basics /\ stack' = NewStack(Inst, d) /\ heap' = NewHeap(Inst, d)
  BY DEF Does
<1>2. PICK b : b = Moved(Frame, Frame.ip + 1, NewLocals(Inst, d))
  OBVIOUS
<1>3. /\ IsSeq(frames') /\ frames' # <<>>
      /\ frames'[Len(frames')] = b /\ Without(frames', 1) = Without(frames, 1)
  <2>1. Stored(frames', frames, Len(frames), b) /\ IsSeq(frames) /\ frames # <<>>
    BY <1>2 DEF Does, InFrames, Depth
  <2> QED BY <2>1, TopMoves
<1>4. /\ Now.top = Frame /\ Now.callers = Without(frames, 1) /\ Now.output = output
      /\ Inst = InstOf(module, Now.top) /\ InCode(module, Now)
  BY NowSees
<1>5. Works(Inst, d)
  BY <1>1, NoFaultWorks
<1>6. output' = NewOutput(Inst, d)
  <2>1. Arg(d, 0) = Operand(0) /\ d.output = output
    BY NowMakes
  <2> QED BY <2>1, Zenon DEF Printed, NewOutput
<1>7. PICK t : t = Now'
  OBVIOUS
<1>8. t = [top |-> b, callers |-> Now.callers, stack |-> NewStack(Inst, d),
           heap |-> NewHeap(Inst, d), output |-> NewOutput(Inst, d)]
  BY <1>1, <1>3, <1>4, <1>6, <1>7, NextState
<1>9. BasicStep(module, Now, t)
  BY <1>1, <1>2, <1>4, <1>5, <1>8, Zenon DEF BasicStep
<1> QED BY <1>3, <1>4, <1>7, <1>9 DEF Step

\* A jump.
LEMMA JumpIsStep ==
  ASSUME IsModule(module), InFrames, ~AtEnd, ~Faults, Printed, Jump
  PROVE  Step(module, Now, Now') /\ IsSeq(frames') /\ frames' # <<>>
<1>1. PICK taken : taken = (Inst.op = "Jump" \/ stack[Len(stack)] = 0)
  BY Zenon
<1>2. /\ Now.top = Frame /\ Now.callers = Without(frames, 1) /\ Now.output = output
      /\ Now.stack = stack /\ Now.heap = heap
      /\ Inst = InstOf(module, Now.top) /\ InCode(module, Now)
  BY NowSees
<1>3. /\ Operand(0) = stack[Len(stack)] /\ \A n : Without(stack, n) = Drop(n)
  BY NowMakes
<1>4. Inst.op \in Jumps /\ heap' = heap
  BY Zenon DEF Jump, Jumps
<1>5. PICK ip : ip = IF taken THEN Inst.imm ELSE Frame.ip + 1
  OBVIOUS
<1>6. MoveTo(ip) /\ stack' = Without(stack, Operands(Inst.op))
  <2>1. CASE Inst.op = "Jump" /\ MoveTo(Inst.imm) /\ UNCHANGED <<stack, heap>>
    <3>1. Operands(Inst.op) = 0
      BY <2>1 DEF Operands, Unary, Binary, Numerics
    <3>2. Without(stack, 0) = stack
      <4>1. stack \in Seq(Word)
        BY NowSees
      <4> QED BY <4>1 DEF Without
    <3>3. taken /\ ip = Inst.imm
      <4>1. taken
        BY <1>1, <2>1, Zenon
      <4> QED BY <1>5, <4>1
    <3> QED BY <2>1, <3>1, <3>2, <3>3
  <2>2. CASE /\ Inst.op = "JumpIfZero"
             /\ MoveTo(IF Operand(0) = 0 THEN Inst.imm ELSE Frame.ip + 1)
             /\ ReplaceOperands(1, <<>>)
             /\ UNCHANGED heap
    <3>1. Operands(Inst.op) = 1
      BY <2>2 DEF Operands, Unary, Binary, Numerics
    <3>2. ip = IF Operand(0) = 0 THEN Inst.imm ELSE Frame.ip + 1
      <4>1. taken <=> Operand(0) = 0
        BY <1>1, <1>3, <2>2, Zenon
      <4> QED BY <1>5, <4>1
    <3>3. stack' = Drop(1)
      <4>1. stack' = Drop(1) \o <<>>
        BY <2>2, Zenon DEF ReplaceOperands
      <4>2. Drop(1) \in Seq(Word)
        <5>1. stack \in Seq(Word) /\ Len(stack) \in Nat
          BY NowSees
        <5> QED BY <5>1 DEF Drop
      <4> QED BY <4>1, <4>2
    <3> QED BY <1>3, <2>2, <3>1, <3>2, <3>3
  <2> QED BY <2>1, <2>2, Zenon DEF Jump
<1>7. PICK b : b = Moved(Frame, ip, Frame.locals)
  OBVIOUS
<1>8. /\ IsSeq(frames') /\ frames' # <<>>
      /\ frames'[Len(frames')] = b /\ Without(frames', 1) = Without(frames, 1)
  <2>1. Stored(frames', frames, Depth, b)
    BY <1>6, <1>7, MovesOn
  <2>2. Stored(frames', frames, Len(frames), b) /\ IsSeq(frames) /\ frames # <<>>
    BY <2>1 DEF InFrames, Depth
  <2> QED BY <2>2, TopMoves
<1>9. output' = output
  <2>1. Inst.op # "PrintI32"
    BY <1>4 DEF Jumps
  <2> QED BY <2>1 DEF Printed
<1>10. PICK t : t = Now'
  OBVIOUS
<1>11. t = [top |-> Moved(Now.top, ip, Now.top.locals), callers |-> Now.callers,
            stack |-> Without(Now.stack, Operands(Inst.op)), heap |-> Now.heap, output |-> Now.output]
  BY <1>2, <1>4, <1>6, <1>7, <1>8, <1>9, <1>10, NextState
<1>12. JumpStep(module, Now, t)
  <2>1. Operands(Inst.op) <= Len(Now.stack) /\ Inst.imm <= Len(CodeOf(module, Now.top))
    BY <1>2, <1>4, NoFaultWorks
  <2>2. PICK i : i = Inst
    OBVIOUS
  <2>3. ip = IF (i.op = "Jump") \/ (Now.stack[Len(Now.stack)] = 0) THEN i.imm ELSE Now.top.ip + 1
    BY <1>1, <1>2, <1>5, <2>2, Zenon
  <2> QED BY <1>2, <1>4, <1>11, <2>1, <2>2, <2>3, Zenon DEF JumpStep
<1> QED BY <1>2, <1>8, <1>10, <1>12 DEF Step

\* A call.
LEMMA CallIsStep ==
  ASSUME IsModule(module), InFrames, ~AtEnd, ~Faults, Printed, Call
  PROVE  Step(module, Now, Now') /\ IsSeq(frames') /\ frames' # <<>>
<1>1. PICK wanted : wanted = (Inst.op = "Call")
  BY Zenon
<1>2. /\ Now.top = Frame /\ Now.callers = Without(frames, 1) /\ Now.output = output
      /\ Now.stack = stack /\ Now.heap = heap
      /\ Inst = InstOf(module, Now.top) /\ InCode(module, Now)
      /\ Len(Now.callers) = Depth - 1 /\ Depth \in Nat
  BY NowSees
<1>3. PICK c : c = NewFrame(module.functions, Inst.imm, wanted)
  OBVIOUS
<1>4. PICK g : g = Callers
  OBVIOUS
<1>5. Inst.op \in Calls /\ heap' = heap /\ stack' = stack /\ frames' = Append(g, c)
  BY <1>1, <1>3, <1>4, Zenon DEF Call
<1>6. PICK b : b = Moved(Frame, Frame.ip + 1, Frame.locals)
  OBVIOUS
<1>7. Stored(g, frames, Len(frames), b)
  <2>1. PICK x : x = [Frame EXCEPT !.ip = Frame.ip + 1]
    OBVIOUS
  <2>2. g = [frames EXCEPT ![Depth] = x]
    BY <1>4, <2>1 DEF Callers, Frame
  <2>3. x = b
    <3>1. Frame = Moved(Frame, Frame.ip, Frame.locals)
      BY NowSees DEF FrameOK
    <3>2. PICK ip : ip = Frame.ip + 1
      OBVIOUS
    <3> QED BY <1>6, <2>1, <3>1, <3>2, FrameMoves
  <2> QED BY <2>2, <2>3 DEF Stored, Depth
<1>8. /\ IsSeq(frames') /\ frames' # <<>>
      /\ frames'[Len(frames')] = c /\ Without(frames', 1) = Append(Without(frames, 1), b)
  <2>1. /\ IsSeq(Append(g, c)) /\ Append(g, c) # <<>>
        /\ Append(g, c)[Len(Append(g, c))] = c
        /\ Without(Append(g, c), 1) = Append(Without(frames, 1), b)
    BY <1>7, TopCalls DEF InFrames
  <2> QED BY <1>5, <2>1
<1>9. output' = output
  <2>1. Inst.op # "PrintI32"
    BY <1>5 DEF Calls
  <2> QED BY <2>1 DEF Printed
<1>10. PICK t : t = Now'
  OBVIOUS
<1>11. t = [top |-> NewFrame(module.functions, Inst.imm, wanted),
            callers |-> Append(Now.callers, Moved(Now.top, Now.top.ip + 1, Now.top.locals)),
            stack |-> Now.stack, heap |-> Now.heap, output |-> Now.output]
  BY <1>2, <1>3, <1>5, <1>6, <1>8, <1>9, <1>10, NextState
<1>12. CallStep(module, Now, t)
  <2>1. Inst.imm < Len(module.functions) /\ Len(Now.callers) + 1 < MaxCallDepth
    <3>1. Inst.imm < Len(module.functions) /\ Depth < MaxCallDepth
      BY <1>5, NoFaultWorks
    <3> QED BY <1>2, <3>1
  <2> QED BY <1>1, <1>2, <1>5, <1>11, <2>1, Zenon DEF CallStep
<1> QED BY <1>2, <1>8, <1>10, <1>12 DEF Step

\* A return.
LEMMA ReturnIsStep ==
  ASSUME IsModule(module), InFrames, ~AtEnd, ~Faults, Printed, Return, ~Narrows(Inst.op, stack)
  PROVE  Step(module, Now, Now') /\ IsSeq(frames') /\ frames' # <<>>
<1>2. /\ Now.top = Frame /\ Now.callers = Without(frames, 1) /\ Now.output = output
      /\ Now.stack = stack /\ Now.heap = heap
      /\ Inst = InstOf(module, Now.top) /\ InCode(module, Now)
      /\ Depth \in Nat
      /\ Now.callers # <<>> <=> Depth > 1
  BY NowSees
<1>3. PICK left : left = StackAfter(Inst.op, stack, Frame.returnValueToCaller)
  BY Zenon
<1>4. /\ Inst.op \in Returns /\ Depth > 1 /\ heap' = heap
      /\ frames' = Without(frames, 1)
  BY Zenon DEF Return, Without, Depth
<1>5. stack' = left
  <2>1. ValueOf(Inst.op, stack) = ReturnValue /\ Without(stack, Operands(Inst.op)) = Drop(Operands(Inst.op))
    BY NowMakes
  <2>2. stack' = Drop(Operands(Inst.op)) \o (IF Frame.returnValueToCaller THEN <<ReturnValue>> ELSE <<>>)
    BY Zenon DEF Return, ReplaceOperands
  <2> QED BY <1>3, <2>1, <2>2, Zenon DEF StackAfter
<1>6. IsSeq(frames') /\ frames' # <<>>
  <2>1. IsSeq(frames') /\ Len(frames') = Depth - 1
    BY <1>2, <1>4, WithoutFacts DEF InFrames, Depth
  <2> QED BY <1>2, <1>4, <2>1, EmptySeq
<1>9. output' = output
  <2>1. Inst.op # "PrintI32"
    BY <1>4 DEF Returns
  <2> QED BY <2>1 DEF Printed
<1>10. PICK t : t = Now'
  OBVIOUS
<1>11. t = [top |-> Now.callers[Len(Now.callers)], callers |-> Without(Now.callers, 1),
            stack |-> left, heap |-> Now.heap, output |-> Now.output]
  BY <1>2, <1>4, <1>5, <1>9, <1>10, NextState
<1>12. ReturnStep(module, Now, t)
  <2>1. Operands(Inst.op) <= Len(Now.stack) /\ Now.callers # <<>>
    BY <1>2, <1>4, NoFaultWorks
  <2> QED BY <1>2, <1>3, <1>4, <1>11, <2>1, Zenon DEF ReturnStep, StackAfter
<1> QED BY <1>2, <1>6, <1>10, <1>12 DEF Step

\* The last return.
LEMMA ExitIsExit ==
  ASSUME IsModule(module), InFrames, ~AtEnd, ~Faults, Exit, output' = output, status' = "returned"
  PROVE  ExitsWith(module, Now, Outcome')
<1>1. /\ Now.top = Frame /\ Now.output = output /\ Now.stack = stack
      /\ Inst = InstOf(module, Now.top) /\ InCode(module, Now)
      /\ Now.callers # <<>> <=> Depth > 1
  BY NowSees
<1>2. Inst.op \in Returns /\ Depth = 1 /\ result' = ReturnValue
  BY Zenon DEF Exit
<1>3. Now.callers = <<>>
  BY <1>1, <1>2
<1>4. Operands(Inst.op) <= Len(Now.stack)
  BY <1>1, NoFaultWorks
<1>5. ValueOf(Inst.op, Now.stack) = ReturnValue
  BY <1>1, NowMakes
<1>6. PICK out : out = Outcome'
  OBVIOUS
<1>7. out = [status |-> "returned", result |-> ValueOf(Inst.op, Now.stack), output |-> Now.output]
  BY <1>1, <1>2, <1>5, <1>6 DEF Outcome
<1>8. ExitsWith(module, Now, out)
  BY <1>1, <1>2, <1>3, <1>4, <1>7, Zenon DEF ExitsWith
<1> QED BY <1>6, <1>8

\* What an instruction must not do for its inlining to go unseen.
Unseen ==
  /\ Now.callers # <<>> /\ Inst.op \in Basics => ~SeesAddress(Inst, Data(Now))
  /\ Inst.op \in Returns => ~Narrows(Inst.op, stack)

\* An instruction that lets the run go on is a step.
LEMMA ProceedIsStep ==
  ASSUME IsModule(module), InFrames, ~AtEnd, ~Faults, Printed, Proceed, Unseen
  PROVE  Step(module, Now, Now') /\ IsSeq(frames') /\ frames' # <<>>
<1>1. PICK d : d = Data(Now)
  OBVIOUS
<1>2. CASE Does(d)
  <2>1. Inst.op \in Basics
    BY <1>2 DEF Does
  <2>2. Now.callers # <<>> => ~SeesAddress(Inst, d)
    BY <1>1, <2>1, Zenon DEF Unseen
  <2> QED BY <1>1, <1>2, <2>2, BasicIsStep
<1>3. CASE Jump
  BY <1>3, JumpIsStep
<1>4. CASE Call
  BY <1>4, CallIsStep
<1>5. CASE Return
  <2>1. Inst.op \in Returns
    BY <1>5, Zenon DEF Return
  <2>2. ~Narrows(Inst.op, stack)
    BY <2>1, Zenon DEF Unseen
  <2> QED BY <1>5, <2>2, ReturnIsStep
<1>6. \/ Push \/ LoadLocal \/ StoreLocal \/ LoadIndirect \/ StoreIndirect
      \/ HeapOp \/ Shuffle \/ Jump \/ Call \/ Return
  BY Zenon DEF Proceed
<1>7. Push \/ LoadLocal \/ StoreLocal \/ LoadIndirect \/ StoreIndirect \/ HeapOp \/ Shuffle => Does(d)
  <2>1. Push \/ LoadLocal => Does(d)
    BY <1>1, PushDoes
  <2>2. StoreLocal => Does(d)
    BY <1>1, StoreLocalDoes
  <2>3. LoadIndirect \/ StoreIndirect => Does(d)
    BY <1>1, IndirectDoes
  <2>4. HeapOp => Does(d)
    BY <1>1, HeapDoes
  <2>5. Shuffle => Does(d)
    BY <1>1, ShuffleDoes
  <2> QED BY <2>1, <2>2, <2>3, <2>4, <2>5, Zenon
<1> QED BY <1>2, <1>3, <1>4, <1>5, <1>6, <1>7, Zenon

\* What RunModule comes to (executeVmKernel's loop).
LEMMA RanTo ==
  ASSUME RunModule, status = "running"
  PROVE  \/ status' = "failed" /\ (AtEnd \/ Faults)
         \/ status' = "running" /\ ~AtEnd /\ ~Faults /\ Proceed /\ Printed
         \/ status' = "returned" /\ ~AtEnd /\ ~Faults /\ Exit /\ output' = output
<1>1. MissingReturn \/ Instruction
  BY Zenon DEF RunModule
<1>2. output' = IF ~AtEnd /\ Inst.op = "PrintI32" /\ status' = "running"
                  THEN Append(output, Operand(0)) ELSE output
  BY Zenon DEF RunModule
<1>3. CASE MissingReturn
  BY <1>3, Zenon DEF MissingReturn
<1>4. CASE Instruction
  <2>1. PICK outcome \in {"Continue", "Exit", "Fault"} :
          /\ Execute(outcome)
          /\ status' = CASE outcome = "Continue" -> "running"
                         [] outcome = "Exit" -> "returned"
                         [] outcome = "Fault" -> "failed"
    BY <1>4, Zenon DEF Instruction
  <2>2. ~AtEnd
    BY <1>4, Zenon DEF Instruction
  <2>3. CASE outcome = "Continue"
    <3>1. ~Faults /\ Proceed
      BY <2>1, <2>3, Zenon DEF Execute
    <3>2. status' = "running"
      BY <2>1, <2>3
    <3>3. Printed
      BY <1>2, <2>2, <3>2, Zenon DEF Printed
    <3> QED BY <2>2, <3>1, <3>2, <3>3
  <2>4. CASE outcome = "Exit"
    <3>1. ~Faults /\ Exit
      BY <2>1, <2>4, Zenon DEF Execute
    <3>2. status' = "returned"
      BY <2>1, <2>4
    <3>3. output' = output
      BY <1>2, <3>2
    <3> QED BY <2>2, <3>1, <3>2, <3>3
  <2>5. CASE outcome = "Fault"
    <3>1. Faults
      BY <2>1, <2>5, Zenon DEF Execute, Fault
    <3>2. status' = "failed"
      BY <2>1, <2>5
    <3> QED BY <3>1, <3>2
  <2> QED BY <2>1, <2>3, <2>4, <2>5
<1> QED BY <1>1, <1>3, <1>4

\* Where the run has a step, or its last return, there is no fault.
LEMMA NoFaultAt ==
  ASSUME IsModule(module), InFrames, InCode(module, Now),
         Operands(Inst.op) <= Len(stack), Inst.op \in Opcodes,
         Inst.op \in Basics => Works(Inst, Data(Now)),
         Inst.op \in Jumps => Inst.imm <= Len(CodeOf(module, Now.top)),
         Inst.op \in Calls => Inst.imm < Len(module.functions) /\ Len(Now.callers) + 1 < MaxCallDepth
  PROVE  ~AtEnd /\ ~Faults
<1>1. ~AtEnd /\ Len(stack) \in Nat /\ Code(Frame.functionIndex) = CodeOf(module, Now.top)
      /\ Len(Now.callers) = Depth - 1 /\ Depth \in Nat
  BY NowSees
<1>2. /\ Inst.imm \in Nat /\ Len(CodeOf(module, Now.top)) \in Nat
      /\ Len(Frame.locals) \in Nat /\ Len(module.functions) \in Nat
  <2>1. StateOK(module, Now)
    BY DEF InFrames
  <2>2. Inst.imm \in Nat /\ FrameOK(module, Frame)
    BY <2>1, NowSees, StateParts
  <2>3. Len(CodeOf(module, Now.top)) \in Nat
    BY <2>2, NowSees, FrameFacts
  <2>4. Len(Frame.locals) \in Nat
    BY <2>2 DEF FrameOK
  <2>5. Len(module.functions) \in Nat
    BY DEF IsModule
  <2> QED BY <2>2, <2>3, <2>4, <2>5
<1>3. MaxCallDepth \in Nat /\ Operands(Inst.op) \in Nat
  BY MachineAssumption DEF Operands
<1>4. ~Underflow
  BY <1>1, <1>3 DEF Underflow
<1>5. PICK d : d = Data(Now)
  OBVIOUS
<1>6. /\ d.locals = Frame.locals /\ Arg(d, 0) = Operand(0) /\ HeapDone(Inst, d) = HeapResult
  BY <1>5, NowMakes
<1>7. Inst.op \in Indirect => Slot(Inst, d) = IndirectSlot
  BY <1>5, NowMakes
<1>8. LocalOps \cup {"DivU64"} \cup Indirect \cup HeapOps \subseteq Basics
  BY BasicOps
<1>9. /\ Inst.op \in LocalOps => Inst.imm < Len(Frame.locals)
      /\ Inst.op = "DivU64" => Operand(0) # 0
      /\ Inst.op \in Indirect => IndirectSlot.ok
      /\ Inst.op \in HeapOps => HeapResult.ok
  <2>1. Inst.op \in Basics => Works(Inst, d)
    BY <1>5
  <2>2. ASSUME Inst.op \in Basics
        PROVE  /\ Inst.op \in LocalOps => Inst.imm < Len(d.locals)
               /\ Inst.op = "DivU64" => Arg(d, 0) # 0
               /\ Inst.op \in Indirect => Slot(Inst, d).ok
               /\ Inst.op \in HeapOps => HeapDone(Inst, d).ok
    BY <2>1, <2>2, Zenon DEF Works
  <2>3. /\ Inst.op \in LocalOps => Inst.op \in Basics
        /\ Inst.op = "DivU64" => Inst.op \in Basics
        /\ Inst.op \in Indirect => Inst.op \in Basics
        /\ Inst.op \in HeapOps => Inst.op \in Basics
    BY <1>8
  <2> QED BY <1>6, <1>7, <2>2, <2>3
<1>10. /\ ~(Inst.op \in LocalOps /\ Inst.imm >= Len(Frame.locals))
       /\ ~(Inst.op \in Jumps /\ Inst.imm > Len(Code(Frame.functionIndex)))
       /\ ~(Inst.op \in Calls /\ (Inst.imm >= Len(module.functions) \/ Depth >= MaxCallDepth))
  BY <1>1, <1>2, <1>3, <1>9
<1>11. ~(Inst.op \in {"LoadIndirect", "StoreIndirect"} /\ ~IndirectSlot.ok)
  BY <1>9 DEF Indirect
<1>12. ~BadInstruction
  BY <1>9, <1>10, <1>11, Zenon DEF BadInstruction
<1> QED BY <1>1, <1>4, <1>12, Zenon DEF Faults

\* A step is one that the machine takes.
LEMMA StepRuns ==
  ASSUME IsModule(module), InFrames, NEW t, Step(module, Now, t)
  PROVE  ~AtEnd /\ ~Faults /\ Unseen
<1>1. /\ Now.stack = stack /\ Inst = InstOf(module, Now.top) /\ InCode(module, Now)
  BY NowSees DEF Step
<1>2. CASE BasicStep(module, Now, t)
  <2>1. /\ Inst.op \in Basics /\ Works(Inst, Data(Now))
        /\ Now.callers # <<>> => ~SeesAddress(Inst, Data(Now))
    BY <1>1, <1>2, BasicParts
  <2>2. Operands(Inst.op) <= Len(stack)
    <3>1. PICK d : d = Data(Now)
      OBVIOUS
    <3>2. Operands(Inst.op) <= Len(d.stack)
      BY <2>1, <3>1, Zenon DEF Works
    <3> QED BY <3>1, <3>2, NowMakes
  <2>3. Inst.op \in Opcodes /\ Inst.op \notin Jumps /\ Inst.op \notin Calls /\ Inst.op \notin Returns
    BY <2>1 DEF Basics
  <2>4. ~AtEnd /\ ~Faults
    BY <1>1, <2>1, <2>2, <2>3, NoFaultAt
  <2> QED BY <2>1, <2>3, <2>4, Zenon DEF Unseen
<1>3. CASE JumpStep(module, Now, t)
  <2>1. /\ Inst.op \in Jumps /\ Operands(Inst.op) <= Len(stack)
        /\ Inst.imm <= Len(CodeOf(module, Now.top))
    BY <1>1, <1>3, Zenon DEF JumpStep
  <2>2. Inst.op \in Opcodes /\ Inst.op \notin Basics /\ Inst.op \notin Calls /\ Inst.op \notin Returns
    BY <2>1 DEF Basics, Opcodes, Unary, Jumps, Calls, Returns
  <2>3. ~AtEnd /\ ~Faults
    BY <1>1, <2>1, <2>2, NoFaultAt
  <2> QED BY <2>2, <2>3, Zenon DEF Unseen
<1>4. CASE CallStep(module, Now, t)
  <2>1. /\ Inst.op \in Calls /\ Inst.imm < Len(module.functions) /\ Len(Now.callers) + 1 < MaxCallDepth
    BY <1>1, <1>4, Zenon DEF CallStep
  <2>2. Inst.op \in Opcodes /\ Inst.op \notin Basics /\ Inst.op \notin Jumps /\ Inst.op \notin Returns
    BY <2>1 DEF Basics, Opcodes, Jumps, Calls, Returns
  <2>3. Operands(Inst.op) <= Len(stack)
    <3>1. Operands(Inst.op) = 0
      BY <2>1 DEF Operands, Unary, Binary, Numerics, Calls
    <3>2. Len(stack) \in Nat
      BY NowSees
    <3> QED BY <3>1, <3>2
  <2>4. ~AtEnd /\ ~Faults
    BY <1>1, <2>1, <2>2, <2>3, NoFaultAt
  <2> QED BY <2>2, <2>4, Zenon DEF Unseen
<1>5. CASE ReturnStep(module, Now, t)
  <2>1. /\ Inst.op \in Returns /\ Operands(Inst.op) <= Len(stack) /\ ~Narrows(Inst.op, stack)
    BY <1>1, <1>5, Zenon DEF ReturnStep
  <2>2. Inst.op \in Opcodes /\ Inst.op \notin Basics /\ Inst.op \notin Jumps /\ Inst.op \notin Calls
    BY <2>1 DEF Basics, Opcodes, Unary, Jumps, Calls, Returns
  <2>3. ~AtEnd /\ ~Faults
    BY <1>1, <2>1, <2>2, NoFaultAt
  <2> QED BY <2>1, <2>2, <2>3, Zenon DEF Unseen
<1> QED BY <1>2, <1>3, <1>4, <1>5 DEF Step

\* So is the last return.
LEMMA ExitRuns ==
  ASSUME IsModule(module), InFrames, NEW out, ExitsWith(module, Now, out)
  PROVE  ~AtEnd /\ ~Faults /\ ~Proceed
<1>1. /\ Now.stack = stack /\ Inst = InstOf(module, Now.top)
      /\ Now.callers # <<>> <=> Depth > 1
  BY NowSees
<1>2. /\ Inst.op \in Returns /\ Operands(Inst.op) <= Len(stack) /\ InCode(module, Now) /\ Now.callers = <<>>
  BY <1>1, Zenon DEF ExitsWith
<1>3. Inst.op \in Opcodes /\ Inst.op \notin Basics /\ Inst.op \notin Jumps /\ Inst.op \notin Calls
  BY <1>2 DEF Basics, Opcodes, Unary, Jumps, Calls, Returns
<1>4. ~AtEnd /\ ~Faults
  BY <1>1, <1>2, <1>3, NoFaultAt
<1>5. ASSUME Proceed
      PROVE  FALSE
  <2>1. PICK d : d = Data(Now)
    OBVIOUS
  <2>2. ~Does(d)
    BY <1>3 DEF Does
  <2>3. /\ ~Push /\ ~LoadLocal /\ ~StoreLocal /\ ~LoadIndirect /\ ~StoreIndirect /\ ~HeapOp /\ ~Shuffle
    BY <2>1, <2>2, PushDoes, StoreLocalDoes, IndirectDoes, HeapDoes, ShuffleDoes
  <2>4. ~Jump /\ ~Call
    BY <1>3, Zenon DEF Jump, Call, Jumps
  <2>5. ~Return
    BY <1>1, <1>2, Zenon DEF Return
  <2> QED BY <1>5, <2>3, <2>4, <2>5, Zenon DEF Proceed
<1> QED BY <1>4, <1>5

\* The run of the module as it is: while nothing is seen of what inlining would
\* change, it is a run by steps.
LEMMA PlainSteps ==
  ASSUME IsModule(module), InFrames, RunModule, status = "running",
         stage = "plain", ~narrowed', ~addressed'
  PROVE  \/ status' = "failed"
         \/ /\ status' = "running" /\ module' = module
            /\ Step(module, Now, Now') /\ IsSeq(frames') /\ frames' # <<>>
         \/ status' = "returned" /\ ExitsWith(module, Now, Outcome')
<1>1. \/ status' = "failed" /\ (AtEnd \/ Faults)
      \/ status' = "running" /\ ~AtEnd /\ ~Faults /\ Proceed /\ Printed
      \/ status' = "returned" /\ ~AtEnd /\ ~Faults /\ Exit /\ output' = output
  BY RanTo
<1>2. CASE status' = "running" /\ ~AtEnd /\ ~Faults /\ Proceed /\ Printed
  <2>1. ~(Inst.op \in Returns \ {"ReturnVoid"} /\ ReturnValue # Operand(0))
    BY <1>2, Zenon DEF RunModule
  <2>2. ~(Depth > 1 /\ NamesLocal)
    BY <1>2, Zenon DEF RunModule
  <2>3. ~Narrows(Inst.op, stack)
    <3>1. ValueOf(Inst.op, stack) = ReturnValue /\ Operand(0) = stack[Len(stack)]
      BY NowMakes
    <3> QED BY <2>1, <3>1, Zenon DEF Narrows
  <2>4. ASSUME Now.callers # <<>>, Inst.op \in Basics
        PROVE  ~SeesAddress(Inst, Data(Now))
    <3>1. Depth > 1
      BY <2>4, NowSees
    <3>2. ~NamesLocal
      BY <2>2, <3>1
    <3>3. PICK d : d = Data(Now)
      OBVIOUS
    <3>4. Inst.op \in Indirect => Slot(Inst, d) = IndirectSlot
      BY <3>3, NowMakes
    <3>5. ~SeesAddress(Inst, d)
      BY <3>2, <3>4, Zenon DEF SeesAddress, NamesLocal, Indirect
    <3> QED BY <3>3, <3>5
  <2>5. Unseen
    BY <2>3, <2>4, Zenon DEF Unseen
  <2>6. module' = module
    BY <1>2, Zenon DEF Proceed
  <2> QED BY <1>2, <2>5, <2>6, ProceedIsStep
<1>3. CASE status' = "returned" /\ ~AtEnd /\ ~Faults /\ Exit /\ output' = output
  BY <1>3, ExitIsExit
<1> QED BY <1>1, <1>2, <1>3

\* A run that comes to an outcome takes the next step to it, or returns with it.
LEMMA RunComes ==
  ASSUME IsModule(module), InFrames, RunModule, status = "running",
         NEW out, Comes(module, Now, out)
  PROVE  \/ /\ status' = "running" /\ module' = module
            /\ Step(module, Now, Now') /\ IsSeq(frames') /\ frames' # <<>>
            /\ Comes(module, Now', out)
         \/ status' = "returned" /\ Outcome' = out
<1>1. \/ status' = "failed" /\ (AtEnd \/ Faults)
      \/ status' = "running" /\ ~AtEnd /\ ~Faults /\ Proceed /\ Printed
      \/ status' = "returned" /\ ~AtEnd /\ ~Faults /\ Exit /\ output' = output
  BY RanTo
<1>2. PICK o : o = Outcome'
  OBVIOUS
<1>3. CASE ExitsWith(module, Now, out)
  <2>1. ~AtEnd /\ ~Faults /\ ~Proceed
    BY <1>3, ExitRuns
  <2>2. status' = "returned" /\ Exit /\ output' = output
    BY <1>1, <2>1
  <2>3. ExitsWith(module, Now, o)
    BY <1>2, <2>1, <2>2, ExitIsExit
  <2>4. o = out
    BY <1>3, <2>3, Zenon DEF ExitsWith
  <2> QED BY <1>2, <2>2, <2>4
<1>4. ASSUME NEW t, Step(module, Now, t), Comes(module, t, out)
      PROVE  /\ status' = "running" /\ module' = module
             /\ Step(module, Now, Now') /\ IsSeq(frames') /\ frames' # <<>>
             /\ Comes(module, Now', out)
  <2>1. ~AtEnd /\ ~Faults /\ Unseen
    BY <1>4, StepRuns
  <2>2. CASE status' = "returned" /\ Exit /\ output' = output
    <3>1. ExitsWith(module, Now, o)
      BY <1>2, <2>1, <2>2, ExitIsExit
    <3>2. ~ExitsWith(module, Now, o)
      BY <1>4, StepDetermined
    <3> QED BY <3>1, <3>2
  <2>3. CASE status' = "running" /\ Proceed /\ Printed
    <3>1. PICK u : u = Now'
      OBVIOUS
    <3>2. Step(module, Now, u) /\ IsSeq(frames') /\ frames' # <<>>
      BY <2>1, <2>3, <3>1, ProceedIsStep
    <3>3. u = t
      BY <1>4, <3>2, StepDetermined
    <3>4. module' = module
      BY <2>3, Zenon DEF Proceed
    <3> QED BY <1>4, <2>3, <3>1, <3>2, <3>3, <3>4
  <2> QED BY <1>1, <2>1, <2>2, <2>3
<1> QED BY <1>3, <1>4, ComesFacts
-----------------------------------------------------------------------------
(***************************************************************************)
(* Preparation as a whole, and what the two runs come to.                  *)
(***************************************************************************)
\* What InlinedSame and the theorem ask for.
Asked ==
  /\ expected.status = "returned"
  /\ \A f \in Functions : EndsOnce(original.functions[f])
  /\ ~JumpsMoved
  /\ ~narrowed
  /\ ~addressed

CallInsts(code) == {out \in ToSet(code) : out.op \in Calls}

\* Inlining takes calls away.
CallsLess ==
  \A f \in Functions :
    /\ CallInsts(ir.functions[f]) \subseteq CallInsts(original.functions[f])
    /\ \/ ir.functions[f] = original.functions[f]
       \/ CallInsts(ir.functions[f]) # CallInsts(original.functions[f])

JumpsKept ==
  \A f \in Functions : Uses(ir.functions[f], Jumps) => Uses(original.functions[f], Jumps)

\* What the module comes to from its beginning is what it was seen to come to.
Prepared == Sound(ir) /\ JumpsKept /\ Comes(ir, Begin(ir), expected)

PlainRun ==
  ~narrowed /\ ~addressed =>
    /\ status = "running" =>
         /\ module = ir /\ InFrames
         /\ \A out : Comes(ir, Now, out) => Comes(ir, Begin(ir), out)
    /\ status = "returned" => Comes(ir, Begin(ir), Outcome)

InlinedRun ==
  /\ status = "running" => module = ir /\ IsModule(ir) /\ InFrames /\ Comes(ir, Now, expected)
  /\ Ended => Outcome = expected

SameInv ==
  /\ IsModule(original) /\ DOMAIN original.functions = Functions
  /\ stage \in {"validation", "plain"} => ir = original /\ expected.status = "idle"
  /\ stage \in {"validation", "inlining", "revalidation"} => output = <<>>
  /\ stage = "plain" => ValidModule(ir) /\ PlainRun
  /\ stage \in {"inlining", "revalidation"} => CallsLess /\ (Asked => Prepared)
  /\ stage = "inlined" => (Asked => InlinedRun)
  /\ stage = "rejected" => ~(Asked /\ IndexesFit)

\* The initial states.
LEMMA InitSame == InlinerInit => SameInv
<1> SUFFICES ASSUME InlinerInit PROVE SameInv
  OBVIOUS
<1>1. /\ original \in Modules /\ ir = original /\ stage = "validation" /\ output = <<>>
      /\ expected.status = "idle"
  BY DEF InlinerInit, Init, Outcome
<1>2. original \in [entryIndex : Int, functions : Seq(Seq([op : STRING, imm : Word]))]
  BY <1>1, InlinerAssumption
<1>3. IsModule(original)
  <2>1. ir \in [entryIndex : Int, functions : Seq(InstrSeq)]
    BY InitInliner DEF InlinerInv
  <2>2. ASSUME NEW g \in DOMAIN original.functions, NEW i \in DOMAIN original.functions[g]
        PROVE  original.functions[g][i].imm \in Word
    <3>1. original.functions[g] \in Seq([op : STRING, imm : Word])
      BY <1>2
    <3>2. PICK code : code = original.functions[g]
      OBVIOUS
    <3>3. PICK S : S = [op : STRING, imm : Word]
      OBVIOUS
    <3>4. code \in Seq(S) /\ i \in DOMAIN code
      BY <3>1, <3>2, <3>3
    <3>5. code[i] \in S
      BY <3>4
    <3> QED BY <3>2, <3>3, <3>5
  <2> QED BY <1>1, <2>1, <2>2 DEF IsModule
<1> QED BY <1>1, <1>3 DEF SameInv, Functions

\* A sound module whose local indices are accepted is valid.
LEMMA SoundValid ==
  ASSUME Sound(ir), IndexesFit
  PROVE  ValidModule(ir)
<1>1. ValidEntry(ir)
  BY DEF Sound
<1>2. ASSUME NEW f \in DOMAIN ir.functions
      PROVE  ir.functions[f] # <<>>
  BY DEF Sound, EndsOnce
<1>3. ASSUME NEW f \in DOMAIN ir.functions, NEW i \in DOMAIN ir.functions[f]
      PROVE  ValidInstruction(ir, ir.functions[f], ir.functions[f][i])
  <2>1. PICK inst : inst = ir.functions[f][i]
    OBVIOUS
  <2>2. /\ inst.op \in Opcodes
        /\ inst.op \in Jumps => inst.imm <= Len(ir.functions[f])
        /\ inst.op \in Calls => inst.imm < Len(ir.functions)
    BY <2>1, Zenon DEF Sound
  <2>3. inst.op \in LocalOps => inst.imm <= LocalIndexLimit
    BY <2>1 DEF IndexesFit, Functions
  <2>4. ValidInstruction(ir, ir.functions[f], inst)
    BY <2>2, <2>3, Zenon DEF ValidInstruction
  <2> QED BY <2>1, <2>4
<1> QED BY <1>1, <1>2, <1>3, Zenon DEF ValidModule

\* A valid module whose functions end once is sound.
LEMMA ValidSound ==
  ASSUME IsModule(ir), ValidModule(ir), \A f \in Functions : EndsOnce(ir.functions[f])
  PROVE  Sound(ir)
<1>1. ValidEntry(ir)
  BY DEF ValidModule
<1>2. ASSUME NEW f \in DOMAIN ir.functions, NEW i \in DOMAIN ir.functions[f]
      PROVE  /\ ir.functions[f][i].op \in Opcodes
             /\ ir.functions[f][i].op \in Jumps => ir.functions[f][i].imm <= Len(ir.functions[f])
             /\ ir.functions[f][i].op \in Calls => ir.functions[f][i].imm < Len(ir.functions)
  <2>1. ValidInstruction(ir, ir.functions[f], ir.functions[f][i])
    BY DEF ValidModule
  <2> QED BY <2>1, Zenon DEF ValidInstruction
<1> QED BY <1>1, <1>2 DEF Sound, Functions

\* A run begins (executeVmKernel).
LEMMA Begins ==
  ASSUME Start(ir), output' = <<>>, IsModule(ir)
  PROVE  status' = "running" /\ module' = ir /\ InFrames' /\ Now' = Begin(ir)
<1>1. /\ ValidEntry(ir) /\ module' = ir /\ status' = "running"
      /\ frames' = <<NewFrame(ir.functions, ir.entryIndex, FALSE)>>
      /\ stack' = <<>> /\ heap' = EmptyHeap
  BY Zenon DEF Start, Enter
<1>2. PICK a : a = NewFrame(ir.functions, ir.entryIndex, FALSE)
  OBVIOUS
<1>3. /\ frames' = <<a>> /\ IsSeq(frames') /\ frames' # <<>> /\ Len(frames') = 1
  BY <1>1, <1>2, ShortSeq
<1>4. frames'[Len(frames')] = a /\ Without(frames', 1) = <<>>
  <2>1. PICK fs : fs = frames'
    OBVIOUS
  <2>2. IsSeq(fs) /\ Len(fs) = 1 /\ 1 \in Nat /\ 1 <= Len(fs) /\ 1 - 1 = 0 /\ fs[1] = a
    BY <1>3, <2>1
  <2>3. IsSeq(Without(fs, 1)) /\ Len(Without(fs, 1)) = 0
    BY <2>2, WithoutFacts
  <2>4. Without(fs, 1) = <<>>
    BY <2>3, EmptySeq
  <2> QED BY <2>1, <2>2, <2>4
<1>5. Now' = Begin(ir)
  <2>1. Begin(ir) = [top |-> a, callers |-> <<>>, stack |-> <<>>, heap |-> EmptyHeap, output |-> <<>>]
    BY <1>2, Zenon DEF Begin
  <2> QED BY <1>1, <1>4, <2>1, NextState
<1>6. StateOK(ir, Begin(ir))
  BY <1>1, BeginOK
<1> QED BY <1>1, <1>3, <1>5, <1>6 DEF InFrames

\* The run of the lowered module begins.
LEMMA PlainBegins == SameInv /\ ValidateLowered => SameInv'
<1> SUFFICES ASSUME SameInv, ValidateLowered PROVE SameInv'
  OBVIOUS
<1>1. /\ stage = "validation" /\ ir = original /\ expected.status = "idle" /\ output = <<>>
      /\ IsModule(original) /\ DOMAIN original.functions = Functions
      /\ ir' = ir /\ original' = original /\ expected' = expected /\ output' = output
  BY DEF SameInv, ValidateLowered, observed
<1>2. Functions' = Functions
  BY <1>1 DEF Functions
<1>3. CASE ValidModule(ir) /\ Start(ir) /\ stage' = "plain"
  <2>1. status' = "running" /\ module' = ir /\ InFrames' /\ Now' = Begin(ir)
    BY <1>1, <1>3, Begins
  <2>2. PICK now, new : now = Now' /\ new = ir'
    OBVIOUS
  <2>3. \A out : Comes(new, now, out) => Comes(new, Begin(new), out)
    BY <1>1, <2>1, <2>2
  <2>4. PlainRun'
    BY <1>1, <2>1, <2>2, <2>3 DEF PlainRun
  <2>5. ValidModule(ir')
    BY <1>1, <1>3
  <2> QED BY <1>1, <1>2, <1>3, <2>4, <2>5 DEF SameInv
<1>4. CASE stage' = "rejected"
  <2>1. ~Asked'
    BY <1>1 DEF Asked
  <2> QED BY <1>1, <1>2, <1>4, <2>1 DEF SameInv
<1> QED BY <1>3, <1>4 DEF ValidateLowered, Validate

\* What a run of the module does to the state of the preparation.
LEMMA RunUnchanged ==
  ASSUME RunModule
  PROVE  /\ status = "running" /\ stage \in {"plain", "inlined"}
         /\ ir' = ir /\ original' = original /\ stage' = stage /\ expected' = expected
         /\ narrowed => narrowed'
         /\ addressed => addressed'
         /\ stage # "plain" => (narrowed' => narrowed) /\ (addressed' => addressed)
<1>1. status = "running" /\ stage \in {"plain", "inlined"}
  BY DEF RunModule, MissingReturn, Instruction
<1>2. ir' = ir /\ original' = original /\ stage' = stage /\ expected' = expected
  BY DEF RunModule, prepared
<1>3. /\ (narrowed => narrowed') /\ (addressed => addressed')
      /\ stage # "plain" => (narrowed' => narrowed) /\ (addressed' => addressed)
  BY Zenon DEF RunModule
<1> QED BY <1>1, <1>2, <1>3, Zenon

\* The run of the lowered module goes on.
LEMMA PlainGoesOn == SameInv /\ RunModule /\ stage = "plain" => SameInv'
<1> SUFFICES ASSUME SameInv, RunModule, stage = "plain" PROVE SameInv'
  OBVIOUS
<1>1. /\ status = "running"
      /\ ir' = ir /\ original' = original /\ stage' = stage /\ expected' = expected
      /\ (narrowed => narrowed') /\ (addressed => addressed')
  BY RunUnchanged
<1>2. /\ ir = original /\ expected.status = "idle"
      /\ IsModule(original) /\ DOMAIN original.functions = Functions
      /\ ValidModule(ir) /\ PlainRun
  BY DEF SameInv
<1>3. ASSUME ~narrowed', ~addressed'
      PROVE  /\ status' = "running" =>
                  /\ module' = ir' /\ InFrames'
                  /\ \A out : Comes(ir', Now', out) => Comes(ir', Begin(ir'), out)
             /\ status' = "returned" => Comes(ir', Begin(ir'), Outcome')
  <2>1. /\ module = ir /\ InFrames
        /\ \A out : Comes(ir, Now, out) => Comes(ir, Begin(ir), out)
    BY <1>1, <1>2, <1>3, Zenon DEF PlainRun
  <2>2. \/ status' = "failed"
        \/ /\ status' = "running" /\ module' = module
           /\ Step(module, Now, Now') /\ IsSeq(frames') /\ frames' # <<>>
        \/ status' = "returned" /\ ExitsWith(module, Now, Outcome')
    BY <1>1, <1>2, <1>3, <2>1, PlainSteps
  <2>3. CASE /\ status' = "running" /\ module' = module
             /\ Step(module, Now, Now') /\ IsSeq(frames') /\ frames' # <<>>
    <3>1. PICK now : now = Now'
      OBVIOUS
    <3>2. Step(ir, Now, now) /\ StateOK(ir, Now) /\ IsModule(ir)
      BY <1>2, <2>1, <2>3, <3>1 DEF InFrames
    <3>3. StateOK(ir, now)
      BY <3>2, StepKeeps
    <3>4. ASSUME NEW out, Comes(ir, now, out)
          PROVE  Comes(ir, Begin(ir), out)
      <4>1. Comes(ir, Now, out)
        BY <3>2, <3>4, ComesFacts
      <4> QED BY <2>1, <4>1
    <3>5. InFrames'
      BY <2>1, <2>3, <3>1, <3>3 DEF InFrames
    <3> QED BY <1>1, <2>1, <2>3, <3>1, <3>4, <3>5
  <2>4. CASE status' = "returned" /\ ExitsWith(module, Now, Outcome')
    <3>1. PICK o : o = Outcome'
      OBVIOUS
    <3>2. Comes(ir, Now, o)
      BY <2>1, <2>4, <3>1, ComesFacts
    <3>3. Comes(ir, Begin(ir), o)
      BY <2>1, <3>2
    <3> QED BY <1>1, <2>4, <3>1, <3>3
  <2> QED BY <2>2, <2>3, <2>4
<1>4. PlainRun'
  BY <1>3 DEF PlainRun
<1>5. ValidModule(ir') /\ Functions' = Functions /\ DOMAIN original'.functions = Functions'
  BY <1>1, <1>2 DEF Functions
<1> QED BY <1>1, <1>2, <1>4, <1>5 DEF SameInv

\* What is asked for was asked for before, when the module and what was seen of its
\* run have not changed.
LEMMA AskedKept ==
  ASSUME ir' = ir, original' = original, expected' = expected,
         narrowed => narrowed', addressed => addressed', Asked'
  PROVE  Asked
<1>1. Functions' = Functions
  BY DEF Functions
<1>2. JumpsMoved => JumpsMoved'
  BY <1>1 DEF JumpsMoved
<1> QED BY <1>1, <1>2 DEF Asked

\* The run of the inlined module goes on to what the other one came to.
LEMMA InlinedGoesOn == SameInv /\ RunModule /\ stage = "inlined" => SameInv'
<1> SUFFICES ASSUME SameInv, RunModule, stage = "inlined" PROVE SameInv'
  OBVIOUS
<1>1. /\ status = "running"
      /\ ir' = ir /\ original' = original /\ stage' = stage /\ expected' = expected
      /\ (narrowed => narrowed') /\ (addressed => addressed')
  BY RunUnchanged
<1>2. ASSUME Asked'
      PROVE  InlinedRun'
  <2>1. InlinedRun
    <3>1. Asked
      BY <1>1, <1>2, AskedKept, Zenon
    <3> QED BY <3>1 DEF SameInv
  <2>2. module = ir /\ IsModule(ir) /\ InFrames /\ Comes(ir, Now, expected)
    BY <1>1, <2>1 DEF InlinedRun
  <2>3. \/ /\ status' = "running" /\ module' = module
           /\ Step(module, Now, Now') /\ IsSeq(frames') /\ frames' # <<>>
           /\ Comes(module, Now', expected)
        \/ status' = "returned" /\ Outcome' = expected
    <3>1. PICK out : out = expected
      OBVIOUS
    <3> QED BY <1>1, <2>2, <3>1, RunComes
  <2>4. CASE /\ status' = "running" /\ module' = module
             /\ Step(module, Now, Now') /\ IsSeq(frames') /\ frames' # <<>>
             /\ Comes(module, Now', expected)
    <3>1. PICK now : now = Now'
      OBVIOUS
    <3>2. Step(ir, Now, now) /\ StateOK(ir, Now)
      BY <2>2, <2>4, <3>1 DEF InFrames
    <3>3. StateOK(ir, now)
      BY <2>2, <3>2, StepKeeps
    <3>4. InFrames'
      BY <2>2, <2>4, <3>1, <3>3 DEF InFrames
    <3> QED BY <1>1, <2>2, <2>4, <3>4 DEF InlinedRun, Ended
  <2>5. CASE status' = "returned" /\ Outcome' = expected
    BY <1>1, <2>5 DEF InlinedRun
  <2> QED BY <2>3, <2>4, <2>5
<1>3. Functions' = Functions
  BY <1>1 DEF Functions
<1>4. IsModule(original) /\ DOMAIN original.functions = Functions
  BY DEF SameInv
<1> QED BY <1>1, <1>2, <1>3, <1>4 DEF SameInv

\* Inlining begins.
LEMMA InliningBegins == SameInv /\ StartInlining => SameInv'
<1> SUFFICES ASSUME SameInv, StartInlining PROVE SameInv'
  OBVIOUS
<1>1. /\ stage = "plain" /\ Ended /\ stage' = "inlining" /\ expected' = Outcome /\ output' = <<>>
      /\ ir' = ir /\ original' = original /\ narrowed' = narrowed /\ addressed' = addressed
  BY DEF StartInlining
<1>2. /\ ir = original /\ IsModule(original) /\ DOMAIN original.functions = Functions
      /\ ValidModule(ir) /\ PlainRun
  BY <1>1 DEF SameInv
<1>3. Functions' = Functions
  BY <1>1 DEF Functions
<1>4. CallsLess'
  BY <1>1, <1>2, <1>3 DEF CallsLess
<1>5. ASSUME Asked'
      PROVE  Prepared'
  <2>1. /\ expected'.status = "returned" /\ ~narrowed /\ ~addressed
        /\ \A f \in Functions : EndsOnce(original.functions[f])
    BY <1>1, <1>3, <1>5, Zenon DEF Asked
  <2>2. status = "returned"
    BY <1>1, <2>1 DEF Outcome
  <2>3. Comes(ir, Begin(ir), Outcome)
    BY <1>2, <2>1, <2>2, Zenon DEF PlainRun
  <2>4. Sound(ir)
    BY <1>2, <2>1, ValidSound
  <2>5. JumpsKept'
    BY <1>1, <1>2 DEF JumpsKept
  <2> QED BY <1>1, <2>3, <2>4, <2>5 DEF Prepared
<1> QED BY <1>1, <1>2, <1>3, <1>4, <1>5 DEF SameInv

\* A function's turn changes what it calls only by taking calls away (InlineFunction).
LEMMA TurnTakes ==
  ASSUME Known, Counters, InlineFunction, DOMAIN original.functions = Functions,
         IsModule(original), CallsLess, original' = original
  PROVE  /\ CallsLess'
         /\ JumpsMoved => JumpsMoved'
<1>1. /\ position \in Functions /\ Functions' = Functions
      /\ \A g \in Functions : g # position => ir'.functions[g] = ir.functions[g]
      /\ Settled(position) => ir' = ir
  BY TurnFacts DEF InlineFunction
<1> DEFINE f == position
           old == ir.functions[f]
           new == Rewritten(f).code
<1>2. /\ ir'.functions[f] = new
      /\ \A out \in ToSet(new) : out.op \in Calls =>
              ~Inlines(f, out) /\ \E j \in DOMAIN old : out = old[j]
  <2>1. /\ f \in Functions /\ ir' = [ir EXCEPT !.functions[f] = new]
        /\ ir \in [entryIndex : Int, functions : Seq(InstrSeq)]
    BY <1>1 DEF InlineFunction, Known
  <2>2. ir'.functions[f] = new
    <3> HIDE DEF new, f
    <3> QED BY <2>1 DEF Functions
  <2> QED BY <1>1, <2>2, RewrittenFacts
<1>3. CallInsts(new) \subseteq CallInsts(old)
  BY <1>2 DEF CallInsts, ToSet
<1>4. old = new \/ CallInsts(new) # CallInsts(old)
  <2>1. CASE Settled(f)
    BY <1>2, <1>1, <2>1
  <2>2. CASE ~Settled(f)
    <3>1. PICK i \in DOMAIN old : Inlines(f, old[i])
      BY <2>2 DEF Settled
    <3>2. old[i] \in CallInsts(old)
      BY <3>1 DEF CallInsts, ToSet, Inlines
    <3>3. old[i] \notin CallInsts(new)
      BY <1>2, <3>1 DEF CallInsts
    <3> QED BY <3>2, <3>3
  <2> QED BY <2>1, <2>2
<1>5. /\ CallInsts(old) \subseteq CallInsts(original.functions[f])
      /\ old = original.functions[f] \/ CallInsts(old) # CallInsts(original.functions[f])
  BY <1>1 DEF CallsLess
<1> HIDE DEF new, old
<1>6. /\ CallInsts(new) \subseteq CallInsts(original.functions[f])
      /\ new = original.functions[f] \/ CallInsts(new) # CallInsts(original.functions[f])
  BY <1>3, <1>4, <1>5
<1>7. CallsLess'
  BY <1>1, <1>2, <1>6 DEF CallsLess
<1>8. ASSUME JumpsMoved
      PROVE  JumpsMoved'
  <2>1. PICK g \in Functions : /\ Uses(original.functions[g], Jumps)
                               /\ ir.functions[g] # original.functions[g]
    BY <1>8 DEF JumpsMoved
  <2>2. CASE g # f
    BY <1>1, <2>1, <2>2 DEF JumpsMoved
  <2>3. CASE g = f
    <3>1. CallInsts(old) # CallInsts(original.functions[f])
      BY <1>5, <2>1, <2>3 DEF old
    <3>2. new # original.functions[f]
      BY <1>3, <1>5, <3>1
    <3> QED BY <1>1, <1>2, <2>1, <2>3, <3>2 DEF JumpsMoved
  <2> QED BY <2>2, <2>3
<1> QED BY <1>7, <1>8

\* A turn keeps what the module comes to.
LEMMA TurnKeepsSame == InlinerInv /\ SameInv /\ InlineFunction => SameInv'
<1> SUFFICES ASSUME InlinerInv, SameInv, InlineFunction PROVE SameInv'
  OBVIOUS
<1>1. /\ stage = "inlining" /\ position \in Functions /\ stage' = stage
      /\ original' = original /\ output' = output /\ expected' = expected
      /\ narrowed' = narrowed /\ addressed' = addressed
      /\ ir' = [ir EXCEPT !.functions[position] = Rewritten(position).code]
  BY DEF InlineFunction, observed
<1>2. /\ IsModule(original) /\ DOMAIN original.functions = Functions
      /\ output = <<>> /\ CallsLess /\ (Asked => Prepared)
  BY <1>1 DEF SameInv
<1>3. Known /\ Counters
  BY <1>1 DEF InlinerInv
<1>4. Functions' = Functions /\ \A g \in Functions : g # position => ir'.functions[g] = ir.functions[g]
  BY <1>3, TurnFacts
<1>5. CallsLess' /\ (JumpsMoved => JumpsMoved')
  BY <1>1, <1>2, <1>3, TurnTakes
<1>6. ASSUME Asked'
      PROVE  Prepared'
  <2>1. Asked
    BY <1>1, <1>4, <1>5, <1>6, Zenon DEF Asked
  <2>2. Sound(ir) /\ JumpsKept /\ Comes(ir, Begin(ir), expected)
    BY <1>2, <2>1 DEF Prepared
  <2>3. CASE Uses(ir.functions[position], Jumps)
    <3>1. Uses(original.functions[position], Jumps)
      BY <1>1, <2>2, <2>3 DEF JumpsKept
    <3>2. /\ ir.functions[position] = original.functions[position]
          /\ ir'.functions[position] = original.functions[position]
      BY <1>1, <1>4, <1>6, <2>1, <3>1 DEF Asked, JumpsMoved
    <3>3. ir' = ir
      <4>1. PICK new : new = Rewritten(position).code
        OBVIOUS
      <4>2. ir' = [ir EXCEPT !.functions[position] = new] /\ ir'.functions[position] = ir.functions[position]
        BY <1>1, <3>2, <4>1
      <4> QED BY <1>1, <1>3, <4>2 DEF Known, Functions
    <3> QED BY <1>1, <2>2, <3>3, <1>4 DEF Prepared, JumpsKept
  <2>4. CASE ~Uses(ir.functions[position], Jumps)
    <3>1. PICK c : Copies(position, c)
      BY <1>1, <1>3, RewrittenSteps
    <3>2. PICK w : w = Rewriting(position, c)
      OBVIOUS
    <3>3. /\ w.old = ir /\ w.f = position /\ w.new = ir' /\ OldCode(w) = ir.functions[position]
          /\ NewCode(w) = ir'.functions[position]
      <4>1. w.old = ir /\ w.f = position /\ w.new = ir'
        BY <1>1, <3>2 DEF Rewriting
      <4> QED BY <4>1 DEF OldCode, NewCode
    <3>4. Fits(w) /\ Sound(w.new)
      BY <1>1, <1>3, <2>2, <2>4, <3>1, <3>2, RewritingFits
    <3>5. Comes(w.new, Begin(w.new), expected)
      <4>1. PICK out : out = expected
        OBVIOUS
      <4>2. Fits(w) /\ ValidEntry(w.old) /\ Comes(w.old, Begin(w.old), out)
        BY <2>2, <3>3, <3>4, <4>1 DEF Sound
      <4> QED BY <4>1, <4>2, RewritingSame
    <3>6. ~Uses(ir'.functions[position], Jumps)
      <4>1. Layout(w)
        BY <1>1, <1>3, <2>2, <3>1, <3>2, LaidOut
      <4>2. NewCode(w) \in InstrSeq
        <5>1. ir' \in [entryIndex : Int, functions : Seq(InstrSeq)]
          BY <3>3, <3>4 DEF Sound, IsModule
        <5> QED BY <1>1, <1>4, <3>3, <5>1 DEF Functions
      <4>3. ASSUME NEW p \in 1 .. Len(NewCode(w))
            PROVE  NewCode(w)[p].op \notin Jumps
        BY <1>1, <2>2, <2>4, <3>3, <4>1, <4>2, NewInstruction DEF Functions
      <4>4. DOMAIN NewCode(w) = 1 .. Len(NewCode(w))
        BY <4>2 DEF InstrSeq
      <4> QED BY <3>3, <4>3, <4>4 DEF Uses
    <3>7. JumpsKept'
      BY <1>1, <1>4, <2>2, <3>6 DEF JumpsKept
    <3> QED BY <1>1, <3>3, <3>4, <3>5, <3>7 DEF Prepared
  <2> QED BY <2>3, <2>4
<1> QED BY <1>1, <1>2, <1>4, <1>5, <1>6 DEF SameInv

\* The end of a pass changes nothing of the module.
LEMMA PassKeepsSame == SameInv /\ EndPass => SameInv'
<1> SUFFICES ASSUME SameInv, EndPass PROVE SameInv'
  OBVIOUS
<1>1. /\ stage = "inlining" /\ stage' \in {"inlining", "revalidation"}
      /\ ir' = ir /\ original' = original /\ output' = output /\ expected' = expected
      /\ narrowed' = narrowed /\ addressed' = addressed
  BY DEF EndPass, observed
<1>2. /\ IsModule(original) /\ DOMAIN original.functions = Functions
      /\ output = <<>> /\ CallsLess /\ (Asked => Prepared)
  BY <1>1 DEF SameInv
<1>3. Functions' = Functions
  BY <1>1 DEF Functions
<1>4. CallsLess'
  BY <1>1, <1>2, <1>3 DEF CallsLess
<1>5. ASSUME Asked'
      PROVE  Prepared'
  <2>1. Asked
    BY <1>1, <1>5, AskedKept
  <2> QED BY <1>1, <1>2, <1>3, <2>1 DEF Prepared, JumpsKept
<1> QED BY <1>1, <1>2, <1>3, <1>4, <1>5 DEF SameInv

\* The run of the inlined module begins.
LEMMA InlinedBegins == SameInv /\ ValidateInlined => SameInv'
<1> SUFFICES ASSUME SameInv, ValidateInlined PROVE SameInv'
  OBVIOUS
<1>1. /\ stage = "revalidation"
      /\ ir' = ir /\ original' = original /\ output' = output /\ expected' = expected
      /\ narrowed' = narrowed /\ addressed' = addressed
  BY DEF ValidateInlined, observed
<1>2. /\ IsModule(original) /\ DOMAIN original.functions = Functions
      /\ output = <<>> /\ (Asked => Prepared)
  BY <1>1 DEF SameInv
<1>3. Functions' = Functions
  BY <1>1 DEF Functions
<1>4. Asked' => Sound(ir) /\ IsModule(ir) /\ Comes(ir, Begin(ir), expected)
  <2>1. Asked' => Asked
    BY <1>1, AskedKept
  <2> QED BY <1>2, <2>1 DEF Prepared, Sound
<1>5. CASE ValidModule(ir) /\ Start(ir) /\ stage' = "inlined"
  <2>1. ASSUME Asked'
        PROVE  InlinedRun'
    <3>1. status' = "running" /\ module' = ir /\ InFrames' /\ Now' = Begin(ir)
      BY <1>1, <1>2, <1>4, <1>5, <2>1, Begins
    <3> QED BY <1>1, <1>4, <2>1, <3>1 DEF InlinedRun, Ended
  <2> QED BY <1>1, <1>2, <1>3, <1>5, <2>1 DEF SameInv
<1>6. CASE ~ValidModule(ir) /\ stage' = "rejected"
  <2>1. IndexesFit' => IndexesFit
    BY <1>1, <1>3 DEF IndexesFit
  <2>2. ~(Asked' /\ IndexesFit')
    BY <1>4, <1>6, <2>1, SoundValid
  <2> QED BY <1>1, <1>2, <1>3, <1>6, <2>2 DEF SameInv
<1> QED BY <1>5, <1>6 DEF ValidateInlined, Validate

\* Nothing else changes what the runs come to.
LEMMA SameKept == InlinerInv /\ SameInv /\ [InlinerNext]_inlinerVars => SameInv'
<1> SUFFICES ASSUME InlinerInv, SameInv, [InlinerNext]_inlinerVars PROVE SameInv'
  OBVIOUS
<1>1. CASE ValidateLowered
  BY <1>1, PlainBegins
<1>2. CASE RunModule
  <2>1. stage = "plain" \/ stage = "inlined"
    BY <1>2 DEF RunModule
  <2> QED BY <1>2, <2>1, PlainGoesOn, InlinedGoesOn
<1>3. CASE StartInlining
  BY <1>3, InliningBegins
<1>4. CASE InlineFunction
  BY <1>4, TurnKeepsSame
<1>5. CASE EndPass
  BY <1>5, PassKeepsSame
<1>6. CASE ValidateInlined
  BY <1>6, InlinedBegins
<1>7. CASE UNCHANGED inlinerVars
  <2>1. /\ UNCHANGED <<machine, status, original, ir, stage, output, narrowed, addressed, expected>>
    BY <1>7 DEF inlinerVars, prepared, observed
  <2>2. /\ UNCHANGED <<module, frames, stack, heap, result>>
    BY <2>1 DEF machine
  <2>3. Functions' = Functions
    BY <2>1 DEF Functions
  <2>4. Asked' <=> Asked
    BY <2>1, <2>3 DEF Asked, JumpsMoved
  <2>5. Now' = Now /\ Outcome' = Outcome
    BY <2>1, <2>2 DEF Now, Outcome
  <2>6. InFrames' <=> InFrames
    BY <2>1, <2>2, <2>5 DEF InFrames
  <2>7. PlainRun => PlainRun'
    BY <2>1, <2>2, <2>5, <2>6 DEF PlainRun
  <2>8. InlinedRun => InlinedRun'
    BY <2>1, <2>2, <2>5, <2>6 DEF InlinedRun, Ended
  <2>9. (CallsLess => CallsLess') /\ (Prepared => Prepared')
    BY <2>1, <2>3 DEF CallsLess, Prepared, JumpsKept
  <2>10. IndexesFit' <=> IndexesFit
    BY <2>1, <2>3 DEF IndexesFit
  <2> QED BY <2>1, <2>3, <2>4, <2>7, <2>8, <2>9, <2>10 DEF SameInv
<1> QED BY <1>1, <1>2, <1>3, <1>4, <1>5, <1>6, <1>7 DEF InlinerNext

\* The two runs are related throughout.
LEMMA SameInvariance == InlinerSpec => []SameInv
<1>1. InlinerSpec => []InlinerInv
  BY InlinerInvariance
<1>2. InlinerInit => SameInv
  BY InitSame
<1>3. InlinerInv /\ SameInv /\ [InlinerNext]_inlinerVars => SameInv'
  BY SameKept
<1> QED BY <1>1, <1>2, <1>3, PTL DEF InlinerSpec

\* A module runs the same after inlining as before it: what it printed and returned,
\* it prints and returns again (inlineIrModuleCalls, include/primec/IrInliner.h:9-11).
\* Besides what InlinedSame asks, no callee took or used the address of a local, and
\* the locals of the inlined calls have indices the second validation accepts.
THEOREM InliningPreserves == InlinerSpec => [](~addressed /\ IndexesFit => InlinedSame)
<1>1. InlinerSpec => []InlinerInv
  BY InlinerInvariance
<1>2. InlinerSpec => []SameInv
  BY SameInvariance
<1>3. InlinerInv /\ SameInv => (~addressed /\ IndexesFit => InlinedSame)
  <2> SUFFICES ASSUME InlinerInv, SameInv, ~addressed, IndexesFit,
                      stage \notin {"validation", "plain"}, Asked
               PROVE  SameOutcome
    BY DEF InlinedSame, Asked
  <2>1. stage # "rejected"
    BY DEF SameInv
  <2>2. stage = "inlined" /\ Ended => Outcome = expected
    BY DEF SameInv, InlinedRun
  <2> QED BY <2>1, <2>2 DEF SameOutcome
<1> QED BY <1>1, <1>2, <1>3, PTL
=============================================================================
