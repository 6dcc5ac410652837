--------------------- MODULE DefinitionValidation_proofs ---------------------
(***************************************************************************)
(* However many workers validate a program's definitions, and in whatever  *)
(* order they finish, the merged outcome is the serial pass's, for every   *)
(* program and number of workers.                                          *)
(*                                                                         *)
(* A validator's result is described by what it has found so far, in the   *)
(* same words for the serial pass and for a chunk (Scanned).  Two complete *)
(* passes over the same definitions then agree, and the chunks, laid end   *)
(* to end, are one.                                                        *)
(*                                                                         *)
(* What an accepted program publishes does not depend on the workers: its  *)
(* facts are sorted by path, and the table of its strings is described by  *)
(* the first place of each text, which an interner keeps however its       *)
(* symbols arrive (Interned) and which the least of the snapshots' ones is *)
(* (RepresentativePlaces).                                                 *)
(***************************************************************************)
EXTENDS DefinitionValidation, TLAPS, FiniteSetTheorems, WellFoundedInduction

-----------------------------------------------------------------------------
(***************************************************************************)
(* Induction over the naturals, and functions defined by recursion on them.*)
(***************************************************************************)
\* A set of natural numbers has a least element.
LEMMA LeastNatural ==
  ASSUME NEW U \in SUBSET Nat, U # {}
  PROVE  \E u \in U : \A v \in U : u <= v
<1> DEFINE R == {pair \in Nat \X Nat : pair[1] < pair[2]}
<1>1. IsWellFoundedOn(R, Nat)
  BY NatLessThanWellFounded DEF OpToRel
<1>2. PICK u \in U : \A v \in U : <<v, u>> \notin R
  BY <1>1, WFMin
<1>3. \A v \in U : ~(v < u)
  BY <1>2, Zenon
<1> QED BY <1>3, SMT

\* A set that contains 0, and with each number the next, contains them all.
LEMMA SetInduction ==
  ASSUME NEW S, 0 \in S, \A n \in Nat : n \in S => n + 1 \in S
  PROVE  \A n \in Nat : n \in S
<1> DEFINE U == {n \in Nat : n \notin S}
<1>1. SUFFICES ASSUME U # {} PROVE FALSE
  OBVIOUS
<1>2. PICK u \in U : \A v \in U : u <= v
  <2> HIDE DEF U
  <2>1. U \in SUBSET Nat
    BY DEF U
  <2> QED BY <1>1, <2>1, LeastNatural
<1>3. u # 0 /\ u \in Nat
  OBVIOUS
<1>4. u - 1 \in Nat /\ ~(u <= u - 1)
  BY <1>3, SMT
<1>5. u - 1 \in S
  BY <1>2, <1>4
<1>6. (u - 1) + 1 \in S
  BY <1>4, <1>5
<1>7. (u - 1) + 1 = u
  BY <1>3, SMT
<1> QED BY <1>6, <1>7

IsStep(F, X, N) == F \in [X \X (1 .. N) -> X]
Iterated(f, F, a, X, N) ==
  f \in [0 .. N -> X] /\ f[0] = a /\ \A i \in 1 .. N : f[i] = F[<<f[i - 1], i>>]

\* A step function can be iterated any number of times.
LEMMA Recursion ==
  ASSUME NEW X, NEW a \in X, NEW N \in Nat, NEW F, IsStep(F, X, N)
  PROVE  \E f : Iterated(f, F, a, X, N)
<1> USE DEF IsStep
<1> DEFINE Iterates(f, n) ==
             f \in [0 .. n -> X] /\ f[0] = a /\ \A i \in 1 .. n : f[i] = F[<<f[i - 1], i>>]
<1> DEFINE S == {n \in Nat : n <= N => \E f : Iterates(f, n)}
<1>1. 0 \in S
  <2>1. Iterates([i \in 0 .. 0 |-> a], 0)
    BY SMT
  <2> QED BY <2>1
<1>2. ASSUME NEW n \in Nat, n \in S PROVE n + 1 \in S
  <2>1. SUFFICES ASSUME n + 1 <= N PROVE \E f : Iterates(f, n + 1)
    OBVIOUS
  <2>2. PICK f : Iterates(f, n)
    <3>1. n <= N
      BY <2>1, SMT
    <3> QED BY <1>2, <3>1
  <2> DEFINE g == [i \in 0 .. n + 1 |-> IF i = n + 1 THEN F[<<f[n], n + 1>>] ELSE f[i]]
  <2>3. f[n] \in X /\ n + 1 \in 1 .. N
    BY <2>1, <2>2, SMT
  <2>4. F[<<f[n], n + 1>>] \in X
    BY <2>3
  <2>5. g \in [0 .. n + 1 -> X]
    <3>1. \A i \in 0 .. n + 1 : i # n + 1 => f[i] \in X
      BY <2>2, SMT
    <3> QED BY <2>4, <3>1
  <2>6. g[0] = a
    BY <2>2, SMT
  <2>7. ASSUME NEW i \in 1 .. n + 1 PROVE g[i] = F[<<g[i - 1], i>>]
    <3>1. g[i - 1] = f[i - 1] /\ i - 1 \in 0 .. n
      BY SMT
    <3>2. CASE i = n + 1
      <4>1. i - 1 = n
        BY <3>2, SMT
      <4>2. g[i] = F[<<f[n], n + 1>>]
        BY <3>2
      <4>3. g[i - 1] = f[n]
        BY <3>1, <4>1
      <4> HIDE DEF g
      <4> QED BY <3>2, <4>2, <4>3
    <3>3. CASE i # n + 1
      <4>1. i \in 1 .. n /\ g[i] = f[i]
        BY <3>3, SMT
      <4> QED BY <2>2, <3>1, <4>1
    <3> QED BY <3>2, <3>3
  <2> QED BY <2>5, <2>6, <2>7
<1>3. \A n \in Nat : n \in S
  <2> HIDE DEF S
  <2> QED BY <1>1, <1>2, SetInduction
<1>4. N \in S
  <2> HIDE DEF S
  <2> QED BY <1>3
<1>5. N <= N
  OBVIOUS
<1> QED BY <1>4, <1>5 DEF Iterated

-----------------------------------------------------------------------------
(***************************************************************************)
(* The chunks, for any number of definitions and workers: they lie end to  *)
(* end and cover the definitions, and those without definitions are the    *)
(* last ones.                                                              *)
(***************************************************************************)
Parameters ==
  /\ program \in Seq(Behaviours)
  /\ collect \in BOOLEAN
  /\ workerCount \in Nat
  /\ inferred \in Seq(Messages)
  /\ ~collect => inferred = <<>>

\* The end of a chunk is the beginning of the next.
LEMMA ChunkBounds ==
  ASSUME Parameters, workerCount > 0
  PROVE  /\ ChunkOffset(1) = 0
         /\ ChunkOffset(workerCount) + ChunkSize(workerCount) = Len(program)
         /\ \A w \in 1 .. workerCount :
              /\ ChunkOffset(w) \in Nat /\ ChunkSize(w) \in Nat
              /\ ChunkOffset(w + 1) = ChunkOffset(w) + ChunkSize(w)
<1> DEFINE n == Len(program)
<1> DEFINE q == n \div workerCount
<1> DEFINE r == n % workerCount
<1>1. n \in Nat /\ workerCount \in Nat /\ workerCount > 0
  BY DEF Parameters
<1>2. q \in Nat /\ r \in 0 .. workerCount - 1 /\ n = workerCount * q + r
  <2> HIDE DEF n
  <2> QED BY <1>1, SMT
<1>3. /\ \A w : ChunkOffset(w) = (w - 1) * q + (IF w - 1 < r THEN w - 1 ELSE r)
      /\ \A w : ChunkSize(w) = q + (IF w <= r THEN 1 ELSE 0)
  BY DEF ChunkOffset, ChunkSize
<1> HIDE DEF n, q, r
<1>4. ChunkOffset(1) = 0
  BY <1>2, <1>3, SMT
<1>5. ChunkOffset(workerCount) + ChunkSize(workerCount) = n
  <2>1. (workerCount - 1) * q = workerCount * q - q
    BY <1>1, <1>2, SMT
  <2>2. workerCount * q \in Nat
    BY <1>1, <1>2, SMT
  <2> HIDE DEF Parameters
  <2>3. ChunkOffset(workerCount) = workerCount * q - q + r
    BY <1>1, <1>2, <1>3, <2>1, <2>2, SMT
  <2>4. ChunkSize(workerCount) = q
    BY <1>1, <1>2, <1>3, SMT
  <2> QED BY <1>1, <1>2, <2>2, <2>3, <2>4, SMT
<1>6. ASSUME NEW w \in 1 .. workerCount
      PROVE  /\ ChunkOffset(w) \in Nat /\ ChunkSize(w) \in Nat
             /\ ChunkOffset(w + 1) = ChunkOffset(w) + ChunkSize(w)
  <2>1. w \in Nat /\ w >= 1 /\ (w - 1) * q \in Nat
    BY <1>1, <1>2, SMT
  <2>2. w * q = (w - 1) * q + q
    BY <1>2, <2>1, SMT
  <2>3. ((w + 1) - 1) = w
    BY <2>1, SMT
  <2>4. ChunkOffset(w + 1) = w * q + (IF w < r THEN w ELSE r)
    BY <1>3, <2>3
  <2>5. ChunkOffset(w) = (w - 1) * q + (IF w - 1 < r THEN w - 1 ELSE r)
    BY <1>3
  <2>6. ChunkSize(w) = q + (IF w <= r THEN 1 ELSE 0)
    BY <1>3
  <2> QED BY <1>2, <2>1, <2>2, <2>4, <2>5, <2>6, SMT
<1> QED BY <1>4, <1>5, <1>6 DEF n

\* Chunks are in the order of the definitions.
LEMMA ChunkOrder ==
  ASSUME Parameters, workerCount > 0
  PROVE  \A v, w \in 1 .. workerCount :
           v < w => ChunkOffset(v) + ChunkSize(v) <= ChunkOffset(w)
<1> DEFINE S == {k \in Nat : \A v \in 1 .. workerCount :
                    v + 1 + k <= workerCount =>
                      ChunkOffset(v) + ChunkSize(v) <= ChunkOffset(v + 1 + k)}
<1>1. workerCount \in Nat
  BY DEF Parameters
<1>2. 0 \in S
  <2>1. ASSUME NEW v \in 1 .. workerCount
        PROVE  ChunkOffset(v) + ChunkSize(v) <= ChunkOffset(v + 1 + 0)
    <3>1. /\ ChunkOffset(v) \in Nat /\ ChunkSize(v) \in Nat
          /\ ChunkOffset(v + 1) = ChunkOffset(v) + ChunkSize(v)
      BY ChunkBounds
    <3>2. v + 1 + 0 = v + 1
      BY <1>1, SMT
    <3> QED BY <3>1, <3>2, SMT
  <2> QED BY <2>1
<1>3. ASSUME NEW k \in Nat, k \in S PROVE k + 1 \in S
  <2>1. ASSUME NEW v \in 1 .. workerCount, v + 1 + (k + 1) <= workerCount
        PROVE  ChunkOffset(v) + ChunkSize(v) <= ChunkOffset(v + 1 + (k + 1))
    <3>1. /\ v + 1 + k \in 1 .. workerCount /\ v + 1 + k <= workerCount
          /\ v + 1 + (k + 1) = (v + 1 + k) + 1
      BY <1>1, <2>1, SMT
    <3>2. ChunkOffset(v) + ChunkSize(v) <= ChunkOffset(v + 1 + k)
      BY <1>3, <3>1
    <3>3. /\ ChunkOffset(v) \in Nat /\ ChunkSize(v) \in Nat
      BY ChunkBounds
    <3>4. /\ ChunkOffset(v + 1 + k) \in Nat /\ ChunkSize(v + 1 + k) \in Nat
          /\ ChunkOffset((v + 1 + k) + 1) = ChunkOffset(v + 1 + k) + ChunkSize(v + 1 + k)
      BY <3>1, ChunkBounds
    <3>5. ChunkOffset(v + 1 + (k + 1)) = ChunkOffset(v + 1 + k) + ChunkSize(v + 1 + k)
      BY <3>1, <3>4
    <3> QED BY <3>2, <3>3, <3>4, <3>5, SMT
  <2> QED BY <2>1
<1>4. \A k \in Nat : k \in S
  <2> HIDE DEF S
  <2> QED BY <1>2, <1>3, SetInduction
<1>5. ASSUME NEW v \in 1 .. workerCount, NEW w \in 1 .. workerCount, v < w
      PROVE  ChunkOffset(v) + ChunkSize(v) <= ChunkOffset(w)
  <2>1. w - v - 1 \in Nat /\ v + 1 + (w - v - 1) = w /\ w <= workerCount
    BY <1>1, <1>5, SMT
  <2>2. w - v - 1 \in S
    <3> HIDE DEF S
    <3> QED BY <1>4, <2>1
  <2> QED BY <2>1, <2>2
<1> QED BY <1>5

\* Every definition is in a chunk.
LEMMA ChunksCover ==
  ASSUME Parameters, workerCount > 0, NEW d \in Definitions
  PROVE  \E w \in Workers : ChunkOffset(w) < d /\ d <= ChunkOffset(w) + ChunkSize(w)
<1> DEFINE U == {w \in 1 .. workerCount : d <= ChunkOffset(w) + ChunkSize(w)}
<1>1. workerCount \in Nat /\ Len(program) \in Nat /\ d \in 1 .. Len(program)
  BY DEF Parameters, Definitions
<1>2. workerCount \in U
  BY <1>1, ChunkBounds, SMT
<1>3. PICK u \in U : \A v \in U : u <= v
  <2>1. U \in SUBSET Nat
    BY SMT
  <2> HIDE DEF U
  <2> QED BY <1>2, <2>1, LeastNatural
<1>4. u \in 1 .. workerCount /\ d <= ChunkOffset(u) + ChunkSize(u)
  OBVIOUS
<1>5. ChunkOffset(u) \in Nat /\ ChunkSize(u) \in Nat
  BY <1>4, ChunkBounds
<1>6. ChunkOffset(u) < d
  <2>1. CASE u = 1
    BY <1>1, <2>1, ChunkBounds, SMT
  <2>2. CASE u # 1
    <3>1. u - 1 \in 1 .. workerCount /\ ~(u <= u - 1) /\ (u - 1) + 1 = u
      BY <1>1, <1>4, <2>2, SMT
    <3>2. ~(d <= ChunkOffset(u - 1) + ChunkSize(u - 1))
      BY <1>3, <3>1
    <3>3. /\ ChunkOffset(u - 1) \in Nat /\ ChunkSize(u - 1) \in Nat
          /\ ChunkOffset((u - 1) + 1) = ChunkOffset(u - 1) + ChunkSize(u - 1)
      BY <3>1, ChunkBounds
    <3>4. ChunkOffset(u) = ChunkOffset(u - 1) + ChunkSize(u - 1)
      BY <3>1, <3>3
    <3> QED BY <1>1, <3>2, <3>3, <3>4, SMT
  <2> QED BY <2>1, <2>2
<1>7. ChunkSize(u) > 0
  BY <1>1, <1>4, <1>5, <1>6, SMT
<1> QED BY <1>4, <1>6, <1>7 DEF Workers

\* The workers are numbered from 1, and the last one's chunk ends the program.
LEMMA WorkersCounted ==
  ASSUME Parameters, workerCount > 0, Len(program) > 0
  PROVE  \E m \in Nat \ {0} :
           /\ Workers = 1 .. m /\ m <= workerCount
           /\ ChunkOffset(m) + ChunkSize(m) = Len(program)
           /\ MergeOrder = [i \in 1 .. m |-> i]
<1> DEFINE n == Len(program)
<1> DEFINE q == n \div workerCount
<1> DEFINE r == n % workerCount
<1>1. n \in Nat /\ workerCount \in Nat /\ workerCount > 0 /\ n > 0
  BY DEF Parameters
<1>2. q \in Nat /\ r \in 0 .. workerCount - 1 /\ n = workerCount * q + r
  <2> HIDE DEF n
  <2> QED BY <1>1, SMT
<1>3. /\ \A w : ChunkOffset(w) = (w - 1) * q + (IF w - 1 < r THEN w - 1 ELSE r)
      /\ \A w : ChunkSize(w) = q + (IF w <= r THEN 1 ELSE 0)
  BY DEF ChunkOffset, ChunkSize
<1>4. /\ n = Len(program)
  OBVIOUS
<1> HIDE DEF n, q, r
<1> DEFINE m == IF q = 0 THEN r ELSE workerCount
<1>5. m \in Nat \ {0} /\ m <= workerCount
  BY <1>1, <1>2, SMT
<1>6. Workers = 1 .. m
  <2>1. ASSUME NEW w \in 1 .. workerCount PROVE ChunkSize(w) > 0 <=> w <= m
    BY <1>1, <1>2, <1>3, SMT
  <2>2. 1 .. m = {w \in 1 .. workerCount : w <= m}
    BY <1>1, <1>5, SMT
  <2> HIDE DEF m
  <2> QED BY <2>1, <2>2 DEF Workers
<1>7. ChunkOffset(m) + ChunkSize(m) = n
  <2>1. CASE q # 0
    <3>1. m = workerCount
      BY <2>1
    <3> QED BY <1>4, <3>1, ChunkBounds
  <2>2. CASE q = 0
    <3>1. m = r /\ r > 0 /\ workerCount * q = 0 /\ (r - 1) * q = 0
      BY <1>1, <1>2, <1>5, <2>2, SMT
    <3>2. ChunkOffset(r) = r - 1 /\ ChunkSize(r) = 1
      BY <1>2, <1>3, <2>2, <3>1, SMT
    <3> QED BY <1>2, <3>1, <3>2, SMT
  <2> QED BY <2>1, <2>2
<1>8. MergeOrder = [i \in 1 .. m |-> i]
  <2> HIDE DEF m
  <2>1. Cardinality(1 .. m) = m
    BY <1>5, FS_Interval, SMT
  <2>2. ASSUME NEW w \in 1 .. m PROVE Cardinality({v \in 1 .. m : v <= w}) = w
    <3>1. {v \in 1 .. m : v <= w} = 1 .. w
      BY <1>5, SMT
    <3>2. Cardinality(1 .. w) = w
      BY <1>5, FS_Interval, SMT
    <3> QED BY <3>1, <3>2
  <2>3. ASSUME NEW i \in 1 .. m
        PROVE  (CHOOSE w \in 1 .. m : Cardinality({v \in 1 .. m : v <= w}) = i) = i
    BY <2>2
  <2>4. MergeOrder = [i \in 1 .. m |->
                        CHOOSE w \in 1 .. m : Cardinality({v \in 1 .. m : v <= w}) = i]
    BY <1>6, <2>1 DEF MergeOrder
  <2> QED BY <2>3, <2>4
<1> HIDE DEF m
<1> QED BY <1>4, <1>5, <1>6, <1>7, <1>8

-----------------------------------------------------------------------------
(***************************************************************************)
(* What a validator has found in the definitions it has passed.            *)
(***************************************************************************)
Bad(d) == program[d] \in {"rejected", "calls", "throws"}

\* The message a definition fails with when diagnostics are not collected.
ErrorOf(d, stage) ==
  CASE program[d] = "rejected" -> Message("rejected", d)
    [] program[d] = "calls" -> Message("call", d)
    [] OTHER -> Message(stage, d)

\* The records it leaves when they are, and those of the first d definitions.
Found(d) ==
  CASE program[d] = "rejected" -> <<Message("rejected", d)>>
    [] program[d] = "calls" -> <<Message("call", d), Message("laterCall", d)>>
    [] OTHER -> <<>>

FoundUpTo ==
  LET found[d \in 0 .. Len(program)] == IF d = 0 THEN <<>> ELSE found[d - 1] \o Found(d)
  IN found

Stages == {"validateDefinitions", "validateDefinitionsChunk"}

ValidatorType ==
  [error : Messages, records : Seq(Messages), collected : Seq(Messages), next : Nat,
   status : {"running", "ok", "failed"}]

\* A validator that has begun at first and has to reach last.
Scanned(v, first, last, stage) ==
  /\ v \in ValidatorType
  /\ v.next \in first .. last + 1
  /\ v.collected # <<>> => collect
  /\ v.status = "running" =>
       /\ (\E d \in first .. v.next - 1 : Bad(d)) <=> v.collected # <<>>
       /\ \A d \in first .. v.next - 1 : program[d] # "throws"
  /\ v.status = "ok" => \A d \in first .. last : ~Bad(d)
  /\ v.status = "failed" => \E d \in first .. last : Bad(d)
  /\ ~collect =>
       /\ v.status # "failed" => v.error = NoMessage
       /\ v.status = "failed" =>
            \E d \in first .. last :
              /\ Bad(d) /\ \A e \in first .. d - 1 : ~Bad(e)
              /\ v.error = ErrorOf(d, stage)
  /\ collect /\ ~Throws =>
       /\ v.status = "running" => FoundUpTo[v.next - 1] = FoundUpTo[first - 1] \o v.collected
       /\ v.status # "running" =>
            /\ FoundUpTo[last] = FoundUpTo[first - 1] \o v.collected
            /\ v.status = "failed" <=> v.collected # <<>>
            /\ v.status = "failed" => v.records = v.collected
       /\ ~Attempts /\ v.collected = <<>> => v.records = <<>>

\* The messages about definitions of the program.
LEMMA MessageTypes ==
  /\ NoMessage \in Messages /\ Message("attempt", 0) \in Messages
  /\ \A d \in Definitions, kind \in {"rejected", "call", "laterCall", "attempt"} \cup Stages :
       Message(kind, d) \in Messages /\ Message(kind, d) # NoMessage
<1>1. NoMessage \in Messages /\ Message("attempt", 0) \in Messages
  BY DEF Messages
<1>2. ASSUME NEW d \in Definitions,
             NEW kind \in {"rejected", "call", "laterCall", "attempt"} \cup Stages
      PROVE  Message(kind, d) \in Messages /\ Message(kind, d) # NoMessage
  <2>1. kind \in {"rejected", "call", "laterCall", "attempt",
                  "validateDefinitions", "validateDefinitionsChunk"}
    BY DEF Stages
  <2>2. Message(kind, d) \in Messages
    BY <2>1 DEF Messages
  <2>3. Message(kind, d).kind = kind /\ NoMessage.kind = "none"
    BY DEF Message, NoMessage
  <2>4. kind # "none"
    BY <2>1
  <2> QED BY <2>2, <2>3, <2>4
<1> QED BY <1>1, <1>2

\* What a definition leaves as records.
LEMMA FoundType ==
  ASSUME NEW d \in Definitions
  PROVE  /\ Found(d) \in Seq(Messages)
         /\ Found(d) # <<>> <=> program[d] \in {"rejected", "calls"}
<1>1. /\ Message("rejected", d) \in Messages /\ Message("call", d) \in Messages
      /\ Message("laterCall", d) \in Messages
  BY MessageTypes
<1>2. /\ <<Message("rejected", d)>> \in Seq(Messages) /\ <<Message("rejected", d)>> # <<>>
      /\ <<Message("call", d), Message("laterCall", d)>> \in Seq(Messages)
      /\ <<Message("call", d), Message("laterCall", d)>> # <<>>
  BY <1>1, SMT
<1>3. <<>> \in Seq(Messages)
  OBVIOUS
<1>4. CASE program[d] = "rejected"
  BY <1>2, <1>4 DEF Found
<1>5. CASE program[d] = "calls"
  BY <1>2, <1>5 DEF Found
<1>6. CASE program[d] \notin {"rejected", "calls"}
  BY <1>3, <1>6 DEF Found
<1> QED BY <1>4, <1>5, <1>6

\* The recursion is well defined.
LEMMA FoundRecursion ==
  ASSUME Parameters
  PROVE  /\ FoundUpTo \in [0 .. Len(program) -> Seq(Messages)]
         /\ FoundUpTo[0] = <<>>
         /\ \A d \in Definitions : FoundUpTo[d] = FoundUpTo[d - 1] \o Found(d)
<1> DEFINE n == Len(program)
<1> DEFINE X == Seq(Messages)
<1> DEFINE F == [p \in X \X (1 .. n) |-> p[1] \o Found(p[2])]
<1> DEFINE Solves(f) == f = [d \in 0 .. n |-> IF d = 0 THEN <<>> ELSE f[d - 1] \o Found(d)]
<1>1. n \in Nat
  BY DEF Parameters
<1>2. F \in [X \X (1 .. n) -> X]
  <2>1. ASSUME NEW p \in X \X (1 .. n) PROVE p[1] \o Found(p[2]) \in X
    <3>1. p[1] \in Seq(Messages) /\ Found(p[2]) \in Seq(Messages)
      BY FoundType DEF Definitions
    <3> QED BY <3>1
  <2> QED BY <2>1
<1>3. <<>> \in X
  OBVIOUS
<1>4. PICK f : f \in [0 .. n -> X] /\ f[0] = <<>> /\ \A i \in 1 .. n : f[i] = F[<<f[i - 1], i>>]
  <2> HIDE DEF n, X, F
  <2>1. IsStep(F, X, n)
    BY <1>2 DEF IsStep
  <2>2. PICK f : Iterated(f, F, <<>>, X, n)
    BY <1>1, <1>3, <2>1, Recursion
  <2> QED BY <2>2 DEF Iterated
<1>5. ASSUME NEW i \in 1 .. n PROVE f[i - 1] \in X /\ f[i] = f[i - 1] \o Found(i)
  <2>1. i - 1 \in 0 .. n
    BY <1>1, SMT
  <2>2. f[i - 1] \in X
    BY <1>4, <2>1
  <2>3. F[<<f[i - 1], i>>] = f[i - 1] \o Found(i)
    BY <2>2
  <2> QED BY <1>4, <2>2, <2>3
<1>6. Solves(f)
  <2>1. \A d \in 0 .. n : d # 0 => d \in 1 .. n
    BY <1>1, SMT
  <2>2. \A d \in 0 .. n : f[d] = IF d = 0 THEN <<>> ELSE f[d - 1] \o Found(d)
    BY <1>4, <1>5, <2>1
  <2> QED BY <1>4, <2>2
<1>7. FoundUpTo = CHOOSE g : Solves(g)
  BY DEF FoundUpTo
<1>8. Solves(FoundUpTo)
  <2> HIDE DEF Solves
  <2> QED BY <1>6, <1>7
<1>9. \A i \in 0 .. n : FoundUpTo[i] = IF i = 0 THEN <<>> ELSE FoundUpTo[i - 1] \o Found(i)
  BY <1>8
<1>10. FoundUpTo[0] = <<>>
  BY <1>1, <1>9, SMT
<1>11. \A d \in Definitions : FoundUpTo[d] = FoundUpTo[d - 1] \o Found(d)
  <2>1. \A d \in Definitions : d \in 0 .. n /\ d # 0
    BY <1>1, SMT DEF Definitions
  <2> QED BY <1>9, <2>1
<1>12. \A d \in 0 .. n : FoundUpTo[d] \in Seq(Messages)
  <2> DEFINE S == {d \in Nat : d <= n => FoundUpTo[d] \in Seq(Messages)}
  <2>1. 0 \in S
    <3>1. <<>> \in Seq(Messages)
      OBVIOUS
    <3> QED BY <1>10, <3>1
  <2>2. ASSUME NEW d \in Nat, d \in S PROVE d + 1 \in S
    <3>1. SUFFICES ASSUME d + 1 <= n PROVE FoundUpTo[d + 1] \in Seq(Messages)
      OBVIOUS
    <3>2. d + 1 \in Definitions /\ d <= n /\ (d + 1) - 1 = d
      BY <1>1, <3>1, SMT DEF Definitions
    <3>3. FoundUpTo[d + 1] = FoundUpTo[d] \o Found(d + 1)
      BY <1>11, <3>2
    <3>4. FoundUpTo[d] \in Seq(Messages) /\ Found(d + 1) \in Seq(Messages)
      BY <2>2, <3>2, FoundType
    <3> QED BY <3>3, <3>4
  <2>3. \A d \in Nat : d \in S
    <3> HIDE DEF S
    <3> QED BY <2>1, <2>2, SetInduction
  <2> QED BY <1>1, <2>3, SMT
<1>13. FoundUpTo = [d \in 0 .. n |-> FoundUpTo[d]]
  BY <1>8
<1> QED BY <1>10, <1>11, <1>12, <1>13

-----------------------------------------------------------------------------
(***************************************************************************)
(* One definition, and the end of a pass.                                  *)
(***************************************************************************)
\* What validating a definition does to a validator, by the definition's behaviour.
LEMMA Effects ==
  ASSUME Parameters, NEW v \in ValidatorType, NEW d \in Definitions, NEW stage \in Stages
  PROVE  LET after == ValidateDefinition(v, d, stage) IN
         /\ after \in ValidatorType /\ after.next = d + 1
         /\ program[d] = "accepted" =>
              /\ after.status = v.status /\ after.error = v.error
              /\ after.collected = v.collected /\ after.records = v.records
         /\ program[d] = "attempts" =>
              /\ after.status = v.status /\ after.error = NoMessage
              /\ after.collected = v.collected
         /\ program[d] \in {"rejected", "calls"} /\ collect =>
              /\ after.status = v.status
              /\ after.collected = v.collected \o Found(d)
         /\ program[d] = "throws" \/ (Bad(d) /\ ~collect) =>
              /\ after.status = "failed" /\ after.error = ErrorOf(d, stage)
              /\ after.collected = v.collected
<1> DEFINE after == ValidateDefinition(v, d, stage)
<1>1. /\ v.error \in Messages /\ v.records \in Seq(Messages) /\ v.collected \in Seq(Messages)
      /\ v.next \in Nat /\ v.status \in {"running", "ok", "failed"}
      /\ v = [error |-> v.error, records |-> v.records, collected |-> v.collected,
              next |-> v.next, status |-> v.status]
  BY DEF ValidatorType
<1>2. d + 1 \in Nat /\ program[d] \in Behaviours
  BY SMT DEF Definitions, Parameters
<1>3. /\ NoMessage \in Messages
      /\ \A kind \in {"rejected", "call", "laterCall", "attempt", stage} :
           Message(kind, d) \in Messages
  BY MessageTypes DEF Stages
<1>4. \A m \in Messages :
        /\ Published(v, m) \in Seq(Messages) /\ <<m>> \in Seq(Messages)
        /\ Append(v.collected, m) = v.collected \o <<m>>
        /\ v.collected \o <<m>> \in Seq(Messages)
        /\ RememberFirst(v, m) \in Messages
  <2> TAKE m \in Messages
  <2>1. <<m>> \in Seq(Messages)
    BY SMT
  <2>2. Append(v.collected, m) = v.collected \o <<m>> /\ v.collected \o <<m>> \in Seq(Messages)
    BY <1>1, SMT
  <2> QED BY <1>1, <2>1, <2>2 DEF Published, RememberFirst
<1>5. CASE program[d] = "accepted"
  <2>1. after = [v EXCEPT !.next = d + 1]
    BY <1>5 DEF ValidateDefinition
  <2>2. after = [error |-> v.error, records |-> v.records, collected |-> v.collected,
                 next |-> d + 1, status |-> v.status]
    BY <1>1, <2>1
  <2> HIDE DEF after
  <2>3. after \in ValidatorType
    BY <1>1, <1>2, <2>2 DEF ValidatorType
  <2> QED BY <1>5, <2>2, <2>3 DEF Bad, after
<1>6. CASE program[d] = "attempts"
  <2>1. after = [Attempt(v, d) EXCEPT !.next = d + 1]
    BY <1>6 DEF ValidateDefinition
  <2>2. after = [error |-> NoMessage, records |-> Published(v, Message("attempt", d)),
                 collected |-> v.collected, next |-> d + 1, status |-> v.status]
    BY <1>1, <2>1 DEF Attempt
  <2> HIDE DEF after
  <2>3. after \in ValidatorType
    BY <1>1, <1>2, <1>3, <1>4, <2>2 DEF ValidatorType
  <2> QED BY <1>6, <2>2, <2>3 DEF Bad, after
<1>7. CASE program[d] = "rejected"
  <2>1. after = [Reject(v, Message("rejected", d)) EXCEPT !.next = d + 1]
    BY <1>7 DEF ValidateDefinition
  <2>2. CASE collect
    <3>1. after = [error |-> NoMessage, records |-> <<Message("rejected", d)>>,
                   collected |-> Append(v.collected, Message("rejected", d)),
                   next |-> d + 1, status |-> v.status]
      BY <1>1, <2>1, <2>2 DEF Reject, MoveCurrentDiagnostic
    <3> HIDE DEF after
    <3>2. after \in ValidatorType
      BY <1>1, <1>2, <1>3, <1>4, <3>1 DEF ValidatorType
    <3>3. Append(v.collected, Message("rejected", d)) = v.collected \o Found(d)
      BY <1>3, <1>4, <1>7 DEF Found
    <3> QED BY <1>7, <2>2, <3>1, <3>2, <3>3 DEF after
  <2>3. CASE ~collect
    <3>1. after = [error |-> Message("rejected", d), records |-> v.records,
                   collected |-> v.collected, next |-> d + 1, status |-> "failed"]
      BY <1>1, <2>1, <2>3 DEF Reject
    <3> HIDE DEF after
    <3>2. after \in ValidatorType
      BY <1>1, <1>2, <1>3, <3>1 DEF ValidatorType
    <3>3. ErrorOf(d, stage) = Message("rejected", d)
      BY <1>7 DEF ErrorOf
    <3> QED BY <1>7, <2>3, <3>1, <3>2, <3>3 DEF after
  <2> QED BY <2>2, <2>3
<1>8. CASE program[d] = "calls"
  <2>1. CASE collect
    <3>1. after = [CollectCalls(v, d) EXCEPT !.next = d + 1]
      BY <1>8, <2>1 DEF ValidateDefinition
    <3>2. after = [error |-> RememberFirst(v, Message("call", d)), records |-> v.records,
                   collected |-> v.collected \o <<Message("call", d), Message("laterCall", d)>>,
                   next |-> d + 1, status |-> v.status]
      BY <1>1, <3>1 DEF CollectCalls
    <3>3. <<Message("call", d), Message("laterCall", d)>> = Found(d)
      BY <1>8 DEF Found
    <3>4. v.collected \o Found(d) \in Seq(Messages)
      BY <1>1, FoundType
    <3> HIDE DEF after
    <3>5. after \in ValidatorType
      BY <1>1, <1>2, <1>3, <1>4, <3>2, <3>3, <3>4 DEF ValidatorType
    <3>6. /\ after.status = v.status /\ after.collected = v.collected \o Found(d)
          /\ after.next = d + 1
      BY <3>2, <3>3
    <3> QED BY <1>8, <2>1, <3>5, <3>6 DEF after
  <2>2. CASE ~collect
    <3>1. after = [Reject(v, Message("call", d)) EXCEPT !.next = d + 1]
      BY <1>8, <2>2 DEF ValidateDefinition
    <3>2. after = [error |-> Message("call", d), records |-> v.records,
                   collected |-> v.collected, next |-> d + 1, status |-> "failed"]
      BY <1>1, <3>1, <2>2 DEF Reject
    <3> HIDE DEF after
    <3>3. after \in ValidatorType
      BY <1>1, <1>2, <1>3, <3>2 DEF ValidatorType
    <3>4. ErrorOf(d, stage) = Message("call", d)
      BY <1>8 DEF ErrorOf
    <3> QED BY <1>8, <2>2, <3>2, <3>3, <3>4 DEF after
  <2> QED BY <2>1, <2>2
<1>9. CASE program[d] = "throws"
  <2>1. after = [Catch(v, Message(stage, d)) EXCEPT !.next = d + 1]
    BY <1>9 DEF ValidateDefinition
  <2>2. after = [error |-> Message(stage, d), records |-> Published(v, Message(stage, d)),
                 collected |-> v.collected, next |-> d + 1, status |-> "failed"]
    BY <1>1, <2>1 DEF Catch
  <2> HIDE DEF after
  <2>3. after \in ValidatorType
    BY <1>1, <1>2, <1>3, <1>4, <2>2 DEF ValidatorType
  <2>4. ErrorOf(d, stage) = Message(stage, d)
    BY <1>9 DEF ErrorOf
  <2> QED BY <1>9, <2>2, <2>3, <2>4 DEF after
<1> HIDE DEF after
<1>10. program[d] \in {"accepted", "attempts", "rejected", "calls", "throws"}
  BY <1>2 DEF Behaviours
<1> QED BY <1>5, <1>6, <1>7, <1>8, <1>9, <1>10

\* A validator's record stays Scanned when it validates its next definition.
LEMMA StepScanned ==
  ASSUME Parameters, NEW v, NEW first \in Nat \ {0}, NEW last \in Nat, last <= Len(program),
         NEW stage \in Stages, Scanned(v, first, last, stage),
         v.status = "running", v.next <= last
  PROVE  /\ Scanned(ValidateDefinition(v, v.next, stage), first, last, stage)
         /\ ValidateDefinition(v, v.next, stage).next = v.next + 1
<1> DEFINE d == v.next
<1> DEFINE after == ValidateDefinition(v, d, stage)
<1>1. /\ v \in ValidatorType /\ d \in Nat /\ d \in first .. last /\ d \in Definitions
      /\ v.collected \in Seq(Messages)
      /\ \A e \in first .. last : e \in Definitions
  BY SMT DEF Scanned, ValidatorType, Definitions, Parameters
<1>2. /\ after \in ValidatorType /\ after.next = d + 1
      /\ program[d] = "accepted" =>
           /\ after.status = v.status /\ after.error = v.error
           /\ after.collected = v.collected /\ after.records = v.records
      /\ program[d] = "attempts" =>
           /\ after.status = v.status /\ after.error = NoMessage
           /\ after.collected = v.collected
      /\ program[d] \in {"rejected", "calls"} /\ collect =>
           /\ after.status = v.status
           /\ after.collected = v.collected \o Found(d)
      /\ program[d] = "throws" \/ (Bad(d) /\ ~collect) =>
           /\ after.status = "failed" /\ after.error = ErrorOf(d, stage)
           /\ after.collected = v.collected
  BY <1>1, Effects
<1>3. /\ v.collected # <<>> => collect
      /\ (\E e \in first .. d - 1 : Bad(e)) <=> v.collected # <<>>
      /\ \A e \in first .. d - 1 : program[e] # "throws"
      /\ ~collect => v.error = NoMessage
      /\ collect /\ ~Throws =>
           /\ FoundUpTo[d - 1] = FoundUpTo[first - 1] \o v.collected
           /\ ~Attempts /\ v.collected = <<>> => v.records = <<>>
  BY DEF Scanned
<1>4. /\ Found(d) \in Seq(Messages) /\ (Found(d) # <<>> <=> program[d] \in {"rejected", "calls"})
      /\ FoundUpTo[d] = FoundUpTo[d - 1] \o Found(d)
      /\ FoundUpTo[first - 1] \in Seq(Messages)
  <2>1. first - 1 \in 0 .. Len(program)
    BY <1>1, SMT DEF Parameters
  <2> QED BY <1>1, <2>1, FoundType, FoundRecursion
<1>5. program[d] \in {"accepted", "attempts", "rejected", "calls", "throws"}
  BY <1>1 DEF Parameters, Behaviours, Definitions
<1>6. /\ (d + 1) - 1 = d /\ d + 1 \in first .. last + 1
      /\ \A e : e \in first .. d <=> e \in first .. d - 1 \/ e = d
  BY <1>1, SMT
<1>7. /\ program[d] = "throws" => Throws
      /\ program[d] = "attempts" => Attempts
      /\ Bad(d) <=> program[d] \in {"rejected", "calls", "throws"}
  BY <1>1 DEF Throws, Attempts, Bad
<1>8. d # d + 1 /\ \A s \in Seq(Messages) : s \o <<>> = s
  BY <1>1, SMT
<1> HIDE DEF after, d
<1>9. CASE program[d] \in {"accepted", "attempts"}
  <2>1. /\ after.status = "running" /\ after.collected = v.collected /\ ~Bad(d)
        /\ ~collect => after.error = NoMessage
        /\ ~Attempts => after.records = v.records
        /\ Found(d) = <<>>
    BY <1>2, <1>3, <1>4, <1>7, <1>9
  <2>2. /\ (\E e \in first .. d : Bad(e)) <=> after.collected # <<>>
        /\ \A e \in first .. d : program[e] # "throws"
    BY <1>3, <1>6, <1>9, <2>1
  <2>3. collect /\ ~Throws => FoundUpTo[d] = FoundUpTo[first - 1] \o after.collected
    <3>1. SUFFICES ASSUME collect /\ ~Throws
                   PROVE  FoundUpTo[d] = FoundUpTo[first - 1] \o after.collected
      OBVIOUS
    <3>2. FoundUpTo[first - 1] \o v.collected \in Seq(Messages)
      BY <1>1, <1>4
    <3>3. FoundUpTo[d] = (FoundUpTo[first - 1] \o v.collected) \o <<>>
      BY <1>3, <1>4, <2>1, <3>1
    <3> QED BY <1>8, <2>1, <3>2, <3>3
  <2>4. Scanned(after, first, last, stage)
    BY <1>2, <1>3, <1>6, <2>1, <2>2, <2>3 DEF Scanned
  <2> QED BY <1>2, <2>4 DEF after, d
<1>10. CASE program[d] \in {"rejected", "calls"} /\ collect
  <2>1. /\ after.status = "running" /\ after.collected = v.collected \o Found(d)
        /\ Bad(d) /\ Found(d) # <<>>
    BY <1>2, <1>4, <1>7, <1>10
  <2>2. after.collected # <<>>
    BY <1>1, <1>4, <2>1, SMT
  <2>3. /\ \E e \in first .. d : Bad(e)
        /\ \A e \in first .. d : program[e] # "throws"
    BY <1>3, <1>6, <1>10, <2>1
  <2>4. ~Throws => FoundUpTo[d] = FoundUpTo[first - 1] \o after.collected
    <3>1. SUFFICES ASSUME ~Throws PROVE FoundUpTo[d] = FoundUpTo[first - 1] \o after.collected
      OBVIOUS
    <3>2. FoundUpTo[d] = (FoundUpTo[first - 1] \o v.collected) \o Found(d)
      BY <1>3, <1>4, <1>10, <3>1
    <3>3. \A r, s, t \in Seq(Messages) : (r \o s) \o t = r \o (s \o t)
      BY SMT
    <3>4. (FoundUpTo[first - 1] \o v.collected) \o Found(d)
            = FoundUpTo[first - 1] \o (v.collected \o Found(d))
      BY <1>1, <1>4, <3>3
    <3> QED BY <2>1, <3>2, <3>4
  <2>5. Scanned(after, first, last, stage)
    BY <1>2, <1>6, <1>10, <2>1, <2>2, <2>3, <2>4 DEF Scanned
  <2> QED BY <1>2, <2>5 DEF after, d
<1>11. CASE program[d] = "throws" \/ (Bad(d) /\ ~collect)
  <2>1. /\ after.status = "failed" /\ after.error = ErrorOf(d, stage)
        /\ after.collected = v.collected /\ Bad(d)
        /\ collect => Throws
    BY <1>2, <1>7, <1>11
  <2>2. ~collect => \A e \in first .. d - 1 : ~Bad(e)
    BY <1>3
  <2>3. d \in first .. last
    BY <1>1 DEF d
  <2>4. Scanned(after, first, last, stage)
    BY <1>2, <1>3, <1>6, <2>1, <2>2, <2>3 DEF Scanned
  <2> QED BY <1>2, <2>4 DEF after, d
<1> QED BY <1>5, <1>7, <1>9, <1>10, <1>11

\* A new validator, before the first definition of its chunk.
LEMMA BeginScanned ==
  ASSUME Parameters, NEW first \in Nat \ {0}, NEW last \in Nat, first <= last + 1,
         last <= Len(program), NEW stage \in Stages
  PROVE  Scanned(Validator(first), first, last, stage)
<1> DEFINE v == Validator(first)
<1>1. v = [error |-> NoMessage, records |-> inferred, collected |-> <<>>,
           next |-> first, status |-> "running"]
  BY DEF Validator
<1>2. v \in ValidatorType
  <2>1. NoMessage \in Messages /\ inferred \in Seq(Messages) /\ <<>> \in Seq(Messages)
    BY MessageTypes DEF Parameters
  <2> HIDE DEF v
  <2> QED BY <1>1, <2>1 DEF ValidatorType
<1>3. ~\E e : e \in first .. first - 1
  BY SMT
<1>4. FoundUpTo[first - 1] \o <<>> = FoundUpTo[first - 1]
  <2>1. first - 1 \in 0 .. Len(program)
    BY SMT DEF Parameters
  <2>2. FoundUpTo[first - 1] \in Seq(Messages)
    BY <2>1, FoundRecursion
  <2> QED BY <2>2, SMT
<1>5. first \in first .. last + 1
  BY SMT
<1>6. ~Attempts => inferred = <<>>
  BY DEF Attempts
<1> HIDE DEF v
<1>7. /\ v.error = NoMessage /\ v.records = inferred /\ v.collected = <<>>
      /\ v.next = first /\ v.status = "running"
  BY <1>1
<1>8. ~\E e \in first .. v.next - 1 : Bad(e)
  BY <1>3, <1>7
<1>9. \A e \in first .. v.next - 1 : program[e] # "throws"
  BY <1>3, <1>7
<1>10. FoundUpTo[v.next - 1] = FoundUpTo[first - 1] \o v.collected
  BY <1>4, <1>7
<1>11. Scanned(v, first, last, stage)
  BY <1>2, <1>5, <1>6, <1>7, <1>8, <1>9, <1>10 DEF Scanned
<1> QED BY <1>11 DEF v

\* The end of a pass gives the verdict, and loses nothing.
LEMMA FinalizeScanned ==
  ASSUME Parameters, NEW v, NEW first \in Nat \ {0}, NEW last \in Nat, first <= last + 1,
         NEW stage \in Stages, Scanned(v, first, last, stage),
         v.status = "running", v.next > last
  PROVE  /\ Scanned(Finalize(v, v.collected), first, last, stage)
         /\ Finalize(v, v.collected).status # "running"
<1> DEFINE after == Finalize(v, v.collected)
<1>1. /\ v \in ValidatorType /\ v.next = last + 1 /\ (last + 1) - 1 = last
  BY SMT DEF Scanned, ValidatorType
<1>2. /\ v.error \in Messages /\ v.records \in Seq(Messages) /\ v.collected \in Seq(Messages)
      /\ v.next \in Nat
      /\ v = [error |-> v.error, records |-> v.records, collected |-> v.collected,
              next |-> v.next, status |-> v.status]
  BY <1>1 DEF ValidatorType
<1>3. /\ v.next \in first .. last + 1
      /\ v.collected # <<>> => collect
      /\ (\E e \in first .. last : Bad(e)) <=> v.collected # <<>>
      /\ \A e \in first .. last : program[e] # "throws"
      /\ ~collect => v.error = NoMessage
      /\ collect /\ ~Throws =>
           /\ FoundUpTo[last] = FoundUpTo[first - 1] \o v.collected
           /\ ~Attempts /\ v.collected = <<>> => v.records = <<>>
  BY <1>1 DEF Scanned
<1>4. CASE v.collected # <<>>
  <2>1. collect
    BY <1>3, <1>4
  <2>2. after = [error |-> RememberFirst(v, v.collected[1]), records |-> v.collected,
                 collected |-> v.collected, next |-> v.next, status |-> "failed"]
    BY <1>2, <1>4, <2>1 DEF Finalize
  <2>3. RememberFirst(v, v.collected[1]) \in Messages
    <3>1. v.collected[1] \in Messages
      BY <1>2, <1>4, SMT
    <3> QED BY <1>2, <3>1 DEF RememberFirst
  <2> HIDE DEF after
  <2>4. after \in ValidatorType
    BY <1>2, <2>2, <2>3 DEF ValidatorType
  <2>5. Scanned(after, first, last, stage)
    BY <1>3, <1>4, <2>1, <2>2, <2>4 DEF Scanned
  <2> QED BY <2>2, <2>5 DEF after
<1>5. CASE v.collected = <<>>
  <2>1. after = [error |-> v.error, records |-> v.records,
                 collected |-> v.collected, next |-> v.next, status |-> "ok"]
    BY <1>2, <1>5 DEF Finalize
  <2> HIDE DEF after
  <2>2. after \in ValidatorType
    BY <1>2, <2>1 DEF ValidatorType
  <2>3. Scanned(after, first, last, stage)
    BY <1>3, <1>5, <2>1, <2>2 DEF Scanned
  <2> QED BY <2>1, <2>3 DEF after
<1> QED BY <1>4, <1>5

\* The serial pass is a complete pass over all definitions.
LEMMA SerialScanned ==
  ASSUME Parameters
  PROVE  /\ Scanned(Serial, 1, Len(program), Stage(Main))
         /\ Serial.status # "running"
<1> DEFINE n == Len(program)
<1> DEFINE stage == Stage(Main)
<1> DEFINE X == ValidatorType
<1> DEFINE Step(v, d) == IF v.status = "running" THEN ValidateDefinition(v, d, stage) ELSE v
<1> DEFINE F == [p \in X \X (1 .. n) |-> Step(p[1], p[2])]
<1> DEFINE Solves(f) == f = [d \in 0 .. n |-> IF d = 0 THEN Validator(1)
                                             ELSE IF f[d - 1].status = "running"
                                                  THEN ValidateDefinition(f[d - 1], d, stage)
                                                  ELSE f[d - 1]]
<1> DEFINE pass == CHOOSE f : Solves(f)
<1>1. n \in Nat /\ 1 <= n + 1 /\ stage \in Stages
  BY SMT DEF Parameters, Stage, Stages
<1>2. Scanned(Validator(1), 1, n, stage) /\ Validator(1) \in X /\ Validator(1).next = 1
  <2>1. Scanned(Validator(1), 1, n, stage)
    BY <1>1, BeginScanned, SMT
  <2> QED BY <2>1 DEF Scanned, Validator
<1>3. F \in [X \X (1 .. n) -> X]
  <2>1. ASSUME NEW p \in X \X (1 .. n) PROVE Step(p[1], p[2]) \in X
    <3>1. p[1] \in ValidatorType /\ p[2] \in Definitions
      BY DEF Definitions
    <3>2. ValidateDefinition(p[1], p[2], stage) \in ValidatorType
      BY <1>1, <3>1, Effects
    <3> QED BY <3>1, <3>2
  <2> HIDE DEF Step
  <2> QED BY <2>1
<1>4. PICK f : f \in [0 .. n -> X] /\ f[0] = Validator(1) /\ \A i \in 1 .. n : f[i] = F[<<f[i - 1], i>>]
  <2> HIDE DEF n, X, F
  <2>1. IsStep(F, X, n)
    BY <1>3 DEF IsStep
  <2>2. PICK f : Iterated(f, F, Validator(1), X, n)
    BY <1>1, <1>2, <2>1, Recursion
  <2> QED BY <2>2 DEF Iterated
<1>5. Solves(f)
  <2>1. ASSUME NEW i \in 1 .. n PROVE f[i] = Step(f[i - 1], i)
    <3>1. i - 1 \in 0 .. n
      BY <1>1, SMT
    <3>2. f[i - 1] \in X
      BY <1>4, <3>1
    <3>3. F[<<f[i - 1], i>>] = Step(f[i - 1], i)
      BY <3>2
    <3> QED BY <1>4, <3>3
  <2>2. \A d \in 0 .. n : d # 0 => d \in 1 .. n
    BY <1>1, SMT
  <2>3. \A d \in 0 .. n : f[d] = IF d = 0 THEN Validator(1)
                                 ELSE IF f[d - 1].status = "running"
                                      THEN ValidateDefinition(f[d - 1], d, stage)
                                      ELSE f[d - 1]
    BY <1>4, <2>1, <2>2
  <2> QED BY <1>4, <2>3
<1>6. Solves(pass)
  <2> HIDE DEF Solves
  <2> QED BY <1>5
<1> HIDE DEF pass
<1>7. /\ pass[0] = Validator(1)
      /\ \A d \in 1 .. n : pass[d] = Step(pass[d - 1], d)
  <2>1. 0 \in 0 .. n /\ \A d \in 1 .. n : d \in 0 .. n /\ d # 0
    BY <1>1, SMT
  <2> QED BY <1>6, <2>1
<1>8. \A d \in 0 .. n : /\ Scanned(pass[d], 1, n, stage)
                        /\ pass[d].status = "running" => pass[d].next = d + 1
  <2> DEFINE S == {d \in Nat : d <= n =>
                      /\ Scanned(pass[d], 1, n, stage)
                      /\ pass[d].status = "running" => pass[d].next = d + 1}
  <2> HIDE DEF stage
  <2>1. 0 \in S
    BY <1>2, <1>7
  <2>2. ASSUME NEW d \in Nat, d \in S PROVE d + 1 \in S
    <3>1. SUFFICES ASSUME d + 1 <= n
                   PROVE  /\ Scanned(pass[d + 1], 1, n, stage)
                          /\ pass[d + 1].status = "running" => pass[d + 1].next = (d + 1) + 1
      OBVIOUS
    <3>2. /\ d <= n /\ d + 1 \in 1 .. n /\ (d + 1) - 1 = d /\ n <= Len(program) /\ 1 \in Nat \ {0}
      BY <1>1, <3>1, SMT
    <3>3. Scanned(pass[d], 1, n, stage) /\ (pass[d].status = "running" => pass[d].next = d + 1)
      BY <2>2, <3>2
    <3>4. pass[d + 1] = Step(pass[d], d + 1)
      BY <1>7, <3>2
    <3> HIDE DEF n
    <3>5. CASE pass[d].status = "running"
      <4>1. pass[d + 1] = ValidateDefinition(pass[d], pass[d].next, stage)
        BY <3>3, <3>4, <3>5
      <4>2. pass[d].next <= n
        BY <3>1, <3>3, <3>5
      <4>3. /\ Scanned(ValidateDefinition(pass[d], pass[d].next, stage), 1, n, stage)
            /\ ValidateDefinition(pass[d], pass[d].next, stage).next = pass[d].next + 1
        BY <1>1, <3>2, <3>3, <3>5, <4>2, StepScanned
      <4> QED BY <3>3, <3>5, <4>1, <4>3
    <3>6. CASE pass[d].status # "running"
      BY <3>3, <3>4, <3>6
    <3> QED BY <3>5, <3>6
  <2>3. \A d \in Nat : d \in S
    <3> HIDE DEF S
    <3> QED BY <2>1, <2>2, SetInduction
  <2> QED BY <1>1, <2>3, SMT
<1>9. n \in 0 .. n /\ n + 1 > n
  BY <1>1, SMT
<1>10. Serial = IF pass[n].status = "running" THEN Finalize(pass[n], pass[n].collected) ELSE pass[n]
  BY DEF Serial, pass
<1>11. Scanned(pass[n], 1, n, stage) /\ (pass[n].status = "running" => pass[n].next = n + 1)
  BY <1>8, <1>9
<1> HIDE DEF n, stage
<1>12. CASE pass[n].status = "running"
  <2>1. pass[n].next > n
    BY <1>9, <1>11, <1>12
  <2>2. /\ Scanned(Finalize(pass[n], pass[n].collected), 1, n, stage)
        /\ Finalize(pass[n], pass[n].collected).status # "running"
    BY <1>1, <1>11, <1>12, <2>1, FinalizeScanned
  <2> QED BY <1>10, <1>12, <2>2 DEF n, stage
<1>13. CASE pass[n].status # "running"
  BY <1>10, <1>11, <1>13 DEF n, stage
<1> QED BY <1>12, <1>13

-----------------------------------------------------------------------------
(***************************************************************************)
(* Two complete passes over the same definitions agree.                    *)
(***************************************************************************)
\* What SameAsSerial and NeverMorePermissive want of the outcome.
Agrees(v) ==
  /\ ~Throws /\ ~(collect /\ Attempts) =>
       /\ v.status = Serial.status
       /\ ~collect => v.error = Serial.error
       /\ collect /\ v.status = "failed" => v.records = Serial.records
  /\ Serial.status = "failed" => v.status = "failed"

\* The serial outcome in terms of the definitions.
LEMMA SerialOutcome ==
  ASSUME Parameters
  PROVE  /\ Serial.status \in {"ok", "failed"}
         /\ Serial.status = "failed" <=> \E d \in Definitions : Bad(d)
         /\ ~collect /\ Serial.status = "ok" => Serial.error = NoMessage
         /\ ~collect /\ Serial.status = "failed" =>
              \E d \in Definitions : /\ Bad(d) /\ \A e \in 1 .. d - 1 : ~Bad(e)
                                     /\ Serial.error = ErrorOf(d, Stage(Main))
         /\ collect /\ ~Throws =>
              /\ Serial.status = "failed" <=> FoundUpTo[Len(program)] # <<>>
              /\ Serial.status = "failed" => Serial.records = FoundUpTo[Len(program)]
<1>1. Scanned(Serial, 1, Len(program), Stage(Main)) /\ Serial.status # "running"
  BY SerialScanned
<1>2. Serial \in ValidatorType
  BY <1>1 DEF Scanned
<1>3. Serial.status \in {"ok", "failed"} /\ Serial.collected \in Seq(Messages)
  BY <1>1, <1>2 DEF ValidatorType
<1>4. 1 - 1 = 0 /\ FoundUpTo[0] = <<>> /\ <<>> \o Serial.collected = Serial.collected
  BY <1>3, FoundRecursion, SMT
<1>5. Serial.status = "failed" <=> \E d \in Definitions : Bad(d)
  BY <1>1, <1>3 DEF Scanned, Definitions
<1>6. ~collect =>
        /\ Serial.status = "ok" => Serial.error = NoMessage
        /\ Serial.status = "failed" =>
             \E d \in Definitions : /\ Bad(d) /\ \A e \in 1 .. d - 1 : ~Bad(e)
                                    /\ Serial.error = ErrorOf(d, Stage(Main))
  BY <1>1, <1>3 DEF Scanned, Definitions
<1>7. collect /\ ~Throws =>
        /\ FoundUpTo[Len(program)] = FoundUpTo[1 - 1] \o Serial.collected
        /\ Serial.status = "failed" <=> Serial.collected # <<>>
        /\ Serial.status = "failed" => Serial.records = Serial.collected
  BY <1>1 DEF Scanned
<1>8. collect /\ ~Throws => FoundUpTo[Len(program)] = Serial.collected
  BY <1>4, <1>7
<1> HIDE <1>1
<1> QED BY <1>3, <1>5, <1>6, <1>7, <1>8

\* There is at most one first bad definition, and its message is the same for all
\* who do not throw.
LEMMA SameError ==
  ASSUME Parameters, ~Throws, NEW d \in Definitions, NEW e \in Definitions,
         Bad(d), \A f \in 1 .. d - 1 : ~Bad(f), Bad(e), \A f \in 1 .. e - 1 : ~Bad(f),
         NEW s, NEW t
  PROVE  d = e /\ ErrorOf(d, s) = ErrorOf(e, t)
<1>1. d \in Nat /\ e \in Nat /\ d >= 1 /\ e >= 1
  BY SMT DEF Definitions
<1>2. ~(d < e)
  <2>1. SUFFICES ASSUME d < e PROVE FALSE
    OBVIOUS
  <2>2. d \in 1 .. e - 1
    BY <1>1, <2>1, SMT
  <2> QED BY <2>2
<1>3. ~(e < d)
  <2>1. SUFFICES ASSUME e < d PROVE FALSE
    OBVIOUS
  <2>2. e \in 1 .. d - 1
    BY <1>1, <2>1, SMT
  <2> QED BY <2>2
<1>4. d = e
  BY <1>1, <1>2, <1>3, SMT
<1>5. program[d] \in {"rejected", "calls"}
  BY DEF Bad, Throws
<1>6. ErrorOf(d, s) = ErrorOf(d, t)
  BY <1>5 DEF ErrorOf
<1> QED BY <1>4, <1>6

\* The main validator's own pass gives the serial outcome.
LEMMA OwnPassAgrees ==
  ASSUME Parameters, NEW v, Scanned(v, 1, Len(program), Stage(Main)), v.status # "running"
  PROVE  Agrees(v)
<1>1. v \in ValidatorType
  BY DEF Scanned
<1>2. v.status \in {"ok", "failed"} /\ v.collected \in Seq(Messages)
  BY <1>1 DEF ValidatorType
<1>3. v.status = "failed" <=> \E d \in Definitions : Bad(d)
  BY <1>2 DEF Scanned, Definitions
<1>4. v.status = Serial.status
  BY <1>2, <1>3, SerialOutcome
<1>5. ASSUME ~Throws, ~collect PROVE v.error = Serial.error
  <2>1. CASE v.status = "ok"
    <3>1. v.error = NoMessage
      BY <1>5, <2>1 DEF Scanned
    <3> QED BY <1>4, <1>5, <2>1, <3>1, SerialOutcome
  <2>2. CASE v.status = "failed"
    <3>1. PICK d \in Definitions : /\ Bad(d) /\ \A e \in 1 .. d - 1 : ~Bad(e)
                                   /\ v.error = ErrorOf(d, Stage(Main))
      BY <1>5, <2>2 DEF Scanned, Definitions
    <3>2. PICK e \in Definitions : /\ Bad(e) /\ \A f \in 1 .. e - 1 : ~Bad(f)
                                   /\ Serial.error = ErrorOf(e, Stage(Main))
      BY <1>4, <1>5, <2>2, SerialOutcome
    <3>3. ErrorOf(d, Stage(Main)) = ErrorOf(e, Stage(Main))
      BY <1>5, <3>1, <3>2, SameError
    <3> QED BY <3>1, <3>2, <3>3
  <2> QED BY <1>2, <2>1, <2>2
<1>6. ASSUME ~Throws, collect, v.status = "failed" PROVE v.records = Serial.records
  <2>1. /\ FoundUpTo[Len(program)] = FoundUpTo[1 - 1] \o v.collected
        /\ v.records = v.collected
    BY <1>6 DEF Scanned
  <2>2. 1 - 1 = 0 /\ FoundUpTo[0] = <<>> /\ <<>> \o v.collected = v.collected
    BY <1>2, FoundRecursion, SMT
  <2>3. FoundUpTo[Len(program)] = v.collected
    BY <2>1, <2>2
  <2>4. Serial.records = FoundUpTo[Len(program)]
    BY <1>4, <1>6, SerialOutcome
  <2> QED BY <2>1, <2>3, <2>4
<1> QED BY <1>4, <1>5, <1>6 DEF Agrees

-----------------------------------------------------------------------------
(***************************************************************************)
(* The merge of the workers' results.                                      *)
(***************************************************************************)
\* A worker's chunk lies in the program.
LEMMA ChunkTypes ==
  ASSUME Parameters, workerCount > 0, NEW w \in Workers
  PROVE  /\ w \in 1 .. workerCount /\ w \in Nat /\ w # Main
         /\ ChunkOffset(w) \in Nat /\ ChunkSize(w) \in Nat \ {0}
         /\ LastOf(w) = ChunkOffset(w) + ChunkSize(w) /\ LastOf(w) \in Nat
         /\ ChunkOffset(w) + 1 \in Nat \ {0} /\ ChunkOffset(w) + 1 <= LastOf(w) + 1
         /\ LastOf(w) <= Len(program)
         /\ Stage(w) \in Stages
<1>1. /\ w \in 1 .. workerCount /\ ChunkSize(w) > 0 /\ workerCount \in Nat
      /\ Len(program) \in Nat
  BY DEF Workers, Parameters
<1>2. w \in Nat /\ w # Main
  BY <1>1, SMT DEF Main
<1>3. ChunkOffset(w) \in Nat /\ ChunkSize(w) \in Nat
  BY <1>1, ChunkBounds
<1>4. LastOf(w) = ChunkOffset(w) + ChunkSize(w)
  BY <1>2 DEF LastOf
<1>5. Stage(w) \in Stages
  BY <1>2 DEF Stage, Stages
<1>6. ChunkOffset(w) + ChunkSize(w) <= Len(program)
  <2>1. CASE w = workerCount
    <3>1. ChunkOffset(w) + ChunkSize(w) = Len(program)
      BY <2>1, ChunkBounds
    <3> QED BY <1>1, <3>1
  <2>2. CASE w # workerCount
    <3>1. w < workerCount /\ workerCount \in 1 .. workerCount
      BY <1>1, <2>2, SMT
    <3>2. ChunkOffset(w) + ChunkSize(w) <= ChunkOffset(workerCount)
      BY <1>1, <3>1, ChunkOrder
    <3>3. /\ ChunkOffset(workerCount) \in Nat /\ ChunkSize(workerCount) \in Nat
          /\ ChunkOffset(workerCount) + ChunkSize(workerCount) = Len(program)
      BY <3>1, ChunkBounds
    <3> QED BY <1>1, <1>3, <3>2, <3>3, SMT
  <2> QED BY <2>1, <2>2
<1> QED BY <1>1, <1>2, <1>3, <1>4, <1>5, <1>6, SMT

InChunk(v, w) == Scanned(v, ChunkOffset(w) + 1, LastOf(w), Stage(w))

Delivered ==
  /\ Parameters /\ workerCount > 1 /\ Len(program) >= 2
  /\ \A w \in Workers : InChunk(validators[w], w) /\ validators[w].status # "running"

\* A worker fails exactly when its chunk has a bad definition.
LEMMA WorkerVerdicts ==
  ASSUME Delivered
  PROVE  /\ \A w \in Workers : validators[w].status \in {"ok", "failed"}
         /\ FailedWorkers # {} <=> \E d \in Definitions : Bad(d)
         /\ \A w \in Workers : validators[w].status = "ok" =>
              \A d \in ChunkOffset(w) + 1 .. LastOf(w) : ~Bad(d)
<1>1. Parameters /\ workerCount > 0 /\ workerCount \in Nat /\ Len(program) \in Nat
  BY SMT DEF Delivered, Parameters
<1>2. \A w \in Workers : Scanned(validators[w], ChunkOffset(w) + 1, LastOf(w), Stage(w))
  BY DEF Delivered, InChunk
<1>3. \A w \in Workers : validators[w].status \in {"ok", "failed"}
  BY <1>2 DEF Delivered, Scanned, ValidatorType
<1>4. ASSUME NEW w \in Workers, validators[w].status = "ok",
             NEW d \in ChunkOffset(w) + 1 .. LastOf(w)
      PROVE  ~Bad(d)
  BY <1>2, <1>4 DEF Scanned
<1>5. ASSUME FailedWorkers # {} PROVE \E d \in Definitions : Bad(d)
  <2>1. PICK w \in Workers : validators[w].status = "failed"
    BY <1>5 DEF FailedWorkers
  <2>2. PICK d \in ChunkOffset(w) + 1 .. LastOf(w) : Bad(d)
    BY <1>2, <2>1 DEF Scanned
  <2>3. /\ ChunkOffset(w) \in Nat /\ LastOf(w) \in Nat /\ LastOf(w) <= Len(program)
    BY <1>1, ChunkTypes
  <2>4. d \in Definitions
    BY <1>1, <2>3, SMT DEF Definitions
  <2> QED BY <2>2, <2>4
<1>6. ASSUME NEW d \in Definitions, Bad(d) PROVE FailedWorkers # {}
  <2>1. PICK w \in Workers : ChunkOffset(w) < d /\ d <= ChunkOffset(w) + ChunkSize(w)
    BY <1>1, ChunksCover
  <2>2. /\ ChunkOffset(w) \in Nat /\ LastOf(w) \in Nat
        /\ LastOf(w) = ChunkOffset(w) + ChunkSize(w)
    BY <1>1, ChunkTypes
  <2>3. d \in ChunkOffset(w) + 1 .. LastOf(w)
    BY <2>1, <2>2, SMT DEF Definitions
  <2>4. validators[w].status = "failed"
    BY <1>3, <1>4, <1>6, <2>3
  <2> QED BY <2>4 DEF FailedWorkers
<1> QED BY <1>3, <1>4, <1>5, <1>6

\* Without collected diagnostics the first failed worker's error is the error of the
\* first bad definition.
LEMMA FirstFailureIsFirst ==
  ASSUME Delivered, ~collect, FailedWorkers # {}
  PROVE  \E d \in Definitions, stage \in Stages :
           /\ Bad(d) /\ \A e \in 1 .. d - 1 : ~Bad(e)
           /\ FirstFailure = ErrorOf(d, stage)
<1>1. Parameters /\ workerCount > 0 /\ workerCount \in Nat /\ Len(program) \in Nat
  BY SMT DEF Delivered, Parameters
<1>2. /\ Min(FailedWorkers) \in FailedWorkers
      /\ \A v \in FailedWorkers : Min(FailedWorkers) <= v
  <2>1. FailedWorkers \in SUBSET Nat
    BY <1>1, ChunkTypes DEF FailedWorkers
  <2>2. \E u \in FailedWorkers : \A v \in FailedWorkers : u <= v
    BY <2>1, LeastNatural
  <2> QED BY <2>2 DEF Min
<1> DEFINE w == Min(FailedWorkers)
<1>3. /\ w \in Workers /\ validators[w].status = "failed"
      /\ Scanned(validators[w], ChunkOffset(w) + 1, LastOf(w), Stage(w))
      /\ FirstFailure = validators[w].error
  BY <1>2 DEF FailedWorkers, Delivered, InChunk, FirstFailure
<1>4. \A v \in FailedWorkers : w <= v
  BY <1>2
<1> HIDE DEF w
<1>5. PICK d \in ChunkOffset(w) + 1 .. LastOf(w) :
             /\ Bad(d) /\ \A e \in ChunkOffset(w) + 1 .. d - 1 : ~Bad(e)
             /\ validators[w].error = ErrorOf(d, Stage(w))
  BY <1>3 DEF Scanned
<1>6. /\ ChunkOffset(w) \in Nat /\ LastOf(w) \in Nat /\ LastOf(w) <= Len(program)
      /\ w \in 1 .. workerCount /\ w \in Nat /\ Stage(w) \in Stages
  BY <1>1, <1>3, ChunkTypes
<1>7. d \in Definitions /\ d \in Nat /\ ChunkOffset(w) < d
  BY <1>1, <1>6, SMT DEF Definitions
<1>8. ASSUME NEW e \in 1 .. d - 1 PROVE ~Bad(e)
  <2>1. CASE e > ChunkOffset(w)
    <3>1. e \in ChunkOffset(w) + 1 .. d - 1
      BY <1>6, <1>7, <2>1, SMT
    <3> QED BY <1>5, <3>1
  <2>2. CASE ~(e > ChunkOffset(w))
    <3>1. e \in Definitions /\ e \in Nat
      BY <1>1, <1>7, SMT DEF Definitions
    <3>2. PICK v \in Workers : ChunkOffset(v) < e /\ e <= ChunkOffset(v) + ChunkSize(v)
      BY <1>1, <3>1, ChunksCover
    <3>3. /\ ChunkOffset(v) \in Nat /\ LastOf(v) \in Nat /\ v \in 1 .. workerCount /\ v \in Nat
          /\ LastOf(v) = ChunkOffset(v) + ChunkSize(v) /\ ChunkSize(w) \in Nat
      BY <1>1, <1>3, <3>2, ChunkTypes
    <3>4. ~(w < v)
      <4>1. SUFFICES ASSUME w < v PROVE FALSE
        OBVIOUS
      <4>2. ChunkOffset(w) + ChunkSize(w) <= ChunkOffset(v)
        BY <1>1, <1>6, <3>3, <4>1, ChunkOrder
      <4> QED BY <1>6, <2>2, <3>1, <3>2, <3>3, <4>2, SMT
    <3>5. v # w
      BY <1>6, <2>2, <3>1, <3>2, SMT
    <3>6. v \notin FailedWorkers
      BY <1>4, <1>6, <3>3, <3>4, <3>5, SMT
    <3>7. validators[v].status = "ok"
      BY <3>2, <3>6, WorkerVerdicts DEF FailedWorkers
    <3>8. e \in ChunkOffset(v) + 1 .. LastOf(v)
      BY <3>1, <3>2, <3>3, SMT
    <3> QED BY <3>7, <3>8, WorkerVerdicts
  <2> QED BY <2>1, <2>2
<1> QED BY <1>3, <1>5, <1>6, <1>7, <1>8

PartialSums(G, seqs, m) == G[1] = seqs[1] /\ \A i \in 2 .. m : G[i] = G[i - 1] \o seqs[i]

\* Putting sequences one after another.
LEMMA Flattened ==
  ASSUME NEW seqs, NEW m \in Nat \ {0}, Len(seqs) = m, NEW G, PartialSums(G, seqs, m)
  PROVE  FlattenSeq(seqs) = G[m]
<1> USE DEF PartialSums
<1> DEFINE Solves(f) == f = [i \in 1 .. Len(seqs) |-> IF i = 1 THEN seqs[i]
                                                     ELSE f[i - 1] \o seqs[i]]
<1> DEFINE flat == CHOOSE f : Solves(f)
<1>1. FlattenSeq(seqs) = flat[m]
  BY DEF FlattenSeq
<1>2. \E f : Solves(f)
  <2> DEFINE f == [i \in 1 .. m |-> G[i]]
  <2>1. \A i \in 1 .. m : i # 1 => i \in 2 .. m /\ i - 1 \in 1 .. m
    BY SMT
  <2>2. \A i \in 1 .. m : f[i] = IF i = 1 THEN seqs[i] ELSE f[i - 1] \o seqs[i]
    BY <2>1
  <2>3. Solves(f)
    BY <2>2
  <2> QED BY <2>3
<1>3. Solves(flat)
  <2> HIDE DEF Solves
  <2> QED BY <1>2
<1> HIDE DEF flat
<1>4. \A i \in 1 .. m : flat[i] = IF i = 1 THEN seqs[i] ELSE flat[i - 1] \o seqs[i]
  BY <1>3
<1> DEFINE S == {i \in Nat : i + 1 <= m => flat[i + 1] = G[i + 1]}
<1>5. 0 \in S
  BY <1>4, SMT
<1>6. ASSUME NEW i \in Nat, i \in S PROVE i + 1 \in S
  <2>1. SUFFICES ASSUME (i + 1) + 1 <= m PROVE flat[(i + 1) + 1] = G[(i + 1) + 1]
    OBVIOUS
  <2>2. /\ (i + 1) + 1 \in 2 .. m /\ (i + 1) + 1 \in 1 .. m /\ (i + 1) + 1 # 1
        /\ ((i + 1) + 1) - 1 = i + 1 /\ i + 1 <= m
    BY <2>1, SMT
  <2>3. flat[i + 1] = G[i + 1]
    BY <1>6, <2>2
  <2>4. flat[(i + 1) + 1] = flat[i + 1] \o seqs[(i + 1) + 1]
    BY <1>4, <2>2
  <2>5. G[(i + 1) + 1] = G[i + 1] \o seqs[(i + 1) + 1]
    BY <2>2
  <2> QED BY <2>3, <2>4, <2>5
<1>7. \A i \in Nat : i \in S
  <2> HIDE DEF S
  <2> QED BY <1>5, <1>6, SetInduction
<1>8. m - 1 \in Nat /\ (m - 1) + 1 = m /\ m <= m
  BY SMT
<1>9. flat[m] = G[m]
  BY <1>7, <1>8
<1> QED BY <1>1, <1>9

\* With collected diagnostics the merged records are those of all definitions, in
\* their order.
LEMMA MergedRecordsAll ==
  ASSUME Delivered, collect, ~Throws, ~Attempts
  PROVE  MergedRecords = FoundUpTo[Len(program)]
<1>1. /\ Parameters /\ workerCount > 0 /\ Len(program) > 0
      /\ workerCount \in Nat /\ Len(program) \in Nat
  BY SMT DEF Delivered, Parameters
<1>2. PICK m \in Nat \ {0} : /\ Workers = 1 .. m /\ m <= workerCount
                             /\ ChunkOffset(m) + ChunkSize(m) = Len(program)
                             /\ MergeOrder = [i \in 1 .. m |-> i]
  BY <1>1, WorkersCounted
<1> DEFINE G == [i \in 1 .. m |-> FoundUpTo[LastOf(i)]]
<1> DEFINE seqs == [i \in DOMAIN MergeOrder |-> WorkerRecords(MergeOrder[i])]
<1>3. seqs = [i \in 1 .. m |-> WorkerRecords(i)]
  BY <1>2
<1>4. ASSUME NEW w \in Workers
      PROVE  /\ FoundUpTo[LastOf(w)] = FoundUpTo[ChunkOffset(w)] \o WorkerRecords(w)
             /\ WorkerRecords(w) \in Seq(Messages)
  <2>1. Scanned(validators[w], ChunkOffset(w) + 1, LastOf(w), Stage(w))
        /\ validators[w].status # "running"
    BY DEF Delivered, InChunk
  <2>2. validators[w] \in ValidatorType
    BY <2>1 DEF Scanned
  <2>3. /\ validators[w].status \in {"ok", "failed"}
        /\ validators[w].collected \in Seq(Messages)
    BY <2>1, <2>2 DEF ValidatorType
  <2>4. /\ FoundUpTo[LastOf(w)] = FoundUpTo[(ChunkOffset(w) + 1) - 1] \o validators[w].collected
        /\ validators[w].status = "failed" <=> validators[w].collected # <<>>
        /\ validators[w].status = "failed" => validators[w].records = validators[w].collected
        /\ validators[w].collected = <<>> => validators[w].records = <<>>
    BY <2>1 DEF Scanned
  <2>5. (ChunkOffset(w) + 1) - 1 = ChunkOffset(w)
    BY <1>1, ChunkTypes, SMT
  <2>6. WorkerRecords(w) = validators[w].collected
    BY <2>3, <2>4 DEF WorkerRecords
  <2> QED BY <2>3, <2>4, <2>5, <2>6
<1>5. G[1] = seqs[1]
  <2>1. 1 \in 1 .. m /\ 1 \in Workers
    BY <1>2, SMT
  <2>2. ChunkOffset(1) = 0 /\ FoundUpTo[0] = <<>>
    BY <1>1, ChunkBounds, FoundRecursion
  <2>3. /\ FoundUpTo[LastOf(1)] = <<>> \o WorkerRecords(1)
        /\ WorkerRecords(1) \in Seq(Messages)
    BY <1>4, <2>1, <2>2
  <2>4. <<>> \o WorkerRecords(1) = WorkerRecords(1)
    BY <2>3, SMT
  <2> QED BY <1>3, <2>1, <2>3, <2>4
<1>6. ASSUME NEW i \in 2 .. m PROVE G[i] = G[i - 1] \o seqs[i]
  <2>1. /\ i \in 1 .. m /\ i - 1 \in 1 .. m /\ i \in Workers /\ i - 1 \in Workers
        /\ (i - 1) + 1 = i /\ i - 1 \in 1 .. workerCount
    BY <1>1, <1>2, SMT
  <2>2. ChunkOffset((i - 1) + 1) = ChunkOffset(i - 1) + ChunkSize(i - 1)
    BY <1>1, <2>1, ChunkBounds
  <2>3. LastOf(i - 1) = ChunkOffset(i - 1) + ChunkSize(i - 1)
    BY <1>1, <2>1, ChunkTypes
  <2>4. ChunkOffset(i) = LastOf(i - 1)
    BY <2>1, <2>2, <2>3
  <2>5. FoundUpTo[LastOf(i)] = FoundUpTo[LastOf(i - 1)] \o WorkerRecords(i)
    BY <1>4, <2>1, <2>4
  <2> QED BY <1>3, <2>1, <2>5
<1>7. Len(seqs) = m
  BY <1>3, SMT
<1>8. G[m] = FoundUpTo[Len(program)]
  <2>1. m \in 1 .. m /\ m \in Workers
    BY <1>2, SMT
  <2>2. LastOf(m) = Len(program)
    BY <1>1, <1>2, <2>1, ChunkTypes
  <2> QED BY <2>1, <2>2
<1>9. MergedRecords = FlattenSeq(seqs)
  BY DEF MergedRecords
<1> HIDE DEF G, seqs
<1>10. PartialSums(G, seqs, m)
  BY <1>5, <1>6 DEF PartialSums
<1>11. FlattenSeq(seqs) = G[m]
  BY <1>7, <1>10, Flattened
<1> QED BY <1>8, <1>9, <1>11

\* The outcome of the merge agrees with the serial pass's.
LEMMA MergeAgrees ==
  ASSUME Delivered, Main \in DOMAIN validators, validators[Main] = Validator(1), Merge
  PROVE  Agrees(validators'[Main]) /\ phase' = "done" /\ UNCHANGED input
<1> DEFINE v == validators[Main]
<1> DEFINE merged == Finalize(v, MergedRecords)
<1> DEFINE outcome == validators'[Main]
<1>1. /\ Parameters /\ collect \in BOOLEAN
      /\ v = [error |-> NoMessage, records |-> inferred, collected |-> <<>>,
              next |-> 1, status |-> "running"]
  BY DEF Delivered, Validator, Parameters
<1>2. phase' = "done" /\ UNCHANGED input
  BY DEF Merge
<1>4. \/ /\ merged.status = "failed" /\ outcome = merged
      \/ /\ merged.status = "ok" /\ FailedWorkers # {}
         /\ outcome.error = FirstFailure /\ outcome.status = "failed"
      \/ /\ merged.status = "ok" /\ FailedWorkers = {} /\ outcome = merged
  <2>1. CASE merged.status = "failed" /\ validators' = [validators EXCEPT ![Main] = merged]
    BY <2>1
  <2>2. CASE /\ merged.status = "ok" /\ FailedWorkers # {}
             /\ validators' = [validators EXCEPT
                                 ![Main] = [@ EXCEPT !.error = FirstFailure, !.status = "failed"]]
    <3>1. outcome = [v EXCEPT !.error = FirstFailure, !.status = "failed"]
      BY <2>2
    <3> QED BY <1>1, <2>2, <3>1
  <2>3. CASE /\ merged.status = "ok" /\ FailedWorkers = {}
             /\ validators' = [validators EXCEPT ![Main] = merged]
    BY <2>3
  <2> QED BY <2>1, <2>2, <2>3 DEF Merge
<1> HIDE DEF outcome
<1>5. /\ collect /\ MergedRecords # <<>> =>
           merged.status = "failed" /\ merged.records = MergedRecords
      /\ ~(collect /\ MergedRecords # <<>>) => merged.status = "ok" /\ merged.error = NoMessage
  BY <1>1 DEF Finalize
<1>6. /\ Serial.status \in {"ok", "failed"}
      /\ Serial.status = "failed" <=> FailedWorkers # {}
  BY <1>1, SerialOutcome, WorkerVerdicts
<1> HIDE DEF merged, v
<1>7. Serial.status = "failed" => outcome.status = "failed"
  BY <1>4, <1>6
<1>8. ASSUME ~Throws, ~collect PROVE outcome.status = Serial.status /\ outcome.error = Serial.error
  <2>1. merged.status = "ok" /\ merged.error = NoMessage
    BY <1>5, <1>8
  <2>2. CASE FailedWorkers = {}
    <3>1. outcome = merged /\ Serial.status = "ok"
      BY <1>4, <1>6, <2>1, <2>2
    <3>2. Serial.error = NoMessage
      BY <1>1, <1>8, <3>1, SerialOutcome
    <3> QED BY <2>1, <3>1, <3>2
  <2>3. CASE FailedWorkers # {}
    <3>1. outcome.error = FirstFailure /\ outcome.status = "failed" /\ Serial.status = "failed"
      BY <1>4, <1>6, <2>1, <2>3
    <3>2. PICK d \in Definitions, stage \in Stages :
             /\ Bad(d) /\ \A e \in 1 .. d - 1 : ~Bad(e)
             /\ FirstFailure = ErrorOf(d, stage)
      BY <1>8, <2>3, FirstFailureIsFirst
    <3>3. PICK e \in Definitions : /\ Bad(e) /\ \A f \in 1 .. e - 1 : ~Bad(f)
                                   /\ Serial.error = ErrorOf(e, Stage(Main))
      BY <1>1, <1>8, <3>1, SerialOutcome
    <3>4. ErrorOf(d, stage) = ErrorOf(e, Stage(Main))
      BY <1>1, <1>8, <3>2, <3>3, SameError
    <3> QED BY <3>1, <3>2, <3>3, <3>4
  <2> QED BY <2>2, <2>3
<1>9. ASSUME ~Throws, collect, ~Attempts
      PROVE  /\ outcome.status = Serial.status
             /\ outcome.status = "failed" => outcome.records = Serial.records
  <2>1. MergedRecords = FoundUpTo[Len(program)]
    BY <1>9, MergedRecordsAll
  <2>2. /\ Serial.status = "failed" <=> MergedRecords # <<>>
        /\ Serial.status = "failed" => Serial.records = MergedRecords
    BY <1>1, <1>9, <2>1, SerialOutcome
  <2>3. CASE MergedRecords # <<>>
    <3>1. outcome = merged /\ merged.status = "failed" /\ merged.records = MergedRecords
      BY <1>4, <1>5, <1>9, <2>3
    <3> QED BY <2>2, <2>3, <3>1
  <2>4. CASE MergedRecords = <<>>
    <3>1. outcome = merged /\ merged.status = "ok" /\ Serial.status = "ok"
      BY <1>4, <1>5, <1>6, <2>2, <2>4
    <3> QED BY <3>1
  <2> QED BY <2>3, <2>4
<1>10. Agrees(outcome)
  BY <1>1, <1>7, <1>8, <1>9 DEF Agrees
<1> QED BY <1>2, <1>10 DEF outcome

-----------------------------------------------------------------------------
(***************************************************************************)
(* The invariant.                                                          *)
(***************************************************************************)
ValidationInv ==
  /\ Parameters
  /\ Main \in DOMAIN validators
  /\ validators = [w \in DOMAIN validators |-> validators[w]]
  /\ phase \in {"start", "serial", "parallel", "done", "published"}
  /\ phase \in {"start", "serial"} => DOMAIN validators = {Main}
  /\ phase \in {"start", "parallel"} => validators[Main] = Validator(1)
  /\ phase \in {"start", "serial"} => finished = <<>>
  /\ phase = "serial" => Scanned(validators[Main], 1, Len(program), Stage(Main))
  /\ phase = "parallel" =>
       /\ workerCount > 1 /\ Len(program) >= 2
       /\ DOMAIN validators = {Main} \cup Workers
       /\ finished \in Seq(Workers)
       /\ \A w \in Workers : InChunk(validators[w], w)
       /\ \A w \in ToSet(finished) : validators[w].status # "running"
  /\ phase = "done" => Agrees(validators[Main])

\* What depends on the input alone stays as it is.
LEMMA InputUnchanged ==
  ASSUME UNCHANGED input
  PROVE  /\ program' = program /\ collect' = collect /\ workerCount' = workerCount
         /\ Parameters' <=> Parameters
         /\ Workers' = Workers
         /\ Serial' = Serial
         /\ \A f : Validator(f)' = Validator(f)
         /\ \A v, f, l, s : Scanned(v, f, l, s)' <=> Scanned(v, f, l, s)
         /\ \A v, w : InChunk(v, w)' <=> InChunk(v, w)
         /\ \A v : Agrees(v)' <=> Agrees(v)
<1>1. /\ program' = program /\ collect' = collect /\ workerCount' = workerCount
      /\ inferred' = inferred
  BY DEF input
<1>2. Definitions' = Definitions /\ Messages' = Messages /\ ValidatorType' = ValidatorType
  BY <1>1 DEF Definitions, Messages, ValidatorType
<1>3. (Parameters' <=> Parameters) /\ (Throws' <=> Throws) /\ (Attempts' <=> Attempts)
  BY <1>1, <1>2 DEF Parameters, Throws, Attempts
<1>4. /\ \A d : Bad(d)' <=> Bad(d)
      /\ \A d, s : ErrorOf(d, s)' = ErrorOf(d, s)
      /\ \A d : Found(d)' = Found(d)
  BY <1>1 DEF Bad, ErrorOf, Found
<1>5. FoundUpTo' = FoundUpTo
  BY <1>1 DEF FoundUpTo, Found
<1>6. /\ \A w : ChunkOffset(w)' = ChunkOffset(w) /\ ChunkSize(w)' = ChunkSize(w)
      /\ Workers' = Workers /\ \A w : LastOf(w)' = LastOf(w)
  BY <1>1 DEF ChunkOffset, ChunkSize, Workers, LastOf
<1>7. \A f : Validator(f)' = Validator(f)
  BY <1>1 DEF Validator
<1>8. \A v, f, l, s : Scanned(v, f, l, s)' <=> Scanned(v, f, l, s)
  <2> TAKE v, f, l, s
  <2> QED BY <1>1, <1>2, <1>3, <1>4, <1>5, Zenon DEF Scanned
<1>9. \A v, w : InChunk(v, w)' <=> InChunk(v, w)
  BY <1>6, <1>8 DEF InChunk
<1>10. Serial' = Serial
  BY <1>1 DEF Serial, Validator, ValidateDefinition, Attempt, Reject, CollectCalls, Catch,
     MoveCurrentDiagnostic, RememberFirst, Published, Finalize
<1>11. \A v : Agrees(v)' <=> Agrees(v)
  BY <1>1, <1>3, <1>10 DEF Agrees
<1> QED BY <1>1, <1>3, <1>6, <1>7, <1>8, <1>9, <1>10, <1>11

\* The initial states.
LEMMA InitValidation == Init => ValidationInv
<1> SUFFICES ASSUME Init PROVE ValidationInv
  OBVIOUS
<1>1. program \in Seq(Behaviours)
  <2>1. program \in UNION {[1 .. m -> Behaviours] : m \in 0 .. MaxDefinitions}
    BY DEF Init, BoundedSeq, SeqOf
  <2>2. PICK m \in 0 .. MaxDefinitions : program \in [1 .. m -> Behaviours]
    BY <2>1
  <2>3. m \in Nat
    BY CountsAssumption, SMT
  <2> QED BY <2>2, <2>3, SMT
<1>2. collect \in BOOLEAN /\ workerCount \in Nat
  BY CountsAssumption DEF Init
<1>3. inferred \in Seq(Messages) /\ (~collect => inferred = <<>>)
  <2>1. <<>> \in Seq(Messages) /\ <<Message("attempt", 0)>> \in Seq(Messages)
    BY MessageTypes, SMT
  <2> QED BY <2>1 DEF Init
<1>4. /\ validators = [w \in {Main} |-> Validator(1)] /\ phase = "start" /\ finished = <<>>
  BY DEF Init
<1>5. /\ Main \in DOMAIN validators /\ DOMAIN validators = {Main}
      /\ validators = [w \in DOMAIN validators |-> validators[w]]
      /\ validators[Main] = Validator(1)
  BY <1>4
<1> QED BY <1>1, <1>2, <1>3, <1>4, <1>5 DEF ValidationInv, Parameters

\* The serial pass begins.
LEMMA ValidateSeriallyInv ==
  ASSUME ValidationInv, ValidateSerially
  PROVE  ValidationInv'
<1>1. /\ phase = "start" /\ phase' = "serial" /\ UNCHANGED input
      /\ validators' = validators /\ finished' = finished
  BY DEF ValidateSerially
<1>2. Parameters /\ Len(program) \in Nat /\ Stage(Main) \in Stages
  BY DEF ValidationInv, Parameters, Stage, Stages
<1>3. Scanned(validators[Main], 1, Len(program), Stage(Main))
  <2>1. Scanned(Validator(1), 1, Len(program), Stage(Main))
    BY <1>2, BeginScanned, SMT
  <2> QED BY <1>1, <2>1 DEF ValidationInv
<1>4. program' = program /\ Parameters'
      /\ \A v, f, l, s : Scanned(v, f, l, s)' <=> Scanned(v, f, l, s)
  BY <1>1, <1>2, InputUnchanged
<1>5. \A v : v = validators' [Main] => Scanned(v, 1, Len(program), Stage(Main))'
  BY <1>1, <1>3, <1>4
<1> QED BY <1>1, <1>4, <1>5 DEF ValidationInv

\* Each worker begins at its chunk's first definition.
LEMMA LaunchWorkersInv ==
  ASSUME ValidationInv, LaunchWorkers
  PROVE  ValidationInv'
<1>1. /\ phase = "start" /\ phase' = "parallel" /\ UNCHANGED input
      /\ workerCount > 1 /\ Len(program) >= 2 /\ finished' = finished /\ finished = <<>>
      /\ validators[Main] = Validator(1)
      /\ validators' = [w \in {Main} \cup Workers |->
                          IF w = Main THEN validators[Main] ELSE Validator(ChunkOffset(w) + 1)]
  BY DEF LaunchWorkers, ValidationInv
<1>2. Parameters /\ workerCount \in Nat /\ workerCount > 0
  BY <1>1, SMT DEF ValidationInv, Parameters
<1>3. ASSUME NEW w \in Workers PROVE InChunk(validators'[w], w)
  <2>1. validators'[w] = Validator(ChunkOffset(w) + 1)
    BY <1>1, <1>2, ChunkTypes
  <2>2. Scanned(Validator(ChunkOffset(w) + 1), ChunkOffset(w) + 1, LastOf(w), Stage(w))
    BY <1>2, ChunkTypes, BeginScanned
  <2> QED BY <2>1, <2>2 DEF InChunk
<1>4. /\ program' = program /\ workerCount' = workerCount /\ Parameters' /\ Workers' = Workers
      /\ \A f : Validator(f)' = Validator(f)
      /\ \A v, w : InChunk(v, w)' <=> InChunk(v, w)
  BY <1>1, <1>2, InputUnchanged
<1>5. \A w \in Workers : \A v : v = validators'[w] => InChunk(v, w)'
  BY <1>3, <1>4
<1>6. /\ finished' \in Seq(Workers) /\ finished' = <<>> /\ ToSet(finished') = {}
  BY <1>1 DEF ToSet
<1>7. /\ DOMAIN validators' = {Main} \cup Workers /\ validators'[Main] = Validator(1)
      /\ validators' = [w \in DOMAIN validators' |-> validators'[w]]
  BY <1>1
<1> QED BY <1>1, <1>4, <1>5, <1>6, <1>7 DEF ValidationInv, ToSet

\* One validator goes on by one definition.
LEMMA ValidateNextInv ==
  ASSUME ValidationInv, NEW w \in DOMAIN validators, ValidateNext(w)
  PROVE  ValidationInv'
<1>1. /\ UNCHANGED input /\ phase' = phase /\ finished' = finished
      /\ validators[w].status = "running" /\ validators[w].next <= LastOf(w)
      /\ (w = Main) = (phase = "serial") /\ phase \in {"serial", "parallel"}
      /\ validators' = [validators EXCEPT
                          ![w] = ValidateDefinition(validators[w], validators[w].next, Stage(w))]
  BY DEF ValidateNext, Active
<1>2. Parameters /\ Len(program) \in Nat /\ workerCount \in Nat
  BY DEF ValidationInv, Parameters
<1>3. /\ program' = program /\ workerCount' = workerCount /\ Parameters' /\ Workers' = Workers
      /\ \A f : Validator(f)' = Validator(f)
      /\ \A v, f, l, s : Scanned(v, f, l, s)' <=> Scanned(v, f, l, s)
      /\ \A v, x : InChunk(v, x)' <=> InChunk(v, x)
  BY <1>1, <1>2, InputUnchanged
<1>4. /\ DOMAIN validators' = DOMAIN validators
      /\ validators' = [x \in DOMAIN validators' |-> validators'[x]]
      /\ validators'[w] = ValidateDefinition(validators[w], validators[w].next, Stage(w))
      /\ \A x \in DOMAIN validators : x # w => validators'[x] = validators[x]
  BY <1>1 DEF ValidationInv
<1>5. CASE phase = "serial"
  <2>1. w = Main /\ DOMAIN validators = {Main} /\ finished = <<>>
        /\ Scanned(validators[Main], 1, Len(program), Stage(Main))
    BY <1>1, <1>5 DEF ValidationInv
  <2>2. LastOf(Main) = Len(program) /\ Stage(Main) \in Stages
    BY DEF LastOf, Stage, Stages
  <2>3. Scanned(validators'[Main], 1, Len(program), Stage(Main))
    <3>1. validators[Main].next <= Len(program) /\ 1 \in Nat \ {0} /\ Len(program) <= Len(program)
      BY <1>1, <1>2, <2>1, <2>2, SMT
    <3>2. Scanned(ValidateDefinition(validators[Main], validators[Main].next, Stage(Main)),
                  1, Len(program), Stage(Main))
      BY <1>1, <1>2, <2>1, <2>2, <3>1, StepScanned
    <3> QED BY <1>4, <2>1, <3>2
  <2>4. \A v : v = validators'[Main] => Scanned(v, 1, Len(program), Stage(Main))'
    BY <1>3, <2>3
  <2> QED BY <1>1, <1>3, <1>4, <1>5, <2>1, <2>4 DEF ValidationInv
<1>6. CASE phase = "parallel"
  <2>1. /\ workerCount > 1 /\ Len(program) >= 2 /\ DOMAIN validators = {Main} \cup Workers
        /\ validators[Main] = Validator(1) /\ finished \in Seq(Workers)
        /\ \A x \in Workers : InChunk(validators[x], x)
        /\ \A x \in ToSet(finished) : validators[x].status # "running"
        /\ w # Main /\ w \in Workers
    BY <1>1, <1>6 DEF ValidationInv
  <2>2. /\ ChunkOffset(w) + 1 \in Nat \ {0} /\ LastOf(w) \in Nat /\ LastOf(w) <= Len(program)
        /\ Stage(w) \in Stages
    BY <1>2, <2>1, ChunkTypes, SMT
  <2>3. InChunk(validators'[w], w)
    <3>1. Scanned(validators[w], ChunkOffset(w) + 1, LastOf(w), Stage(w))
      BY <2>1 DEF InChunk
    <3>2. Scanned(ValidateDefinition(validators[w], validators[w].next, Stage(w)),
                  ChunkOffset(w) + 1, LastOf(w), Stage(w))
      BY <1>1, <1>2, <2>2, <3>1, StepScanned
    <3> QED BY <1>4, <3>2 DEF InChunk
  <2>4. \A x \in Workers : InChunk(validators'[x], x)
    BY <1>4, <2>1, <2>3
  <2>5. \A x \in Workers : \A v : v = validators'[x] => InChunk(v, x)'
    BY <1>3, <2>4
  <2>6. \A x \in ToSet(finished) : x \in Workers
    BY <2>1, SMT DEF ToSet
  <2>7. \A x \in ToSet(finished) : validators'[x].status # "running"
    BY <1>1, <1>4, <2>1, <2>6
  <2>8. validators'[Main] = Validator(1)
    BY <1>4, <2>1
  <2>9. ToSet(finished') = ToSet(finished)
    BY <1>1
  <2> QED BY <1>1, <1>3, <1>4, <1>6, <2>1, <2>5, <2>7, <2>8, <2>9 DEF ValidationInv
<1> QED BY <1>1, <1>5, <1>6

\* One pass ends; the main validator's gives the outcome.
LEMMA FinishPassInv ==
  ASSUME ValidationInv, NEW w \in DOMAIN validators, FinishPass(w)
  PROVE  ValidationInv'
<1>1. /\ UNCHANGED input /\ finished' = Append(finished, w)
      /\ phase' = IF w = Main THEN "done" ELSE phase
      /\ (w = Main) = (phase = "serial") /\ phase \in {"serial", "parallel"}
      /\ \/ /\ validators[w].status = "running" /\ validators[w].next > LastOf(w)
            /\ validators' = [validators EXCEPT
                                ![w] = Finalize(validators[w], validators[w].collected)]
         \/ validators[w].status = "failed" /\ validators' = validators
  BY DEF FinishPass, Active
<1>2. Parameters /\ Len(program) \in Nat /\ workerCount \in Nat
  BY DEF ValidationInv, Parameters
<1>3. /\ program' = program /\ workerCount' = workerCount /\ Parameters' /\ Workers' = Workers
      /\ \A f : Validator(f)' = Validator(f)
      /\ \A v, x : InChunk(v, x)' <=> InChunk(v, x)
      /\ \A v : Agrees(v)' <=> Agrees(v)
  BY <1>1, <1>2, InputUnchanged
<1>4. /\ DOMAIN validators' = DOMAIN validators
      /\ validators' = [x \in DOMAIN validators' |-> validators'[x]]
      /\ \A x \in DOMAIN validators : x # w => validators'[x] = validators[x]
      /\ \/ /\ validators[w].status = "running" /\ validators[w].next > LastOf(w)
            /\ validators'[w] = Finalize(validators[w], validators[w].collected)
         \/ validators[w].status = "failed" /\ validators'[w] = validators[w]
  BY <1>1 DEF ValidationInv
<1>5. ASSUME NEW first \in Nat \ {0}, NEW last \in Nat, first <= last + 1, last = LastOf(w),
             Stage(w) \in Stages, Scanned(validators[w], first, last, Stage(w))
      PROVE  /\ Scanned(validators'[w], first, last, Stage(w))
             /\ validators'[w].status # "running"
  <2>1. CASE validators[w].status = "failed" /\ validators'[w] = validators[w]
    BY <1>5, <2>1
  <2>2. CASE /\ validators[w].status = "running" /\ validators[w].next > LastOf(w)
             /\ validators'[w] = Finalize(validators[w], validators[w].collected)
    <3>1. /\ Scanned(Finalize(validators[w], validators[w].collected), first, last, Stage(w))
          /\ Finalize(validators[w], validators[w].collected).status # "running"
      BY <1>2, <1>5, <2>2, FinalizeScanned
    <3> QED BY <2>2, <3>1
  <2> QED BY <1>4, <2>1, <2>2
<1>6. CASE phase = "serial"
  <2>1. w = Main /\ DOMAIN validators = {Main}
        /\ Scanned(validators[Main], 1, Len(program), Stage(Main))
    BY <1>1, <1>6 DEF ValidationInv
  <2>2. LastOf(Main) = Len(program) /\ Stage(Main) \in Stages /\ 1 <= Len(program) + 1
    BY <1>2, SMT DEF LastOf, Stage, Stages
  <2>3. /\ Scanned(validators'[Main], 1, Len(program), Stage(Main))
        /\ validators'[Main].status # "running"
    BY <1>2, <1>5, <2>1, <2>2
  <2>4. Agrees(validators'[Main])
    BY <1>2, <2>3, OwnPassAgrees
  <2>5. \A v : v = validators'[Main] => Agrees(v)'
    BY <1>3, <2>4
  <2> QED BY <1>1, <1>3, <1>4, <2>1, <2>5 DEF ValidationInv
<1>7. CASE phase = "parallel"
  <2>1. /\ workerCount > 1 /\ Len(program) >= 2 /\ DOMAIN validators = {Main} \cup Workers
        /\ validators[Main] = Validator(1) /\ finished \in Seq(Workers)
        /\ \A x \in Workers : InChunk(validators[x], x)
        /\ \A x \in ToSet(finished) : validators[x].status # "running"
        /\ w # Main /\ w \in Workers
    BY <1>1, <1>7 DEF ValidationInv
  <2>2. /\ ChunkOffset(w) + 1 \in Nat \ {0} /\ LastOf(w) \in Nat
        /\ ChunkOffset(w) + 1 <= LastOf(w) + 1 /\ Stage(w) \in Stages
    BY <1>2, <2>1, ChunkTypes, SMT
  <2>3. InChunk(validators'[w], w) /\ validators'[w].status # "running"
    BY <1>5, <2>1, <2>2 DEF InChunk
  <2>4. \A x \in Workers : InChunk(validators'[x], x)
    BY <1>4, <2>1, <2>3
  <2>5. \A x \in Workers : \A v : v = validators'[x] => InChunk(v, x)'
    BY <1>3, <2>4
  <2>6. finished' \in Seq(Workers)
    BY <1>1, <2>1, SMT
  <2>7. \A x \in ToSet(finished') : x = w \/ x \in ToSet(finished)
    BY <1>1, <2>1, SMT DEF ToSet
  <2>8. \A x \in ToSet(finished) : x \in Workers
    BY <2>1, SMT DEF ToSet
  <2>9. \A x \in ToSet(finished') : validators'[x].status # "running"
    <3>1. \A x \in ToSet(finished) : x # w => validators'[x] = validators[x]
      BY <1>4, <2>1, <2>8
    <3> QED BY <2>1, <2>3, <2>7, <3>1
  <2>10. validators'[Main] = Validator(1)
    BY <1>4, <2>1
  <2>11. phase' = "parallel"
    BY <1>1, <1>7, <2>1
  <2>12. ToSet(finished)' = ToSet(finished')
    OBVIOUS
  <2> QED BY <1>3, <1>4, <2>1, <2>5, <2>6, <2>9, <2>10, <2>11, <2>12 DEF ValidationInv
<1> QED BY <1>1, <1>6, <1>7

\* The merge gives the outcome.
LEMMA MergeInv ==
  ASSUME ValidationInv, Merge
  PROVE  ValidationInv'
<1>1. phase = "parallel" /\ phase' = "done" /\ Workers \subseteq ToSet(finished) /\ finished' = finished
  BY DEF Merge, AllDelivered
<1>2. /\ Parameters /\ workerCount > 1 /\ Len(program) >= 2
      /\ DOMAIN validators = {Main} \cup Workers /\ validators[Main] = Validator(1)
      /\ \A w \in Workers : InChunk(validators[w], w) /\ validators[w].status # "running"
  BY <1>1 DEF ValidationInv
<1>3. Agrees(validators'[Main]) /\ UNCHANGED input
  BY <1>2, MergeAgrees DEF Delivered
<1>4. Parameters' /\ \A v : Agrees(v)' <=> Agrees(v)
  BY <1>2, <1>3, InputUnchanged
<1>5. \A v : v = validators'[Main] => Agrees(v)'
  BY <1>3, <1>4
<1>6. /\ DOMAIN validators' = DOMAIN validators
      /\ validators' = [x \in DOMAIN validators' |-> validators'[x]]
  <2>1. PICK x : validators' = [validators EXCEPT ![Main] = x]
    BY DEF Merge
  <2> QED BY <2>1
<1> QED BY <1>1, <1>2, <1>4, <1>5, <1>6 DEF ValidationInv

\* ValidationInv holds whatever the interleaving.
LEMMA ValidationInvariant == Spec => []ValidationInv
<1>1. ASSUME ValidationInv, [Next]_vars PROVE ValidationInv'
  <2>1. CASE ValidateSerially
    BY <1>1, <2>1, ValidateSeriallyInv
  <2>2. CASE LaunchWorkers
    BY <1>1, <2>2, LaunchWorkersInv
  <2>3. CASE \E w \in DOMAIN validators : Work(w)
    <3>1. PICK w \in DOMAIN validators : ValidateNext(w) \/ FinishPass(w)
      BY <2>3 DEF Work
    <3> QED BY <1>1, <3>1, ValidateNextInv, FinishPassInv
  <2>4. CASE Merge
    BY <1>1, <2>4, MergeInv
  <2>5. CASE Publish
    <3>1. /\ phase' = "published" /\ UNCHANGED input /\ validators' = validators
      BY <2>5 DEF Publish
    <3>2. Parameters'
      BY <1>1, <3>1, InputUnchanged DEF ValidationInv
    <3> QED BY <1>1, <3>1, <3>2 DEF ValidationInv
  <2>6. CASE UNCHANGED vars
    <3>1. /\ UNCHANGED input /\ phase' = phase /\ validators' = validators /\ finished' = finished
      BY <2>6 DEF vars
    <3>2. /\ Parameters' /\ program' = program /\ workerCount' = workerCount /\ Workers' = Workers
          /\ \A f : Validator(f)' = Validator(f)
          /\ \A v, f, l, s : Scanned(v, f, l, s)' <=> Scanned(v, f, l, s)
          /\ \A v, x : InChunk(v, x)' <=> InChunk(v, x)
          /\ \A v : Agrees(v)' <=> Agrees(v)
      BY <1>1, <3>1, InputUnchanged DEF ValidationInv
    <3>3. /\ phase = "serial" => \A v : v = validators'[Main] => Scanned(v, 1, Len(program), Stage(Main))'
          /\ phase = "parallel" =>
               \A x \in Workers : \A v : v = validators'[x] => InChunk(v, x)'
          /\ phase = "done" => \A v : v = validators'[Main] => Agrees(v)'
      BY <1>1, <3>1, <3>2 DEF ValidationInv
    <3>4. ToSet(finished)' = ToSet(finished)
      BY <3>1
    <3> QED BY <1>1, <3>1, <3>2, <3>3, <3>4 DEF ValidationInv
  <2> QED BY <1>1, <2>1, <2>2, <2>3, <2>4, <2>5, <2>6 DEF Next
<1> QED BY InitValidation, <1>1, PTL DEF Spec

-----------------------------------------------------------------------------
\* However many workers there are and in whatever order they finish, the outcome of
\* the merge is the serial pass's: its verdict and error, or its collected records,
\* unless a definition throws or a failed attempt was recorded (validateDefinitions).
THEOREM WorkersAgreeWithSerial == Spec => []SameAsSerial
<1>1. ValidationInv => SameAsSerial
  BY DEF ValidationInv, Agrees, SameAsSerial, Outcome
<1> QED BY ValidationInvariant, <1>1, PTL

\* Workers never accept a program that the serial pass rejects, also when a
\* definition throws (runStage, validateDefinitions).
THEOREM WorkersNeverMorePermissive == Spec => []NeverMorePermissive
<1>1. ValidationInv => NeverMorePermissive
  BY DEF ValidationInv, Agrees, NeverMorePermissive, Outcome
<1> QED BY ValidationInvariant, <1>1, PTL

-----------------------------------------------------------------------------
(***************************************************************************)
(* Where the elements of sequences put one after another come from.        *)
(***************************************************************************)
\* x is the a-th element of the i-th sequence.
At(seqs, i, a, x) == a \in DOMAIN seqs[i] /\ x = seqs[i][a]

\* s is made of the first i sequences, and no element is forgotten.
MadeOf(s, seqs, i) ==
  /\ \A k \in DOMAIN s : \E i1 \in 1 .. i, a \in Nat : At(seqs, i1, a, s[k])
  /\ \A i1 \in 1 .. i, a \in Nat : \A x : At(seqs, i1, a, x) => x \in ToSet(s)
  /\ \A j, k \in DOMAIN s : j < k =>
       \E i1 \in 1 .. i, i2 \in 1 .. i, a \in Nat, b \in Nat :
         /\ At(seqs, i1, a, s[j]) /\ At(seqs, i2, b, s[k])
         /\ i1 < i2 \/ (i1 = i2 /\ a < b)

\* The elements of two sequences put together.
LEMMA Together ==
  ASSUME NEW T, NEW s \in Seq(T), NEW t \in Seq(T)
  PROVE  /\ s \o t \in Seq(T) /\ Len(s \o t) = Len(s) + Len(t)
         /\ \A k \in DOMAIN s : k \in DOMAIN (s \o t) /\ (s \o t)[k] = s[k]
         /\ \A k \in DOMAIN t : Len(s) + k \in DOMAIN (s \o t) /\ (s \o t)[Len(s) + k] = t[k]
         /\ \A k \in DOMAIN (s \o t) :
              \/ k \in DOMAIN s /\ k <= Len(s)
              \/ k - Len(s) \in DOMAIN t /\ k = Len(s) + (k - Len(s)) /\ Len(s) < k
<1>1. s \o t \in Seq(T) /\ Len(s \o t) = Len(s) + Len(t)
  BY SMT
<1>2. DOMAIN s = 1 .. Len(s) /\ DOMAIN t = 1 .. Len(t) /\ DOMAIN (s \o t) = 1 .. Len(s) + Len(t)
      /\ Len(s) \in Nat /\ Len(t) \in Nat
  BY SMT
<1>3. \A k \in DOMAIN s : k \in DOMAIN (s \o t) /\ (s \o t)[k] = s[k]
  BY SMT
<1>4. \A k \in DOMAIN t : Len(s) + k \in DOMAIN (s \o t) /\ (s \o t)[Len(s) + k] = t[k]
  BY SMT
<1>5. \A k \in DOMAIN (s \o t) :
        \/ k \in DOMAIN s /\ k <= Len(s)
        \/ k - Len(s) \in DOMAIN t /\ k = Len(s) + (k - Len(s)) /\ Len(s) < k
  BY <1>2, SMT
<1> QED BY <1>1, <1>3, <1>4, <1>5

\* One more sequence.
LEMMA MadeOfMore ==
  ASSUME NEW T, NEW seqs, NEW i \in Nat, NEW s \in Seq(T), MadeOf(s, seqs, i),
         seqs[i + 1] \in Seq(T)
  PROVE  MadeOf(s \o seqs[i + 1], seqs, i + 1)
<1> DEFINE t == seqs[i + 1]
<1> DEFINE u == s \o t
<1>1. /\ u \in Seq(T) /\ Len(u) = Len(s) + Len(t)
      /\ \A k \in DOMAIN s : k \in DOMAIN u /\ u[k] = s[k]
      /\ \A k \in DOMAIN t : Len(s) + k \in DOMAIN u /\ u[Len(s) + k] = t[k]
      /\ \A k \in DOMAIN u :
           \/ k \in DOMAIN s /\ k <= Len(s)
           \/ k - Len(s) \in DOMAIN t /\ k = Len(s) + (k - Len(s)) /\ Len(s) < k
  BY Together
<1>2. /\ \A j \in 1 .. i : j \in 1 .. i + 1 /\ j < i + 1
      /\ i + 1 \in 1 .. i + 1
      /\ \A j \in 1 .. i + 1 : j \in 1 .. i \/ j = i + 1
  BY SMT
<1>3. \A a \in DOMAIN t : a \in Nat /\ At(seqs, i + 1, a, t[a])
  BY SMT DEF At
<1>4. /\ DOMAIN s \in SUBSET Nat /\ Len(s) \in Nat /\ DOMAIN u \in SUBSET Nat
      /\ DOMAIN t \in SUBSET Nat
  BY <1>1, SMT
<1>5. \A i1 \in 1 .. i, a \in Nat : \A x : At(seqs, i1, a, x) => x \in ToSet(s)
  BY DEF MadeOf
<1>6. /\ \A k \in DOMAIN s : \E i1 \in 1 .. i, a \in Nat : At(seqs, i1, a, s[k])
      /\ \A j, k \in DOMAIN s : j < k =>
           \E i1 \in 1 .. i, i2 \in 1 .. i, a \in Nat, b \in Nat :
             /\ At(seqs, i1, a, s[j]) /\ At(seqs, i2, b, s[k])
             /\ i1 < i2 \/ (i1 = i2 /\ a < b)
  BY Zenon DEF MadeOf
<1>7. seqs[i + 1] = t
  OBVIOUS
<1> HIDE DEF u, t
<1>8. ASSUME NEW k \in DOMAIN u
      PROVE  \E i1 \in 1 .. i + 1, a \in Nat : At(seqs, i1, a, u[k])
  <2>1. CASE k \in DOMAIN s
    <3>1. PICK i1 \in 1 .. i, a \in Nat : At(seqs, i1, a, s[k])
      BY <1>6, <2>1
    <3> QED BY <1>1, <1>2, <2>1, <3>1
  <2>2. CASE k - Len(s) \in DOMAIN t /\ k = Len(s) + (k - Len(s))
    <3>1. u[k] = t[k - Len(s)]
      BY <1>1, <2>2
    <3> QED BY <1>2, <1>3, <2>2, <3>1
  <2> QED BY <1>1, <2>1, <2>2
<1>9. ASSUME NEW i1 \in 1 .. i + 1, NEW a \in Nat, NEW x, At(seqs, i1, a, x)
      PROVE  x \in ToSet(u)
  <2>1. CASE i1 \in 1 .. i
    <3>1. x \in ToSet(s)
      BY <1>5, <1>9, <2>1
    <3>2. PICK k \in DOMAIN s : x = s[k]
      BY <3>1 DEF ToSet
    <3> QED BY <1>1, <3>2 DEF ToSet
  <2>2. CASE i1 = i + 1
    <3>1. a \in DOMAIN t /\ x = t[a]
      BY <1>7, <1>9, <2>2 DEF At
    <3> QED BY <1>1, <3>1 DEF ToSet
  <2> QED BY <1>2, <2>1, <2>2
<1>10. ASSUME NEW j \in DOMAIN u, NEW k \in DOMAIN u, j < k
       PROVE  \E i1 \in 1 .. i + 1, i2 \in 1 .. i + 1, a \in Nat, b \in Nat :
                /\ At(seqs, i1, a, u[j]) /\ At(seqs, i2, b, u[k])
                /\ i1 < i2 \/ (i1 = i2 /\ a < b)
  <2>1. CASE j \in DOMAIN s /\ k \in DOMAIN s
    <3>1. PICK i1 \in 1 .. i, i2 \in 1 .. i, a \in Nat, b \in Nat :
             /\ At(seqs, i1, a, s[j]) /\ At(seqs, i2, b, s[k])
             /\ i1 < i2 \/ (i1 = i2 /\ a < b)
      BY <1>6, <1>10, <2>1
    <3>2. u[j] = s[j] /\ u[k] = s[k] /\ i1 \in 1 .. i + 1 /\ i2 \in 1 .. i + 1
      BY <1>1, <1>2, <2>1
    <3> QED BY <3>1, <3>2
  <2>2. CASE j \in DOMAIN s /\ k \notin DOMAIN s
    <3>1. PICK i1 \in 1 .. i, a \in Nat : At(seqs, i1, a, s[j])
      BY <1>6, <2>2
    <3>2. k - Len(s) \in DOMAIN t /\ k = Len(s) + (k - Len(s))
      BY <1>1, <2>2
    <3>3. /\ u[j] = s[j] /\ u[k] = t[k - Len(s)] /\ i1 \in 1 .. i + 1 /\ i1 < i + 1
          /\ k - Len(s) \in Nat /\ At(seqs, i + 1, k - Len(s), t[k - Len(s)])
      BY <1>1, <1>2, <1>3, <2>2, <3>2
    <3> QED BY <1>2, <3>1, <3>3
  <2>3. CASE j \notin DOMAIN s
    <3>1. j - Len(s) \in DOMAIN t /\ j = Len(s) + (j - Len(s)) /\ Len(s) < j
      BY <1>1, <2>3
    <3>2. k - Len(s) \in DOMAIN t /\ k = Len(s) + (k - Len(s))
      <4>1. ~(k <= Len(s))
        BY <1>4, <1>10, <3>1, SMT
      <4> QED BY <1>1, <4>1
    <3>3. /\ u[j] = t[j - Len(s)] /\ u[k] = t[k - Len(s)]
          /\ j - Len(s) \in Nat /\ At(seqs, i + 1, j - Len(s), t[j - Len(s)])
          /\ k - Len(s) \in Nat /\ At(seqs, i + 1, k - Len(s), t[k - Len(s)])
      BY <1>1, <1>3, <3>1, <3>2
    <3>4. j - Len(s) < k - Len(s)
      BY <1>4, <1>10, SMT
    <3> QED BY <1>2, <3>3, <3>4
  <2> QED BY <2>1, <2>2, <2>3
<1>11. \A i1 \in 1 .. i + 1, a \in Nat : \A x : At(seqs, i1, a, x) => x \in ToSet(u)
  BY <1>9
<1>12. MadeOf(u, seqs, i + 1)
  BY <1>8, <1>10, <1>11, Zenon DEF MadeOf
<1> QED BY <1>12 DEF u, t

\* Sequences put one after another have the elements of all of them, in their order.
LEMMA FlattenedElements ==
  ASSUME NEW T, NEW m \in Nat \ {0}, NEW seqs, Len(seqs) = m,
         \A i \in 1 .. m : seqs[i] \in Seq(T)
  PROVE  FlattenSeq(seqs) \in Seq(T) /\ MadeOf(FlattenSeq(seqs), seqs, m)
<1> DEFINE F == [p \in Seq(T) \X (1 .. m) |-> p[1] \o seqs[p[2]]]
<1>1. IsStep(F, Seq(T), m)
  <2>1. ASSUME NEW p \in Seq(T) \X (1 .. m) PROVE p[1] \o seqs[p[2]] \in Seq(T)
    <3>1. p[1] \in Seq(T) /\ seqs[p[2]] \in Seq(T)
      OBVIOUS
    <3> QED BY <3>1, SMT
  <2> QED BY <2>1 DEF IsStep
<1>2. <<>> \in Seq(T)
  BY SMT
<1>3. PICK f : Iterated(f, F, <<>>, Seq(T), m)
  <2> HIDE DEF F
  <2> QED BY <1>1, <1>2, Recursion
<1>4. /\ f \in [0 .. m -> Seq(T)] /\ f[0] = <<>>
      /\ \A i \in 1 .. m : f[i] = F[<<f[i - 1], i>>]
  BY <1>3 DEF Iterated
<1>5. \A i \in 1 .. m : f[i - 1] \in Seq(T) /\ f[i] = f[i - 1] \o seqs[i]
  <2> TAKE i \in 1 .. m
  <2>1. i - 1 \in 0 .. m
    BY SMT
  <2>2. f[i - 1] \in Seq(T)
    BY <1>4, <2>1
  <2>3. <<f[i - 1], i>> \in Seq(T) \X (1 .. m)
    BY <2>2
  <2>4. F[<<f[i - 1], i>>] = f[i - 1] \o seqs[i]
    BY <2>3
  <2> QED BY <1>4, <2>2, <2>4
<1> HIDE DEF F
<1>6. FlattenSeq(seqs) = f[m]
  <2>1. f[1] = seqs[1]
    <3>1. 1 \in 1 .. m /\ 1 - 1 = 0
      BY SMT
    <3>2. f[1] = <<>> \o seqs[1] /\ seqs[1] \in Seq(T)
      BY <1>4, <1>5, <3>1
    <3> QED BY <3>2, SMT
  <2>2. \A i \in 2 .. m : i \in 1 .. m
    BY SMT
  <2>3. PartialSums(f, seqs, m)
    BY <1>5, <2>1, <2>2 DEF PartialSums
  <2> QED BY <2>3, Flattened
<1> DEFINE S == {k \in Nat : k <= m => MadeOf(f[k], seqs, k)}
<1>7. 0 \in S
  <2>1. DOMAIN <<>> = {} /\ 1 .. 0 = {}
    BY SMT
  <2>2. MadeOf(<<>>, seqs, 0)
    BY <2>1, Zenon DEF MadeOf
  <2> QED BY <1>4, <2>2
<1>8. ASSUME NEW k \in Nat, k \in S PROVE k + 1 \in S
  <2>1. SUFFICES ASSUME k + 1 <= m PROVE MadeOf(f[k + 1], seqs, k + 1)
    OBVIOUS
  <2>2. k + 1 \in 1 .. m /\ (k + 1) - 1 = k /\ k <= m
    BY <2>1, SMT
  <2>3. f[k] \in Seq(T) /\ f[k + 1] = f[k] \o seqs[k + 1] /\ seqs[k + 1] \in Seq(T)
    BY <1>5, <2>2
  <2>4. MadeOf(f[k], seqs, k)
    BY <1>8, <2>2
  <2> QED BY <2>3, <2>4, MadeOfMore
<1>9. \A k \in Nat : k \in S
  <2> HIDE DEF S
  <2> QED BY <1>7, <1>8, SetInduction
<1>10. MadeOf(f[m], seqs, m)
  <2>1. m \in S /\ m <= m
    <3> HIDE DEF S
    <3> QED BY <1>9, SMT
  <2> QED BY <2>1
<1>11. f[m] \in Seq(T)
  <2>1. m \in 0 .. m
    BY SMT
  <2> QED BY <1>4, <2>1
<1> QED BY <1>6, <1>10, <1>11

-----------------------------------------------------------------------------
(***************************************************************************)
(* Ranks in a finite set with a strict total order.                        *)
(***************************************************************************)
StrictOrder(S, R) ==
  /\ \A a \in S : <<a, a>> \notin R
  /\ \A a, b \in S : a # b => <<a, b>> \in R \/ <<b, a>> \in R
  /\ \A a, b, c \in S : <<a, b>> \in R /\ <<b, c>> \in R => <<a, c>> \in R

NotAfter(S, R, c) == {d \in S : <<c, d>> \notin R}

InOrder(S, R) ==
  [i \in 1 .. Cardinality(S) |-> CHOOSE c \in S : Cardinality(NotAfter(S, R, c)) = i]

\* The number of elements that are not after it is an element's place when the set
\* is sorted.
LEMMA Ranks ==
  ASSUME NEW S, IsFiniteSet(S), NEW R, StrictOrder(S, R)
  PROVE  /\ Cardinality(S) \in Nat
         /\ \A i \in 1 .. Cardinality(S) : InOrder(S, R)[i] \in S
         /\ \A c \in S : \E i \in 1 .. Cardinality(S) : InOrder(S, R)[i] = c
         /\ \A i, j \in 1 .. Cardinality(S) :
              i < j => <<InOrder(S, R)[i], InOrder(S, R)[j]>> \in R
         /\ \A i \in 1 .. Cardinality(S), c \in S :
              Cardinality(NotAfter(S, R, c)) = i <=> InOrder(S, R)[i] = c
<1> DEFINE n == Cardinality(S)
<1> DEFINE After(c) == NotAfter(S, R, c)
<1> DEFINE rank == [c \in S |-> Cardinality(After(c))]
<1> DEFINE f == InOrder(S, R)
<1>1. n \in Nat /\ IsFiniteSet(1 .. n) /\ Cardinality(1 .. n) = n
  <2>1. n \in Nat
    BY FS_CardinalityType
  <2> HIDE DEF n
  <2> QED BY <2>1, FS_Interval, SMT
<1>2. ASSUME NEW c \in S
      PROVE  /\ IsFiniteSet(After(c)) /\ rank[c] = Cardinality(After(c))
             /\ rank[c] \in 1 .. n
  <2>1. After(c) \in SUBSET S /\ c \in After(c)
    BY DEF NotAfter, StrictOrder
  <2>2. rank[c] = Cardinality(After(c))
    OBVIOUS
  <2> HIDE DEF After, rank
  <2>3. /\ IsFiniteSet(After(c)) /\ Cardinality(After(c)) <= n
        /\ Cardinality(After(c)) \in Nat /\ Cardinality(After(c)) # 0
    BY <2>1, FS_Subset, FS_CardinalityType, FS_EmptySet
  <2> HIDE DEF n
  <2> QED BY <1>1, <2>2, <2>3, SMT
<1>3. ASSUME NEW c \in S, NEW d \in S, <<c, d>> \in R
      PROVE  rank[c] < rank[d]
  <2>1. After(c) \in SUBSET After(d)
    <3>1. ASSUME NEW e \in S, <<c, e>> \notin R PROVE <<d, e>> \notin R
      BY <1>3, <3>1, Zenon DEF StrictOrder
    <3> QED BY <3>1 DEF NotAfter
  <2>2. d \in After(d) /\ d \notin After(c)
    BY <1>3 DEF NotAfter, StrictOrder
  <2> HIDE DEF After, rank
  <2>3. /\ Cardinality(After(c)) <= Cardinality(After(d))
        /\ Cardinality(After(c)) # Cardinality(After(d))
    BY <1>2, <2>1, <2>2, FS_Subset
  <2>4. rank[c] \in 1 .. n /\ rank[d] \in 1 .. n /\ rank[c] <= rank[d] /\ rank[c] # rank[d]
    BY <1>2, <2>3
  <2> HIDE DEF n
  <2> QED BY <1>1, <2>4, SMT
<1>4. \A c \in S : rank[c] \in Nat
  <2> HIDE DEF rank, n
  <2> QED BY <1>1, <1>2, SMT
<1>5. ASSUME NEW c \in S, NEW d \in S, c # d
      PROVE  rank[c] # rank[d]
  <2>1. <<c, d>> \in R \/ <<d, c>> \in R
    BY <1>5 DEF StrictOrder
  <2> HIDE DEF rank
  <2>2. rank[c] < rank[d] \/ rank[d] < rank[c]
    BY <1>3, <2>1
  <2> QED BY <1>4, <2>2, SMT
<1>6. \A i \in 1 .. n : \E c \in S : rank[c] = i
  <2>1. rank \in [S -> 1 .. n]
    BY <1>2
  <2>2. rank \in Injection(S, 1 .. n)
    <3> HIDE DEF rank, n
    <3> QED BY <1>5, <2>1 DEF Injection, IsInjective
  <2> HIDE DEF rank
  <2>3. IsFiniteSet(1 .. n) /\ Cardinality(1 .. n) = Cardinality(S)
    BY <1>1
  <2> HIDE DEF n
  <2>4. rank \in Surjection(S, 1 .. n)
    BY <2>2, <2>3, FS_Injection
  <2> QED BY <2>4 DEF Surjection
<1>7. ASSUME NEW i \in 1 .. n PROVE f[i] \in S /\ rank[f[i]] = i
  <2>1. \E c \in S : Cardinality(NotAfter(S, R, c)) = i
    BY <1>2, <1>6
  <2>2. f[i] = CHOOSE c \in S : Cardinality(NotAfter(S, R, c)) = i
    BY DEF InOrder
  <2> HIDE DEF f
  <2>3. f[i] \in S /\ Cardinality(After(f[i])) = i
    BY <2>1, <2>2
  <2> HIDE DEF After, rank
  <2> QED BY <1>2, <2>3
<1>8. \A c \in S : rank[c] = Cardinality(NotAfter(S, R, c))
  BY <1>2
<1> HIDE DEF f, rank, After
<1>9. ASSUME NEW i \in 1 .. n, NEW c \in S
       PROVE  Cardinality(NotAfter(S, R, c)) = i <=> f[i] = c
  BY <1>5, <1>7, <1>8
<1>10. ASSUME NEW c \in S PROVE \E i \in 1 .. n : f[i] = c
  <2>1. rank[c] \in 1 .. n
    BY <1>2
  <2>2. f[rank[c]] \in S /\ rank[f[rank[c]]] = rank[c]
    BY <1>7, <2>1
  <2>3. f[rank[c]] = c
    BY <1>5, <2>2
  <2> QED BY <2>1, <2>3
<1>11. ASSUME NEW i \in 1 .. n, NEW j \in 1 .. n, i < j
      PROVE  <<f[i], f[j]>> \in R
  <2>1. f[i] \in S /\ rank[f[i]] = i /\ f[j] \in S /\ rank[f[j]] = j
    BY <1>7
  <2>2. i \in Nat /\ j \in Nat
    <3> HIDE DEF n
    <3> QED BY <1>1, SMT
  <2>3. i # j /\ ~(j < i)
    BY <1>11, <2>2, SMT
  <2>4. <<f[j], f[i]>> \notin R
    BY <1>3, <2>1, <2>3
  <2>5. f[i] # f[j]
    BY <2>1, <2>3
  <2> QED BY <2>1, <2>4, <2>5 DEF StrictOrder
<1> QED BY <1>1, <1>7, <1>10, <1>11, <1>9 DEF f

\* A finite set that is not empty has a first element.
LEMMA FirstElement ==
  ASSUME NEW S, IsFiniteSet(S), S # {}, NEW R, StrictOrder(S, R)
  PROVE  \E c \in S : \A d \in S : <<d, c>> \notin R
<1> DEFINE n == Cardinality(S)
<1> DEFINE f == InOrder(S, R)
<1>1. /\ n \in Nat
      /\ \A i \in 1 .. n : f[i] \in S
      /\ \A c \in S : \E i \in 1 .. n : f[i] = c
      /\ \A i, j \in 1 .. n : i < j => <<f[i], f[j]>> \in R
  BY Ranks
<1> HIDE DEF f, n
<1>2. 1 \in 1 .. n
  <2>1. PICK i \in 1 .. n : TRUE
    BY <1>1
  <2> QED BY <1>1, <2>1, SMT
<1>3. ASSUME NEW d \in S PROVE <<d, f[1]>> \notin R
  <2>1. PICK i \in 1 .. n : f[i] = d
    BY <1>1
  <2>2. i = 1 \/ 1 < i
    BY <1>1, <2>1, SMT
  <2>3. CASE i = 1
    BY <2>1, <2>3 DEF StrictOrder
  <2>4. CASE 1 < i
    <3>1. <<f[1], d>> \in R /\ f[1] \in S
      BY <1>1, <1>2, <2>1, <2>4
    <3> QED BY <3>1 DEF StrictOrder
  <2> QED BY <2>2, <2>3, <2>4
<1> QED BY <1>1, <1>2, <1>3

-----------------------------------------------------------------------------
(***************************************************************************)
(* What accepted programs publish, and the types of everything.            *)
(***************************************************************************)
\* No record is the message that means none.
Told == Messages \ {NoMessage}

\* A validator that has failed says why, in a record too when it collects.
Sound(v) ==
  /\ v \in ValidatorType /\ v.records \in Seq(Told) /\ v.collected \in Seq(Told)
  /\ v.status = "failed" => /\ v.error # NoMessage
                            /\ collect => v.records # <<>>

\* Every definition has a path of its own.
PathsKnown ==
  /\ DOMAIN publications = Definitions /\ Len(publications) = Len(program)
  /\ \A d \in Definitions : publications[d].path \in Nat
  /\ \A d, e \in Definitions : d # e => publications[d].path # publications[e].path

Sorted(f) ==
  /\ f \in Seq(Definitions) /\ ToSet(f) = Definitions
  /\ \A i, j \in DOMAIN f : i < j => publications[f[i]].path < publications[f[j]].path

\* Sorting definitions by path keeps all of them.
LEMMA ByPathSorted ==
  ASSUME PathsKnown, NEW s, NEW n \in Nat, DOMAIN s = 1 .. n,
         ToSet(s) \in SUBSET Definitions, IsFiniteSet(ToSet(s)), Cardinality(ToSet(s)) = n
  PROVE  /\ ByPath(s) \in Seq(ToSet(s)) /\ ToSet(ByPath(s)) = ToSet(s)
         /\ DOMAIN ByPath(s) = 1 .. n
         /\ \A i, j \in 1 .. n : i < j =>
              publications[ByPath(s)[i]].path < publications[ByPath(s)[j]].path
<1> DEFINE S == ToSet(s)
<1> DEFINE R == {pair \in S \X S : publications[pair[1]].path < publications[pair[2]].path}
<1> DEFINE f == InOrder(S, R)
<1> DEFINE N(d) == {e \in S : publications[e].path <= publications[d].path}
<1> DEFINE g == [i \in DOMAIN s |-> CHOOSE d \in S : Cardinality(N(d)) = i]
<1>1. ByPath(s) = g
  BY DEF ByPath
<1>2. /\ S \in SUBSET Definitions /\ IsFiniteSet(S) /\ Cardinality(S) = n
      /\ \A d \in S : publications[d].path \in Nat
      /\ \A d, e \in S : d # e => publications[d].path # publications[e].path
  BY DEF PathsKnown
<1> HIDE DEF S
<1>3. \A a, b \in S : <<a, b>> \in R <=> publications[a].path < publications[b].path
  OBVIOUS
<1>4. StrictOrder(S, R)
  <2>1. \A a \in S : ~(publications[a].path < publications[a].path)
    BY <1>2, SMT
  <2>2. \A a, b \in S : a # b =>
          publications[a].path < publications[b].path \/ publications[b].path < publications[a].path
    BY <1>2, SMT
  <2>3. \A a, b, c \in S :
          publications[a].path < publications[b].path /\ publications[b].path < publications[c].path
            => publications[a].path < publications[c].path
    BY <1>2, SMT
  <2> HIDE DEF R
  <2> QED BY <1>3, <2>1, <2>2, <2>3 DEF StrictOrder
<1>5. \A d \in S : N(d) = NotAfter(S, R, d)
  <2>1. \A d, e \in S : publications[e].path <= publications[d].path
                           <=> ~(publications[d].path < publications[e].path)
    <3>1. \A x, y \in Nat : y <= x <=> ~(x < y)
      BY SMT
    <3> QED BY <1>2, <3>1
  <2> HIDE DEF R
  <2> QED BY <1>3, <2>1 DEF NotAfter
<1> HIDE DEF R
<1>6. /\ \A i \in 1 .. n : f[i] \in S
      /\ \A c \in S : \E i \in 1 .. n : f[i] = c
      /\ \A i, j \in 1 .. n : i < j => <<f[i], f[j]>> \in R
      /\ \A i \in 1 .. n, c \in S : Cardinality(NotAfter(S, R, c)) = i <=> f[i] = c
  BY <1>2, <1>4, Ranks
<1> HIDE DEF f
<1>7. ASSUME NEW i \in 1 .. n PROVE g[i] = f[i]
  <2>1. f[i] \in S /\ Cardinality(N(f[i])) = i
    BY <1>5, <1>6
  <2>2. g[i] = CHOOSE d \in S : Cardinality(N(d)) = i
    OBVIOUS
  <2> HIDE DEF N, g
  <2>3. g[i] \in S /\ Cardinality(N(g[i])) = i
    BY <2>1, <2>2
  <2>4. Cardinality(NotAfter(S, R, g[i])) = i
    BY <1>5, <2>3
  <2> QED BY <1>6, <2>3, <2>4
<1>8. DOMAIN g = 1 .. n /\ g = [i \in 1 .. n |-> g[i]]
  <2>1. g = [i \in 1 .. n |-> CHOOSE d \in S : Cardinality(N(d)) = i]
    OBVIOUS
  <2> HIDE DEF N, g
  <2> QED BY <2>1
<1> HIDE DEF g, N
<1>9. g \in Seq(S)
  <2>1. g \in [1 .. n -> S]
    BY <1>6, <1>7, <1>8
  <2> QED BY <2>1, SMT
<1>10. ToSet(g) = S
  <2>1. \A d \in ToSet(g) : d \in S
    BY <1>6, <1>7, <1>8 DEF ToSet
  <2>2. ASSUME NEW d \in S PROVE d \in ToSet(g)
    <3>1. PICK i \in 1 .. n : f[i] = d
      BY <1>6
    <3> QED BY <1>7, <1>8, <3>1 DEF ToSet
  <2> QED BY <2>1, <2>2
<1>11. ASSUME NEW i \in 1 .. n, NEW j \in 1 .. n, i < j
       PROVE  publications[g[i]].path < publications[g[j]].path
  BY <1>3, <1>6, <1>7, <1>11
<1> QED BY <1>1, <1>8, <1>9, <1>10, <1>11 DEF S

\* Sorting all definitions by path places each of them once.
LEMMA OwnFactsSorted ==
  ASSUME PathsKnown, program \in Seq(Behaviours)
  PROVE  Sorted(OwnFacts)
<1> DEFINE n == Len(program)
<1> DEFINE all == [d \in Definitions |-> d]
<1>1. n \in Nat /\ Definitions = 1 .. n
  BY DEF Definitions
<1>2. IsFiniteSet(Definitions) /\ Cardinality(Definitions) = n
  <2> HIDE DEF n
  <2> QED BY <1>1, FS_Interval, SMT
<1>3. ToSet(all) = Definitions /\ DOMAIN all = 1 .. n
  BY <1>1 DEF ToSet
<1>4. OwnFacts = ByPath(all)
  BY DEF OwnFacts
<1> HIDE DEF n, all
<1> QED BY <1>1, <1>2, <1>3, <1>4, ByPathSorted DEF Sorted

\* The workers' facts, put together in the order of their chunks, are all definitions
\* in stable order; sorted, they are what a single validator publishes.
LEMMA MergedFacts ==
  ASSUME Parameters, workerCount > 0, Len(program) > 0
  PROVE  MergeFacts = OwnFacts
<1>1. workerCount \in Nat /\ Len(program) \in Nat
  BY DEF Parameters
<1>2. PICK m \in Nat \ {0} : /\ Workers = 1 .. m /\ m <= workerCount
                             /\ ChunkOffset(m) + ChunkSize(m) = Len(program)
                             /\ MergeOrder = [i \in 1 .. m |-> i]
  BY WorkersCounted
<1> DEFINE G == [i \in 1 .. m |-> [d \in 1 .. LastOf(i) |-> d]]
<1> DEFINE seqs == [i \in DOMAIN MergeOrder |-> ChunkFacts(MergeOrder[i])]
<1>3. seqs = [i \in 1 .. m |-> ChunkFacts(i)]
  BY <1>2
<1>4. \A w \in Workers : /\ ChunkOffset(w) \in Nat /\ ChunkSize(w) \in Nat
                         /\ LastOf(w) = ChunkOffset(w) + ChunkSize(w) /\ LastOf(w) \in Nat
  BY ChunkTypes
<1>5. G[1] = seqs[1]
  <2>1. 1 \in 1 .. m /\ 1 \in Workers
    BY <1>2, SMT
  <2>2. ChunkOffset(1) = 0 /\ LastOf(1) = ChunkSize(1)
    BY <1>4, <2>1, ChunkBounds, SMT
  <2>3. ChunkFacts(1) = [d \in 1 .. ChunkSize(1) |-> d]
    BY <1>4, <2>1, <2>2, SMT DEF ChunkFacts
  <2> QED BY <1>3, <2>1, <2>2, <2>3
<1>6. ASSUME NEW i \in 2 .. m PROVE G[i] = G[i - 1] \o seqs[i]
  <2>1. /\ i \in 1 .. m /\ i - 1 \in 1 .. m /\ i \in Workers /\ i - 1 \in Workers
        /\ (i - 1) + 1 = i /\ i - 1 \in 1 .. workerCount
    BY <1>1, <1>2, SMT
  <2>2. ChunkOffset((i - 1) + 1) = ChunkOffset(i - 1) + ChunkSize(i - 1)
    BY <1>1, <2>1, ChunkBounds
  <2>3. ChunkOffset(i) = LastOf(i - 1)
    BY <1>4, <2>1, <2>2
  <2>4. /\ LastOf(i) = ChunkOffset(i) + ChunkSize(i)
        /\ ChunkOffset(i) \in Nat /\ ChunkSize(i) \in Nat
    BY <1>4, <2>1
  <2>5. ASSUME NEW a \in Nat, NEW b \in Nat
        PROVE  [d \in 1 .. (a + b) |-> d] = [d \in 1 .. a |-> d] \o [d \in 1 .. b |-> a + d]
    <3> DEFINE x == [d \in 1 .. a |-> d]
    <3> DEFINE y == [d \in 1 .. b |-> a + d]
    <3>1. x \in Seq(Nat) /\ Len(x) = a /\ y \in Seq(Nat) /\ Len(y) = b
      BY SMT
    <3>2. /\ \A d \in 1 .. a : x[d] = d
          /\ \A d \in 1 .. b : y[d] = a + d
      OBVIOUS
    <3> HIDE DEF x, y
    <3>3. /\ x \o y \in Seq(Nat) /\ Len(x \o y) = a + b
          /\ \A d \in 1 .. (a + b) : (x \o y)[d] = IF d <= a THEN x[d] ELSE y[d - a]
      <4>1. x \o y \in Seq(Nat)
        BY <3>1, SMT
      <4>2. Len(x \o y) = a + b
        BY <3>1, SMTT(30)
      <4>3. \A d \in 1 .. (Len(x) + Len(y)) : (x \o y)[d] = IF d <= Len(x) THEN x[d] ELSE y[d - Len(x)]
        BY <3>1, SMT
      <4> QED BY <3>1, <4>1, <4>2, <4>3
    <3>4. \A d \in 1 .. (a + b) : (x \o y)[d] = d
      <4> TAKE d \in 1 .. (a + b)
      <4>1. CASE d <= a
        BY <3>2, <3>3, <4>1, SMT
      <4>2. CASE ~(d <= a)
        <5>1. d - a \in 1 .. b /\ a + (d - a) = d
          BY <4>2, SMT
        <5> QED BY <3>2, <3>3, <4>2, <5>1
      <4> QED BY <4>1, <4>2
    <3>5. DOMAIN (x \o y) = 1 .. (a + b) /\ x \o y = [d \in 1 .. (a + b) |-> (x \o y)[d]]
      <4> DEFINE z == x \o y
      <4>1. z \in Seq(Nat) /\ Len(z) = a + b
        BY <3>3
      <4> HIDE DEF z
      <4>2. z \in [1 .. (a + b) -> Nat]
        BY <4>1, SMT
      <4>3. DOMAIN z = 1 .. (a + b) /\ z = [d \in 1 .. (a + b) |-> z[d]]
        BY <4>2, Zenon
      <4> QED BY <4>3 DEF z
    <3>6. x \o y = [d \in 1 .. (a + b) |-> d]
      BY <3>4, <3>5
    <3> QED BY <3>6 DEF x, y
  <2>6. [d \in 1 .. LastOf(i) |-> d] = [d \in 1 .. LastOf(i - 1) |-> d] \o ChunkFacts(i)
    BY <2>3, <2>4, <2>5 DEF ChunkFacts
  <2> QED BY <1>3, <2>1, <2>6
<1>7. Len(seqs) = m
  BY <1>3, SMT
<1>8. G[m] = [d \in Definitions |-> d]
  <2>1. m \in 1 .. m /\ m \in Workers
    BY <1>2, SMT
  <2>2. LastOf(m) = Len(program)
    BY <1>2, <1>4, <2>1
  <2> QED BY <2>1, <2>2 DEF Definitions
<1>9. MergeFacts = ByPath(FlattenSeq(seqs))
  BY DEF MergeFacts
<1> HIDE DEF G, seqs
<1>10. PartialSums(G, seqs, m)
  BY <1>5, <1>6 DEF PartialSums
<1>11. FlattenSeq(seqs) = G[m]
  BY <1>7, <1>10, Flattened
<1> QED BY <1>8, <1>9, <1>11 DEF OwnFacts

\* One definition leaves a sound validator sound.
LEMMA StepSound ==
  ASSUME Parameters, NEW v, Sound(v), v.status = "running", NEW d \in Definitions,
         NEW stage \in Stages
  PROVE  Sound(ValidateDefinition(v, d, stage))
<1> DEFINE after == ValidateDefinition(v, d, stage)
<1>1. /\ v \in ValidatorType /\ v.records \in Seq(Told) /\ v.collected \in Seq(Told)
      /\ v = [error |-> v.error, records |-> v.records, collected |-> v.collected,
              next |-> v.next, status |-> v.status]
  BY DEF Sound, ValidatorType
<1>2. after \in ValidatorType
  BY <1>1, Effects
<1>3. program[d] \in {"accepted", "attempts", "rejected", "calls", "throws"}
  BY SMT DEF Definitions, Parameters, Behaviours
<1>4. \A kind \in {"rejected", "call", "laterCall", "attempt", stage} :
        /\ Message(kind, d) \in Told /\ Message(kind, d) # NoMessage
        /\ <<Message(kind, d)>> \in Seq(Told) /\ <<Message(kind, d)>> # <<>>
        /\ Append(v.collected, Message(kind, d)) \in Seq(Told)
        /\ Published(v, Message(kind, d)) \in Seq(Told)
        /\ collect => Published(v, Message(kind, d)) # <<>>
  <2> TAKE kind \in {"rejected", "call", "laterCall", "attempt", stage}
  <2> DEFINE m == Message(kind, d)
  <2>1. m \in Told /\ m # NoMessage
    BY MessageTypes DEF Stages, Told
  <2> HIDE DEF m
  <2>2. <<m>> \in Seq(Told) /\ <<m>> # <<>>
    BY <2>1, SMT
  <2>3. Append(v.collected, m) \in Seq(Told)
    BY <1>1, <2>1, SMT
  <2>4. Published(v, m) \in Seq(Told) /\ (collect => Published(v, m) # <<>>)
    BY <1>1, <2>2 DEF Published
  <2> QED BY <2>1, <2>2, <2>3, <2>4 DEF m
<1>5. CASE program[d] = "accepted"
  <2>1. after = [v EXCEPT !.next = d + 1]
    BY <1>5 DEF ValidateDefinition
  <2>2. after.records = v.records /\ after.collected = v.collected /\ after.status = "running"
    BY <1>1, <2>1
  <2> QED BY <1>1, <1>2, <2>2 DEF Sound
<1>6. CASE program[d] = "attempts"
  <2>1. after = [Attempt(v, d) EXCEPT !.next = d + 1]
    BY <1>6 DEF ValidateDefinition
  <2>2. /\ after.records = Published(v, Message("attempt", d))
        /\ after.collected = v.collected /\ after.status = "running"
    BY <1>1, <2>1 DEF Attempt
  <2> QED BY <1>1, <1>2, <1>4, <2>2 DEF Sound
<1>7. ASSUME NEW kind \in {"rejected", "call"},
             after = [Reject(v, Message(kind, d)) EXCEPT !.next = d + 1]
      PROVE  Sound(after)
  <2>1. CASE collect
    <3>1. /\ after.records = <<Message(kind, d)>>
          /\ after.collected = Append(v.collected, Message(kind, d)) /\ after.status = "running"
      BY <1>1, <1>7, <2>1 DEF Reject, MoveCurrentDiagnostic
    <3> HIDE DEF after
    <3> QED BY <1>2, <1>4, <3>1 DEF Sound
  <2>2. CASE ~collect
    <3>1. /\ after.records = v.records /\ after.error = Message(kind, d)
          /\ after.collected = v.collected /\ after.status = "failed"
      BY <1>1, <1>7, <2>2 DEF Reject
    <3> HIDE DEF after
    <3> QED BY <1>1, <1>2, <1>4, <2>2, <3>1 DEF Sound
  <2> QED BY <2>1, <2>2
<1>8. CASE program[d] = "rejected"
  <2>1. after = [Reject(v, Message("rejected", d)) EXCEPT !.next = d + 1]
    BY <1>8 DEF ValidateDefinition
  <2> HIDE DEF after
  <2>2. Sound(after)
    BY <1>7, <2>1
  <2> QED BY <2>2 DEF after
<1>9. CASE program[d] = "calls"
  <2>1. CASE collect
    <3>1. after = [CollectCalls(v, d) EXCEPT !.next = d + 1]
      BY <1>9, <2>1 DEF ValidateDefinition
    <3>2. /\ after.records = v.records /\ after.status = "running"
          /\ after.collected = v.collected \o <<Message("call", d), Message("laterCall", d)>>
      BY <1>1, <3>1 DEF CollectCalls
    <3>3. v.collected \o <<Message("call", d), Message("laterCall", d)>> \in Seq(Told)
      <4>1. <<Message("call", d), Message("laterCall", d)>> \in Seq(Told)
        BY <1>4, SMT
      <4> QED BY <1>1, <4>1, SMT
    <3> HIDE DEF after
    <3>4. Sound(after)
      BY <1>1, <1>2, <3>2, <3>3 DEF Sound
    <3> QED BY <3>4 DEF after
  <2>2. CASE ~collect
    <3>1. after = [Reject(v, Message("call", d)) EXCEPT !.next = d + 1]
      BY <1>9, <2>2 DEF ValidateDefinition
    <3> HIDE DEF after
    <3>2. Sound(after)
      BY <1>7, <3>1
    <3> QED BY <3>2 DEF after
  <2> QED BY <2>1, <2>2
<1>10. CASE program[d] = "throws"
  <2>1. after = [Catch(v, Message(stage, d)) EXCEPT !.next = d + 1]
    BY <1>10 DEF ValidateDefinition
  <2>2. /\ after.records = Published(v, Message(stage, d)) /\ after.error = Message(stage, d)
        /\ after.collected = v.collected /\ after.status = "failed"
    BY <1>1, <2>1 DEF Catch
  <2> HIDE DEF after
  <2>3. Sound(after)
    BY <1>1, <1>2, <1>4, <2>2 DEF Sound
  <2> QED BY <2>3 DEF after
<1> QED BY <1>3, <1>5, <1>6, <1>8, <1>9, <1>10

\* So does the end of a pass, whatever records make the report.
LEMMA FinalizeSound ==
  ASSUME NEW v, Sound(v), v.status = "running", NEW records \in Seq(Told)
  PROVE  /\ Sound(Finalize(v, records))
         /\ Finalize(v, records).next = v.next
<1> DEFINE after == Finalize(v, records)
<1>1. /\ v.error \in Messages /\ v.records \in Seq(Told) /\ v.collected \in Seq(Told)
      /\ v.collected \in Seq(Messages) /\ v.records \in Seq(Messages) /\ v.next \in Nat
      /\ v = [error |-> v.error, records |-> v.records, collected |-> v.collected,
              next |-> v.next, status |-> v.status]
  BY DEF Sound, ValidatorType
<1>2. CASE collect /\ records # <<>>
  <2>1. after = [error |-> RememberFirst(v, records[1]), records |-> records,
                 collected |-> v.collected, next |-> v.next, status |-> "failed"]
    BY <1>1, <1>2 DEF Finalize
  <2>2. /\ RememberFirst(v, records[1]) \in Messages
        /\ RememberFirst(v, records[1]) # NoMessage
    <3>1. records[1] \in Told
      BY <1>2, SMT
    <3> QED BY <1>1, <3>1 DEF RememberFirst, Told
  <2>3. records \in Seq(Messages)
    <3>1. Told \subseteq Messages
      BY DEF Told
    <3> QED BY <3>1, SMT
  <2> HIDE DEF after
  <2>4. after \in ValidatorType
    BY <1>1, <2>1, <2>2, <2>3 DEF ValidatorType
  <2> QED BY <1>1, <1>2, <2>1, <2>2, <2>4 DEF Sound, after
<1>3. CASE ~(collect /\ records # <<>>)
  <2>1. after = [error |-> v.error, records |-> v.records,
                 collected |-> v.collected, next |-> v.next, status |-> "ok"]
    BY <1>1, <1>3 DEF Finalize
  <2> HIDE DEF after
  <2>2. after \in ValidatorType
    BY <1>1, <2>1 DEF ValidatorType
  <2> QED BY <1>1, <2>1, <2>2 DEF Sound, after
<1> QED BY <1>2, <1>3

\* So none of them is forgotten.
LEMMA FlattenedType ==
  ASSUME NEW T, NEW m \in Nat \ {0}, NEW seqs, Len(seqs) = m,
         \A i \in 1 .. m : seqs[i] \in Seq(T)
  PROVE  /\ FlattenSeq(seqs) \in Seq(T)
         /\ (\E i \in 1 .. m : seqs[i] # <<>>) => FlattenSeq(seqs) # <<>>
<1>1. FlattenSeq(seqs) \in Seq(T) /\ MadeOf(FlattenSeq(seqs), seqs, m)
  BY FlattenedElements
<1>2. ASSUME NEW i \in 1 .. m, seqs[i] # <<>> PROVE FlattenSeq(seqs) # <<>>
  <2>1. seqs[i] \in Seq(T)
    OBVIOUS
  <2>2. 1 \in Nat /\ 1 \in DOMAIN seqs[i]
    BY <1>2, <2>1, SMT
  <2>3. seqs[i][1] \in ToSet(FlattenSeq(seqs))
    BY <1>1, <2>2 DEF MadeOf, At
  <2>4. DOMAIN FlattenSeq(seqs) # {}
    BY <2>3 DEF ToSet
  <2>5. DOMAIN <<>> = {}
    BY SMT
  <2> QED BY <2>4, <2>5
<1> QED BY <1>1, <1>2

\* A validator that begins is sound.
LEMMA BeginSound ==
  ASSUME Parameters, inferred \in Seq(Told), NEW first \in Nat
  PROVE  Sound(Validator(first)) /\ Validator(first).next = first
<1> DEFINE v == Validator(first)
<1>1. v = [error |-> NoMessage, records |-> inferred, collected |-> <<>>,
           next |-> first, status |-> "running"]
  BY DEF Validator
<1>2. /\ NoMessage \in Messages /\ inferred \in Seq(Messages)
      /\ <<>> \in Seq(Messages) /\ <<>> \in Seq(Told)
  BY MessageTypes DEF Parameters
<1> HIDE DEF v
<1>3. v \in ValidatorType
  BY <1>1, <1>2 DEF ValidatorType
<1>4. Sound(v) /\ v.next = first
  BY <1>1, <1>2, <1>3 DEF Sound
<1> QED BY <1>4 DEF v

\* What the workers' records make together, and that a failure leaves one.
LEMMA MergedRecordsTold ==
  ASSUME Parameters, workerCount > 0, Len(program) > 0,
         \A w \in Workers : Sound(validators[w])
  PROVE  /\ MergedRecords \in Seq(Told)
         /\ collect /\ FailedWorkers # {} => MergedRecords # <<>>
<1>1. PICK m \in Nat \ {0} : /\ Workers = 1 .. m
                             /\ MergeOrder = [i \in 1 .. m |-> i]
  BY WorkersCounted
<1> DEFINE seqs == [i \in DOMAIN MergeOrder |-> WorkerRecords(MergeOrder[i])]
<1>2. seqs = [i \in 1 .. m |-> WorkerRecords(i)]
  BY <1>1
<1>3. ASSUME NEW w \in Workers
      PROVE  /\ WorkerRecords(w) \in Seq(Told)
             /\ collect /\ validators[w].status = "failed" => WorkerRecords(w) # <<>>
  <2>1. /\ validators[w].records \in Seq(Told) /\ validators[w].error \in Messages
        /\ validators[w].status = "failed" =>
             /\ validators[w].error # NoMessage
             /\ collect => validators[w].records # <<>>
    BY DEF Sound, ValidatorType
  <2>2. validators[w].status = "failed" => <<validators[w].error>> \in Seq(Told)
    <3>1. ASSUME NEW x \in Told PROVE <<x>> \in Seq(Told)
      BY SMT
    <3> QED BY <2>1, <3>1 DEF Told
  <2>3. <<>> \in Seq(Told)
    BY SMT
  <2> QED BY <2>1, <2>2, <2>3 DEF WorkerRecords
<1>4. MergedRecords = FlattenSeq(seqs)
  BY DEF MergedRecords
<1>5. Len(seqs) = m /\ \A i \in 1 .. m : seqs[i] = WorkerRecords(i) /\ seqs[i] \in Seq(Told)
  BY <1>1, <1>2, <1>3, SMT
<1> HIDE DEF seqs
<1>6. /\ FlattenSeq(seqs) \in Seq(Told)
      /\ (\E i \in 1 .. m : seqs[i] # <<>>) => FlattenSeq(seqs) # <<>>
  BY <1>5, FlattenedType
<1>7. ASSUME collect, FailedWorkers # {} PROVE \E i \in 1 .. m : seqs[i] # <<>>
  <2>1. PICK w \in Workers : validators[w].status = "failed"
    BY <1>7 DEF FailedWorkers
  <2>2. w \in 1 .. m /\ seqs[w] # <<>>
    BY <1>1, <1>3, <1>5, <1>7, <2>1
  <2> QED BY <2>2
<1> QED BY <1>4, <1>6, <1>7

\* A validator that is made to fail with another's error.
LEMMA FailedWith ==
  ASSUME NEW v \in ValidatorType, NEW m
  PROVE  LET failed == [v EXCEPT !.error = m, !.status = "failed"] IN
         /\ failed = [error |-> m, records |-> v.records, collected |-> v.collected,
                      next |-> v.next, status |-> "failed"]
         /\ failed.status = "failed" /\ failed.error = m /\ failed.next = v.next
<1>1. v = [error |-> v.error, records |-> v.records, collected |-> v.collected,
           next |-> v.next, status |-> v.status]
  BY DEF ValidatorType
<1> DEFINE x == [v EXCEPT !.error = m]
<1> DEFINE y == [x EXCEPT !.status = "failed"]
<1>2. x = [error |-> m, records |-> v.records, collected |-> v.collected,
           next |-> v.next, status |-> v.status]
  BY <1>1
<1>3. y = [error |-> m, records |-> v.records, collected |-> v.collected,
           next |-> v.next, status |-> "failed"]
  <2> HIDE DEF x
  <2> QED BY <1>2
<1>4. [v EXCEPT !.error = m, !.status = "failed"] = y
  BY Zenon
<1> HIDE DEF y
<1> QED BY <1>3, <1>4

\* Validators have types and stay in their chunks; facts are published whole, and
\* of accepted programs only.
OutcomeInv ==
  /\ workerCount \in WorkerCounts /\ inferred \in Seq(Told) /\ PathsKnown
  /\ \A w \in DOMAIN validators : /\ Sound(validators[w])
                                  /\ validators[w].next \in 1 .. LastOf(w) + 1
  /\ finished \in Seq(DOMAIN validators)
  /\ phase \in {"start", "serial", "parallel"} => facts = <<>>
  /\ phase = "done" =>
       /\ facts = <<>> \/ (Sorted(facts) /\ Outcome.status = "ok")
       /\ Outcome.status = "ok" /\ Main \notin ToSet(finished) => Sorted(facts)
  /\ phase = "published" => Sorted(facts) /\ Outcome.status = "ok"

\* What depends on the input alone stays as it is.
LEMMA InputKeeps ==
  ASSUME UNCHANGED input
  PROVE  /\ workerCount' = workerCount /\ inferred' = inferred
         /\ PathsKnown' <=> PathsKnown
         /\ Told' = Told
         /\ \A v : Sound(v)' <=> Sound(v)
         /\ \A w : LastOf(w)' = LastOf(w)
         /\ \A f : Sorted(f)' <=> Sorted(f)
<1>1. /\ program' = program /\ collect' = collect /\ workerCount' = workerCount
      /\ inferred' = inferred /\ publications' = publications
  BY DEF input
<1>2. Definitions' = Definitions /\ Messages' = Messages /\ ValidatorType' = ValidatorType
      /\ Told' = Told
  BY <1>1 DEF Definitions, Messages, ValidatorType, Told
<1>3. \A v : Sound(v)' <=> Sound(v)
  BY <1>1, <1>2 DEF Sound
<1>4. \A w : LastOf(w)' = LastOf(w)
  BY <1>1 DEF LastOf, ChunkOffset, ChunkSize
<1>5. (PathsKnown' <=> PathsKnown) /\ \A f : Sorted(f)' <=> Sorted(f)
  BY <1>1, <1>2 DEF PathsKnown, Sorted, ToSet
<1> QED BY <1>1, <1>2, <1>3, <1>4, <1>5

\* Every step but the merge and the publication leaves the facts unpublished.
LEMMA OutcomeKept ==
  ASSUME OutcomeInv, UNCHANGED input, facts' = <<>>,
         phase' \in {"start", "serial", "parallel", "done"},
         phase' = "done" => Main \in ToSet(finished'),
         \A w \in DOMAIN validators' : /\ Sound(validators'[w])
                                       /\ validators'[w].next \in 1 .. LastOf(w) + 1,
         finished' \in Seq(DOMAIN validators')
  PROVE  OutcomeInv'
<1>1. /\ workerCount' \in WorkerCounts /\ PathsKnown' /\ inferred' \in Seq(Told)'
  BY InputKeeps DEF OutcomeInv
<1>2. \A w \in DOMAIN validators' : \A v : v = validators'[w] =>
        Sound(v)' /\ v.next \in 1 .. LastOf(w)' + 1
  BY InputKeeps
<1>3. ToSet(finished)' = ToSet(finished')
  OBVIOUS
<1>4. Main' = Main
  BY DEF Main
<1> QED BY <1>1, <1>2, <1>3, <1>4 DEF OutcomeInv

\* The initial states.
LEMMA InitOutcome == Init => OutcomeInv
<1> SUFFICES ASSUME Init PROVE OutcomeInv
  OBVIOUS
<1>1. ValidationInv
  BY InitValidation
<1>2. /\ Parameters /\ Len(program) \in Nat
  BY <1>1 DEF ValidationInv, Parameters
<1>3. Len(program) \in 0 .. MaxDefinitions
  <2>1. program \in UNION {[1 .. m -> Behaviours] : m \in 0 .. MaxDefinitions}
    BY DEF Init, BoundedSeq, SeqOf
  <2>2. PICK m \in 0 .. MaxDefinitions : program \in [1 .. m -> Behaviours]
    BY <2>1
  <2>3. m \in Nat
    BY CountsAssumption, SMT
  <2>4. Len(program) = m
    BY <2>2, <2>3, SMT
  <2> QED BY <2>4
<1>4. publications \in Publications[Len(program)]
  <2>1. Publications[Len(program)] # {}
    BY <1>3, PublicationsAssumption
  <2> QED BY <2>1 DEF Init
<1>5. PathsKnown
  BY <1>3, <1>4, PublicationsAssumption DEF PathsKnown, Definitions
<1>6. inferred \in Seq(Told)
  <2>1. Message("attempt", 0) \in Told
    BY MessageTypes DEF Told, Message, NoMessage
  <2>2. <<>> \in Seq(Told) /\ <<Message("attempt", 0)>> \in Seq(Told)
    BY <2>1, SMT
  <2> QED BY <2>2 DEF Init
<1>7. /\ validators = [w \in {Main} |-> Validator(1)] /\ phase = "start" /\ finished = <<>>
      /\ facts = <<>> /\ workerCount \in WorkerCounts
  BY DEF Init
<1>8. Sound(Validator(1)) /\ Validator(1).next = 1
  BY <1>2, <1>6, BeginSound
<1>9. 1 \in 1 .. LastOf(Main) + 1
  BY <1>2, SMT DEF LastOf
<1>10. finished \in Seq(DOMAIN validators)
  BY <1>7, SMT
<1> QED BY <1>5, <1>6, <1>7, <1>8, <1>9, <1>10 DEF OutcomeInv

\* The workers begin.
LEMMA LaunchOutcome ==
  ASSUME ValidationInv, OutcomeInv, LaunchWorkers
  PROVE  OutcomeInv'
<1>1. /\ phase = "start" /\ phase' = "parallel" /\ UNCHANGED input
      /\ workerCount > 1 /\ finished' = finished /\ finished = <<>>
      /\ facts' = facts /\ Parameters
      /\ validators' = [w \in {Main} \cup Workers |->
                          IF w = Main THEN validators[Main] ELSE Validator(ChunkOffset(w) + 1)]
  BY DEF LaunchWorkers, ValidationInv
<1>2. workerCount \in Nat /\ workerCount > 0
  BY <1>1, SMT DEF Parameters
<1>3. ASSUME NEW w \in {Main} \cup Workers
      PROVE  Sound(validators'[w]) /\ validators'[w].next \in 1 .. LastOf(w) + 1
  <2>1. CASE w = Main
    BY <1>1, <2>1 DEF OutcomeInv, ValidationInv
  <2>2. CASE w # Main
    <3>1. /\ w \in Workers /\ validators'[w] = Validator(ChunkOffset(w) + 1)
      BY <1>1, <2>2
    <3>2. /\ ChunkOffset(w) + 1 \in Nat \ {0} /\ ChunkOffset(w) + 1 <= LastOf(w) + 1
          /\ LastOf(w) \in Nat
      BY <1>1, <1>2, <3>1, ChunkTypes
    <3>3. /\ Sound(Validator(ChunkOffset(w) + 1))
          /\ Validator(ChunkOffset(w) + 1).next = ChunkOffset(w) + 1
      BY <1>1, <3>2, BeginSound DEF OutcomeInv
    <3> QED BY <3>1, <3>2, <3>3, SMT
  <2> QED BY <2>1, <2>2
<1>4. DOMAIN validators' = {Main} \cup Workers /\ finished' \in Seq(DOMAIN validators')
  BY <1>1, SMT
<1>5. facts' = <<>>
  BY <1>1 DEF OutcomeInv
<1> QED BY <1>1, <1>3, <1>4, <1>5, OutcomeKept

\* A validator goes on or ends its pass.
LEMMA WorkOutcome ==
  ASSUME ValidationInv, OutcomeInv, NEW w \in DOMAIN validators, Work(w)
  PROVE  OutcomeInv'
<1>1. /\ Parameters /\ Len(program) \in Nat /\ workerCount \in Nat
      /\ validators = [x \in DOMAIN validators |-> validators[x]]
  BY DEF ValidationInv, Parameters
<1>2. /\ UNCHANGED input /\ facts' = facts /\ phase \in {"serial", "parallel"}
      /\ (w = Main) = (phase = "serial")
  BY DEF Work, ValidateNext, FinishPass, Active
<1>3. facts' = <<>>
  BY <1>2 DEF OutcomeInv
<1>4. LastOf(w) \in Nat /\ LastOf(w) <= Len(program) /\ Stage(w) \in Stages
  <2>1. CASE w = Main
    BY <1>1, <2>1, SMT DEF LastOf, Stage, Stages
  <2>2. CASE w # Main
    <3>1. w \in Workers /\ workerCount > 0
      BY <1>1, <1>2, <2>2, SMT DEF ValidationInv
    <3> QED BY <1>1, <3>1, ChunkTypes
  <2> QED BY <2>1, <2>2
<1>5. Sound(validators[w]) /\ validators[w].next \in 1 .. LastOf(w) + 1
  BY DEF OutcomeInv
<1>6. ASSUME NEW after, Sound(after), after.next \in 1 .. LastOf(w) + 1,
             validators' = [validators EXCEPT ![w] = after]
      PROVE  /\ DOMAIN validators' = DOMAIN validators
             /\ \A x \in DOMAIN validators' :
                  Sound(validators'[x]) /\ validators'[x].next \in 1 .. LastOf(x) + 1
  <2>1. /\ DOMAIN validators' = DOMAIN validators /\ validators'[w] = after
        /\ \A x \in DOMAIN validators : x # w => validators'[x] = validators[x]
    BY <1>1, <1>6
  <2>2. \A x \in DOMAIN validators :
          Sound(validators[x]) /\ validators[x].next \in 1 .. LastOf(x) + 1
    BY DEF OutcomeInv
  <2> QED BY <1>6, <2>1, <2>2
<1>7. CASE ValidateNext(w)
  <2>1. /\ validators[w].status = "running" /\ validators[w].next <= LastOf(w)
        /\ phase' = phase /\ finished' = finished
        /\ validators' = [validators EXCEPT
                            ![w] = ValidateDefinition(validators[w], validators[w].next, Stage(w))]
    BY <1>7 DEF ValidateNext
  <2>2. validators[w].next \in Definitions /\ validators[w].next + 1 \in 1 .. LastOf(w) + 1
    BY <1>1, <1>4, <1>5, <2>1, SMT DEF Definitions
  <2>3. ValidateDefinition(validators[w], validators[w].next, Stage(w)).next
          = validators[w].next + 1
    BY <1>1, <1>4, <1>5, <2>2, Effects DEF Sound
  <2>4. Sound(ValidateDefinition(validators[w], validators[w].next, Stage(w)))
    BY <1>1, <1>4, <1>5, <2>1, <2>2, StepSound
  <2>5. /\ DOMAIN validators' = DOMAIN validators
        /\ \A x \in DOMAIN validators' :
             Sound(validators'[x]) /\ validators'[x].next \in 1 .. LastOf(x) + 1
    BY <1>6, <2>1, <2>2, <2>3, <2>4
  <2>6. finished' \in Seq(DOMAIN validators')
    BY <2>1, <2>5 DEF OutcomeInv
  <2> QED BY <1>2, <1>3, <2>1, <2>5, <2>6, OutcomeKept
<1>8. CASE FinishPass(w)
  <2>1. /\ finished' = Append(finished, w) /\ phase' = IF w = Main THEN "done" ELSE phase
        /\ \/ /\ validators[w].status = "running"
              /\ validators' = [validators EXCEPT
                                  ![w] = Finalize(validators[w], validators[w].collected)]
           \/ validators' = validators
    BY <1>8 DEF FinishPass
  <2>2. /\ DOMAIN validators' = DOMAIN validators
        /\ \A x \in DOMAIN validators' :
             Sound(validators'[x]) /\ validators'[x].next \in 1 .. LastOf(x) + 1
    <3>1. CASE validators' = validators
      BY <3>1 DEF OutcomeInv
    <3>2. CASE /\ validators[w].status = "running"
               /\ validators' = [validators EXCEPT
                                   ![w] = Finalize(validators[w], validators[w].collected)]
      <4>1. validators[w].collected \in Seq(Told)
        BY <1>5 DEF Sound
      <4>2. /\ Sound(Finalize(validators[w], validators[w].collected))
            /\ Finalize(validators[w], validators[w].collected).next = validators[w].next
        BY <1>5, <3>2, <4>1, FinalizeSound
      <4> QED BY <1>5, <1>6, <3>2, <4>2
    <3> QED BY <2>1, <3>1, <3>2
  <2>3. finished' \in Seq(DOMAIN validators') /\ w \in ToSet(finished')
    <3>1. finished \in Seq(DOMAIN validators)
      BY DEF OutcomeInv
    <3>2. finished' \in Seq(DOMAIN validators)
      BY <2>1, <3>1, SMT
    <3>3. Len(finished) + 1 \in DOMAIN finished' /\ finished'[Len(finished) + 1] = w
      BY <2>1, <3>1, SMT
    <3> QED BY <2>2, <3>2, <3>3 DEF ToSet
  <2>4. phase' = "done" => Main \in ToSet(finished')
    BY <1>2, <2>1, <2>3
  <2>5. phase' \in {"start", "serial", "parallel", "done"}
    BY <1>2, <2>1
  <2> QED BY <1>2, <1>3, <2>2, <2>3, <2>4, <2>5, OutcomeKept
<1> QED BY <1>7, <1>8 DEF Work

\* The merge publishes the facts of all chunks, or none and a reason.
LEMMA MergeOutcome ==
  ASSUME ValidationInv, OutcomeInv, Merge
  PROVE  OutcomeInv'
<1> DEFINE v == validators[Main]
<1> DEFINE merged == Finalize(v, MergedRecords)
<1>1. /\ phase = "parallel" /\ phase' = "done" /\ UNCHANGED input /\ finished' = finished
  BY DEF Merge, AllDelivered
<1>2. /\ Parameters /\ workerCount > 0 /\ Len(program) > 0 /\ Len(program) \in Nat
      /\ DOMAIN validators = {Main} \cup Workers /\ v = Validator(1) /\ workerCount \in Nat
      /\ validators = [x \in DOMAIN validators |-> validators[x]]
  BY <1>1, SMT DEF ValidationInv, Parameters
<1>3. /\ MergedRecords \in Seq(Told)
      /\ collect /\ FailedWorkers # {} => MergedRecords # <<>>
  BY <1>2, MergedRecordsTold DEF OutcomeInv
<1>4. /\ Sound(v) /\ v.status = "running" /\ v.next \in 1 .. LastOf(Main) + 1
      /\ v = [error |-> v.error, records |-> v.records, collected |-> v.collected,
              next |-> v.next, status |-> v.status]
  BY <1>2 DEF OutcomeInv, Validator, Sound, ValidatorType
<1> HIDE DEF v
<1>5. Sound(merged) /\ merged.next = v.next
  BY <1>3, <1>4, FinalizeSound
<1>6. merged.status = "ok" => merged = [v EXCEPT !.status = "ok"] /\ ~(collect /\ MergedRecords # <<>>)
  BY <1>4 DEF Finalize
<1> HIDE DEF merged
<1> DEFINE failed == [v EXCEPT !.error = FirstFailure, !.status = "failed"]
<1>7. ASSUME merged.status = "ok", FailedWorkers # {}
      PROVE  Sound(failed) /\ failed.next = v.next /\ failed.status = "failed"
  <2>1. /\ failed.status = "failed" /\ failed.error = FirstFailure /\ failed.next = v.next
        /\ failed = [error |-> FirstFailure, records |-> v.records, collected |-> v.collected,
                     next |-> v.next, status |-> "failed"]
    BY <1>4, FailedWith DEF Sound
  <2>2. FirstFailure \in Messages /\ FirstFailure # NoMessage
    <3>1. Min(FailedWorkers) \in FailedWorkers
      <4>1. FailedWorkers \in SUBSET Nat
        BY <1>2, ChunkTypes DEF FailedWorkers
      <4>2. \E u \in FailedWorkers : \A x \in FailedWorkers : u <= x
        BY <1>7, <4>1, LeastNatural
      <4> QED BY <4>2 DEF Min
    <3> DEFINE w == Min(FailedWorkers)
    <3>2. w \in Workers /\ validators[w].status = "failed" /\ FirstFailure = validators[w].error
      BY <3>1 DEF FailedWorkers, FirstFailure
    <3> HIDE DEF w
    <3>3. Sound(validators[w])
      BY <1>2, <3>2 DEF OutcomeInv
    <3> QED BY <3>2, <3>3 DEF Sound, ValidatorType
  <2>3. ~collect
    BY <1>3, <1>6, <1>7
  <2> HIDE DEF failed
  <2>4. failed \in ValidatorType
    BY <1>4, <2>1, <2>2 DEF Sound, ValidatorType
  <2> QED BY <1>4, <2>1, <2>2, <2>3, <2>4 DEF Sound
<1>8. MergeFacts = OwnFacts /\ Sorted(OwnFacts)
  <2>1. PathsKnown /\ program \in Seq(Behaviours)
    BY <1>2 DEF OutcomeInv, Parameters
  <2> QED BY <1>2, <2>1, MergedFacts, OwnFactsSorted
<1>9. facts = <<>>
  BY <1>1 DEF OutcomeInv
<1>10. \E outcome :
         /\ validators' = [validators EXCEPT ![Main] = outcome]
         /\ Sound(outcome) /\ outcome.next = v.next
         /\ \/ outcome.status # "ok" /\ facts' = <<>>
            \/ outcome.status = "ok" /\ Sorted(facts')
  <2>1. CASE /\ merged.status = "failed" /\ facts' = facts
             /\ validators' = [validators EXCEPT ![Main] = merged]
    BY <1>5, <1>9, <2>1
  <2>2. CASE /\ merged.status = "ok" /\ FailedWorkers # {} /\ facts' = facts
             /\ validators' = [validators EXCEPT ![Main] = failed]
    <3> HIDE DEF failed
    <3> QED BY <1>7, <1>9, <2>2
  <2>3. CASE /\ merged.status = "ok" /\ facts' = MergeFacts
             /\ validators' = [validators EXCEPT ![Main] = merged]
    BY <1>5, <1>8, <2>3
  <2> QED BY <2>1, <2>2, <2>3 DEF Merge, merged, v
<1>11. PICK outcome :
         /\ validators' = [validators EXCEPT ![Main] = outcome]
         /\ Sound(outcome) /\ outcome.next = v.next
         /\ \/ outcome.status # "ok" /\ facts' = <<>>
            \/ outcome.status = "ok" /\ Sorted(facts')
  BY <1>10
<1>12. /\ DOMAIN validators' = DOMAIN validators /\ validators'[Main] = outcome
       /\ \A x \in DOMAIN validators : x # Main => validators'[x] = validators[x]
  BY <1>2, <1>11
<1>13. \A x \in DOMAIN validators' :
         Sound(validators'[x]) /\ validators'[x].next \in 1 .. LastOf(x) + 1
  BY <1>4, <1>11, <1>12 DEF OutcomeInv
<1>14. /\ workerCount' \in WorkerCounts /\ PathsKnown' /\ inferred' \in Seq(Told)'
       /\ \A x \in DOMAIN validators' : \A u : u = validators'[x] =>
            Sound(u)' /\ u.next \in 1 .. LastOf(x)' + 1
       /\ \A f : f = facts' => (Sorted(f)' <=> Sorted(f))
  BY <1>1, <1>13, InputKeeps DEF OutcomeInv
<1>15. finished' \in Seq(DOMAIN validators')
  BY <1>1, <1>12 DEF OutcomeInv
<1>16. Outcome' = outcome
  BY <1>12 DEF Outcome, Main
<1>17. \/ Outcome'.status # "ok" /\ facts' = <<>>
       \/ Outcome'.status = "ok" /\ Sorted(facts)'
  BY <1>11, <1>14, <1>16
<1> QED BY <1>1, <1>14, <1>15, <1>17 DEF OutcomeInv

\* A published program has its facts sorted, whoever collected them.
LEMMA PublishOutcome ==
  ASSUME ValidationInv, OutcomeInv, Publish
  PROVE  OutcomeInv'
<1>1. /\ phase = "done" /\ phase' = "published" /\ UNCHANGED input /\ finished' = finished
      /\ validators' = validators /\ validators[Main].status = "ok"
      /\ \/ Main \notin ToSet(finished) /\ facts' = facts
         \/ facts' = OwnFacts
  BY DEF Publish
<1>2. Sorted(OwnFacts)
  BY OwnFactsSorted DEF OutcomeInv, ValidationInv, Parameters
<1>3. Sorted(facts')
  BY <1>1, <1>2 DEF OutcomeInv, Outcome
<1>4. /\ workerCount' \in WorkerCounts /\ PathsKnown' /\ inferred' \in Seq(Told)'
      /\ \A x \in DOMAIN validators' : \A u : u = validators'[x] =>
           Sound(u)' /\ u.next \in 1 .. LastOf(x)' + 1
      /\ \A f : f = facts' => (Sorted(f)' <=> Sorted(f))
  BY <1>1, InputKeeps DEF OutcomeInv
<1>5. Outcome' = validators[Main]
  BY <1>1 DEF Outcome, Main
<1> QED BY <1>1, <1>3, <1>4, <1>5 DEF OutcomeInv

\* OutcomeInv holds whatever the interleaving.
LEMMA OutcomeInvariant == Spec => []OutcomeInv
<1>1. ASSUME ValidationInv, OutcomeInv, [Next]_vars PROVE OutcomeInv'
  <2>1. CASE ValidateSerially
    <3>1. /\ phase = "start" /\ phase' = "serial" /\ UNCHANGED input
          /\ validators' = validators /\ finished' = finished /\ facts' = facts
      BY <2>1 DEF ValidateSerially
    <3>2. facts' = <<>>
      BY <1>1, <3>1 DEF OutcomeInv
    <3> QED BY <1>1, <3>1, <3>2, OutcomeKept DEF OutcomeInv
  <2>2. CASE LaunchWorkers
    BY <1>1, <2>2, LaunchOutcome
  <2>3. CASE \E w \in DOMAIN validators : Work(w)
    BY <1>1, <2>3, WorkOutcome
  <2>4. CASE Merge
    BY <1>1, <2>4, MergeOutcome
  <2>5. CASE Publish
    BY <1>1, <2>5, PublishOutcome
  <2>6. CASE UNCHANGED vars
    <3>1. /\ UNCHANGED input /\ phase' = phase /\ validators' = validators
          /\ finished' = finished /\ facts' = facts
      BY <2>6 DEF vars
    <3>2. /\ workerCount' \in WorkerCounts /\ PathsKnown' /\ inferred' \in Seq(Told)'
          /\ \A x \in DOMAIN validators' : \A u : u = validators'[x] =>
               Sound(u)' /\ u.next \in 1 .. LastOf(x)' + 1
          /\ \A f : f = facts' => (Sorted(f)' <=> Sorted(f))
      BY <1>1, <3>1, InputKeeps DEF OutcomeInv
    <3>3. Outcome' = Outcome /\ ToSet(finished)' = ToSet(finished)
      BY <3>1 DEF Outcome, Main
    <3> QED BY <1>1, <3>1, <3>2, <3>3 DEF OutcomeInv
  <2> QED BY <1>1, <2>1, <2>2, <2>3, <2>4, <2>5, <2>6 DEF Next
<1> QED BY InitOutcome, ValidationInvariant, <1>1, PTL DEF Spec

-----------------------------------------------------------------------------
\* Validators stay in their chunks, know only messages about this program, and say
\* why they have failed, in a record too when diagnostics are collected.
THEOREM ValidationTypeCorrect == Spec => []TypeOK
<1>1. ValidationInv /\ OutcomeInv => TypeOK
  <2> SUFFICES ASSUME ValidationInv, OutcomeInv PROVE TypeOK
    OBVIOUS
  <2>1. /\ program \in Seq(Behaviours) /\ collect \in BOOLEAN /\ workerCount \in WorkerCounts
        /\ Len(publications) = Len(program) /\ Main \in DOMAIN validators
        /\ phase \in {"start", "serial", "parallel", "done", "published"}
        /\ finished \in Seq(DOMAIN validators)
    BY DEF ValidationInv, OutcomeInv, Parameters, PathsKnown
  <2>2. facts \in Seq(Definitions)
    <3>1. facts = <<>> \/ Sorted(facts)
      BY <2>1 DEF OutcomeInv
    <3>2. <<>> \in Seq(Definitions)
      BY SMT
    <3> QED BY <3>1, <3>2 DEF Sorted
  <2>3. \A w \in DOMAIN validators :
          /\ validators[w].error \in Messages
          /\ validators[w].records \in Seq(Messages)
          /\ validators[w].collected \in Seq(Messages)
          /\ validators[w].next \in 1 .. LastOf(w) + 1
          /\ validators[w].status \in {"running", "ok", "failed"}
          /\ validators[w].status = "failed" =>
               /\ validators[w].error # NoMessage
               /\ collect => validators[w].records # <<>>
    BY DEF OutcomeInv, Sound, ValidatorType
  <2> QED BY <2>1, <2>2, <2>3 DEF TypeOK
<1> QED BY ValidationInvariant, OutcomeInvariant, <1>1, PTL

\* However many workers there are and whoever finishes first, a published program has
\* each definition's facts once, in the order of the paths, and a rejected program has
\* none (mergeWorkerPublicationFacts, sortCollectedCallableSummaries).
THEOREM FactsIndependent ==
  Spec => [](/\ facts # <<>> => Outcome.status = "ok"
             /\ phase = "published" => FactsByPath)
<1>1. ValidationInv /\ OutcomeInv =>
        /\ facts # <<>> => Outcome.status = "ok"
        /\ phase = "published" => FactsByPath
  BY DEF ValidationInv, OutcomeInv, Sorted, FactsByPath, IncreasingSeq
<1> QED BY ValidationInvariant, OutcomeInvariant, <1>1, PTL

-----------------------------------------------------------------------------
(***************************************************************************)
(* Interning a sequence of symbols.                                        *)
(***************************************************************************)
Origins == [definition : Nat, field : Nat]

\* A set of symbols.
SymbolsOnly(T) == \A s \in T : s.origin \in Origins

\* Places in the program are in a strict total order.
LEMMA OriginOrder ==
  /\ \A a \in Origins : ~OriginLess(a, a)
  /\ \A a, b \in Origins : a # b => OriginLess(a, b) \/ OriginLess(b, a)
  /\ \A a, b, c \in Origins : OriginLess(a, b) /\ OriginLess(b, c) => OriginLess(a, c)
<1>1. \A a \in Origins : a.definition \in Nat /\ a.field \in Nat
  BY DEF Origins
<1>2. \A a, b \in Origins : a.definition = b.definition /\ a.field = b.field => a = b
  BY DEF Origins
<1>3. \A a, b \in Origins : a # b => OriginLess(a, b) \/ OriginLess(b, a)
  BY <1>1, <1>2, SMT DEF OriginLess
<1>4. \A a, b, c \in Origins : OriginLess(a, b) /\ OriginLess(b, c) => OriginLess(a, c)
  BY <1>1, SMT DEF OriginLess
<1>5. \A a \in Origins : ~OriginLess(a, a)
  BY <1>1, SMT DEF OriginLess
<1> QED BY <1>3, <1>4, <1>5

\* Not to be before is transitive.
LEMMA NotLessOrder ==
  ASSUME NEW a \in Origins, NEW b \in Origins, NEW c \in Origins,
         ~OriginLess(a, b), ~OriginLess(b, c)
  PROVE  ~OriginLess(a, c)
BY SMT DEF OriginLess, Origins

\* The interners after each symbol.
Interning(f, interner, L, T) ==
  /\ f \in [0 .. Len(L) -> Seq(T)]
  /\ f[0] = interner
  /\ \A n \in 1 .. Len(L) : f[n] = Intern(f[n - 1], L[n])

\* Interning a symbol does nothing, adds it at the end, or lowers the origin of the
\* one that has its text.
Interns(r, s, q) ==
  \/ s.text = NoText /\ q = r
  \/ s.text # NoText /\ (\A i \in DOMAIN r : r[i].text # s.text) /\ q = Append(r, s)
  \/ /\ s.text # NoText
     /\ \E i \in DOMAIN r :
          /\ r[i].text = s.text
          /\ \/ ~OriginLess(s.origin, r[i].origin) /\ q = r
             \/ OriginLess(s.origin, r[i].origin) /\ q = [r EXCEPT ![i] = s]

\* These are all the things that Intern does.
LEMMA InternCases ==
  ASSUME NEW T, NEW r \in Seq(T), NEW s \in T
  PROVE  Intern(r, s) \in Seq(T) /\ Interns(r, s, Intern(r, s))
<1> USE DEF Interns
<1> DEFINE existing == {i \in DOMAIN r : r[i].text = s.text}
<1> DEFINE place == CHOOSE i \in existing : TRUE
<1>1. CASE s.text = NoText
  BY <1>1 DEF Intern
<1>2. CASE s.text # NoText /\ existing = {}
  <2>1. Intern(r, s) = Append(r, s)
    BY <1>2 DEF Intern
  <2>2. Append(r, s) \in Seq(T)
    BY SMT
  <2> QED BY <1>2, <2>1, <2>2
<1>3. CASE s.text # NoText /\ existing # {}
  <2>1. place \in existing
    <3> HIDE DEF existing
    <3> QED BY <1>3
  <2>2. Intern(r, s) = LowerOrigin(r, place, s)
    BY <1>3 DEF Intern
  <2> HIDE DEF place
  <2>3. place \in DOMAIN r /\ r[place].text = s.text
    BY <2>1
  <2>4. [r EXCEPT ![place] = s] \in Seq(T)
    BY <2>3, SMT
  <2> QED BY <1>3, <2>2, <2>3, <2>4 DEF LowerOrigin
<1> QED BY <1>1, <1>2, <1>3

\* InternAll is what the last of them leaves.
LEMMA InternAllSteps ==
  ASSUME NEW T, NEW interner \in Seq(T), NEW L \in Seq(T)
  PROVE  \E f : /\ Interning(f, interner, L, T)
                /\ InternAll(interner, L) = f[Len(L)]
<1> DEFINE N == Len(L)
<1> DEFINE F == [p \in Seq(T) \X (1 .. N) |-> Intern(p[1], L[p[2]])]
<1>1. N \in Nat /\ \A n \in 1 .. N : L[n] \in T
  BY SMT
<1>2. IsStep(F, Seq(T), N)
  <2>1. ASSUME NEW p \in Seq(T) \X (1 .. N) PROVE Intern(p[1], L[p[2]]) \in Seq(T)
    <3>1. p[1] \in Seq(T) /\ L[p[2]] \in T
      BY <1>1
    <3> QED BY <3>1, InternCases
  <2> HIDE DEF N
  <2> QED BY <2>1 DEF IsStep
<1>3. PICK f : Iterated(f, F, interner, Seq(T), N)
  <2> HIDE DEF F, N
  <2> QED BY <1>1, <1>2, Recursion
<1>4. /\ f \in [0 .. N -> Seq(T)] /\ f[0] = interner
      /\ \A i \in 1 .. N : f[i] = F[<<f[i - 1], i>>]
  BY <1>3 DEF Iterated
<1>5. \A i \in 1 .. N : f[i - 1] \in Seq(T) /\ f[i] = Intern(f[i - 1], L[i])
  <2> TAKE i \in 1 .. N
  <2>1. i - 1 \in 0 .. N
    <3> HIDE DEF N
    <3> QED BY <1>1, SMT
  <2>2. f[i - 1] \in Seq(T)
    BY <1>4, <2>1
  <2>3. <<f[i - 1], i>> \in Seq(T) \X (1 .. N)
    BY <2>2
  <2>4. F[<<f[i - 1], i>>] = Intern(f[i - 1], L[i])
    BY <2>3
  <2> QED BY <1>4, <2>2, <2>4
<1> HIDE DEF F
<1> DEFINE Solves(g) == g = [n \in 0 .. N |-> IF n = 0 THEN interner
                                             ELSE Intern(g[n - 1], L[n])]
<1> DEFINE after == CHOOSE g : Solves(g)
<1>6. InternAll(interner, L) = after[N]
  BY DEF InternAll
<1>7. Solves(f)
  <2>1. ASSUME NEW n \in 0 .. N
        PROVE  f[n] = IF n = 0 THEN interner ELSE Intern(f[n - 1], L[n])
    <3>1. n = 0 \/ n \in 1 .. N
      <4> HIDE DEF N
      <4> QED BY <1>1, SMT
    <3>2. n \in 1 .. N => n # 0
      <4> HIDE DEF N
      <4> QED BY <1>1, SMT
    <3> QED BY <1>4, <1>5, <3>1, <3>2
  <2>2. f = [n \in 0 .. N |-> f[n]]
    <3> HIDE DEF N
    <3> QED BY <1>4
  <2> HIDE DEF N
  <2> QED BY <2>1, <2>2
<1>8. Solves(after)
  <2> HIDE DEF Solves
  <2> QED BY <1>7
<1> HIDE DEF after
<1>9. ASSUME NEW n \in 0 .. N
      PROVE  after[n] = IF n = 0 THEN interner ELSE Intern(after[n - 1], L[n])
  <2> HIDE DEF N
  <2> QED BY <1>8
<1> HIDE DEF N
<1> DEFINE S == {n \in Nat : n <= N => after[n] = f[n]}
<1>10. 0 \in S
  <2>1. 0 \in 0 .. N
    BY <1>1, SMT
  <2> QED BY <1>4, <1>9, <2>1
<1>11. ASSUME NEW n \in Nat, n \in S PROVE n + 1 \in S
  <2>1. SUFFICES ASSUME n + 1 <= N PROVE after[n + 1] = f[n + 1]
    OBVIOUS
  <2>2. /\ n + 1 \in 0 .. N /\ n + 1 \in 1 .. N /\ n + 1 # 0 /\ (n + 1) - 1 = n /\ n <= N
    BY <1>1, <2>1, SMT
  <2>3. after[n] = f[n]
    BY <1>11, <2>2
  <2> QED BY <1>5, <1>9, <2>2, <2>3
<1>12. N \in S /\ N <= N
  <2>1. \A n \in Nat : n \in S
    <3> HIDE DEF S
    <3> QED BY <1>10, <1>11, SetInduction
  <2> HIDE DEF S
  <2> QED BY <1>1, <2>1, SMT
<1>13. after[N] = f[N]
  BY <1>12
<1>14. Interning(f, interner, L, T)
  BY <1>4, <1>5 DEF Interning, N
<1> QED BY <1>6, <1>13, <1>14 DEF N

\* r has each text of the first n symbols once, with the least of its origins, in the
\* order in which the texts first occur.
Distinct(r) == \A i, j \in DOMAIN r : i # j => r[i].text # r[j].text
Taken(r, L, n) == \A i \in DOMAIN r : r[i].text # NoText /\ \E k \in 1 .. n : L[k] = r[i]
Least(r, L, n) ==
  \A i \in DOMAIN r, k \in 1 .. n :
    L[k].text = r[i].text => ~OriginLess(L[k].origin, r[i].origin)
Complete(r, L, n) ==
  \A k \in 1 .. n : L[k].text # NoText => \E i \in DOMAIN r : r[i].text = L[k].text
NotUpTo(L, k, text) == \A earlier \in 1 .. k : L[earlier].text # text
FirstSeen(r, L, n) ==
  \A i, j \in DOMAIN r : i < j =>
    \E k \in 1 .. n : L[k].text = r[i].text /\ NotUpTo(L, k, r[j].text)

Interned(r, L, n) ==
  Distinct(r) /\ Taken(r, L, n) /\ Least(r, L, n) /\ Complete(r, L, n) /\ FirstSeen(r, L, n)

\* What the texts alone decide survives the next symbol, when it adds none.
LEMMA SameTexts ==
  ASSUME NEW L, NEW n \in Nat, NEW r, NEW q, DOMAIN q = DOMAIN r,
         \A i \in DOMAIN r : q[i].text = r[i].text,
         Distinct(r), Complete(r, L, n), FirstSeen(r, L, n),
         L[n + 1].text # NoText => \E i \in DOMAIN r : r[i].text = L[n + 1].text
  PROVE  Distinct(q) /\ Complete(q, L, n + 1) /\ FirstSeen(q, L, n + 1)
<1>1. Distinct(q)
  BY DEF Distinct
<1>2. Complete(q, L, n + 1)
  <2> SUFFICES ASSUME NEW k \in 1 .. n + 1, L[k].text # NoText
               PROVE  \E i \in DOMAIN q : q[i].text = L[k].text
    BY DEF Complete
  <2>1. k \in 1 .. n \/ k = n + 1
    BY SMT
  <2>2. \E i \in DOMAIN r : r[i].text = L[k].text
    BY <2>1 DEF Complete
  <2> QED BY <2>2
<1>3. FirstSeen(q, L, n + 1)
  <2> SUFFICES ASSUME NEW i \in DOMAIN q, NEW j \in DOMAIN q, i < j
               PROVE  \E k \in 1 .. n + 1 : L[k].text = q[i].text /\ NotUpTo(L, k, q[j].text)
    BY DEF FirstSeen
  <2>1. PICK k \in 1 .. n : L[k].text = r[i].text /\ NotUpTo(L, k, r[j].text)
    BY DEF FirstSeen
  <2>2. k \in 1 .. n + 1
    BY SMT
  <2> QED BY <2>1, <2>2
<1> QED BY <1>1, <1>2, <1>3

\* Interning the next symbol.
LEMMA InternedMore ==
  ASSUME NEW T, SymbolsOnly(T), NEW L \in Seq(T), NEW n \in Nat, n + 1 \in 1 .. Len(L),
         NEW r \in Seq(T), Interned(r, L, n)
  PROVE  Interned(Intern(r, L[n + 1]), L, n + 1)
<1> DEFINE s == L[n + 1]
<1> DEFINE q == Intern(r, s)
<1>1. s \in T /\ s.origin \in Origins
  BY SMT DEF SymbolsOnly
<1>2. \A i \in DOMAIN r : r[i].origin \in Origins
  BY SMT DEF SymbolsOnly
<1>3. /\ \A k \in 1 .. n : k \in 1 .. n + 1
      /\ n + 1 \in 1 .. n + 1
      /\ \A k \in 1 .. n + 1 : k \in 1 .. n \/ k = n + 1
      /\ \A k \in 1 .. n : \A e \in 1 .. k : e \in 1 .. n
  BY SMT
<1>4. \A k \in 1 .. n + 1 : L[k].origin \in Origins
  <2>1. \A k \in 1 .. n + 1 : k \in 1 .. Len(L)
    BY SMT
  <2> QED BY <2>1, SMT DEF SymbolsOnly
<1>5. Distinct(r) /\ Taken(r, L, n) /\ Least(r, L, n) /\ Complete(r, L, n) /\ FirstSeen(r, L, n)
  BY DEF Interned
<1>6. s = L[n + 1]
  OBVIOUS
<1>7. Interns(r, s, q)
  BY <1>1, InternCases
<1> HIDE DEF s, q
<1>8. ASSUME q = r, \A i \in DOMAIN r : s.text = r[i].text => ~OriginLess(s.origin, r[i].origin),
             s.text # NoText => \E i \in DOMAIN r : r[i].text = s.text
      PROVE  Interned(q, L, n + 1)
  <2>1. Taken(r, L, n + 1)
    <3> SUFFICES ASSUME NEW i \in DOMAIN r
                 PROVE  r[i].text # NoText /\ \E k \in 1 .. n + 1 : L[k] = r[i]
      BY DEF Taken
    <3>1. r[i].text # NoText /\ \E k \in 1 .. n : L[k] = r[i]
      BY <1>5 DEF Taken
    <3> QED BY <1>3, <3>1
  <2>2. Least(r, L, n + 1)
    <3> SUFFICES ASSUME NEW i \in DOMAIN r, NEW k \in 1 .. n + 1, L[k].text = r[i].text
                 PROVE  ~OriginLess(L[k].origin, r[i].origin)
      BY DEF Least
    <3>1. CASE k \in 1 .. n
      BY <1>5, <3>1 DEF Least
    <3>2. CASE k = n + 1
      BY <1>6, <1>8, <3>2
    <3> QED BY <1>3, <3>1, <3>2
  <2>3. Distinct(r) /\ Complete(r, L, n + 1) /\ FirstSeen(r, L, n + 1)
    BY <1>5, <1>6, <1>8, SameTexts
  <2> QED BY <1>8, <2>1, <2>2, <2>3 DEF Interned
<1>9. ASSUME s.text # NoText, \A i \in DOMAIN r : r[i].text # s.text, q = Append(r, s)
      PROVE  Interned(q, L, n + 1)
  <2> DEFINE m == Len(r) + 1
  <2>1. /\ \A i \in DOMAIN r : i \in DOMAIN q /\ q[i] = r[i] /\ i # m /\ ~(m < i)
        /\ m \in DOMAIN q /\ q[m] = s /\ ~(m < m)
        /\ \A i \in DOMAIN q : i \in DOMAIN r \/ i = m
    BY <1>1, <1>9, SMT
  <2> HIDE DEF m
  <2>2. Distinct(q)
    <3> SUFFICES ASSUME NEW i \in DOMAIN q, NEW j \in DOMAIN q, i # j
                 PROVE  q[i].text # q[j].text
      BY DEF Distinct
    <3>1. CASE i \in DOMAIN r /\ j \in DOMAIN r
      BY <1>5, <2>1, <3>1 DEF Distinct
    <3>2. CASE i \in DOMAIN r /\ j = m
      BY <1>9, <2>1, <3>2
    <3>3. CASE i = m /\ j \in DOMAIN r
      BY <1>9, <2>1, <3>3
    <3> QED BY <2>1, <3>1, <3>2, <3>3
  <2>3. Taken(q, L, n + 1)
    <3> SUFFICES ASSUME NEW i \in DOMAIN q
                 PROVE  q[i].text # NoText /\ \E k \in 1 .. n + 1 : L[k] = q[i]
      BY DEF Taken
    <3>1. CASE i \in DOMAIN r
      <4>1. r[i].text # NoText /\ \E k \in 1 .. n : L[k] = r[i]
        BY <1>5, <3>1 DEF Taken
      <4> QED BY <1>3, <2>1, <3>1, <4>1
    <3>2. CASE i = m
      BY <1>3, <1>6, <1>9, <2>1, <3>2
    <3> QED BY <2>1, <3>1, <3>2
  <2>4. NotUpTo(L, n, s.text)
    <3>1. \A k \in 1 .. n : L[k].text # s.text
      BY <1>5, <1>9 DEF Complete
    <3> QED BY <3>1 DEF NotUpTo
  <2>5. Least(q, L, n + 1)
    <3> SUFFICES ASSUME NEW i \in DOMAIN q, NEW k \in 1 .. n + 1, L[k].text = q[i].text
                 PROVE  ~OriginLess(L[k].origin, q[i].origin)
      BY DEF Least
    <3>1. CASE i \in DOMAIN r
      <4>1. k \in 1 .. n
        BY <1>3, <1>6, <1>9, <2>1, <3>1
      <4> QED BY <1>5, <2>1, <3>1, <4>1 DEF Least
    <3>2. CASE i = m
      <4>1. k = n + 1
        BY <1>3, <2>1, <2>4, <3>2 DEF NotUpTo
      <4>2. L[k].origin = s.origin /\ q[i].origin = s.origin
        BY <1>6, <2>1, <3>2, <4>1
      <4> QED BY <1>1, <4>2, OriginOrder
    <3> QED BY <2>1, <3>1, <3>2
  <2>6. Complete(q, L, n + 1)
    <3> SUFFICES ASSUME NEW k \in 1 .. n + 1, L[k].text # NoText
                 PROVE  \E i \in DOMAIN q : q[i].text = L[k].text
      BY DEF Complete
    <3>1. CASE k \in 1 .. n
      <4>1. PICK i \in DOMAIN r : r[i].text = L[k].text
        BY <1>5, <3>1 DEF Complete
      <4> QED BY <2>1, <4>1
    <3>2. CASE k = n + 1
      BY <1>6, <2>1, <3>2
    <3> QED BY <1>3, <3>1, <3>2
  <2>7. FirstSeen(q, L, n + 1)
    <3> SUFFICES ASSUME NEW i \in DOMAIN q, NEW j \in DOMAIN q, i < j
                 PROVE  \E k \in 1 .. n + 1 :
                          L[k].text = q[i].text /\ NotUpTo(L, k, q[j].text)
      BY DEF FirstSeen
    <3>1. i \in DOMAIN r /\ q[i] = r[i]
      <4>1. i # m
        BY <2>1
      <4> QED BY <2>1, <4>1
    <3>2. CASE j \in DOMAIN r
      <4>1. PICK k \in 1 .. n : L[k].text = r[i].text /\ NotUpTo(L, k, r[j].text)
        BY <1>5, <3>1, <3>2 DEF FirstSeen
      <4>2. k \in 1 .. n + 1 /\ q[j] = r[j]
        BY <1>3, <2>1, <3>2
      <4> QED BY <3>1, <4>1, <4>2
    <3>3. CASE j = m
      <4>1. PICK k \in 1 .. n : L[k] = r[i]
        BY <1>5, <3>1 DEF Taken
      <4>2. NotUpTo(L, k, s.text)
        BY <1>3, <2>4 DEF NotUpTo
      <4> QED BY <1>3, <2>1, <3>1, <3>3, <4>1, <4>2
    <3> QED BY <2>1, <3>2, <3>3
  <2> QED BY <2>2, <2>3, <2>5, <2>6, <2>7 DEF Interned
<1>10. ASSUME s.text # NoText, NEW p \in DOMAIN r, r[p].text = s.text,
              OriginLess(s.origin, r[p].origin), q = [r EXCEPT ![p] = s]
       PROVE  Interned(q, L, n + 1)
  <2>1. /\ DOMAIN q = DOMAIN r /\ q[p] = s
        /\ \A i \in DOMAIN r : i # p => q[i] = r[i]
    BY <1>10, SMT
  <2>2. \A i \in DOMAIN r : q[i].text = r[i].text
    <3> TAKE i \in DOMAIN r
    <3>1. CASE i = p
      BY <1>10, <2>1, <3>1
    <3>2. CASE i # p
      BY <2>1, <3>2
    <3> QED BY <3>1, <3>2
  <2>3. Distinct(q) /\ Complete(q, L, n + 1) /\ FirstSeen(q, L, n + 1)
    BY <1>5, <1>6, <1>10, <2>1, <2>2, SameTexts
  <2>4. Taken(q, L, n + 1)
    <3> SUFFICES ASSUME NEW i \in DOMAIN r
                 PROVE  q[i].text # NoText /\ \E k \in 1 .. n + 1 : L[k] = q[i]
      BY <2>1 DEF Taken
    <3>1. CASE i = p
      BY <1>3, <1>6, <1>10, <2>1, <3>1
    <3>2. CASE i # p
      <4>1. r[i].text # NoText /\ \E k \in 1 .. n : L[k] = r[i]
        BY <1>5 DEF Taken
      <4> QED BY <1>3, <2>1, <3>2, <4>1
    <3> QED BY <3>1, <3>2
  <2>5. Least(q, L, n + 1)
    <3> SUFFICES ASSUME NEW i \in DOMAIN r, NEW k \in 1 .. n + 1, L[k].text = r[i].text
                 PROVE  ~OriginLess(L[k].origin, q[i].origin)
      BY <2>1, <2>2 DEF Least
    <3>1. CASE k \in 1 .. n /\ i # p
      BY <1>5, <2>1, <3>1 DEF Least
    <3>2. CASE k \in 1 .. n /\ i = p
      <4>1. ~OriginLess(L[k].origin, r[p].origin)
        BY <1>5, <3>2 DEF Least
      <4>2. L[k].origin \in Origins /\ s.origin \in Origins /\ r[p].origin \in Origins
        BY <1>1, <1>2, <1>3, <1>4, <1>10
      <4>3. ~OriginLess(L[k].origin, s.origin)
        BY <1>10, <4>1, <4>2, OriginOrder, Zenon
      <4> QED BY <2>1, <3>2, <4>3
    <3>3. CASE k = n + 1
      <4>1. i = p
        BY <1>5, <1>6, <1>10, <3>3 DEF Distinct
      <4> QED BY <1>1, <1>6, <2>1, <3>3, <4>1, OriginOrder
    <3> QED BY <1>3, <3>1, <3>2, <3>3
  <2> QED BY <2>3, <2>4, <2>5 DEF Interned
<1>11. CASE s.text = NoText /\ q = r
  <2>1. \A i \in DOMAIN r : s.text # r[i].text
    BY <1>5, <1>11 DEF Taken
  <2> QED BY <1>8, <1>11, <2>1 DEF q, s
<1>12. CASE s.text # NoText /\ (\A i \in DOMAIN r : r[i].text # s.text) /\ q = Append(r, s)
  BY <1>9, <1>12 DEF q, s
<1>13. CASE s.text # NoText /\ \E i \in DOMAIN r :
                /\ r[i].text = s.text
                /\ \/ ~OriginLess(s.origin, r[i].origin) /\ q = r
                   \/ OriginLess(s.origin, r[i].origin) /\ q = [r EXCEPT ![i] = s]
  <2>1. PICK p \in DOMAIN r :
          /\ r[p].text = s.text
          /\ \/ ~OriginLess(s.origin, r[p].origin) /\ q = r
             \/ OriginLess(s.origin, r[p].origin) /\ q = [r EXCEPT ![p] = s]
    BY <1>13
  <2>2. CASE ~OriginLess(s.origin, r[p].origin) /\ q = r
    <3>1. \A i \in DOMAIN r : s.text = r[i].text => i = p
      BY <1>5, <2>1 DEF Distinct
    <3>2. Interned(q, L, n + 1)
      BY <1>8, <2>1, <2>2, <3>1
    <3> QED BY <3>2 DEF q, s
  <2>3. CASE OriginLess(s.origin, r[p].origin) /\ q = [r EXCEPT ![p] = s]
    <3>1. Interned(q, L, n + 1)
      BY <1>10, <1>13, <2>1, <2>3
    <3> QED BY <3>1 DEF q, s
  <2> QED BY <2>1, <2>2, <2>3
<1> QED BY <1>7, <1>11, <1>12, <1>13 DEF Interns

\* A new interner that has interned a sequence of symbols has each text once, with its
\* least origin, in the order in which the texts first occur (SymbolInterner::intern).
THEOREM InternedAll ==
  ASSUME NEW T, SymbolsOnly(T), NEW L \in Seq(T)
  PROVE  InternAll(<<>>, L) \in Seq(T) /\ Interned(InternAll(<<>>, L), L, Len(L))
<1>1. <<>> \in Seq(T) /\ Len(L) \in Nat
  BY SMT
<1>2. PICK f : Interning(f, <<>>, L, T) /\ InternAll(<<>>, L) = f[Len(L)]
  BY <1>1, InternAllSteps
<1>3. /\ f \in [0 .. Len(L) -> Seq(T)] /\ f[0] = <<>>
      /\ \A n \in 1 .. Len(L) : f[n] = Intern(f[n - 1], L[n])
  BY <1>2 DEF Interning
<1> DEFINE S == {n \in Nat : n <= Len(L) => Interned(f[n], L, n)}
<1>4. 0 \in S
  <2>1. DOMAIN <<>> = {} /\ 1 .. 0 = {}
    BY SMT
  <2>2. Interned(<<>>, L, 0)
    BY <2>1, Zenon DEF Interned, Distinct, Taken, Least, Complete, FirstSeen
  <2> QED BY <1>3, <2>2
<1>5. ASSUME NEW n \in Nat, n \in S PROVE n + 1 \in S
  <2>1. SUFFICES ASSUME n + 1 <= Len(L) PROVE Interned(f[n + 1], L, n + 1)
    OBVIOUS
  <2>2. n + 1 \in 1 .. Len(L) /\ (n + 1) - 1 = n /\ n <= Len(L) /\ n \in 0 .. Len(L)
    BY <1>1, <2>1, SMT
  <2>3. f[n] \in Seq(T) /\ f[n + 1] = Intern(f[n], L[n + 1]) /\ Interned(f[n], L, n)
    BY <1>3, <1>5, <2>2
  <2> QED BY <2>2, <2>3, InternedMore
<1>6. Len(L) \in S /\ Len(L) <= Len(L) /\ Len(L) \in 0 .. Len(L)
  <2>1. \A n \in Nat : n \in S
    <3> HIDE DEF S
    <3> QED BY <1>4, <1>5, SetInduction
  <2> HIDE DEF S
  <2> QED BY <1>1, <2>1, SMT
<1> QED BY <1>2, <1>3, <1>6

\* Interning texts that are there already leaves the texts as they are.
LEMMA InternKnown ==
  ASSUME NEW T, NEW interner \in Seq(T), NEW L \in Seq(T),
         \A k \in 1 .. Len(L) : L[k].text = NoText \/
            \E i \in DOMAIN interner : interner[i].text = L[k].text
  PROVE  TextsOf(InternAll(interner, L)) = TextsOf(interner)
<1> DEFINE Same(r) == DOMAIN r = DOMAIN interner /\ \A i \in DOMAIN r : r[i].text = interner[i].text
<1>1. Len(L) \in Nat /\ \A n \in 1 .. Len(L) : L[n] \in T
  BY SMT
<1>2. PICK f : Interning(f, interner, L, T) /\ InternAll(interner, L) = f[Len(L)]
  BY InternAllSteps
<1>3. /\ f \in [0 .. Len(L) -> Seq(T)] /\ f[0] = interner
      /\ \A n \in 1 .. Len(L) : f[n] = Intern(f[n - 1], L[n])
  BY <1>2 DEF Interning
<1> DEFINE S == {n \in Nat : n <= Len(L) => Same(f[n])}
<1>4. 0 \in S
  BY <1>3
<1>5. ASSUME NEW n \in Nat, n \in S PROVE n + 1 \in S
  <2>1. SUFFICES ASSUME n + 1 <= Len(L) PROVE Same(f[n + 1])
    OBVIOUS
  <2>2. n + 1 \in 1 .. Len(L) /\ (n + 1) - 1 = n /\ n <= Len(L) /\ n \in 0 .. Len(L)
    BY <1>1, <2>1, SMT
  <2> DEFINE r == f[n]
  <2> DEFINE s == L[n + 1]
  <2>3. r \in Seq(T) /\ f[n + 1] = Intern(r, s) /\ Same(r) /\ s \in T
    BY <1>1, <1>3, <1>5, <2>2
  <2>4. s.text = NoText \/ \E i \in DOMAIN r : r[i].text = s.text
    BY <2>2, <2>3
  <2> HIDE DEF r, s
  <2>5. \/ Intern(r, s) = r
        \/ \E i \in DOMAIN r : r[i].text = s.text /\ Intern(r, s) = [r EXCEPT ![i] = s]
    <3>1. Interns(r, s, Intern(r, s))
      BY <2>3, InternCases
    <3> QED BY <2>4, <3>1 DEF Interns
  <2>6. ASSUME NEW i \in DOMAIN r, r[i].text = s.text, NEW q, q = [r EXCEPT ![i] = s]
        PROVE  Same(q)
    <3>1. DOMAIN q = DOMAIN r /\ q[i] = s /\ \A j \in DOMAIN r : j # i => q[j] = r[j]
      BY <2>3, <2>6, SMT
    <3> QED BY <2>3, <2>6, <3>1
  <2> HIDE DEF Same
  <2> QED BY <2>3, <2>5, <2>6
<1>6. Len(L) \in S /\ Len(L) <= Len(L)
  <2>1. \A n \in Nat : n \in S
    <3> HIDE DEF S
    <3> QED BY <1>4, <1>5, SetInduction
  <2> HIDE DEF S
  <2> QED BY <1>1, <2>1, SMT
<1>7. Same(f[Len(L)])
  BY <1>6
<1> QED BY <1>2, <1>7 DEF TextsOf

-----------------------------------------------------------------------------
(***************************************************************************)
(* What an interner has when the strings of some definitions have been     *)
(* appended to it.                                                         *)
(***************************************************************************)
\* The symbols that the definitions of a set publish.
Named(d) == ToSet(SummaryStrings(d, publications[d])) \cup ToSet(OnErrorStrings(d, publications[d]))
NamedIn(D) == UNION {Named(d) : d \in D}

\* The symbols of one definition: the summary names them in the order of their
\* places, and only its effect and its handler may share one.
LEMMA NamedSymbols ==
  ASSUME NEW d \in Nat
  PROVE  LET p == publications[d]
             summary == SummaryStrings(d, p)
         IN /\ summary \in Seq(Named(d)) /\ OnErrorStrings(d, p) \in Seq(Named(d))
            /\ \A x \in Named(d) : x.origin \in Origins /\ x.origin.definition = d
            /\ \A a, b \in DOMAIN summary :
                 a < b => OriginLess(summary[a].origin, summary[b].origin)
            /\ \A x \in Named(d) : \E y \in ToSet(summary) : y.text = x.text
            /\ \A x, y \in Named(d) : x.origin = y.origin /\ x.text # y.text =>
                 \/ x.text = p.effect
                 \/ /\ x.text = p.handler /\ y.text = p.effect /\ x.origin = Origin(d, 2)
                    /\ Symbol(p.effect, Origin(d, 2)) \in ToSet(summary)
<1> DEFINE p == publications[d]
<1> DEFINE summary == SummaryStrings(d, p)
<1> DEFINE onError == OnErrorStrings(d, p)
<1> DEFINE A == Symbol(p.path, Origin(d, 0))
<1> DEFINE B == Symbol(p.returnKind, Origin(d, 1))
<1> DEFINE C == Symbol(p.effect, Origin(d, 2))
<1> DEFINE K == Symbol(p.capability, Origin(d, 32))
<1> DEFINE H == Symbol(p.handler, Origin(d, 66))
<1> DEFINE E == Symbol(p.handler, Origin(d, 2))
<1>1. /\ A.text = p.path /\ A.origin = Origin(d, 0)
      /\ B.text = p.returnKind /\ B.origin = Origin(d, 1)
      /\ C.text = p.effect /\ C.origin = Origin(d, 2)
      /\ K.text = p.capability /\ K.origin = Origin(d, 32)
      /\ H.text = p.handler /\ H.origin = Origin(d, 66)
      /\ E.text = p.handler /\ E.origin = Origin(d, 2)
  BY DEF Symbol
<1>2. /\ summary = <<A, B, C, K, H>>
      /\ onError = <<>> \/ onError = <<A, B, E>>
  BY DEF SummaryStrings, OnErrorStrings
<1>3. \A f \in {0, 1, 2, 32, 66} :
        Origin(d, f) \in Origins /\ Origin(d, f).definition = d /\ Origin(d, f).field = f
  BY SMT DEF Origin, Origins
<1>4. Named(d) = ToSet(summary) \cup ToSet(onError)
  BY DEF Named
<1> HIDE DEF A, B, C, K, H, E, summary, onError, p
<1>5. /\ ToSet(summary) = {A, B, C, K, H}
      /\ onError = <<>> => ToSet(onError) = {}
      /\ onError = <<A, B, E>> => ToSet(onError) = {A, B, E}
      /\ DOMAIN summary = 1 .. 5 /\ summary[1] = A /\ summary[2] = B /\ summary[3] = C
      /\ summary[4] = K /\ summary[5] = H
  BY <1>2, SMT DEF ToSet
<1>6. Named(d) \in SUBSET {A, B, C, K, H, E}
  BY <1>2, <1>4, <1>5
<1>7. summary \in Seq(Named(d)) /\ onError \in Seq(Named(d))
  <2>1. /\ <<A, B, C, K, H>> \in Seq({A, B, C, K, H}) /\ <<A, B, E>> \in Seq({A, B, E})
        /\ <<>> \in Seq({})
    BY SMT
  <2>2. summary \in Seq(ToSet(summary)) /\ onError \in Seq(ToSet(onError))
    BY <1>2, <1>5, <2>1
  <2>3. \A s, S : s \in Seq(S) /\ S \in SUBSET Named(d) => s \in Seq(Named(d))
    BY SMT
  <2>4. ToSet(summary) \in SUBSET Named(d) /\ ToSet(onError) \in SUBSET Named(d)
    BY <1>4
  <2> QED BY <2>2, <2>3, <2>4
<1>8. \A x \in Named(d) : x.origin \in Origins /\ x.origin.definition = d
  BY <1>1, <1>3, <1>6
<1>9. \A a, b \in DOMAIN summary :
        a < b => OriginLess(summary[a].origin, summary[b].origin)
  <2>1. \A f, g \in {0, 1, 2, 32, 66} : f < g => OriginLess(Origin(d, f), Origin(d, g))
    BY <1>3, SMT DEF OriginLess
  <2>2. /\ OriginLess(A.origin, B.origin) /\ OriginLess(A.origin, C.origin)
        /\ OriginLess(A.origin, K.origin) /\ OriginLess(A.origin, H.origin)
        /\ OriginLess(B.origin, C.origin) /\ OriginLess(B.origin, K.origin)
        /\ OriginLess(B.origin, H.origin) /\ OriginLess(C.origin, K.origin)
        /\ OriginLess(C.origin, H.origin) /\ OriginLess(K.origin, H.origin)
    BY <1>1, <2>1, SMT
  <2>3. \A a, b \in 1 .. 5 : a < b =>
          \/ a = 1 /\ b \in {2, 3, 4, 5}
          \/ a = 2 /\ b \in {3, 4, 5}
          \/ a = 3 /\ b \in {4, 5}
          \/ a = 4 /\ b = 5
    BY SMT
  <2> QED BY <1>5, <2>2, <2>3
<1>10. \A x \in Named(d) : \E y \in ToSet(summary) : y.text = x.text
  BY <1>1, <1>5, <1>6
<1>11. ASSUME NEW x \in Named(d), NEW y \in Named(d), x.origin = y.origin, x.text # y.text
       PROVE  \/ x.text = p.effect
              \/ /\ x.text = p.handler /\ y.text = p.effect /\ x.origin = Origin(d, 2)
                 /\ Symbol(p.effect, Origin(d, 2)) \in ToSet(summary)
  <2>1. C \in ToSet(summary) /\ C = Symbol(p.effect, Origin(d, 2))
    BY <1>5 DEF C
  <2>2. \A f, g \in {0, 1, 2, 32, 66} : Origin(d, f) = Origin(d, g) => f = g
    BY <1>3
  <2>3. x \in {A, B, C, K, H, E} /\ y \in {A, B, C, K, H, E}
    BY <1>6
  <2>4. x = C \/ x = E
    BY <1>1, <1>11, <2>2, <2>3, SMT
  <2>5. CASE x = C
    BY <1>1, <2>5
  <2>6. CASE x = E
    <3>1. y = C
      BY <1>1, <1>11, <2>2, <2>3, <2>6, SMT
    <3> QED BY <1>1, <2>1, <2>6, <3>1
  <2> QED BY <2>4, <2>5, <2>6
<1> QED BY <1>7, <1>8, <1>9, <1>10, <1>11 DEF p, summary, onError

\* The symbols of a sequence of definitions' facts.
FactSymbols(seqs, D) ==
  /\ FlattenSeq(seqs) \in Seq(NamedIn(D))
  /\ MadeOf(FlattenSeq(seqs), seqs, Len(seqs))

Summaries(s) == [i \in DOMAIN s |-> SummaryStrings(s[i], publications[s[i]])]
OnErrors(s) == [i \in DOMAIN s |-> OnErrorStrings(s[i], publications[s[i]])]

\* The strings of the facts of some definitions, put together.
LEMMA FactSymbolsOf ==
  ASSUME NEW D \in SUBSET Nat, NEW s \in Seq(D), ToSet(s) = D, D # {}
  PROVE  /\ Len(Summaries(s)) = Len(s) /\ Len(OnErrors(s)) = Len(s) /\ Len(s) \in Nat
         /\ FactSymbols(Summaries(s), D) /\ FactSymbols(OnErrors(s), D)
<1>1. Len(s) \in Nat \ {0} /\ DOMAIN s = 1 .. Len(s)
  <2>1. Len(s) \in Nat /\ DOMAIN s = 1 .. Len(s)
    BY SMT
  <2>2. s # <<>>
    <3>1. PICK i \in DOMAIN s : TRUE
      BY DEF ToSet
    <3> QED BY <3>1, SMT
  <2>3. Len(s) # 0
    BY <2>2, SMT
  <2> QED BY <2>1, <2>3
<1>2. Len(Summaries(s)) = Len(s) /\ Len(OnErrors(s)) = Len(s)
  BY <1>1, SMT DEF Summaries, OnErrors
<1>3. ASSUME NEW i \in 1 .. Len(s)
      PROVE  Summaries(s)[i] \in Seq(NamedIn(D)) /\ OnErrors(s)[i] \in Seq(NamedIn(D))
  <2>1. s[i] \in D /\ s[i] \in Nat
    <3>1. s[i] \in ToSet(s)
      BY <1>1 DEF ToSet
    <3> QED BY <3>1
  <2>2. /\ SummaryStrings(s[i], publications[s[i]]) \in Seq(Named(s[i]))
        /\ OnErrorStrings(s[i], publications[s[i]]) \in Seq(Named(s[i]))
    BY <2>1, NamedSymbols
  <2>3. Named(s[i]) \in SUBSET NamedIn(D)
    BY <2>1 DEF NamedIn
  <2>4. \A t : t \in Seq(Named(s[i])) => t \in Seq(NamedIn(D))
    BY <2>3, SMT
  <2> QED BY <1>1, <2>2, <2>4 DEF Summaries, OnErrors
<1>4. FactSymbols(Summaries(s), D)
  BY <1>1, <1>2, <1>3, FlattenedElements DEF FactSymbols
<1>5. FactSymbols(OnErrors(s), D)
  BY <1>1, <1>2, <1>3, FlattenedElements DEF FactSymbols
<1> QED BY <1>1, <1>2, <1>4, <1>5

\* r has each text that the definitions of D publish, once, with its first place there.
Snapshot(r, D) ==
  /\ r \in Seq(NamedIn(D)) /\ Distinct(r)
  /\ \A i \in DOMAIN r : r[i].text # NoText
  /\ \A x \in NamedIn(D) : x.text # NoText => \E i \in DOMAIN r : r[i].text = x.text
  /\ \A i \in DOMAIN r, x \in NamedIn(D) :
       x.text = r[i].text => ~OriginLess(x.origin, r[i].origin)

\* Of two texts with one place the effect comes first.
EffectsFirst(r) ==
  \A i, j \in DOMAIN r :
    i < j /\ r[i].origin = r[j].origin => r[i].text = publications[r[i].origin.definition].effect

\* All strings of the facts of D, the summaries in one order, the on-error facts in
\* another.
AllStrings(s, t) == FlattenSeq(Summaries(s)) \o FlattenSeq(OnErrors(t))

\* They are symbols of D, all of them, and what is appended.
LEMMA AllStringsNamed ==
  ASSUME NEW D \in SUBSET Nat, D # {},
         NEW s \in Seq(D), ToSet(s) = D, NEW t \in Seq(D), ToSet(t) = D
  PROVE  /\ AllStrings(s, t) \in Seq(NamedIn(D))
         /\ \A x \in NamedIn(D) : \E k \in 1 .. Len(AllStrings(s, t)) : AllStrings(s, t)[k] = x
         /\ \A interner : AppendPublicationStrings(interner, publications, s, t)
                            = InternAll(interner, AllStrings(s, t))
<1> DEFINE F == FlattenSeq(Summaries(s))
<1> DEFINE G == FlattenSeq(OnErrors(t))
<1> DEFINE L == F \o G
<1>1. /\ Len(Summaries(s)) = Len(s) /\ Len(OnErrors(t)) = Len(t) /\ Len(s) \in Nat /\ Len(t) \in Nat
      /\ FactSymbols(Summaries(s), D) /\ FactSymbols(OnErrors(t), D)
  BY FactSymbolsOf
<1>2. /\ F \in Seq(NamedIn(D)) /\ G \in Seq(NamedIn(D))
      /\ MadeOf(F, Summaries(s), Len(s)) /\ MadeOf(G, OnErrors(t), Len(t))
  BY <1>1 DEF FactSymbols
<1>3. \A interner : AppendPublicationStrings(interner, publications, s, t) = InternAll(interner, L)
  BY DEF AppendPublicationStrings, Summaries, OnErrors
<1>4. AllStrings(s, t) = L
  BY DEF AllStrings
<1> HIDE DEF F, G
<1>5. /\ L \in Seq(NamedIn(D))
      /\ \A k \in DOMAIN F : k \in DOMAIN L /\ L[k] = F[k]
      /\ \A k \in DOMAIN G : Len(F) + k \in DOMAIN L /\ L[Len(F) + k] = G[k]
  BY <1>2, Together
<1>6. DOMAIN L = 1 .. Len(L)
  BY <1>5, SMT
<1> HIDE DEF L
<1>7. ASSUME NEW x \in NamedIn(D) PROVE \E k \in 1 .. Len(L) : L[k] = x
  <2>1. PICK d \in D : x \in Named(d)
    BY DEF NamedIn
  <2>2. CASE x \in ToSet(SummaryStrings(d, publications[d]))
    <3>1. PICK i \in DOMAIN s : s[i] = d
      <4>1. d \in ToSet(s)
        OBVIOUS
      <4> QED BY <4>1 DEF ToSet
    <3>2. i \in 1 .. Len(s)
      BY SMT
    <3>3. Summaries(s)[i] = SummaryStrings(d, publications[d])
      BY <3>1 DEF Summaries
    <3>4. PICK a \in DOMAIN SummaryStrings(d, publications[d]) :
             SummaryStrings(d, publications[d])[a] = x
      BY <2>2 DEF ToSet
    <3>5. a \in Nat
      BY <3>4 DEF SummaryStrings
    <3>6. At(Summaries(s), i, a, x)
      BY <3>3, <3>4 DEF At
    <3>7. x \in ToSet(F)
      BY <1>2, <3>2, <3>5, <3>6 DEF MadeOf
    <3>8. PICK k \in DOMAIN F : F[k] = x
      BY <3>7 DEF ToSet
    <3> QED BY <1>5, <1>6, <3>8
  <2>3. CASE x \in ToSet(OnErrorStrings(d, publications[d]))
    <3>1. PICK i \in DOMAIN t : t[i] = d
      <4>1. d \in ToSet(t)
        OBVIOUS
      <4> QED BY <4>1 DEF ToSet
    <3>2. i \in 1 .. Len(t)
      BY SMT
    <3>3. OnErrors(t)[i] = OnErrorStrings(d, publications[d])
      BY <3>1 DEF OnErrors
    <3>4. PICK a \in DOMAIN OnErrorStrings(d, publications[d]) :
             OnErrorStrings(d, publications[d])[a] = x
      BY <2>3 DEF ToSet
    <3>5. a \in Nat
      <4>1. OnErrorStrings(d, publications[d]) \in Seq(Named(d))
        BY NamedSymbols
      <4> QED BY <3>4, <4>1, SMT
    <3>6. At(OnErrors(t), i, a, x)
      BY <3>3, <3>4 DEF At
    <3>7. x \in ToSet(G)
      BY <1>2, <3>2, <3>5, <3>6 DEF MadeOf
    <3>8. PICK k \in DOMAIN G : G[k] = x
      BY <3>7 DEF ToSet
    <3> QED BY <1>5, <1>6, <3>8
  <2> QED BY <2>1, <2>2, <2>3 DEF Named
<1> QED BY <1>3, <1>4, <1>5, <1>7

\* The symbols of some definitions are symbols.
LEMMA NamedOnly ==
  ASSUME NEW D \in SUBSET Nat
  PROVE  SymbolsOnly(NamedIn(D)) /\ \A x \in NamedIn(D) : x.origin.definition \in D
<1>1. ASSUME NEW x \in NamedIn(D) PROVE x.origin \in Origins /\ x.origin.definition \in D
  <2>1. PICK d \in D : x \in Named(d)
    BY DEF NamedIn
  <2> QED BY <2>1, NamedSymbols
<1> QED BY <1>1 DEF SymbolsOnly

\* A new interner, when the strings of some definitions' facts have been appended.
LEMMA AppendedIsSnapshot ==
  ASSUME NEW D \in SUBSET Nat, D # {},
         NEW s \in Seq(D), ToSet(s) = D, NEW t \in Seq(D), ToSet(t) = D
  PROVE  Snapshot(AppendPublicationStrings(<<>>, publications, s, t), D)
<1> DEFINE L == AllStrings(s, t)
<1> DEFINE r == InternAll(<<>>, L)
<1>1. /\ L \in Seq(NamedIn(D))
      /\ \A x \in NamedIn(D) : \E k \in 1 .. Len(L) : L[k] = x
      /\ AppendPublicationStrings(<<>>, publications, s, t) = r
  BY AllStringsNamed
<1>2. SymbolsOnly(NamedIn(D))
  BY NamedOnly
<1> HIDE DEF L
<1>3. r \in Seq(NamedIn(D)) /\ Interned(r, L, Len(L))
  BY <1>1, <1>2, InternedAll
<1> HIDE DEF r
<1>4. \A i \in DOMAIN r : r[i].text # NoText
  BY <1>3 DEF Interned, Taken
<1>5. ASSUME NEW x \in NamedIn(D), x.text # NoText PROVE \E i \in DOMAIN r : r[i].text = x.text
  <2>1. PICK k \in 1 .. Len(L) : L[k] = x
    BY <1>1
  <2> QED BY <1>3, <1>5, <2>1 DEF Interned, Complete
<1>6. ASSUME NEW i \in DOMAIN r, NEW x \in NamedIn(D), x.text = r[i].text
      PROVE  ~OriginLess(x.origin, r[i].origin)
  <2>1. PICK k \in 1 .. Len(L) : L[k] = x
    BY <1>1
  <2> QED BY <1>3, <1>6, <2>1 DEF Interned, Least
<1>7. Snapshot(r, D)
  BY <1>3, <1>4, <1>5, <1>6 DEF Snapshot, Interned
<1> QED BY <1>1, <1>7

\* When the summaries are in stable order, texts with the same first place are in the
\* order in which their summary names them.
LEMMA AppendedEffectsFirst ==
  ASSUME NEW D \in SUBSET Nat, D # {},
         NEW s \in Seq(D), ToSet(s) = D, NEW t \in Seq(D), ToSet(t) = D,
         \A i, j \in DOMAIN s : i < j => s[i] < s[j]
  PROVE  EffectsFirst(AppendPublicationStrings(<<>>, publications, s, t))
<1> DEFINE L == AllStrings(s, t)
<1> DEFINE F == FlattenSeq(Summaries(s))
<1> DEFINE r == InternAll(<<>>, L)
<1>1. /\ L \in Seq(NamedIn(D))
      /\ AppendPublicationStrings(<<>>, publications, s, t) = r
  BY AllStringsNamed
<1>2. SymbolsOnly(NamedIn(D)) /\ \A x \in NamedIn(D) : x.origin.definition \in D
  BY NamedOnly
<1>3. /\ F \in Seq(NamedIn(D)) /\ MadeOf(F, Summaries(s), Len(s)) /\ Len(s) \in Nat
      /\ \A k \in DOMAIN F : k \in DOMAIN L /\ L[k] = F[k]
  <2>1. /\ Len(Summaries(s)) = Len(s) /\ Len(s) \in Nat
        /\ FactSymbols(Summaries(s), D) /\ FactSymbols(OnErrors(t), D)
    BY FactSymbolsOf
  <2>2. /\ F \in Seq(NamedIn(D)) /\ FlattenSeq(OnErrors(t)) \in Seq(NamedIn(D))
        /\ MadeOf(F, Summaries(s), Len(s))
    BY <2>1 DEF FactSymbols
  <2>3. L = F \o FlattenSeq(OnErrors(t))
    BY DEF AllStrings
  <2> HIDE DEF F, L
  <2>4. \A k \in DOMAIN F : k \in DOMAIN (F \o FlattenSeq(OnErrors(t)))
                            /\ (F \o FlattenSeq(OnErrors(t)))[k] = F[k]
    BY <2>2, Together
  <2> QED BY <2>1, <2>2, <2>3, <2>4
<1> HIDE DEF F, L
<1>4. r \in Seq(NamedIn(D)) /\ Interned(r, L, Len(L))
  BY <1>1, <1>2, InternedAll
<1> HIDE DEF r
<1>5. ASSUME NEW j \in DOMAIN F, NEW k \in DOMAIN F, j < k
      PROVE  OriginLess(F[j].origin, F[k].origin)
  <2>1. PICK i1 \in 1 .. Len(s), i2 \in 1 .. Len(s), a \in Nat, b \in Nat :
          /\ At(Summaries(s), i1, a, F[j]) /\ At(Summaries(s), i2, b, F[k])
          /\ i1 < i2 \/ (i1 = i2 /\ a < b)
    BY <1>3, <1>5, Zenon DEF MadeOf
  <2>2. i1 \in DOMAIN s /\ i2 \in DOMAIN s
    BY <1>3, SMT
  <2>3. s[i1] \in Nat /\ s[i2] \in Nat
    <3>1. s[i1] \in ToSet(s) /\ s[i2] \in ToSet(s)
      BY <2>2 DEF ToSet
    <3> QED BY <3>1
  <2>4. /\ Summaries(s)[i1] = SummaryStrings(s[i1], publications[s[i1]])
        /\ Summaries(s)[i2] = SummaryStrings(s[i2], publications[s[i2]])
    BY <2>2 DEF Summaries
  <2>5. /\ a \in DOMAIN SummaryStrings(s[i1], publications[s[i1]])
        /\ F[j] = SummaryStrings(s[i1], publications[s[i1]])[a]
        /\ b \in DOMAIN SummaryStrings(s[i2], publications[s[i2]])
        /\ F[k] = SummaryStrings(s[i2], publications[s[i2]])[b]
    BY <2>1, <2>4 DEF At
  <2>6. CASE i1 = i2 /\ a < b
    <3>1. /\ a \in DOMAIN SummaryStrings(s[i1], publications[s[i1]])
          /\ b \in DOMAIN SummaryStrings(s[i1], publications[s[i1]])
          /\ F[j] = SummaryStrings(s[i1], publications[s[i1]])[a]
          /\ F[k] = SummaryStrings(s[i1], publications[s[i1]])[b]
      BY <2>5, <2>6, Zenon
    <3>2. OriginLess(SummaryStrings(s[i1], publications[s[i1]])[a].origin,
                     SummaryStrings(s[i1], publications[s[i1]])[b].origin)
      BY <2>3, <2>6, <3>1, NamedSymbols
    <3> QED BY <3>1, <3>2
  <2>7. CASE i1 < i2
    <3>1. s[i1] < s[i2]
      BY <2>2, <2>7
    <3>2. F[j] \in Named(s[i1]) /\ F[k] \in Named(s[i2])
      BY <2>5 DEF Named, ToSet
    <3>3. F[j].origin.definition = s[i1] /\ F[k].origin.definition = s[i2]
      BY <2>3, <3>2, NamedSymbols
    <3> QED BY <3>1, <3>3 DEF OriginLess
  <2> QED BY <2>1, <2>6, <2>7
<1>6. ASSUME NEW i \in DOMAIN r, NEW j \in DOMAIN r, i < j, r[i].origin = r[j].origin
      PROVE  r[i].text = publications[r[i].origin.definition].effect
  <2> DEFINE d == r[i].origin.definition
  <2>1. /\ r[i] \in NamedIn(D) /\ r[j] \in NamedIn(D)
        /\ DOMAIN r \in SUBSET Nat
    BY <1>4, SMT
  <2>2. r[i].text # r[j].text
    <3>1. i # j
      BY <1>6, <2>1, SMT
    <3> QED BY <1>4, <3>1 DEF Interned, Distinct
  <2>3. d \in D /\ d \in Nat /\ r[i] \in Named(d) /\ r[j] \in Named(d)
    <3>1. PICK e1 \in D : r[i] \in Named(e1)
      BY <2>1 DEF NamedIn
    <3>2. PICK e2 \in D : r[j] \in Named(e2)
      BY <2>1 DEF NamedIn
    <3>3. \A e \in D : e \in Nat /\ \A x \in Named(e) : x.origin.definition = e
      BY NamedSymbols
    <3>4. e1 = d /\ e2 = d
      BY <1>6, <3>1, <3>2, <3>3
    <3> QED BY <3>1, <3>2, <3>4
  <2> HIDE DEF d
  <2>4. SUFFICES ASSUME r[j].text = publications[d].effect, r[i].origin = Origin(d, 2),
                        Symbol(publications[d].effect, Origin(d, 2))
                          \in ToSet(SummaryStrings(d, publications[d]))
                 PROVE  FALSE
    <3>1. \/ r[i].text = publications[d].effect
          \/ /\ r[j].text = publications[d].effect /\ r[i].origin = Origin(d, 2)
             /\ Symbol(publications[d].effect, Origin(d, 2))
                  \in ToSet(SummaryStrings(d, publications[d]))
      BY <1>6, <2>2, <2>3, NamedSymbols
    <3> QED BY <3>1 DEF d
  <2> DEFINE y == Symbol(publications[d].effect, Origin(d, 2))
  <2>5. y.text = r[j].text /\ y.origin = r[i].origin
    BY <2>4 DEF Symbol
  <2>6. y \in ToSet(SummaryStrings(d, publications[d]))
    BY <2>4
  <2> HIDE DEF y
  <2>7. PICK e \in DOMAIN F : F[e] = y
    <3>1. PICK p \in DOMAIN s : s[p] = d
      <4>1. d \in ToSet(s)
        BY <2>3
      <4> QED BY <4>1 DEF ToSet
    <3>2. p \in 1 .. Len(s)
      BY SMT
    <3>3. Summaries(s)[p] = SummaryStrings(d, publications[d])
      BY <3>1 DEF Summaries
    <3>4. PICK a \in DOMAIN SummaryStrings(d, publications[d]) :
             SummaryStrings(d, publications[d])[a] = y
      BY <2>6 DEF ToSet
    <3>5. a \in Nat
      BY <3>4 DEF SummaryStrings
    <3>6. At(Summaries(s), p, a, y)
      BY <3>3, <3>4 DEF At
    <3>7. y \in ToSet(F)
      BY <1>3, <3>2, <3>5, <3>6 DEF MadeOf
    <3> QED BY <3>7 DEF ToSet
  <2>8. PICK k \in 1 .. Len(L) : L[k].text = r[i].text /\ NotUpTo(L, k, r[j].text)
    BY <1>4, <1>6 DEF Interned, FirstSeen
  <2>9. k < e
    <3>1. L[e].text = r[j].text
      BY <1>3, <2>5, <2>7
    <3>2. e \notin 1 .. k
      BY <2>8, <3>1 DEF NotUpTo
    <3>3. e \in Nat \ {0} /\ k \in Nat
      BY <1>1, <1>3, SMT
    <3> QED BY <3>2, <3>3, SMT
  <2>10. k \in DOMAIN F
    BY <1>1, <1>3, <2>9, SMT
  <2>11. OriginLess(F[k].origin, F[e].origin)
    BY <1>5, <2>9, <2>10
  <2>12. OriginLess(L[k].origin, r[i].origin)
    BY <1>3, <2>5, <2>7, <2>10, <2>11
  <2> QED BY <1>4, <2>8, <2>12 DEF Interned, Least
<1>7. EffectsFirst(r)
  BY <1>6 DEF EffectsFirst
<1> QED BY <1>1, <1>7

-----------------------------------------------------------------------------
(***************************************************************************)
(* The merge of snapshots of disjoint sets of definitions.                 *)
(***************************************************************************)
\* The definitions of D are in the m sets of C, of which there are snapshots.
Snapshots(sn, C, m, D) ==
  /\ m \in Nat /\ DOMAIN sn = 1 .. m
  /\ D \in SUBSET Nat /\ D = UNION {C[r] : r \in 1 .. m}
  /\ \A r, q \in 1 .. m : r # q => C[r] \cap C[q] = {}
  /\ \A r \in 1 .. m : Snapshot(sn[r], C[r]) /\ EffectsFirst(sn[r])

Candidate(sn, r, i) == [symbol |-> sn[r][i], snapshotRank |-> r, localIndex |-> i]

Less(S) == {pair \in S \X S : CandidateLess(pair[1], pair[2])}

\* A function has finitely many values on a finite set.
LEMMA FiniteImage ==
  ASSUME NEW S, IsFiniteSet(S), NEW f
  PROVE  IsFiniteSet({f[x] : x \in S})
<1> DEFINE T == {f[x] : x \in S}
<1> DEFINE g == [x \in S |-> f[x]]
<1>1. g \in [S -> T] /\ \A t \in T : \E x \in S : g[x] = t
  OBVIOUS
<1> HIDE DEF g
<1>2. g \in Surjection(S, T)
  BY <1>1 DEF Surjection
<1> HIDE DEF T
<1>3. IsFiniteSet(T)
  BY <1>2, FS_Surjection
<1> QED BY <1>3 DEF T

\* The candidates, of which there are finitely many.
LEMMA CandidatesKnown ==
  ASSUME NEW sn, NEW C, NEW m, NEW D, Snapshots(sn, C, m, D)
  PROVE  /\ IsFiniteSet(Candidates(sn))
         /\ \A r \in 1 .. m : \A i \in DOMAIN sn[r] : Candidate(sn, r, i) \in Candidates(sn)
         /\ \A c \in Candidates(sn) : \E r \in 1 .. m, i \in Nat :
              /\ i \in DOMAIN sn[r] /\ c = Candidate(sn, r, i)
              /\ sn[r][i] \in NamedIn(C[r]) /\ sn[r][i] \in NamedIn(D)
              /\ sn[r][i].origin \in Origins
<1> DEFINE Of(r) == {Candidate(sn, r, i) : i \in DOMAIN sn[r]}
<1> DEFINE All == {Of(r) : r \in 1 .. m}
<1>1. m \in Nat /\ DOMAIN sn = 1 .. m /\ D \in SUBSET Nat /\ D = UNION {C[r] : r \in 1 .. m}
  BY DEF Snapshots
<1>2. Candidates(sn) = UNION All
  BY <1>1 DEF Candidates, Candidate
<1>3. ASSUME NEW r \in 1 .. m
      PROVE  /\ IsFiniteSet(Of(r))
             /\ \A i \in DOMAIN sn[r] : i \in Nat /\ sn[r][i] \in NamedIn(C[r])
  <2>1. sn[r] \in Seq(NamedIn(C[r]))
    BY DEF Snapshots, Snapshot
  <2>2. Len(sn[r]) \in Nat /\ DOMAIN sn[r] = 1 .. Len(sn[r])
    BY <2>1, SMT
  <2>3. IsFiniteSet(DOMAIN sn[r])
    BY <2>2, FS_Interval, SMT
  <2> DEFINE f == [i \in DOMAIN sn[r] |-> Candidate(sn, r, i)]
  <2>4. Of(r) = {f[i] : i \in DOMAIN sn[r]}
    OBVIOUS
  <2> HIDE DEF f, Of
  <2>5. IsFiniteSet({f[i] : i \in DOMAIN sn[r]})
    BY <2>3, FiniteImage
  <2>6. \A i \in DOMAIN sn[r] : i \in Nat /\ sn[r][i] \in NamedIn(C[r])
    BY <2>1, SMT
  <2> QED BY <2>4, <2>5, <2>6
<1>4. IsFiniteSet(UNION All)
  <2> HIDE DEF Of
  <2> DEFINE g == [r \in 1 .. m |-> Of(r)]
  <2>1. All = {g[r] : r \in 1 .. m}
    OBVIOUS
  <2>2. IsFiniteSet(1 .. m)
    BY <1>1, FS_Interval, SMT
  <2>3. \A S \in All : IsFiniteSet(S)
    BY <1>3
  <2> HIDE DEF g, All
  <2>4. IsFiniteSet({g[r] : r \in 1 .. m})
    BY <2>2, FiniteImage
  <2> QED BY <2>1, <2>3, <2>4, FS_UNION
<1>5. ASSUME NEW c \in Candidates(sn)
      PROVE  \E r \in 1 .. m, i \in Nat :
               /\ i \in DOMAIN sn[r] /\ c = Candidate(sn, r, i)
               /\ sn[r][i] \in NamedIn(C[r]) /\ sn[r][i] \in NamedIn(D)
               /\ sn[r][i].origin \in Origins
  <2>1. PICK r \in 1 .. m : c \in Of(r)
    BY <1>2
  <2>2. PICK i \in DOMAIN sn[r] : c = Candidate(sn, r, i)
    BY <2>1
  <2>3. i \in Nat /\ sn[r][i] \in NamedIn(C[r])
    BY <1>3
  <2>4. C[r] \in SUBSET D
    BY <1>1
  <2>5. sn[r][i] \in NamedIn(D)
    BY <2>3, <2>4 DEF NamedIn
  <2>6. sn[r][i].origin \in Origins
    BY <1>1, <2>5, NamedOnly DEF SymbolsOnly
  <2> QED BY <2>2, <2>3, <2>5, <2>6
<1> QED BY <1>2, <1>4, <1>5

\* Candidates are in a strict total order.
LEMMA CandidateOrder ==
  ASSUME NEW sn, NEW C, NEW m, NEW D, Snapshots(sn, C, m, D), NEW S \in SUBSET Candidates(sn)
  PROVE  StrictOrder(S, Less(S))
<1>1. \A c \in S : /\ c.symbol.origin \in Origins /\ c.snapshotRank \in Nat /\ c.localIndex \in Nat
                   /\ c = Candidate(sn, c.snapshotRank, c.localIndex)
  <2> TAKE c \in S
  <2>1. PICK r \in 1 .. m, i \in Nat : c = Candidate(sn, r, i) /\ sn[r][i].origin \in Origins
    BY CandidatesKnown
  <2>2. c.symbol = sn[r][i] /\ c.snapshotRank = r /\ c.localIndex = i
    BY <2>1 DEF Candidate
  <2>3. r \in Nat
    <3>1. m \in Nat
      BY DEF Snapshots
    <3> QED BY <3>1, SMT
  <2> QED BY <2>1, <2>2, <2>3
<1>2. \A a \in S : ~CandidateLess(a, a)
  BY <1>1, OriginOrder, SMT DEF CandidateLess
<1>3. ASSUME NEW a \in S, NEW b \in S, a # b
      PROVE  CandidateLess(a, b) \/ CandidateLess(b, a)
  <2>1. CASE a.symbol.origin # b.symbol.origin
    BY <1>1, <2>1, OriginOrder DEF CandidateLess
  <2>2. CASE a.symbol.origin = b.symbol.origin
    <3>1. a.snapshotRank # b.snapshotRank \/ a.localIndex # b.localIndex
      BY <1>1, <1>3
    <3>2. /\ a.snapshotRank \in Nat /\ a.localIndex \in Nat
          /\ b.snapshotRank \in Nat /\ b.localIndex \in Nat
      BY <1>1
    <3> QED BY <2>2, <3>1, <3>2, SMT DEF CandidateLess
  <2> QED BY <2>1, <2>2
<1>4. ASSUME NEW a \in S, NEW b \in S, NEW c \in S, CandidateLess(a, b), CandidateLess(b, c)
      PROVE  CandidateLess(a, c)
  <2> DEFINE x == a.symbol.origin
  <2> DEFINE y == b.symbol.origin
  <2> DEFINE z == c.symbol.origin
  <2>1. x \in Origins /\ y \in Origins /\ z \in Origins
    BY <1>1
  <2>2. /\ OriginLess(x, y) \/ x = y
        /\ OriginLess(y, z) \/ y = z
    BY <1>4 DEF CandidateLess
  <2>3. OriginLess(x, z) \/ (x = y /\ y = z)
    <3> HIDE DEF x, y, z
    <3> QED BY <2>1, <2>2, OriginOrder, Zenon
  <2>4. CASE OriginLess(x, z)
    BY <2>4 DEF CandidateLess
  <2>5. CASE x = y /\ y = z
    <3>1. ~OriginLess(x, y) /\ ~OriginLess(y, z)
      BY <2>1, <2>5, OriginOrder
    <3>2. /\ \/ a.snapshotRank < b.snapshotRank
             \/ a.snapshotRank = b.snapshotRank /\ a.localIndex < b.localIndex
          /\ \/ b.snapshotRank < c.snapshotRank
             \/ b.snapshotRank = c.snapshotRank /\ b.localIndex < c.localIndex
      BY <1>4, <3>1 DEF CandidateLess
    <3>3. \/ a.snapshotRank < c.snapshotRank
          \/ a.snapshotRank = c.snapshotRank /\ a.localIndex < c.localIndex
      BY <1>1, <3>2, SMT
    <3> QED BY <2>5, <3>3 DEF CandidateLess
  <2> QED BY <2>3, <2>4, <2>5
<1>5. \A a, b \in S : <<a, b>> \in Less(S) <=> CandidateLess(a, b)
  BY DEF Less
<1> QED BY <1>2, <1>3, <1>4, <1>5 DEF StrictOrder

\* The place o is the first one where the definitions of D name the text.
IsFirstPlace(o, text, D) ==
  /\ \E x \in NamedIn(D) : x.text = text /\ x.origin = o
  /\ \A x \in NamedIn(D) : x.text = text => ~OriginLess(x.origin, o)

\* The first place of a comes before that of b, or is the same and a is the effect.
Before(a, b, D) ==
  /\ a # b
  /\ \E o1, o2 \in Origins :
       /\ IsFirstPlace(o1, a, D) /\ IsFirstPlace(o2, b, D)
       /\ \/ OriginLess(o1, o2)
          \/ o1 = o2 /\ o1.definition \in D /\ a = publications[o1.definition].effect

\* The representative of a text has its first place in the program.
LEMMA RepresentativePlaces ==
  ASSUME NEW sn, NEW C, NEW m, NEW D, Snapshots(sn, C, m, D),
         NEW c \in Representatives(Candidates(sn))
  PROVE  /\ c \in Candidates(sn) /\ c.symbol.origin \in Origins
         /\ c.symbol.text # NoText /\ c.symbol \in NamedIn(D)
         /\ IsFirstPlace(c.symbol.origin, c.symbol.text, D)
<1>1. /\ c \in Candidates(sn)
      /\ \A other \in Candidates(sn) :
           other.symbol.text = c.symbol.text => ~CandidateLess(other, c)
  BY DEF Representatives
<1>2. PICK r \in 1 .. m, i \in Nat :
        /\ i \in DOMAIN sn[r] /\ c = Candidate(sn, r, i)
        /\ sn[r][i] \in NamedIn(D) /\ sn[r][i].origin \in Origins
  BY <1>1, CandidatesKnown
<1>3. c.symbol = sn[r][i]
  BY <1>2 DEF Candidate
<1>4. /\ m \in Nat /\ D \in SUBSET Nat /\ D = UNION {C[q] : q \in 1 .. m}
      /\ \A q \in 1 .. m : Snapshot(sn[q], C[q])
  BY DEF Snapshots
<1>5. c.symbol.text # NoText
  BY <1>2, <1>3, <1>4 DEF Snapshot
<1>6. ASSUME NEW x \in NamedIn(D), x.text = c.symbol.text
      PROVE  ~OriginLess(x.origin, c.symbol.origin)
  <2>1. PICK q \in 1 .. m : x \in NamedIn(C[q])
    <3>1. PICK d \in D : x \in Named(d)
      BY DEF NamedIn
    <3>2. PICK q \in 1 .. m : d \in C[q]
      BY <1>4
    <3> QED BY <3>1, <3>2 DEF NamedIn
  <2>2. PICK j \in DOMAIN sn[q] : sn[q][j].text = x.text
    BY <1>4, <1>5, <1>6, <2>1 DEF Snapshot
  <2>3. ~OriginLess(x.origin, sn[q][j].origin)
    BY <1>4, <2>1, <2>2 DEF Snapshot
  <2> DEFINE b == Candidate(sn, q, j)
  <2>4. b \in Candidates(sn) /\ b.symbol = sn[q][j]
    BY CandidatesKnown DEF Candidate
  <2> HIDE DEF b
  <2>5. ~OriginLess(b.symbol.origin, c.symbol.origin)
    BY <1>1, <1>6, <2>2, <2>4 DEF CandidateLess
  <2>6. /\ x.origin \in Origins /\ c.symbol.origin \in Origins
        /\ b.symbol.origin \in Origins
    <3>1. \A y \in NamedIn(D) : y.origin \in Origins
      BY <1>4, NamedOnly DEF SymbolsOnly
    <3>2. \E p \in 1 .. m, k \in Nat : b = Candidate(sn, p, k) /\ sn[p][k].origin \in Origins
      BY <2>4, CandidatesKnown
    <3>3. b.symbol.origin \in Origins
      BY <3>2 DEF Candidate
    <3> QED BY <1>2, <1>3, <3>1, <3>3
  <2>7. ~OriginLess(x.origin, b.symbol.origin)
    BY <2>3, <2>4
  <2> QED BY <2>5, <2>6, <2>7, NotLessOrder
<1> QED BY <1>1, <1>2, <1>3, <1>5, <1>6 DEF IsFirstPlace

\* Each text has a representative.
LEMMA TextsRepresented ==
  ASSUME NEW sn, NEW C, NEW m, NEW D, Snapshots(sn, C, m, D),
         NEW x \in NamedIn(D), x.text # NoText
  PROVE  \E c \in Representatives(Candidates(sn)) : c.symbol.text = x.text
<1> DEFINE S == {c \in Candidates(sn) : c.symbol.text = x.text}
<1>1. /\ m \in Nat /\ D \in SUBSET Nat /\ D = UNION {C[q] : q \in 1 .. m}
      /\ \A q \in 1 .. m : Snapshot(sn[q], C[q])
  BY DEF Snapshots
<1>2. PICK q \in 1 .. m : x \in NamedIn(C[q])
  <2>1. PICK d \in D : x \in Named(d)
    BY DEF NamedIn
  <2>2. PICK q \in 1 .. m : d \in C[q]
    BY <1>1
  <2> QED BY <2>1, <2>2 DEF NamedIn
<1>3. PICK j \in DOMAIN sn[q] : sn[q][j].text = x.text
  BY <1>1, <1>2 DEF Snapshot
<1>4. Candidate(sn, q, j) \in S
  BY <1>3, CandidatesKnown DEF Candidate
<1>5. IsFiniteSet(S) /\ S # {} /\ S \in SUBSET Candidates(sn)
  <2>1. S \in SUBSET Candidates(sn)
    OBVIOUS
  <2> HIDE DEF S
  <2>2. IsFiniteSet(S)
    BY <2>1, CandidatesKnown, FS_Subset
  <2> QED BY <1>4, <2>1, <2>2
<1>6. PICK c \in S : \A d \in S : <<d, c>> \notin Less(S)
  <2> HIDE DEF S
  <2>1. StrictOrder(S, Less(S))
    BY <1>5, CandidateOrder
  <2> QED BY <1>5, <2>1, FirstElement
<1>7. \A d \in S : ~CandidateLess(d, c)
  <2> HIDE DEF S
  <2> QED BY <1>6 DEF Less
<1> QED BY <1>7 DEF Representatives

\* The merge of the snapshots of disjoint sets of definitions has the texts of all of
\* them, once, by their first places in the whole, an effect before the handler that
\* shares its place (mergeWorkerSnapshotsDeterministic).
THEOREM MergedTexts ==
  ASSUME NEW sn, NEW C, NEW m, NEW D, Snapshots(sn, C, m, D)
  PROVE  LET merged == MergeSnapshots(sn) IN
         /\ merged \in Seq(ToSet(merged))
         /\ \A i \in DOMAIN merged : \E x \in NamedIn(D) :
              x.text = merged[i].text /\ x.text # NoText
         /\ \A x \in NamedIn(D) : x.text # NoText =>
              \E i \in DOMAIN merged : merged[i].text = x.text
         /\ \A i, j \in DOMAIN merged : i < j => Before(merged[i].text, merged[j].text, D)
<1> DEFINE S == Representatives(Candidates(sn))
<1> DEFINE R == Less(S)
<1> DEFINE n == Cardinality(S)
<1> DEFINE f == InOrder(S, R)
<1> DEFINE N(c) == {other \in S : ~CandidateLess(c, other)}
<1> DEFINE g == [i \in 1 .. n |-> CHOOSE c \in S : Cardinality(N(c)) = i]
<1> DEFINE merged == MergeSnapshots(sn)
<1>1. S \in SUBSET Candidates(sn) /\ IsFiniteSet(S)
  <2>1. S \in SUBSET Candidates(sn)
    BY DEF Representatives
  <2> HIDE DEF S
  <2> QED BY <2>1, CandidatesKnown, FS_Subset
<1>2. /\ n \in Nat
      /\ \A i \in 1 .. n : f[i] \in S
      /\ \A c \in S : \E i \in 1 .. n : f[i] = c
      /\ \A i, j \in 1 .. n : i < j => <<f[i], f[j]>> \in R
      /\ \A i \in 1 .. n, c \in S : Cardinality(NotAfter(S, R, c)) = i <=> f[i] = c
  <2> HIDE DEF S
  <2>1. StrictOrder(S, Less(S))
    BY <1>1, CandidateOrder
  <2> QED BY <1>1, <2>1, Ranks
<1>3. merged = [i \in 1 .. n |-> Symbol(g[i].symbol.text, NoOrigin)]
  BY DEF MergeSnapshots
<1>4. \A c \in S : N(c) = NotAfter(S, R, c)
  <2> HIDE DEF S
  <2> QED BY DEF NotAfter, Less
<1> HIDE DEF S, R, f, merged
<1>5. ASSUME NEW i \in 1 .. n PROVE g[i] = f[i]
  <2>1. f[i] \in S /\ Cardinality(N(f[i])) = i
    BY <1>2, <1>4
  <2>2. g[i] = CHOOSE c \in S : Cardinality(N(c)) = i
    OBVIOUS
  <2> HIDE DEF N, g
  <2>3. g[i] \in S /\ Cardinality(N(g[i])) = i
    BY <2>1, <2>2
  <2>4. Cardinality(NotAfter(S, R, g[i])) = i
    BY <1>4, <2>3
  <2> QED BY <1>2, <2>3, <2>4
<1> HIDE DEF g, N, n
<1>6. /\ DOMAIN merged = 1 .. n
      /\ \A i \in 1 .. n : merged[i].text = f[i].symbol.text
      /\ merged \in Seq(ToSet(merged))
  <2>1. DOMAIN merged = 1 .. n /\ \A i \in 1 .. n : merged[i] = Symbol(f[i].symbol.text, NoOrigin)
    BY <1>3, <1>5
  <2>2. merged = [i \in 1 .. n |-> merged[i]]
    BY <1>3, <2>1
  <2>3. \A i \in 1 .. n : merged[i] \in ToSet(merged)
    BY <2>1 DEF ToSet
  <2>4. merged \in Seq(ToSet(merged))
    BY <1>2, <2>2, <2>3, SMT
  <2> QED BY <2>1, <2>4 DEF Symbol
<1>7. ASSUME NEW i \in 1 .. n
      PROVE  /\ f[i] \in Candidates(sn) /\ f[i].symbol.origin \in Origins
             /\ merged[i].text # NoText /\ f[i].symbol \in NamedIn(D)
             /\ IsFirstPlace(f[i].symbol.origin, merged[i].text, D)
  BY <1>2, <1>6, RepresentativePlaces DEF S
<1>8. ASSUME NEW i \in 1 .. n PROVE \E x \in NamedIn(D) : x.text = merged[i].text /\ x.text # NoText
  BY <1>6, <1>7
<1>9. ASSUME NEW x \in NamedIn(D), x.text # NoText PROVE \E i \in 1 .. n : merged[i].text = x.text
  <2>1. PICK c \in S : c.symbol.text = x.text
    BY <1>9, TextsRepresented DEF S
  <2>2. PICK i \in 1 .. n : f[i] = c
    BY <1>2
  <2> QED BY <1>6, <2>1, <2>2
<1>10. ASSUME NEW i \in 1 .. n, NEW j \in 1 .. n, i < j
       PROVE  Before(merged[i].text, merged[j].text, D)
  <2> DEFINE a == f[i]
  <2> DEFINE b == f[j]
  <2>1. CandidateLess(a, b)
    BY <1>2, <1>10 DEF R, Less
  <2>2. merged[i].text # merged[j].text
    <3>1. b \in S /\ a \in Candidates(sn)
      BY <1>2, <1>7
    <3>2. a.symbol.text # b.symbol.text
      BY <2>1, <3>1 DEF S, Representatives
    <3> QED BY <1>6, <3>2
  <2>3. /\ a \in Candidates(sn) /\ b \in Candidates(sn)
        /\ a.symbol.origin \in Origins /\ b.symbol.origin \in Origins
        /\ IsFirstPlace(a.symbol.origin, merged[i].text, D)
        /\ IsFirstPlace(b.symbol.origin, merged[j].text, D)
        /\ merged[i].text = a.symbol.text
    BY <1>6, <1>7
  <2> HIDE DEF a, b
  <2>4. CASE OriginLess(a.symbol.origin, b.symbol.origin)
    BY <2>3, <2>4, <2>2 DEF Before
  <2>5. CASE /\ a.symbol.origin = b.symbol.origin
             /\ \/ a.snapshotRank < b.snapshotRank
                \/ a.snapshotRank = b.snapshotRank /\ a.localIndex < b.localIndex
    <3>1. PICK r \in 1 .. m, k \in Nat :
            k \in DOMAIN sn[r] /\ a = Candidate(sn, r, k) /\ sn[r][k] \in NamedIn(C[r])
      BY <2>3, CandidatesKnown
    <3>2. PICK q \in 1 .. m, l \in Nat :
            l \in DOMAIN sn[q] /\ b = Candidate(sn, q, l) /\ sn[q][l] \in NamedIn(C[q])
      BY <2>3, CandidatesKnown
    <3>3. /\ a.symbol = sn[r][k] /\ a.snapshotRank = r /\ a.localIndex = k
          /\ b.symbol = sn[q][l] /\ b.snapshotRank = q /\ b.localIndex = l
      BY <3>1, <3>2 DEF Candidate
    <3>4. /\ m \in Nat /\ D \in SUBSET Nat /\ D = UNION {C[p] : p \in 1 .. m}
          /\ \A p1, p2 \in 1 .. m : p1 # p2 => C[p1] \cap C[p2] = {}
          /\ \A p \in 1 .. m : EffectsFirst(sn[p])
      BY DEF Snapshots
    <3>5. /\ a.symbol.origin.definition \in C[r] /\ b.symbol.origin.definition \in C[q]
          /\ C[r] \in SUBSET D
      <4>1. C[r] \in SUBSET D /\ C[q] \in SUBSET D
        BY <3>4
      <4>2. C[r] \in SUBSET Nat /\ C[q] \in SUBSET Nat
        BY <3>4, <4>1
      <4> QED BY <3>1, <3>2, <3>3, <4>1, <4>2, NamedOnly
    <3>6. r = q
      BY <2>5, <3>4, <3>5
    <3>7. k < l
      <4>1. r \in Nat
        BY <3>4, SMT
      <4>2. ~(r < r)
        BY <4>1, SMT
      <4> QED BY <2>5, <3>3, <3>6, <4>2
    <3>8. sn[r][k].text = publications[sn[r][k].origin.definition].effect
      <4>1. l \in DOMAIN sn[r] /\ sn[r][k].origin = sn[r][l].origin
        BY <2>5, <3>2, <3>3, <3>6
      <4> QED BY <3>1, <3>4, <3>7, <4>1 DEF EffectsFirst
    <3>9. merged[i].text = publications[a.symbol.origin.definition].effect
      BY <2>3, <3>3, <3>8
    <3> QED BY <2>3, <2>5, <2>2, <3>5, <3>9 DEF Before
  <2> QED BY <2>1, <2>4, <2>5 DEF CandidateLess
<1> QED BY <1>6, <1>8, <1>9, <1>10 DEF merged

-----------------------------------------------------------------------------
(***************************************************************************)
(* The workers' snapshots, and the table they are merged into.             *)
(***************************************************************************)
\* A worker's snapshot has the texts of its chunk.
LEMMA WorkerSnapshots ==
  ASSUME Parameters, PathsKnown, workerCount > 0, NEW w \in Workers
  PROVE  /\ Snapshot(WorkerSnapshot(w), ChunkOffset(w) + 1 .. LastOf(w))
         /\ EffectsFirst(WorkerSnapshot(w))
         /\ (ChunkOffset(w) + 1 .. LastOf(w)) \in SUBSET Definitions
<1> DEFINE D == ChunkOffset(w) + 1 .. LastOf(w)
<1> DEFINE o == ChunkOffset(w)
<1> DEFINE k == ChunkSize(w)
<1> DEFINE s == ChunkFacts(w)
<1>1. /\ o \in Nat /\ k \in Nat \ {0} /\ LastOf(w) = o + k /\ LastOf(w) <= Len(program)
      /\ Len(program) \in Nat /\ LastOf(w) \in Nat
  BY ChunkTypes DEF Parameters
<1>2. s = [i \in 1 .. k |-> o + i]
  BY DEF ChunkFacts
<1>3. D = o + 1 .. o + k
  BY <1>1
<1>4. D \in SUBSET Definitions
  <2>1. \A d \in o + 1 .. o + k : d \in 1 .. Len(program)
    <3> HIDE DEF o, k
    <3> QED BY <1>1, SMT
  <2> QED BY <1>3, <2>1 DEF Definitions
<1> HIDE DEF o, k, s, D
<1>5. D \in SUBSET Nat /\ D # {}
  <2>1. o + 1 \in o + 1 .. o + k
    BY <1>1, SMT
  <2> QED BY <1>3, <1>4, <2>1 DEF Definitions
<1>6. /\ s \in Seq(D) /\ DOMAIN s = 1 .. k /\ \A i \in DOMAIN s : s[i] \in D
      /\ \A i, j \in DOMAIN s : i < j => s[i] < s[j]
  <2>1. \A i \in 1 .. k : o + i \in D
    BY <1>1, <1>3, SMT
  <2>2. s \in [1 .. k -> D]
    BY <1>2, <2>1
  <2>3. \A i, j \in 1 .. k : i < j => o + i < o + j
    BY <1>1, SMT
  <2>4. \A i \in 1 .. k : s[i] = o + i
    BY <1>2
  <2>5. s \in Seq(D)
    BY <1>1, <2>2, SMT
  <2>6. DOMAIN s = 1 .. k
    BY <1>2
  <2> QED BY <2>1, <2>3, <2>4, <2>5, <2>6
<1>7. ToSet(s) = D
  <2>1. ASSUME NEW d \in D PROVE d \in ToSet(s)
    <3>1. d - o \in 1 .. k /\ o + (d - o) = d
      BY <1>1, <1>3, SMT
    <3>2. s[d - o] = d
      BY <1>2, <3>1
    <3> QED BY <1>6, <3>1, <3>2 DEF ToSet
  <2>2. \A d \in ToSet(s) : d \in D
    BY <1>6 DEF ToSet
  <2> QED BY <2>1, <2>2
<1>8. IsFiniteSet(D) /\ Cardinality(D) = k
  <2>1. o + 1 \in Int /\ o + k \in Int /\ ~(o + 1 > o + k) /\ (o + k) - (o + 1) + 1 = k
    BY <1>1, SMT
  <2>2. IsFiniteSet(o + 1 .. o + k) /\ Cardinality(o + 1 .. o + k) = (o + k) - (o + 1) + 1
    BY <2>1, FS_Interval
  <2> QED BY <1>3, <2>1, <2>2
<1>9. ByPath(s) \in Seq(D) /\ ToSet(ByPath(s)) = D
  BY <1>1, <1>4, <1>6, <1>7, <1>8, ByPathSorted
<1>10. WorkerSnapshot(w) = AppendPublicationStrings(<<>>, publications, s, ByPath(s))
  BY DEF WorkerSnapshot, s
<1>11. Snapshot(WorkerSnapshot(w), D)
  BY <1>5, <1>6, <1>7, <1>9, <1>10, AppendedIsSnapshot
<1>12. EffectsFirst(WorkerSnapshot(w))
  BY <1>5, <1>6, <1>7, <1>9, <1>10, AppendedEffectsFirst
<1> QED BY <1>4, <1>11, <1>12 DEF D

ChunkSnapshots == [i \in DOMAIN MergeOrder |-> WorkerSnapshot(MergeOrder[i])]

\* The workers' snapshots are those of chunks that share no definition and are the
\* program together.
LEMMA ChunksSnapshots ==
  ASSUME Parameters, PathsKnown, workerCount > 0, Len(program) > 0
  PROVE  \E C, m : Snapshots(ChunkSnapshots, C, m, Definitions)
<1>1. PICK m \in Nat \ {0} : /\ Workers = 1 .. m /\ m <= workerCount
                             /\ MergeOrder = [i \in 1 .. m |-> i]
  BY WorkersCounted
<1> DEFINE C == [w \in 1 .. m |-> ChunkOffset(w) + 1 .. LastOf(w)]
<1>2. \A w \in 1 .. m : /\ ChunkOffset(w) \in Nat /\ ChunkSize(w) \in Nat
                        /\ LastOf(w) = ChunkOffset(w) + ChunkSize(w) /\ LastOf(w) \in Nat
                        /\ w \in 1 .. workerCount
  BY <1>1, ChunkTypes
<1>3. /\ DOMAIN ChunkSnapshots = 1 .. m
      /\ \A w \in 1 .. m : ChunkSnapshots[w] = WorkerSnapshot(w)
  BY <1>1 DEF ChunkSnapshots
<1>4. ASSUME NEW w \in 1 .. m
      PROVE  /\ Snapshot(ChunkSnapshots[w], C[w]) /\ EffectsFirst(ChunkSnapshots[w])
             /\ C[w] \in SUBSET Definitions
  BY <1>1, <1>3, WorkerSnapshots
<1>5. \A d \in Definitions : \E w \in 1 .. m : d \in C[w]
  <2> TAKE d \in Definitions
  <2>1. PICK w \in Workers : ChunkOffset(w) < d /\ d <= ChunkOffset(w) + ChunkSize(w)
    BY ChunksCover
  <2>2. d \in Nat
    BY SMT DEF Definitions
  <2>3. w \in 1 .. m
    BY <1>1, <2>1
  <2>4. d \in ChunkOffset(w) + 1 .. LastOf(w)
    <3> DEFINE o == ChunkOffset(w)
    <3> DEFINE k == ChunkSize(w)
    <3>1. o \in Nat /\ k \in Nat /\ LastOf(w) = o + k /\ o < d /\ d <= o + k
      BY <1>2, <2>1, <2>3
    <3> HIDE DEF o, k
    <3>2. d \in o + 1 .. o + k
      BY <2>2, <3>1, SMT
    <3> QED BY <3>1, <3>2 DEF o
  <2> QED BY <2>3, <2>4
<1>6. ASSUME NEW r \in 1 .. m, NEW q \in 1 .. m, r < q PROVE C[r] \cap C[q] = {}
  <2>1. ChunkOffset(r) + ChunkSize(r) <= ChunkOffset(q)
    BY <1>2, <1>6, ChunkOrder
  <2>2. ASSUME NEW d \in ChunkOffset(r) + 1 .. LastOf(r), d \in ChunkOffset(q) + 1 .. LastOf(q)
        PROVE  FALSE
    <3> DEFINE last == LastOf(r)
    <3> DEFINE o == ChunkOffset(q)
    <3>1. last \in Nat /\ o \in Nat /\ last <= o
      BY <1>2, <2>1
    <3>2. d \in Nat /\ d <= last /\ o + 1 <= d
      BY <1>2, <2>2, SMT
    <3> HIDE DEF last, o
    <3> QED BY <3>1, <3>2, SMT
  <2> QED BY <2>2
<1>7. \A r, q \in 1 .. m : r # q => r < q \/ q < r
  BY SMT
<1>8. \A r, q \in 1 .. m : r # q => C[r] \cap C[q] = {}
  <2> HIDE DEF C
  <2> TAKE r, q \in 1 .. m
  <2>1. CASE r < q
    BY <1>6, <2>1
  <2>2. CASE q < r
    <3>1. C[q] \cap C[r] = {}
      BY <1>6, <2>2
    <3> QED BY <3>1
  <2> QED BY <1>7, <2>1, <2>2
<1> HIDE DEF C
<1>9. Definitions = UNION {C[w] : w \in 1 .. m}
  BY <1>4, <1>5, Zenon
<1>10. Definitions \in SUBSET Nat
  BY SMT DEF Definitions
<1>11. Snapshots(ChunkSnapshots, C, m, Definitions)
  BY <1>3, <1>4, <1>8, <1>9, <1>10 DEF Snapshots
<1> QED BY <1>11

\* The first place where the program names a text.
LEMMA FirstPlaceIs ==
  ASSUME NEW text, NEW o, IsFirstPlace(o, text, Definitions)
  PROVE  FirstPlace(text) = o
<1> DEFINE all == NamedIn(Definitions)
<1>1. all = UNION {ToSet(SummaryStrings(d, publications[d])) \cup
                   ToSet(OnErrorStrings(d, publications[d])) : d \in Definitions}
  BY DEF NamedIn, Named
<1>2. Definitions \in SUBSET Nat
  BY SMT DEF Definitions
<1>3. \A x \in all : x.origin \in Origins
  BY <1>2, NamedOnly DEF SymbolsOnly
<1>4. PlacesOf(text) = {x.origin : x \in {t \in all : t.text = text}}
  BY <1>1 DEF PlacesOf
<1>5. /\ \E x \in all : x.text = text /\ x.origin = o
      /\ \A x \in all : x.text = text => ~OriginLess(x.origin, o)
  BY DEF IsFirstPlace
<1> HIDE DEF all
<1>6. \A p \in PlacesOf(text) : \E x \in all : x.text = text /\ x.origin = p
  BY <1>4
<1>7. o \in PlacesOf(text) /\ \A p \in PlacesOf(text) : p \in Origins /\ ~OriginLess(p, o)
  BY <1>3, <1>4, <1>5, <1>6
<1> DEFINE p == FirstPlace(text)
<1>8. p \in PlacesOf(text) /\ \A other \in PlacesOf(text) : ~OriginLess(other, p)
  BY <1>7 DEF FirstPlace
<1> HIDE DEF p
<1>9. p \in Origins /\ o \in Origins /\ ~OriginLess(p, o) /\ ~OriginLess(o, p)
  BY <1>7, <1>8
<1>10. p = o
  BY <1>9, OriginOrder
<1> QED BY <1>10 DEF p

\* The order of the merged table is the order of first places.
LEMMA BeforeIsLess ==
  ASSUME NEW a, NEW b, Before(a, b, Definitions)
  PROVE  TextLess(a, b)
<1>1. PICK o1 \in Origins, o2 \in Origins :
        /\ IsFirstPlace(o1, a, Definitions) /\ IsFirstPlace(o2, b, Definitions)
        /\ \/ OriginLess(o1, o2)
           \/ o1 = o2 /\ a # b /\ o1.definition \in Definitions /\ a = publications[o1.definition].effect
  BY DEF Before
<1>2. FirstPlace(a) = o1 /\ FirstPlace(b) = o2
  BY <1>1, FirstPlaceIs
<1> QED BY <1>1, <1>2 DEF TextLess

-----------------------------------------------------------------------------
\* A table with the texts that the main validator interns, by their first places.
GoodTable(table) == ToSet(table) = ToSet(OwnStrings) /\ IncreasingSeq(table, TextLess)

\* The texts that the program publishes.
TextsIn(table) ==
  /\ \A text \in ToSet(table) : \E x \in NamedIn(Definitions) : x.text = text /\ text # NoText
  /\ \A x \in NamedIn(Definitions) : x.text # NoText => x.text \in ToSet(table)

\* The main validator interns all of them.
LEMMA OwnTexts ==
  ASSUME Parameters, PathsKnown, Len(program) > 0
  PROVE  TextsIn(OwnStrings)
<1>1. Definitions \in SUBSET Nat /\ Definitions # {}
  <2>1. Len(program) \in Nat
    BY DEF Parameters
  <2> QED BY <2>1, SMT DEF Definitions
<1>2. OwnFacts \in Seq(Definitions) /\ ToSet(OwnFacts) = Definitions
  BY OwnFactsSorted DEF Sorted, Parameters
<1> DEFINE r == AppendPublicationStrings(<<>>, publications, OwnFacts, OwnFacts)
<1>3. Snapshot(r, Definitions)
  BY <1>1, <1>2, AppendedIsSnapshot
<1>4. OwnStrings = TextsOf(r)
  BY DEF OwnStrings
<1> HIDE DEF r
<1>5. DOMAIN OwnStrings = DOMAIN r /\ \A i \in DOMAIN r : OwnStrings[i] = r[i].text
  BY <1>4 DEF TextsOf
<1>6. /\ \A i \in DOMAIN r : r[i] \in NamedIn(Definitions) /\ r[i].text # NoText
      /\ \A x \in NamedIn(Definitions) : x.text # NoText => \E i \in DOMAIN r : r[i].text = x.text
  <2>1. r \in Seq(NamedIn(Definitions))
    BY <1>3 DEF Snapshot
  <2>2. \A i \in DOMAIN r : r[i] \in NamedIn(Definitions)
    BY <2>1, SMT
  <2> QED BY <1>3, <2>2 DEF Snapshot
<1> QED BY <1>5, <1>6 DEF TextsIn, ToSet

\* Two tables of the program have the same texts.
LEMMA SameTextsIn ==
  ASSUME NEW s, NEW t, TextsIn(s), TextsIn(t)
  PROVE  ToSet(s) = ToSet(t)
BY DEF TextsIn

\* The merge of the chunks' snapshots makes such a table: the merged facts name no
\* other text.
LEMMA MergedTable ==
  ASSUME Parameters, PathsKnown, workerCount > 0, Len(program) > 0
  PROVE  GoodTable(MergeStrings)
<1>1. PICK C, m : Snapshots(ChunkSnapshots, C, m, Definitions)
  BY ChunksSnapshots
<1> DEFINE merged == MergeSnapshots(ChunkSnapshots)
<1>2. /\ merged \in Seq(ToSet(merged))
      /\ \A i \in DOMAIN merged : \E x \in NamedIn(Definitions) :
           x.text = merged[i].text /\ x.text # NoText
      /\ \A x \in NamedIn(Definitions) : x.text # NoText =>
           \E i \in DOMAIN merged : merged[i].text = x.text
      /\ \A i, j \in DOMAIN merged : i < j => Before(merged[i].text, merged[j].text, Definitions)
  BY <1>1, MergedTexts
<1>3. /\ MergeFacts = OwnFacts /\ OwnFacts \in Seq(Definitions)
      /\ ToSet(OwnFacts) = Definitions
  BY MergedFacts, OwnFactsSorted DEF Sorted, Parameters
<1>4. Definitions \in SUBSET Nat /\ Definitions # {}
  <2>1. Len(program) \in Nat
    BY DEF Parameters
  <2> QED BY <2>1, SMT DEF Definitions
<1> DEFINE L == AllStrings(OwnFacts, OwnFacts)
<1>5. /\ L \in Seq(NamedIn(Definitions))
      /\ \A interner : AppendPublicationStrings(interner, publications, OwnFacts, OwnFacts)
                         = InternAll(interner, L)
  BY <1>3, <1>4, AllStringsNamed
<1>6. MergeStrings = TextsOf(InternAll(merged, L))
  <2>1. MergeStrings
          = TextsOf(AppendPublicationStrings(merged, publications, OwnFacts, OwnFacts))
    BY <1>3 DEF MergeStrings, ChunkSnapshots
  <2> QED BY <1>5, <2>1
<1> HIDE DEF merged, L
<1>7. TextsOf(InternAll(merged, L)) = TextsOf(merged)
  <2> DEFINE T == NamedIn(Definitions) \cup ToSet(merged)
  <2>1. merged \in Seq(T) /\ L \in Seq(T)
    <3>1. NamedIn(Definitions) \in SUBSET T /\ ToSet(merged) \in SUBSET T
      OBVIOUS
    <3> HIDE DEF T
    <3>2. \A A \in SUBSET T : \A z : z \in Seq(A) => z \in Seq(T)
      BY SMT
    <3> QED BY <1>2, <1>5, <3>1, <3>2
  <2>2. \A k \in 1 .. Len(L) : L[k].text = NoText \/
          \E i \in DOMAIN merged : merged[i].text = L[k].text
    <3>1. \A k \in 1 .. Len(L) : L[k] \in NamedIn(Definitions)
      BY <1>5, SMT
    <3> QED BY <1>2, <3>1
  <2> HIDE DEF T
  <2> QED BY <2>1, <2>2, InternKnown
<1>8. /\ DOMAIN MergeStrings = DOMAIN merged
      /\ \A i \in DOMAIN merged : MergeStrings[i] = merged[i].text
  BY <1>6, <1>7 DEF TextsOf
<1>9. TextsIn(MergeStrings)
  <2>1. ASSUME NEW text \in ToSet(MergeStrings)
        PROVE  \E x \in NamedIn(Definitions) : x.text = text /\ text # NoText
    <3>1. PICK i \in DOMAIN merged : text = merged[i].text
      BY <1>8, <2>1 DEF ToSet
    <3> QED BY <1>2, <3>1
  <2>2. ASSUME NEW x \in NamedIn(Definitions), x.text # NoText
        PROVE  x.text \in ToSet(MergeStrings)
    <3>1. PICK i \in DOMAIN merged : merged[i].text = x.text
      BY <1>2, <2>2
    <3> QED BY <1>8, <3>1 DEF ToSet
  <2> QED BY <2>1, <2>2 DEF TextsIn
<1>10. TextsIn(OwnStrings)
  BY OwnTexts
<1>11. IncreasingSeq(MergeStrings, TextLess)
  <2>1. ASSUME NEW i \in DOMAIN MergeStrings, NEW j \in DOMAIN MergeStrings, i < j
        PROVE  TextLess(MergeStrings[i], MergeStrings[j])
    <3>1. Before(merged[i].text, merged[j].text, Definitions)
      BY <1>2, <1>8, <2>1
    <3> QED BY <1>8, <3>1, BeforeIsLess
  <2> QED BY <2>1 DEF IncreasingSeq
<1> QED BY <1>9, <1>10, <1>11, SameTextsIn DEF GoodTable

\* The workers' merge leaves such a table, unless the program is rejected; whoever made
\* it, the table of a published program has all texts.
TableInv ==
  /\ phase = "done" /\ Outcome.status = "ok" /\ Main \notin ToSet(finished) => GoodTable(strings)
  /\ phase = "published" => /\ ToSet(strings) = ToSet(OwnStrings)
                            /\ Main \notin ToSet(finished) => GoodTable(strings)

\* What the texts and their places are depends on the input alone.
LEMMA TablesKept ==
  ASSUME UNCHANGED input
  PROVE  OwnStrings' = OwnStrings /\ \A t : GoodTable(t)' <=> GoodTable(t)
<1>1. publications' = publications /\ Definitions' = Definitions
  BY DEF input, Definitions
<1>2. OwnFacts' = OwnFacts
  BY <1>1 DEF OwnFacts, ByPath
<1>3. OwnStrings' = OwnStrings
  BY <1>1, <1>2 DEF OwnStrings
<1>4. \A text : PlacesOf(text)' = PlacesOf(text)
  BY <1>1 DEF PlacesOf
<1>5. \A text : FirstPlace(text)' = FirstPlace(text)
  BY <1>4 DEF FirstPlace
<1>6. \A a, b : TextLess(a, b)' <=> TextLess(a, b)
  BY <1>1, <1>5 DEF TextLess
<1>7. \A t : GoodTable(t)' <=> GoodTable(t)
  BY <1>3, <1>6 DEF GoodTable, IncreasingSeq
<1> QED BY <1>3, <1>7

\* The merge.
LEMMA MergeTable ==
  ASSUME ValidationInv, OutcomeInv, Merge
  PROVE  TableInv'
<1>1. /\ phase = "parallel" /\ phase' = "done" /\ UNCHANGED input
  BY DEF Merge, AllDelivered
<1>2. /\ Parameters /\ PathsKnown /\ workerCount > 0 /\ Len(program) > 0
      /\ Main \in DOMAIN validators /\ validators = [x \in DOMAIN validators |-> validators[x]]
  BY <1>1, SMT DEF ValidationInv, OutcomeInv, Parameters
<1>3. GoodTable(MergeStrings)
  BY <1>2, MergedTable
<1> DEFINE merged == Finalize(validators[Main], MergedRecords)
<1> DEFINE failed == [validators[Main] EXCEPT !.error = FirstFailure, !.status = "failed"]
<1>4. failed.status # "ok"
  <2>1. validators[Main] \in ValidatorType
    BY <1>1, <1>2 DEF OutcomeInv, Sound
  <2> QED BY <2>1, FailedWith
<1>5. Outcome'.status = "ok" => strings' = MergeStrings
  <2>1. Outcome' = validators'[Main]
    BY DEF Outcome, Main
  <2>2. CASE merged.status = "failed" /\ validators' = [validators EXCEPT ![Main] = merged]
    <3> HIDE DEF merged
    <3>1. validators'[Main] = merged
      BY <1>2, <2>2
    <3> QED BY <2>1, <2>2, <3>1
  <2>3. CASE validators' = [validators EXCEPT ![Main] = failed]
    <3> HIDE DEF failed
    <3>1. validators'[Main] = failed
      BY <1>2, <2>3
    <3> QED BY <1>4, <2>1, <3>1
  <2>4. CASE strings' = MergeStrings
    BY <2>4
  <2> QED BY <2>2, <2>3, <2>4 DEF Merge, merged, failed
<1>6. \A t : t = strings' => (GoodTable(t)' <=> GoodTable(t))
  BY <1>1, TablesKept
<1> QED BY <1>1, <1>3, <1>5, <1>6 DEF TableInv

\* Publication keeps the workers' table or makes its own.
LEMMA PublishTable ==
  ASSUME TableInv, Publish
  PROVE  TableInv'
<1>1. /\ phase = "done" /\ phase' = "published" /\ UNCHANGED input /\ finished' = finished
      /\ Outcome.status = "ok"
      /\ \/ Main \notin ToSet(finished) /\ strings' = strings
         \/ Main \in ToSet(finished) /\ strings' = OwnStrings
  BY DEF Publish, Outcome
<1>2. OwnStrings' = OwnStrings /\ \A t : t = strings' => (GoodTable(t)' <=> GoodTable(t))
  BY <1>1, TablesKept
<1>3. ToSet(finished)' = ToSet(finished) /\ Main' = Main
  BY <1>1 DEF Main
<1>4. CASE Main \notin ToSet(finished) /\ strings' = strings
  <2>1. GoodTable(strings)
    BY <1>1, <1>4 DEF TableInv
  <2>2. ToSet(strings) = ToSet(OwnStrings)
    BY <2>1 DEF GoodTable
  <2>3. ToSet(strings)' = ToSet(OwnStrings)'
    BY <1>2, <1>4, <2>2
  <2> QED BY <1>1, <1>2, <1>4, <2>1, <2>3 DEF TableInv
<1>5. CASE Main \in ToSet(finished) /\ strings' = OwnStrings
  <2>1. ToSet(strings)' = ToSet(OwnStrings)'
    BY <1>2, <1>5
  <2> QED BY <1>1, <1>3, <1>5, <2>1 DEF TableInv
<1> QED BY <1>1, <1>4, <1>5

\* TableInv holds whatever the interleaving.
LEMMA TableInvariant == Spec => []TableInv
<1>1. Init => TableInv
  BY DEF Init, TableInv
<1>2. ASSUME ValidationInv, OutcomeInv, TableInv, [Next]_vars PROVE TableInv'
  <2>1. CASE ValidateSerially
    BY <2>1 DEF ValidateSerially, TableInv
  <2>2. CASE LaunchWorkers
    BY <2>2 DEF LaunchWorkers, TableInv
  <2>3. ASSUME NEW w \in DOMAIN validators, Work(w) PROVE TableInv'
    <3>1. phase \in {"serial", "parallel"}
      BY <2>3 DEF Work, ValidateNext, FinishPass, Active
    <3>2. CASE phase' = phase
      BY <3>1, <3>2 DEF TableInv
    <3>3. CASE phase' = "done" /\ w = Main /\ finished' = Append(finished, w)
      <4>1. finished \in Seq(DOMAIN validators)
        BY <1>2 DEF OutcomeInv
      <4>2. Len(finished) + 1 \in DOMAIN finished' /\ finished'[Len(finished) + 1] = Main
        BY <3>3, <4>1, SMT
      <4>3. Main \in ToSet(finished')
        BY <4>2 DEF ToSet
      <4>4. Main' = Main
        BY DEF Main
      <4> QED BY <3>3, <4>3, <4>4 DEF TableInv
    <3> QED BY <2>3, <3>2, <3>3 DEF Work, ValidateNext, FinishPass
  <2>4. CASE Merge
    BY <1>2, <2>4, MergeTable
  <2>5. CASE Publish
    BY <1>2, <2>5, PublishTable
  <2>6. CASE UNCHANGED vars
    <3>1. /\ UNCHANGED input /\ phase' = phase /\ validators' = validators
          /\ finished' = finished /\ strings' = strings
      BY <2>6 DEF vars
    <3>2. OwnStrings' = OwnStrings /\ \A t : t = strings' => (GoodTable(t)' <=> GoodTable(t))
      BY <3>1, TablesKept
    <3>3. /\ Outcome' = Outcome /\ Main' = Main /\ ToSet(finished)' = ToSet(finished)
          /\ ToSet(strings)' = ToSet(strings) /\ ToSet(OwnStrings)' = ToSet(OwnStrings)
      BY <3>1, <3>2 DEF Outcome, Main
    <3> QED BY <1>2, <3>1, <3>2, <3>3 DEF TableInv
  <2> QED BY <1>2, <2>1, <2>2, <2>3, <2>4, <2>5, <2>6 DEF Next
<1> QED BY ValidationInvariant, OutcomeInvariant, <1>1, <1>2, PTL DEF Spec

\* Nothing is published of a rejected program.  Of an accepted one all facts are, by
\* path, and the table that the workers' snapshots make has the texts that the main
\* validator interns, by their first places: neither the chunks nor who finished first
\* can be told from them (mergeWorkerPublicationFacts, mergeWorkerPublicationSeedStrings).
THEOREM PublicationIsIndependent == Spec => []PublicationIndependent
<1> DEFINE FactsOfAccepted == /\ facts # <<>> => Outcome.status = "ok"
                              /\ phase = "published" => FactsByPath
<1>1. FactsOfAccepted /\ TableInv => PublicationIndependent
  BY DEF TableInv, GoodTable, PublicationIndependent
<1> HIDE DEF FactsOfAccepted
<1>2. Spec => []FactsOfAccepted
  BY FactsIndependent DEF FactsOfAccepted
<1> QED BY TableInvariant, <1>1, <1>2, PTL
==============================================================================
