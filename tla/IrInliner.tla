------------------------------ MODULE IrInliner ------------------------------
(***************************************************************************)
(* The optional inlining of calls between lowering and the back ends       *)
(* (--ir-inline): prepareIrModule validates the lowered module, lets       *)
(* inlineIrModuleCalls replace calls by the bodies of their callees, and   *)
(* validates it again (src/src/IrPreparation.cpp, IrInliner.cpp,           *)
(* IrValidation.cpp).                                                      *)
(*                                                                         *)
(* To say what the pass promises, the module is run twice by the kernel:   *)
(* once as a build without --ir-inline runs it, between its validation and *)
(* its inlining, and once when it is inlined and valid.  What a run prints *)
(* and returns is compared.  A call to a function the module does not have *)
(* never reaches the pass, which refuses it; nor does a local index that   *)
(* overflows.                                                              *)
(***************************************************************************)
EXTENDS VmKernel, SequencesExt

CONSTANT LocalIndexLimit   \* the largest index of a local: 2^32 - 1 in the code

ASSUME InlinerAssumption ==
  \A m \in Modules :
    m \in [entryIndex : Int, functions : Seq(Seq([op : STRING, imm : Word]))]

VARIABLES
  original,         \* the module as lowering left it
  ir,               \* the module being prepared
  stage,            \* "validation", "plain", "inlining", "revalidation", "inlined", "rejected"
  pass,
  position,         \* the function the pass looks at next, from 1
  changedInPass,
  localCounts,
  leafInlineable,
  output,           \* the words printed by the run under way
  narrowed,         \* a callee of the plain run returned another word than its operand
  addressed,        \* a callee of the plain run took or used the address of a local
  expected          \* what the plain run came to

prepared == <<original, ir, stage>>
inlining == <<pass, position, changedInPass, localCounts, leafInlineable>>
observed == <<output, narrowed, addressed, expected>>
inlinerVars == <<machine, status, prepared, inlining, observed>>

Functions == DOMAIN ir.functions
Outcome == [status |-> status, result |-> result, output |-> output]

InlinerInit ==
  /\ Init
  /\ original \in Modules
  /\ ir = original
  /\ stage = "validation"
  /\ pass = 0
  /\ position = 1
  /\ changedInPass = FALSE
  /\ localCounts = <<>>
  /\ leafInlineable = <<>>
  /\ output = <<>>
  /\ narrowed = FALSE
  /\ addressed = FALSE
  /\ expected = Outcome

-----------------------------------------------------------------------------
(***************************************************************************)
(* validateIrModule: names, metadata and strings are left out.             *)
(***************************************************************************)
ValidInstruction(m, code, inst) ==
  /\ inst.op \in Opcodes
  /\ inst.op \in Jumps => inst.imm <= Len(code)
  /\ inst.op \in Calls => inst.imm < Len(m.functions)
  /\ inst.op \in LocalOps => inst.imm <= LocalIndexLimit

ValidModule(m) ==
  /\ ValidEntry(m)
  /\ \A f \in DOMAIN m.functions :
       /\ m.functions[f] # <<>>
       /\ \A i \in DOMAIN m.functions[f] :
            ValidInstruction(m, m.functions[f], m.functions[f][i])

\* A module that is not valid is not run; next names what follows for one that is.
Validate(next) ==
  \/ /\ ValidModule(ir)
     /\ Start(ir)
     /\ stage' = next
  \/ /\ ~ValidModule(ir)
     /\ stage' = "rejected"
     /\ UNCHANGED <<machine, status>>

ValidateLowered ==
  /\ stage = "validation"
  /\ Validate("plain")
  /\ UNCHANGED <<original, ir, inlining, observed>>

-----------------------------------------------------------------------------
(***************************************************************************)
(* inlineIrModuleCalls.                                                    *)
(***************************************************************************)
Uses(code, ops) == \E i \in DOMAIN code : code[i].op \in ops

\* A function whose calls may be inlined.  InlinesLoops takes one with jumps too.
InlinesLoops(code) == ~Uses(code, Calls) /\ code # <<>> /\ Last(code).op \in Returns
IsLeaf(code) ==
  /\ ~Uses(code, Calls \cup Jumps)
  /\ code # <<>>
  /\ Last(code).op \in Returns

\* What stands for a callee's instruction in the caller.  KeepsValue leaves the
\* value of a call that wants none on the stack.
KeepsValue(inst, localBase, pushReturnValue) ==
  IF inst.op \in LocalOps THEN <<[inst EXCEPT !.imm = @ + localBase]>>
  ELSE IF inst.op \in Returns THEN <<>> ELSE <<inst>>
InlinedInstruction(inst, localBase, pushReturnValue) ==
  CASE inst.op \in LocalOps -> <<[inst EXCEPT !.imm = @ + localBase]>>
    [] inst.op = "ReturnVoid" -> IF pushReturnValue THEN <<[op |-> "PushI32", imm |-> 0]>> ELSE <<>>
    [] inst.op \in Returns \ {"ReturnVoid"} ->
         IF pushReturnValue THEN <<>> ELSE <<[op |-> "Pop", imm |-> 0]>>
    [] OTHER -> <<inst>>

InlinedCallee(code, localBase, pushReturnValue) ==
  FlattenSeq([i \in DOMAIN code |-> InlinedInstruction(code[i], localBase, pushReturnValue)])

Inlines(f, inst) == inst.op \in Calls /\ inst.imm + 1 # f /\ leafInlineable[inst.imm + 1]

\* Every inlined call gets locals of its own.  LocalsShared gives all the same.
LocalsShared(nextLocal, callee) == nextLocal
LocalsAfter(nextLocal, callee) == nextLocal + localCounts[callee]

\* The next instruction is copied, or its callee in its place.
Copied(f, done, inst) ==
  IF Inlines(f, inst)
    THEN [code |-> done.code \o InlinedCallee(ir.functions[inst.imm + 1], done.nextLocal,
                                              inst.op = "Call"),
          nextLocal |-> LocalsAfter(done.nextLocal, inst.imm + 1)]
    ELSE [done EXCEPT !.code = Append(@, inst)]

\* The function's code with its calls to leaves inlined, and its locals counted.
Rewritten(f) ==
  LET length == Len(ir.functions[f])
      copied[i \in 0 .. length] ==
        IF i = 0 THEN [code |-> <<>>, nextLocal |-> localCounts[f]]
        ELSE Copied(f, copied[i - 1], ir.functions[f][i])
  IN copied[length]

\* CountsKept forgets the locals a rewritten function has gained.
CountsKept(f, nextLocal) == localCounts
CountsAfter(f, nextLocal) == [localCounts EXCEPT ![f] = nextLocal]

Ended == status \in {"returned", "failed"}

StartInlining ==
  /\ stage = "plain"
  /\ Ended
  /\ stage' = "inlining"
  /\ expected' = Outcome
  /\ output' = <<>>
  /\ localCounts' = [f \in Functions |-> LocalCount(ir.functions[f])]
  /\ leafInlineable' = [f \in Functions |-> IsLeaf(ir.functions[f])]
  /\ UNCHANGED <<machine, status, original, ir, pass, position, changedInPass, narrowed, addressed>>

InlineFunction ==
  /\ stage = "inlining"
  /\ position \in Functions
  /\ LET rewritten == Rewritten(position) IN
       /\ ir' = [ir EXCEPT !.functions[position] = rewritten.code]
       /\ localCounts' = CountsAfter(position, rewritten.nextLocal)
       /\ leafInlineable' = [leafInlineable EXCEPT ![position] = IsLeaf(rewritten.code)]
  /\ changedInPass' = (\/ changedInPass
                       \/ \E i \in DOMAIN ir.functions[position] :
                            Inlines(position, ir.functions[position][i]))
  /\ position' = position + 1
  /\ UNCHANGED <<machine, status, original, stage, pass, observed>>

\* The passes the code allows itself.  TooFew would do for chains of two calls.
TooFew == 2
MaxPasses == 2 * Len(ir.functions) + 1

EndPass ==
  /\ stage = "inlining"
  /\ position = Len(ir.functions) + 1
  /\ \/ /\ changedInPass
        /\ pass + 1 < MaxPasses
        /\ pass' = pass + 1
        /\ position' = 1
        /\ changedInPass' = FALSE
        /\ UNCHANGED stage
     \/ /\ ~changedInPass \/ pass + 1 = MaxPasses
        /\ stage' = "revalidation"
        /\ UNCHANGED <<pass, position, changedInPass>>
  /\ UNCHANGED <<machine, status, original, ir, localCounts, leafInlineable, observed>>

ValidateInlined ==
  /\ stage = "revalidation"
  /\ Validate("inlined")
  /\ UNCHANGED <<original, ir, inlining, observed>>

-----------------------------------------------------------------------------
(***************************************************************************)
(* The two runs.                                                           *)
(***************************************************************************)
NamesLocal ==
  \/ Inst.op = "AddressOfLocal"
  \/ Inst.op \in {"LoadIndirect", "StoreIndirect"} /\ IndirectSlot.space = "local"

RunModule ==
  /\ stage \in {"plain", "inlined"}
  /\ MissingReturn \/ Instruction
  /\ output' = IF ~AtEnd /\ Inst.op = "PrintI32" /\ status' = "running"
                 THEN Append(output, Operand(0)) ELSE output
  /\ narrowed' = (\/ narrowed
                  \/ /\ stage = "plain"
                     /\ status' = "running"
                     /\ Inst.op \in Returns \ {"ReturnVoid"}
                     /\ ReturnValue # Operand(0))
  /\ addressed' = (\/ addressed
                   \/ /\ stage = "plain"
                      /\ status' = "running"
                      /\ Depth > 1
                      /\ NamesLocal)
  /\ UNCHANGED <<prepared, inlining, expected>>

InlinerNext ==
  ValidateLowered \/ RunModule \/ StartInlining \/ InlineFunction \/ EndPass \/ ValidateInlined

InlinerSpec == InlinerInit /\ [][InlinerNext]_inlinerVars
-----------------------------------------------------------------------------
(***************************************************************************)
(* Properties.                                                             *)
(***************************************************************************)
\* The counts the pass keeps are those the VM will take from the code it leaves,
\* over several passes and levels of calls, and it knows the leaves
\* (computeLocalCount, computeVmKernelLocalCount).
CountsExact ==
  \A f \in DOMAIN localCounts :
    /\ localCounts[f] = LocalCount(ir.functions[f])
    /\ leafInlineable[f] = IsLeaf(ir.functions[f])

\* The bound on the passes never ends the pass early: a function it leaves calls
\* only itself and functions that are not leaves.
NoLeafCallLeft ==
  stage \in {"revalidation", "inlined"} =>
    \A f \in Functions : \A i \in DOMAIN ir.functions[f] : ~Inlines(f, ir.functions[f][i])

\* What lowering emits: a function ends with a return, and without jumps has no
\* other.
EndsOnce(code) ==
  /\ code # <<>>
  /\ Last(code).op \in Returns
  /\ ~Uses(code, Jumps) => ~Uses(Front(code), Returns)

JumpsMoved ==
  \E f \in Functions : /\ Uses(original.functions[f], Jumps)
                       /\ ir.functions[f] # original.functions[f]

SameOutcome == stage # "rejected" /\ (stage = "inlined" /\ Ended => Outcome = expected)

\* Inlining changes neither what a program prints nor what it returns, provided
\* no function with jumps was rewritten, every return is a function's last
\* instruction, and no callee returned a word wider than its type says
\* (appendInlinedCallee).  A callee may use the address of a local to load and store
\* through it, but what it shows of the address itself is another one afterwards.
InlinedSame ==
  /\ stage \notin {"validation", "plain"}
  /\ expected.status = "returned"
  /\ \A f \in Functions : EndsOnce(original.functions[f])
  /\ ~JumpsMoved
  /\ ~narrowed
  => SameOutcome

\* The locals that inlined calls were given have indices the validation accepts.
IndexesFit ==
  \A f \in Functions : \A i \in DOMAIN ir.functions[f] :
    ir.functions[f][i].op \in LocalOps => ir.functions[f][i].imm <= LocalIndexLimit

\* include/primec/IrInliner.h:9-11 says that the pass preserves runtime behavior.
BehaviorPreserved == expected.status = "returned" => SameOutcome
=============================================================================
