------------------------------ MODULE VmKernel ------------------------------
(***************************************************************************)
(* executeVmKernel, the interpreter behind Vm::execute                     *)
(* (src/src/runtime/VmExecutionKernel.cpp): a module runs from its entry   *)
(* function until the entry frame returns or an instruction faults, and    *)
(* nothing but the module decides what happens.  A run may be abandoned    *)
(* and another one started; VmDebugSession is shown to implement this.     *)
(***************************************************************************)
EXTENDS VmMachine

VARIABLE status   \* "idle", "running", "returned" or "failed"

vars == <<machine, status>>

Init ==
  /\ module = NoModule
  /\ frames = <<>>
  /\ stack = <<>>
  /\ heap = EmptyHeap
  /\ result = 0
  /\ status = "idle"

Start(m) == Enter(m) /\ status' = "running"

\* Running off the end of a function fails before any instruction executes.
MissingReturn ==
  /\ status = "running"
  /\ AtEnd
  /\ status' = "failed"
  /\ UNCHANGED machine

Instruction ==
  /\ status = "running"
  /\ ~AtEnd
  /\ \E outcome \in {"Continue", "Exit", "Fault"} :
       /\ Execute(outcome)
       /\ status' = CASE outcome = "Continue" -> "running"
                      [] outcome = "Exit" -> "returned"
                      [] outcome = "Fault" -> "failed"

Next == MissingReturn \/ Instruction \/ \E m \in Modules : Start(m)

Spec == Init /\ [][Next]_vars
=============================================================================
