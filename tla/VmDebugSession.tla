--------------------------- MODULE VmDebugSession ---------------------------
(***************************************************************************)
(* VmDebugSession: the debugger over the VM's instructions                 *)
(* (src/src/runtime/VmDebugSession*.cpp, include/primec/Vm.h).             *)
(*                                                                         *)
(* The client calls start, step, continueExecution, pause and the          *)
(* breakpoint operations.  step and continueExecution run on the client's  *)
(* thread and call its hooks back between the parts of an instruction; a   *)
(* hook may itself pause the session, change breakpoints or replace the    *)
(* hooks.  So a call in flight is a sequence of steps (phase), with the    *)
(* client's calls interleaved wherever a hook has just been called.  Calls *)
(* the session refuses change nothing and are left out; calling start from *)
(* a hook destroys the frame the interpreter is using and is not modelled. *)
(***************************************************************************)
EXTENDS VmMachine

CONSTANTS
  BreakpointRequests,  \* the locations <<functionIndex, ip>> clients ask for
  HookSets,            \* the sets of hooks clients install
  SequenceLimit        \* hook sequence numbers wrap here (2^64 in the code)

HookKinds == {"before", "after", "callPush", "callPop", "fault"}

ASSUME ClientAssumption ==
  /\ BreakpointRequests \subseteq Nat \X Nat
  /\ HookSets \subseteq SUBSET HookKinds
  /\ SequenceLimit \in Nat \ {0}

VARIABLES
  \* members of VmDebugSession; the machine's variables are members too
  state,                   \* VmDebugSessionState
  pauseRequested,
  lastStopWasBreakpoint,
  breakpoints,             \* std::set<std::pair<size_t, size_t>>
  nextHookSequence,
  hooks,                   \* the kinds of hook installed
  \* the call in flight
  command,                 \* "none", "step" or "continue"
  phase,                   \* where it is: "idle", "loop", "execute", "after", "finish"
  skipCurrentBreakpoint,   \* continueExecution's local
  outcome,                 \* of the latest instruction: "None", "Continue", "Exit", "Fault"
  inHook,                  \* the client's hook is running
  \* what the client sees
  stopReason,              \* of the latest stop; "None" before the first
  event,                   \* the latest hook event
  moved                    \* FALSE from a breakpoint stop until an instruction executes

control == <<command, phase, skipCurrentBreakpoint, outcome, inHook>>
session == <<state, pauseRequested, lastStopWasBreakpoint, breakpoints>>
hooking == <<nextHookSequence, hooks, event>>
seen == <<stopReason, moved>>
vars == <<machine, session, hooking, control, seen>>

NoEvent == [kind |-> "none", sequence |-> 0, depth |-> 0, pushed |-> FALSE]

Init ==
  /\ module = NoModule
  /\ frames = <<>>
  /\ stack = <<>>
  /\ heap = EmptyHeap
  /\ result = 0
  /\ state = "Idle"
  /\ pauseRequested = FALSE
  /\ lastStopWasBreakpoint = FALSE
  /\ breakpoints = {}
  /\ nextHookSequence = 0
  /\ hooks = {}
  /\ command = "none"
  /\ phase = "idle"
  /\ skipCurrentBreakpoint = FALSE
  /\ outcome = "None"
  /\ inHook = FALSE
  /\ stopReason = "None"
  /\ event = NoEvent
  /\ moved = TRUE

-----------------------------------------------------------------------------
(***************************************************************************)
(* The session's life cycle: vmDebugApplyStopReason.                       *)
(***************************************************************************)
\* PausesAlways takes every stop for a pause.
PausesAlways(reason) == "Paused"
StateAfterStop(reason) ==
  IF reason = "Fault" THEN "Faulted" ELSE IF reason = "Exit" THEN "Exited" ELSE "Paused"

\* lastStopWasBreakpoint_ after a stop.  KeepsStop forgets to reset it.
KeepsStop(reason) == lastStopWasBreakpoint \/ reason = "Breakpoint"
RemembersStop(reason) == reason = "Breakpoint"

\* Every stop but start's ends a call; only a breakpoint stop is remembered.
Stop(reason) ==
  /\ state' = StateAfterStop(reason)
  /\ lastStopWasBreakpoint' = RemembersStop(reason)
  /\ stopReason' = reason
  /\ moved' = IF reason = "Breakpoint" THEN FALSE ELSE moved
  /\ command' = "none"
  /\ phase' = "idle"
  /\ inHook' = FALSE

\* initFromModule's reset of what is not the program's.  ResetKeeping leaves
\* the breakpoints of the module run before.
ResetKeeping ==
  /\ pauseRequested' = FALSE
  /\ lastStopWasBreakpoint' = FALSE
  /\ nextHookSequence' = 0
  /\ UNCHANGED breakpoints
Reset ==
  /\ pauseRequested' = FALSE
  /\ lastStopWasBreakpoint' = FALSE
  /\ nextHookSequence' = 0
  /\ breakpoints' = {}

\* start and initFromModule: everything but the hooks is reset.  It may be
\* called in any state in which no call is in flight.
Start(m) ==
  /\ command = "none"
  /\ Enter(m)
  /\ state' = StateAfterStop("Pause")
  /\ Reset
  /\ event' = NoEvent
  /\ outcome' = "None"
  /\ stopReason' = "None"
  /\ moved' = TRUE
  /\ UNCHANGED <<hooks, command, phase, skipCurrentBreakpoint, inHook>>

\* step: runs one instruction whatever the breakpoints and pause requests.
Step ==
  /\ command = "none"
  /\ state = "Paused"
  /\ state' = "Running"
  /\ command' = "step"
  /\ phase' = "loop"
  /\ outcome' = "None"
  /\ UNCHANGED <<machine, pauseRequested, lastStopWasBreakpoint, breakpoints, hooking,
                 skipCurrentBreakpoint, inHook, seen>>

\* Whether continueExecution stops before its loop; PauseLater leaves the
\* request to be found after an instruction.
PauseLater == FALSE
PauseFirst == pauseRequested

\* continueExecution up to its loop; a pause requested before it was called
\* stops it before any instruction.
Continue ==
  /\ command = "none"
  /\ state = "Paused"
  /\ \/ /\ PauseFirst
        /\ pauseRequested' = FALSE
        /\ Stop("Pause")
        /\ UNCHANGED skipCurrentBreakpoint
     \/ /\ ~PauseFirst
        /\ state' = "Running"
        /\ command' = "continue"
        /\ phase' = "loop"
        /\ skipCurrentBreakpoint' = lastStopWasBreakpoint
        /\ lastStopWasBreakpoint' = FALSE
        /\ UNCHANGED <<pauseRequested, inHook, seen>>
  /\ outcome' = "None"
  /\ UNCHANGED <<machine, breakpoints, hooking>>

-----------------------------------------------------------------------------
(***************************************************************************)
(* One instruction: the loop of continueExecution and stepInstruction.     *)
(***************************************************************************)
Location == <<Frame.functionIndex, Frame.ip>>

AtBreakpoint ==
  command = "continue" /\ ~skipCurrentBreakpoint /\ Location \in breakpoints

StopAtBreakpoint ==
  /\ phase = "loop"
  /\ AtBreakpoint
  /\ Stop("Breakpoint")
  /\ UNCHANGED <<machine, pauseRequested, breakpoints, hooking, skipCurrentBreakpoint, outcome>>

\* A number is used up only by a hook that is called.
SequenceAfter(kind) ==
  IF kind \in hooks THEN (nextHookSequence + 1) % SequenceLimit ELSE nextHookSequence

\* A hook is called only when installed; its snapshot shows the frames as the
\* instruction has left them so far.
Emit(kind, depth, pushed) ==
  /\ IF kind \in hooks
       THEN /\ event' = [kind |-> kind, sequence |-> nextHookSequence,
                         depth |-> depth, pushed |-> pushed]
            /\ inHook' = TRUE
       ELSE /\ UNCHANGED event
            /\ inHook' = FALSE
  /\ nextHookSequence' = SequenceAfter(kind)
  /\ UNCHANGED hooks

\* Running off the end of a function faults without calling any hook.
BeginInstruction ==
  /\ phase = "loop"
  /\ ~AtBreakpoint
  /\ skipCurrentBreakpoint' = IF command = "continue" THEN FALSE ELSE skipCurrentBreakpoint
  /\ \/ /\ AtEnd
        /\ outcome' = "Fault"
        /\ phase' = "finish"
        /\ inHook' = FALSE
        /\ UNCHANGED hooking
     \/ /\ ~AtEnd
        /\ phase' = "execute"
        /\ Emit("before", Depth, FALSE)
        /\ UNCHANGED outcome
  /\ UNCHANGED <<machine, session, command, seen>>

\* The kind of hook an instruction's effect is reported with, if any.
EffectHook(o) ==
  IF o = "Fault" THEN "fault"
  ELSE IF Inst.op \in Calls THEN "callPush"
  ELSE IF Inst.op \in Returns THEN "callPop"
  ELSE "none"

\* A faulted instruction skips its after hook; AfterAlways does not.
AfterAlways(o) == "after"
PhaseAfter(o) == IF o = "Fault" THEN "finish" ELSE "after"

ExecuteInstruction ==
  /\ phase = "execute"
  /\ \E o \in {"Continue", "Exit", "Fault"} :
       /\ Execute(o)
       /\ outcome' = o
       /\ phase' = PhaseAfter(o)
       /\ Emit(EffectHook(o), Len(frames'),
               IF EffectHook(o) = "callPush" THEN Inst.op = "Call"
               ELSE EffectHook(o) = "callPop" /\ Frame.returnValueToCaller)
  /\ moved' = TRUE
  /\ UNCHANGED <<session, command, skipCurrentBreakpoint, stopReason>>

EndInstruction ==
  /\ phase = "after"
  /\ phase' = "finish"
  /\ Emit("after", Depth, FALSE)
  /\ UNCHANGED <<machine, session, command, skipCurrentBreakpoint, outcome, seen>>

\* What step and continueExecution make of the instruction's outcome: only
\* continueExecution looks at pause requests, and only when the run goes on.
StopAfterInstruction ==
  /\ phase = "finish"
  /\ \/ /\ outcome \in {"Fault", "Exit"}
        /\ Stop(outcome)
        /\ UNCHANGED pauseRequested
     \/ /\ outcome = "Continue"
        /\ command = "step"
        /\ Stop("Step")
        /\ UNCHANGED pauseRequested
     \/ /\ outcome = "Continue"
        /\ command = "continue"
        /\ pauseRequested
        /\ pauseRequested' = FALSE
        /\ Stop("Pause")
  /\ UNCHANGED <<machine, breakpoints, hooking, skipCurrentBreakpoint, outcome>>

\* When continueExecution loops.  IgnoresPause and IgnoresFault each leave out
\* one of the tests.
IgnoresPause == command = "continue" /\ outcome = "Continue"
IgnoresFault == command = "continue" /\ outcome # "Exit" /\ ~pauseRequested
GoesOn == command = "continue" /\ outcome = "Continue" /\ ~pauseRequested

NextInstruction ==
  /\ phase = "finish"
  /\ GoesOn
  /\ phase' = "loop"
  /\ inHook' = FALSE
  /\ UNCHANGED <<machine, session, hooking, command, skipCurrentBreakpoint, outcome, seen>>

Run == StopAtBreakpoint \/ BeginInstruction \/ ExecuteInstruction \/ EndInstruction
         \/ StopAfterInstruction \/ NextInstruction

-----------------------------------------------------------------------------
(***************************************************************************)
(* The client's other calls, between calls or from a hook.                 *)
(***************************************************************************)
ClientMayCall == command = "none" \/ inHook

Pause ==
  /\ ClientMayCall
  /\ state \notin {"Idle", "Faulted", "Exited"}
  /\ pauseRequested' = TRUE
  /\ UNCHANGED <<machine, state, lastStopWasBreakpoint, breakpoints, hooking, control, seen>>

InProgram(location) ==
  /\ location[1] < Len(module.functions)
  /\ location[2] < Len(Code(location[1]))

AddBreakpoint(location) ==
  /\ ClientMayCall
  /\ module # NoModule
  /\ InProgram(location)
  /\ breakpoints' = breakpoints \cup {location}
  /\ UNCHANGED <<machine, state, pauseRequested, lastStopWasBreakpoint, hooking, control, seen>>

\* Removing the breakpoint stopped at leaves lastStopWasBreakpoint_ set.
RemoveBreakpoint(location) ==
  /\ ClientMayCall
  /\ module # NoModule
  /\ location \in breakpoints
  /\ breakpoints' = breakpoints \ {location}
  /\ UNCHANGED <<machine, state, pauseRequested, lastStopWasBreakpoint, hooking, control, seen>>

ClearBreakpoints ==
  /\ ClientMayCall
  /\ breakpoints' = {}
  /\ lastStopWasBreakpoint' = FALSE
  /\ UNCHANGED <<machine, state, pauseRequested, hooking, control, seen>>

SetHooks(kinds) ==
  /\ ClientMayCall
  /\ hooks' = kinds
  /\ UNCHANGED <<machine, session, nextHookSequence, event, control, seen>>

Client ==
  \/ \E m \in Modules : Start(m)
  \/ Step \/ Continue \/ Pause \/ ClearBreakpoints
  \/ \E location \in BreakpointRequests : AddBreakpoint(location) \/ RemoveBreakpoint(location)
  \/ \E kinds \in HookSets : SetHooks(kinds)

Next == Client \/ Run

Spec == Init /\ [][Next]_vars

(***************************************************************************)
(* A call in flight runs on the caller's thread: its loop goes on and a    *)
(* hook returns.  Nothing makes the client call again.                     *)
(***************************************************************************)
FairSpec == Spec /\ WF_vars(Run)
-----------------------------------------------------------------------------
(***************************************************************************)
(* Properties.                                                             *)
(***************************************************************************)
\* The members hold what their C++ types allow, no two calls are in flight, and
\* a call in flight is somewhere in its loop.
TypeOK ==
  /\ module \in Modules \cup {NoModule}
  /\ frames \in Seq(FrameType)
  /\ stack \in Seq(Word)
  /\ heap \in [slots : Seq(Word), allocations : Seq(Allocation)]
  /\ result \in Word
  /\ state \in {"Idle", "Running", "Paused", "Faulted", "Exited"}
  /\ pauseRequested \in BOOLEAN
  /\ lastStopWasBreakpoint \in BOOLEAN
  /\ breakpoints \subseteq BreakpointRequests
  /\ nextHookSequence \in 0 .. (SequenceLimit - 1)
  /\ hooks \subseteq HookKinds
  /\ command \in {"none", "step", "continue"}
  /\ phase \in {"idle", "loop", "execute", "after", "finish"}
  /\ (command = "none") <=> (phase = "idle")
  /\ skipCurrentBreakpoint \in BOOLEAN
  /\ outcome \in {"None", "Continue", "Exit", "Fault"}
  /\ inHook \in BOOLEAN
  /\ stopReason \in {"None", "Breakpoint", "Step", "Pause", "Fault", "Exit"}
  /\ event \in [kind : HookKinds \cup {"none"}, sequence : Nat, depth : Nat, pushed : BOOLEAN]
  /\ moved \in BOOLEAN

\* There is a frame to run exactly while the program can go on, so neither
\* stepInstruction's "no active frame" nor its "no active module" fault, nor a
\* stop the session's state refuses (vmDebugApplyStopReason), ever happens.
\* Breakpoints are instructions of the module being run, even when another one
\* is started while some are set (initFromModule, addBreakpoint).
StateMatchesProgram ==
  /\ (state = "Idle") <=> (module = NoModule)
  /\ (state = "Running") <=> (command # "none")
  /\ (frames = <<>>) <=> (state \in {"Idle", "Exited"} \/ outcome = "Exit")
  /\ state = "Faulted" => frames # <<>>
  /\ \A location \in breakpoints : InProgram(location)

\* Every frame below the top is suspended just after the call that pushed the
\* frame above it, and that frame returns a value exactly when the call was a
\* Call: what stackTrace relies on to map a frame to its call site, and return
\* to balance the operand stack (handleSharedVmControlFlowOpcode, Call).
CallersAtCallSites ==
  /\ Len(frames) <= MaxCallDepth
  /\ \A i \in 1 .. (Len(frames) - 1) :
       /\ frames[i].ip \in 1 .. Len(Code(frames[i].functionIndex))
       /\ LET call == Code(frames[i].functionIndex)[frames[i].ip] IN
            /\ call.op \in Calls
            /\ call.imm = frames[i + 1].functionIndex
            /\ frames[i + 1].returnValueToCaller = (call.op = "Call")
  /\ frames # <<>> => /\ frames[1].functionIndex = module.entryIndex
                      /\ ~frames[1].returnValueToCaller

\* The flag that lets continueExecution pass one breakpoint is set only while
\* the program still stands where a breakpoint stop was reported.
SkipOnlyWhereStopped ==
  /\ lastStopWasBreakpoint => ~moved \/ command = "step"
  /\ skipCurrentBreakpoint /\ phase = "loop" /\ command = "continue" => ~moved

Started == phase = "loop" /\ phase' # "loop" /\ command' # "none"

\* continueExecution executes no instruction at a breakpoint but one that a
\* breakpoint stop has just reported, however breakpoints are set, removed and
\* cleared at stops and from hooks.
NoBreakpointMissed ==
  [][Started /\ command = "continue" /\ Location \in breakpoints => ~moved]_vars

\* Once a pause is requested, continueExecution executes no further instruction:
\* a request made from a hook stops it after the instruction under way, one made
\* between calls stops it at once, and a breakpoint does not swallow it.
PauseNotOvertaken ==
  /\ [][Started /\ command = "continue" => ~pauseRequested]_vars
  /\ [][pauseRequested /\ ~pauseRequested' => stopReason' \in {"Pause", "None"}]_vars

Reports(kind) == event' # event /\ event'.kind = kind

\* With every hook installed, an instruction reports before, then at most one
\* call event, then after; a faulted one reports before, then fault, and its
\* fault is the session's last event (PrimeStruct.md:5612-5615).
HookOrder ==
  [][hooks = HookKinds =>
       /\ Reports("before") => event.kind \in {"none", "after"}
       /\ Reports("callPush") \/ Reports("callPop") \/ Reports("fault") => event.kind = "before"
       /\ Reports("after") => event.kind \in {"before", "callPush", "callPop"}
       /\ Reports("callPush") => event'.depth = event.depth + 1
       /\ Reports("callPop") => event'.depth = IF event.depth = 1 THEN 0 ELSE event.depth - 1
       /\ event.kind = "fault" => event' \in {event, NoEvent}]_vars

(***************************************************************************)
(* Debugging a program does not change it: the session implements          *)
(* VmKernel, one kernel step for each instruction and nothing else.        *)
(***************************************************************************)
KernelStatus ==
  IF module = NoModule THEN "idle"
  ELSE IF outcome = "Fault" THEN "failed"
  ELSE IF outcome = "Exit" THEN "returned"
  ELSE "running"

Kernel == INSTANCE VmKernel WITH status <- KernelStatus

\* Whatever the stops, breakpoints, pauses and hooks, the program's frames,
\* operands, heap and result go through the states Vm::execute takes them
\* through (executeVmKernel).
ImplementsKernel == Kernel!Spec

\* A step returns, and so does continueExecution once a pause is requested, even
\* when the program would run for ever (continueExecution, pause).
CallsReturn ==
  command = "step" \/ (command = "continue" /\ pauseRequested) ~> command = "none"
=============================================================================
