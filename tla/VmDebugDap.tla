----------------------------- MODULE VmDebugDap -----------------------------
(***************************************************************************)
(* The debug adapter and the DAP session over it                           *)
(* (src/src/runtime/VmDebugAdapter.cpp, VmDebugDap.cpp, VmDebugHelpers.cpp,*)
(* the loop primevm --debug-dap runs).                                     *)
(*                                                                         *)
(* Requests are read from one stream and served one at a time; the session *)
(* below has no hooks installed, so nothing but the program runs while a   *)
(* continue or next is served.  Every other request is one action.  What a *)
(* request is answered with is the sequence messages; request and sequence *)
(* numbers, texts and the adapter's transcript are left out, and so are    *)
(* the names of locals (a frame shows as many variables as it has locals). *)
(*                                                                         *)
(* A module also has a sourceMap, a sequence of [debugId, line, column,    *)
(* unit, canonical], and an instruction its debugId.                       *)
(***************************************************************************)
EXTENDS VmDebugSession, SequencesExt

CONSTANTS
  SourceRequests,        \* setBreakpoints: sequences of [line, column, unit]
  InstructionRequests,   \* setInstructionBreakpoints: sequences of <<functionIndex, ip>>
  FrameIds,              \* what clients ask scopes of
  References             \* what clients ask variables of

VARIABLES
  program,               \* the IrModule the endpoint was started for
  launched, disconnected, observedProgramExit, programExitCode,  \* VmDebugDapRuntime
  request,               \* "continue" or "next" while one is served, else "none"
  messages,              \* what the latest request was answered with
  ended,                 \* "no", or what runVmDebugDapSession returned: "true", "false"
  dapResult,             \* VmDebugDapRunResult
  \* what the client may rely on
  promised,              \* the breakpoints asked for last, and how that was answered
  executed               \* an instruction has run since the latest continue or next

runtime == <<launched, disconnected, observedProgramExit, programExitCode>>
dapVars == <<program, runtime, request, messages, ended, dapResult, promised, executed>>
allVars == <<vars, dapVars>>

NoResult == [disconnected |-> FALSE, observedProgramExit |-> FALSE, programExitCode |-> 0]
NoPromise == [lines |-> {}, locations |-> {}, answered |-> TRUE]

DapInit ==
  /\ Init
  /\ program \in Modules
  /\ launched = FALSE
  /\ disconnected = FALSE
  /\ observedProgramExit = FALSE
  /\ programExitCode = 0
  /\ request = "none"
  /\ messages = <<>>
  /\ ended = "no"
  /\ dapResult = NoResult
  /\ promised = NoPromise
  /\ executed = FALSE

Response(command_, success, body) ==
  [type |-> "response", name |-> command_, success |-> success, body |-> body]
NoBody == [empty |-> TRUE]
Failure(command_) == Response(command_, FALSE, NoBody)
Event(name, body) == [type |-> "event", name |-> name, success |-> TRUE, body |-> body]

-----------------------------------------------------------------------------
(***************************************************************************)
(* Source breakpoints.                                                     *)
(***************************************************************************)
Locations(m) ==
  UNION {{i - 1} \X (0 .. Len(m.functions[i]) - 1) : i \in DOMAIN m.functions}
InstructionAt(m, location) == m.functions[location[1] + 1][location[2] + 1]

\* A module's functions are a vector; clients may ask for any location, and get
\* a breakpoint at any instruction.
ASSUME DapAssumption ==
  /\ \A m \in Modules : /\ DOMAIN m.functions = 1 .. Len(m.functions)
                        /\ Locations(m) \subseteq BreakpointRequests
  /\ \A asked \in InstructionRequests : asked \in Seq(Nat \X Nat)

\* resolveSourceBreakpoints: the locations a line stands for; none when it is
\* not found, has several columns and none was asked for, or has no
\* instruction.  A line comes as a 64-bit number and is cut to 32 bits.
MatchingEntries(m, asked) ==
  {e \in ToSet(m.sourceMap) :
     /\ e.canonical
     /\ asked.unit \in {"", e.unit}
     /\ e.line = asked.line % HalfLimit
     /\ e.line # 0
     /\ e.column # 0}

\* FirstOnly takes the first instruction of a line for all of it.
ResolveFirstOnly(m, asked) ==
  LET found == {l \in Locations(m) : \E e \in MatchingEntries(m, asked) :
                                       InstructionAt(m, l).debugId = e.debugId}
  IN {l \in found : \A k \in found : k[1] > l[1] \/ (k[1] = l[1] /\ k[2] >= l[2])}
ResolveSourceBreakpoints(m, asked) ==
  LET columns == {e.column : e \in MatchingEntries(m, asked)}
      selected == IF asked.column # 0 THEN columns \cap {asked.column}
                  ELSE IF Cardinality(columns) = 1 THEN columns ELSE {}
      ids == {e.debugId : e \in {x \in MatchingEntries(m, asked) : x.column \in selected}}
  IN {l \in Locations(m) : InstructionAt(m, l).debugId \in ids}

-----------------------------------------------------------------------------
(***************************************************************************)
(* What the adapter answers queries with.                                  *)
(***************************************************************************)
\* lookupSourceMap: the first entry of the instruction's debugId, 0 for none.
LineOf(location) ==
  LET id == InstructionAt(module, location).debugId
      mapped == SelectSeq(module.sourceMap, LAMBDA e : e.debugId = id)
  IN IF id = 0 \/ mapped = <<>> THEN 0 ELSE mapped[1].line

\* A caller is shown at its call, the top frame where it stands.
\* MappedIpRaw shows every frame where it stands, MappedIpAll also the top
\* frame at the call it has just returned from.
MappedIpRaw(ordinal, frame) == frame.ip
MappedIpAll(ordinal, frame) ==
  IF frame.ip > 0 /\ Code(frame.functionIndex)[frame.ip].op \in Calls
    THEN frame.ip - 1 ELSE frame.ip
MappedIp(ordinal, frame) ==
  IF /\ ordinal > 0
     /\ frame.ip > 0
     /\ frame.ip <= Len(Code(frame.functionIndex))
     /\ Code(frame.functionIndex)[frame.ip].op \in Calls
    THEN frame.ip - 1
    ELSE frame.ip

\* FrameAt(0) is the top frame: VmDebugSnapshotPayload lists them bottom up.
FrameAt(ordinal) == frames[Depth - ordinal]

StackTrace ==
  [i \in 1 .. Depth |->
     LET location == <<FrameAt(i - 1).functionIndex, MappedIp(i - 1, FrameAt(i - 1))>> IN
     [id |-> i,
      location |-> location,
      line |-> IF location[2] < Len(Code(location[1])) THEN LineOf(location) ELSE 0]]

\* A reference is the frame's number above eight bits of scope kind.
\* EncodeFromZero numbers the frames from 0.
ScopeKinds == [locals |-> 1, operands |-> 2]
EncodeFromZero(ordinal, kind) == ordinal * 256 + kind
EncodeVariablesReference(ordinal, kind) == (ordinal + 1) * 256 + kind
Decodes(reference) ==
  reference > 0 /\ reference \div 256 > 0 /\ reference % 256 \in {1, 2}
ReferencedFrame(reference) == (reference \div 256) - 1

Scopes(frameId) ==
  << [reference |-> EncodeVariablesReference(frameId - 1, ScopeKinds.locals),
      count |-> Len(FrameAt(frameId - 1).locals)],
     [reference |-> EncodeVariablesReference(frameId - 1, ScopeKinds.operands),
      count |-> IF frameId = 1 THEN Len(stack) ELSE 0] >>

KnowsReference(reference) == Decodes(reference) /\ ReferencedFrame(reference) < Depth

Variables(reference) ==
  IF reference % 256 = ScopeKinds.locals THEN FrameAt(ReferencedFrame(reference)).locals
  ELSE IF ReferencedFrame(reference) = 0 THEN Reverse(stack)
  ELSE <<>>

-----------------------------------------------------------------------------
(***************************************************************************)
(* handleRequest, one action for each kind of request.                     *)
(***************************************************************************)
Ready == ended = "no" /\ request = "none" /\ ~disconnected

Answer(answer) ==
  /\ messages' = answer
  /\ UNCHANGED <<program, ended, dapResult>>

\* Nothing but the answer.
Reply(answer) ==
  /\ Answer(answer)
  /\ UNCHANGED <<vars, runtime, request, promised, executed>>

Acknowledge ==
  /\ Ready
  /\ \E name \in {"initialize", "configurationDone", "setExceptionBreakpoints"} :
       Reply(<<Response(name, TRUE, NoBody)>>)

NeedLaunch == {"setBreakpoints", "setInstructionBreakpoints", "threads", "stackTrace",
               "scopes", "variables", "continue", "next", "pause"}
TakeArguments == {"setBreakpoints", "setInstructionBreakpoints", "scopes", "variables"}

\* A request without a command, of an unknown one, too early, or with
\* arguments that are not understood.
Refuse ==
  /\ Ready
  /\ \E name \in {"unknown"} \cup TakeArguments \cup (IF launched THEN {} ELSE NeedLaunch) :
       Reply(<<Failure(name)>>)

\* A launch that fails may be tried again.  MayRelaunch lets one that has
\* succeeded be repeated.
MayRelaunch == TRUE
MayLaunch == ~launched

Launch ==
  /\ Ready
  /\ \/ /\ MayLaunch
        /\ Start(program)
        /\ launched' = TRUE
        /\ promised' = NoPromise
        /\ Answer(<<Response("launch", TRUE, NoBody), Event("initialized", NoBody),
                    Event("stopped", [reason |-> "entry"])>>)
        /\ UNCHANGED <<disconnected, observedProgramExit, programExitCode, request, executed>>
     \/ /\ ~MayLaunch \/ ~ValidEntry(program)
        /\ Reply(<<Failure("launch")>>)

\* clearBreakpoints and the breakpoints added after it.  ReplaceKeeping adds
\* to those there were.
ReplaceKeeping(locations) == breakpoints' = breakpoints \cup locations
ReplaceBreakpoints(locations) == breakpoints' = locations

SetBreakpoints(locations) ==
  /\ ReplaceBreakpoints(locations)
  /\ lastStopWasBreakpoint' = FALSE
  /\ UNCHANGED <<machine, state, pauseRequested, hooking, control, seen>>
  /\ UNCHANGED <<runtime, request, executed>>

\* Every entry is tried, and answered for itself.
SetSourceBreakpoints ==
  /\ Ready
  /\ launched
  /\ \E asked \in SourceRequests :
       LET resolved == [i \in DOMAIN asked |-> ResolveSourceBreakpoints(module, asked[i])] IN
       /\ SetBreakpoints(UNION {resolved[i] : i \in DOMAIN asked})
       /\ Answer(<<Response("setBreakpoints", TRUE,
                            [breakpoints |-> [i \in DOMAIN asked |-> resolved[i] # {}]])>>)
       /\ promised' = [lines |-> {asked[i] : i \in {j \in DOMAIN asked : resolved[j] # {}}},
                       locations |-> {}, answered |-> TRUE]

\* The first bad location ends the request with those before it set.
SetInstructionBreakpoints ==
  /\ Ready
  /\ launched
  /\ \E asked \in InstructionRequests :
       LET good == {i \in DOMAIN asked : \A j \in 1 .. i : InProgram(asked[j])}
           success == good = DOMAIN asked
       IN
       /\ SetBreakpoints({asked[i] : i \in good})
       /\ Answer(<<Response("setInstructionBreakpoints", success, NoBody)>>)
       /\ promised' = [lines |-> {}, locations |-> ToSet(asked), answered |-> success]

Query ==
  /\ Ready
  /\ launched
  /\ \/ Reply(<<Response("threads", TRUE, NoBody)>>)
     \/ Reply(<<Response("stackTrace", TRUE, [stackFrames |-> StackTrace])>>)
     \/ Reply(<<Failure("stackTrace")>>)       \* of a thread other than 1
     \/ \E id \in FrameIds :
          Reply(<<IF id \in 1 .. Depth THEN Response("scopes", TRUE, [scopes |-> Scopes(id)])
                  ELSE Failure("scopes")>>)
     \/ \E reference \in References :
          Reply(<<IF KnowsReference(reference)
                    THEN Response("variables", TRUE, [variables |-> Variables(reference)])
                    ELSE Failure("variables")>>)

PauseRequest ==
  /\ Ready
  /\ launched
  /\ \/ /\ Pause
        /\ Answer(<<Response("pause", TRUE, NoBody)>>)
        /\ UNCHANGED <<runtime, request, promised, executed>>
     \/ /\ state \in {"Faulted", "Exited"}
        /\ Reply(<<Failure("pause")>>)

\* continue and next hand the program the thread until it stops.
ContinueRequest ==
  /\ Ready
  /\ launched
  /\ \/ /\ \/ Continue /\ request' = "continue"
           \/ Step /\ request' = "next"
        /\ executed' = FALSE
        /\ Answer(<<>>)
        /\ UNCHANGED <<runtime, promised>>
     \/ /\ state # "Paused"
        /\ \E name \in {"continue", "next"} : Reply(<<Failure(name)>>)

RunProgram ==
  /\ request # "none"
  /\ Run
  /\ executed' = (executed \/ phase = "execute")
  /\ UNCHANGED <<program, runtime, request, messages, ended, dapResult, promised>>

DapReason ==
  [Breakpoint |-> "breakpoint", Step |-> "step", Pause |-> "pause",
   Fault |-> "exception", Exit |-> "exited"]

\* static_cast<int32_t>(result); ExitCodeWide forgets the cast.
ExitCodeWide == result
ExitCode == SignExtendUnbounded(result)

\* appendStopEvents
StopEvents(reason) ==
  IF reason = "Exit" THEN <<Event("exited", [exitCode |-> ExitCode]), Event("terminated", NoBody)>>
  ELSE <<Event("stopped", [reason |-> DapReason[reason]])>>

Respond ==
  /\ request # "none"
  /\ command = "none"
  /\ Answer(<<Response(request, TRUE, NoBody)>> \o StopEvents(stopReason))
  /\ request' = "none"
  /\ observedProgramExit' = (observedProgramExit \/ stopReason = "Exit")
  /\ programExitCode' = IF stopReason = "Exit" THEN ExitCode ELSE programExitCode
  /\ UNCHANGED <<vars, launched, disconnected, promised, executed>>

Disconnect ==
  /\ Ready
  /\ Answer(<<Response("disconnect", TRUE, NoBody)>>)
  /\ disconnected' = TRUE
  /\ UNCHANGED <<vars, launched, observedProgramExit, programExitCode, request, promised, executed>>

\* After a disconnect or at the end of the input the result is copied out.
\* ResultEarly copies it only after a disconnect.
ResultEarly ==
  IF disconnected THEN [disconnected |-> TRUE, observedProgramExit |-> observedProgramExit,
                        programExitCode |-> programExitCode] ELSE NoResult
Result == [disconnected |-> disconnected, observedProgramExit |-> observedProgramExit,
           programExitCode |-> programExitCode]

EndOfInput ==
  /\ ended = "no"
  /\ request = "none"
  /\ ended' = "true"
  /\ dapResult' = Result
  /\ UNCHANGED <<vars, program, runtime, request, messages, promised, executed>>

\* A broken frame, a payload that is not JSON or not an object.
BadInput ==
  /\ Ready
  /\ ended' = "false"
  /\ UNCHANGED <<vars, program, runtime, request, messages, dapResult, promised, executed>>

Serve == Acknowledge \/ Refuse \/ Launch \/ SetSourceBreakpoints \/ SetInstructionBreakpoints
           \/ Query \/ PauseRequest \/ ContinueRequest \/ Disconnect
DapNext == Serve \/ RunProgram \/ Respond \/ EndOfInput \/ BadInput

DapSpec == DapInit /\ [][DapNext]_allVars
-----------------------------------------------------------------------------
(***************************************************************************)
(* Properties.                                                             *)
(***************************************************************************)
\* The runtime's fields and the answer hold what their types allow; a program
\* runs only while a continue or next is served, and no hook is installed.
DapTypeOK ==
  /\ TypeOK
  /\ program \in Modules
  /\ launched \in BOOLEAN /\ disconnected \in BOOLEAN /\ observedProgramExit \in BOOLEAN
  /\ programExitCode \in -HalfLimit .. HalfLimit
  /\ request \in {"none", "continue", "next"}
  /\ command # "none" => request # "none"
  /\ hooks = {}
  /\ ended \in {"no", "true", "false"}
  /\ \A i \in DOMAIN messages : (messages[i].type = "response") <=> (i = 1)

\* What a verified source breakpoint stands for, said without the resolver: the
\* instructions whose canonical source location it names (an entry with column 0
\* has none, VmDebugHelpers.cpp:67).
StandsFor(asked, location) ==
  \E e \in ToSet(module.sourceMap) :
    /\ e.debugId = InstructionAt(module, location).debugId
    /\ e.canonical
    /\ e.line = asked.line % HalfLimit
    /\ e.column # 0
    /\ asked.column \in {0, e.column}
    /\ asked.unit \in {"", e.unit}

PromisedAt(location) ==
  \/ \E asked \in promised.lines : StandsFor(asked, location)
  \/ location \in promised.locations

\* The session's breakpoints are those the client was last told of: all that a
\* request answered with success verified, none of an earlier request, and after
\* a failed one at most what it asked for (setInstructionBreakpoints clears the
\* old set before it finds a bad location).
BreakpointsAsAnswered ==
  launched =>
    /\ \A location \in breakpoints : PromisedAt(location)
    /\ promised.answered =>
         \A location \in Locations(module) : PromisedAt(location) => location \in breakpoints

\* Once the client has been told that a breakpoint is verified, continue executes
\* no instruction it stands for, in any function or frame, unless the program has
\* just stopped there (PrimeStruct.md:5638-5641).
VerifiedBreakpointStops ==
  [][/\ Started
     /\ request = "continue"
     /\ ~AtEnd
     /\ promised.answered
     /\ PromisedAt(Location)
     => ~moved]_allVars

ToldOfBreakpoint ==
  /\ messages # <<>>
  /\ messages[Len(messages)].name = "stopped"
  /\ messages[Len(messages)].body.reason = "breakpoint"

\* When a stop at a breakpoint is reported, the top frame of the stack trace is
\* one a breakpoint was asked for (VmDebugAdapter::stackTrace, appendStopEvents).
ShownWhereAsked ==
  ToldOfBreakpoint => PromisedAt(StackTrace[1].location)

\* Every frame of a stack trace but the top one is shown at the call that is
\* running the frame above it (PrimeStruct.md:5650-5652, 5659-5660).
TraceAtCallSites ==
  \A i \in 2 .. Depth :
    LET call == InstructionAt(module, StackTrace[i].location) IN
    call.op \in Calls /\ call.imm = StackTrace[i - 1].location[1]

\* Each scope of each frame of a stack trace can be asked for, is told apart from
\* the others, and shows as many variables as it announced, those of that very
\* frame (encodeVariablesReference, decodeVariablesReference, scopes, variables).
ScopesAnswerable ==
  /\ \A id \in 1 .. Depth : \A s \in 1 .. 2 :
       LET scope == Scopes(id)[s] IN
       /\ KnowsReference(scope.reference)
       /\ ReferencedFrame(scope.reference) = id - 1
       /\ Len(Variables(scope.reference)) = scope.count
  /\ Cardinality({Scopes(id)[s].reference : id \in 1 .. Depth, s \in 1 .. 2}) = 2 * Depth

\* The client hears of the program's exit once, with the code the program
\* returned, and afterwards no request makes the program run again.
ExitReportedOnce ==
  [][observedProgramExit =>
       /\ observedProgramExit'
       /\ programExitCode' = ExitCode'
       /\ request' = "none"
       /\ UNCHANGED machine]_allVars

\* A pause is read only while the program is stopped (one request is served at a
\* time), so a stop for a pause has executed nothing, and every other continue or
\* next that stops for a step or the program's end has executed something or run
\* off a function's end.
PauseBetweenRequests ==
  [][Respond =>
       /\ stopReason = "Pause" => ~executed
       /\ stopReason \in {"Step", "Exit"} => executed]_allVars

\* What runVmDebugDapSession returns agrees with what the client was told: after
\* an orderly end the result says whether the program exited and with what code;
\* after a broken frame it says nothing even when the client saw the exit.
ResultAsTold ==
  /\ ended = "true" => /\ dapResult.observedProgramExit = (state = "Exited")
                       /\ state = "Exited" => dapResult.programExitCode = ExitCode
                       /\ dapResult.disconnected = disconnected
  /\ ended # "true" => dapResult = NoResult
=============================================================================
