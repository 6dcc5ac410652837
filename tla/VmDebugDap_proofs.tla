-------------------------- MODULE VmDebugDap_proofs --------------------------
(***************************************************************************)
(* The DAP session for every program, source map and sequence of requests: *)
(* what the client has been told of breakpoints, stops and the program's   *)
(* exit agrees with the session below it.  Every step is one of the        *)
(* session's, setBreakpoints (a clear and its adds in one), or leaves the  *)
(* session alone.                                                          *)
(***************************************************************************)
EXTENDS VmDebugDap, VmDebugSession_proofs, FiniteSetTheorems

\* A request that runs the program is served to its end before the next one is
\* read: no pause can be requested meanwhile, and no hook is installed.
Serving ==
  /\ program \in Modules
  /\ launched \in BOOLEAN /\ disconnected \in BOOLEAN /\ observedProgramExit \in BOOLEAN
  /\ programExitCode \in -HalfLimit .. HalfLimit
  /\ request \in {"none", "continue", "next"}
  /\ ended \in {"no", "true", "false"}
  /\ launched <=> module # NoModule
  /\ request # "none" => launched /\ ended = "no" /\ messages = <<>>
  /\ command = "continue" => request = "continue" /\ ~pauseRequested
  /\ command = "step" => request = "next"
  /\ hooks = {} /\ ~inHook

\* What the request in flight has come to: nothing of it has run before its
\* first instruction, and once it has stopped, why and where it stopped.
Progress ==
  /\ command # "none" /\ phase \in {"after", "finish"} /\ outcome # "Fault" => executed
  /\ request # "none" /\ command = "none" =>
       /\ stopReason # "None"
       /\ stopReason = "Exit" <=> state = "Exited"
       /\ stopReason = "Pause" => ~executed
       /\ stopReason \in {"Step", "Exit"} => executed
       /\ stopReason = "Breakpoint" => frames # <<>> /\ Location \in breakpoints

\* The runtime has seen the exit as soon as the request that met it is answered.
ExitSeen ==
  /\ observedProgramExit => /\ state = "Exited"
                            /\ programExitCode = ExitCode
                            /\ request = "none"
  /\ state = "Exited" /\ request = "none" => observedProgramExit

\* A stop at a breakpoint is reported while the program stands where it was.
StopShown == ToldOfBreakpoint => frames # <<>> /\ PromisedAt(Location)

DapInv ==
  /\ Inv
  /\ Serving
  /\ Progress
  /\ ExitSeen
  /\ ResultAsTold
  /\ BreakpointsAsAnswered
  /\ StopShown
  /\ \A i \in DOMAIN messages : (messages[i].type = "response") <=> (i = 1)

-----------------------------------------------------------------------------
\* What a client was promised changes only with the promise and the module.
LEMMA PromisedKept ==
  ASSUME module' = module, promised' = promised
  PROVE  /\ \A location : PromisedAt(location)' <=> PromisedAt(location)
         /\ Locations(module)' = Locations(module)
BY DEF PromisedAt, StandsFor, InstructionAt, Locations

\* What a client was promised is kept by what leaves the session and the promise alone.
LEMMA PromiseKept ==
  ASSUME BreakpointsAsAnswered, module' = module, promised' = promised,
         breakpoints' = breakpoints, launched' = launched
  PROVE  BreakpointsAsAnswered'
<1>1. /\ \A location : PromisedAt(location)' <=> PromisedAt(location)
      /\ Locations(module)' = Locations(module)
  BY PromisedKept
<1>2. promised'.answered = promised.answered
  OBVIOUS
<1> QED BY <1>1, <1>2 DEF BreakpointsAsAnswered

\* A request that leaves the session alone keeps what is known of it.
LEMMA SessionKept ==
  ASSUME Inv, UNCHANGED vars
  PROVE  /\ Inv'
         /\ module' = module /\ frames' = frames /\ result' = result /\ state' = state
         /\ breakpoints' = breakpoints /\ pauseRequested' = pauseRequested
         /\ command' = command /\ phase' = phase /\ outcome' = outcome /\ inHook' = inHook
         /\ hooks' = hooks /\ stopReason' = stopReason
         /\ Location' = Location /\ ExitCode' = ExitCode
<1>1. Inv'
  BY NextInv
<1>2. /\ module' = module /\ frames' = frames /\ result' = result /\ state' = state
      /\ breakpoints' = breakpoints /\ pauseRequested' = pauseRequested
      /\ command' = command /\ phase' = phase /\ outcome' = outcome /\ inHook' = inHook
      /\ hooks' = hooks /\ stopReason' = stopReason
  BY DEF vars, machine, session, hooking, control, seen
<1>3. Location' = Location /\ ExitCode' = ExitCode
  BY <1>2 DEF Location, Frame, Depth, ExitCode, SignExtendUnbounded
<1> QED BY <1>1, <1>2, <1>3

\* Between requests no call is in flight.
LEMMA NothingRuns ==
  ASSUME Inv, Serving, request = "none"
  PROVE  command = "none" /\ phase = "idle" /\ ~inHook
BY DEF Serving, Inv, ControlType

\* An answer of one response tells of no stop.
LEMMA OneResponse ==
  ASSUME NEW r, r.type = "response", r.name # "stopped", messages' = <<r>>
  PROVE  /\ ~ToldOfBreakpoint'
         /\ \A i \in DOMAIN messages' : (messages'[i].type = "response") <=> (i = 1)
<1>1. DOMAIN messages' = {1} /\ messages'[1] = r /\ Len(messages') = 1
  BY SMT
<1> QED BY <1>1 DEF ToldOfBreakpoint

\* Before the first request nothing is promised.
LEMMA InitDapInv == DapInit => DapInv
<1> SUFFICES ASSUME DapInit PROVE DapInv
  OBVIOUS
<1>1. Inv
  BY InitInv DEF DapInit
<1>2. Serving
  <2>1. 0 \in -HalfLimit .. HalfLimit
    BY MachineAssumption, Words, SMT
  <2> QED BY <2>1 DEF DapInit, Init, Serving
<1>3. Progress /\ ExitSeen /\ ResultAsTold /\ BreakpointsAsAnswered
  BY DEF DapInit, Init, Progress, ExitSeen, ResultAsTold, BreakpointsAsAnswered
<1>4. StopShown /\ \A i \in DOMAIN messages : (messages[i].type = "response") <=> (i = 1)
  BY DEF DapInit, StopShown, ToldOfBreakpoint
<1> QED BY <1>1, <1>2, <1>3, <1>4 DEF DapInv

\* Requests that only answer, and the end of the input.
LEMMA AnswerInv ==
  ASSUME DapInv, request = "none", ended = "no", NEW r, r.type = "response", r.name # "stopped",
         messages' = <<r>>, disconnected' \in BOOLEAN,
         UNCHANGED <<vars, program, launched, observedProgramExit, programExitCode, request,
                     ended, dapResult, promised, executed>>
  PROVE  DapInv'
<1>1. /\ Inv'
      /\ module' = module /\ frames' = frames /\ result' = result /\ state' = state
      /\ breakpoints' = breakpoints /\ pauseRequested' = pauseRequested
      /\ command' = command /\ phase' = phase /\ outcome' = outcome /\ inHook' = inHook
      /\ hooks' = hooks /\ stopReason' = stopReason
      /\ Location' = Location /\ ExitCode' = ExitCode
  BY SessionKept DEF DapInv
<1>2. /\ program' = program /\ launched' = launched /\ request' = request /\ ended' = ended
      /\ observedProgramExit' = observedProgramExit /\ programExitCode' = programExitCode
      /\ dapResult' = dapResult /\ promised' = promised /\ executed' = executed
  OBVIOUS
<1>3. Serving'
  BY <1>1, <1>2 DEF DapInv, Serving
<1>4. Progress' /\ ExitSeen' /\ ResultAsTold'
  BY <1>1, <1>2 DEF DapInv, Progress, ExitSeen, ResultAsTold
<1>5. BreakpointsAsAnswered'
  BY <1>1, <1>2, PromiseKept DEF DapInv
<1>6. /\ StopShown'
      /\ \A i \in DOMAIN messages' : (messages'[i].type = "response") <=> (i = 1)
  BY OneResponse DEF StopShown
<1> QED BY <1>1, <1>3, <1>4, <1>5, <1>6 DEF DapInv

\* An answer without further effect.
LEMMA ReplyInv ==
  ASSUME DapInv, Ready, NEW r, r.type = "response", r.name # "stopped", Reply(<<r>>)
  PROVE  DapInv'
<1>1. request = "none" /\ ended = "no" /\ disconnected \in BOOLEAN
  BY DEF Ready, DapInv, Serving
<1>2. /\ messages' = <<r>> /\ disconnected' \in BOOLEAN
      /\ UNCHANGED <<vars, program, launched, observedProgramExit, programExitCode, request,
                     ended, dapResult, promised, executed>>
  BY <1>1 DEF Reply, Answer, runtime
<1> QED BY <1>1, <1>2, AnswerInv

\* The endpoint ends.
LEMMA EndInv ==
  ASSUME DapInv, EndOfInput \/ BadInput \/ UNCHANGED allVars
  PROVE  DapInv'
<1>1. /\ UNCHANGED vars /\ program' = program /\ launched' = launched /\ request' = request
      /\ disconnected' = disconnected
      /\ observedProgramExit' = observedProgramExit /\ programExitCode' = programExitCode
      /\ promised' = promised /\ executed' = executed /\ messages' = messages
  BY DEF EndOfInput, BadInput, allVars, dapVars, runtime
<1>2. /\ Inv'
      /\ module' = module /\ frames' = frames /\ result' = result /\ state' = state
      /\ breakpoints' = breakpoints /\ pauseRequested' = pauseRequested
      /\ command' = command /\ phase' = phase /\ outcome' = outcome /\ inHook' = inHook
      /\ hooks' = hooks /\ stopReason' = stopReason
      /\ Location' = Location /\ ExitCode' = ExitCode
  BY <1>1, SessionKept DEF DapInv
<1>3. Serving'
  <2>1. ended' \in {"no", "true", "false"} /\ (request # "none" => ended' = ended)
    BY DEF EndOfInput, BadInput, Ready, allVars, dapVars, DapInv, Serving
  <2> QED BY <1>1, <1>2, <2>1 DEF DapInv, Serving
<1>4. Progress' /\ ExitSeen'
  BY <1>1, <1>2 DEF DapInv, Progress, ExitSeen
<1>5. ResultAsTold'
  <2>1. CASE EndOfInput
    <3>1. /\ request = "none" /\ ended' = "true"
          /\ dapResult' = [disconnected |-> disconnected,
                           observedProgramExit |-> observedProgramExit,
                           programExitCode |-> programExitCode]
      BY <2>1 DEF EndOfInput, Result
    <3>2. observedProgramExit = (state = "Exited") /\ (state = "Exited" => programExitCode = ExitCode)
      BY <3>1 DEF DapInv, ExitSeen, Serving
    <3> QED BY <1>1, <1>2, <3>1, <3>2 DEF ResultAsTold
  <2>2. CASE BadInput
    BY <1>1, <1>2, <2>2 DEF BadInput, Ready, DapInv, ResultAsTold
  <2>3. CASE UNCHANGED allVars
    BY <1>1, <1>2, <2>3 DEF allVars, dapVars, DapInv, ResultAsTold
  <2> QED BY <2>1, <2>2, <2>3
<1>6. BreakpointsAsAnswered'
  BY <1>1, <1>2, PromiseKept DEF DapInv
<1>7. StopShown' /\ \A i \in DOMAIN messages' : (messages'[i].type = "response") <=> (i = 1)
  BY <1>1, <1>2, PromisedKept DEF DapInv, StopShown, ToldOfBreakpoint
<1> QED BY <1>2, <1>3, <1>4, <1>5, <1>6, <1>7 DEF DapInv

-----------------------------------------------------------------------------
\* The requests.
LEMMA RespondInv ==
  ASSUME DapInv, Ready, NEW name, name # "stopped", NEW success, NEW body,
         Reply(<<Response(name, success, body)>>)
  PROVE  DapInv'
<1> DEFINE r == Response(name, success, body)
<1>1. r.type = "response" /\ r.name # "stopped"
  BY DEF Response
<1>2. Reply(<<r>>)
  OBVIOUS
<1> HIDE DEF r
<1> QED BY <1>1, <1>2, ReplyInv

\* A request that fails, and one that is only acknowledged.
LEMMA FailInv ==
  ASSUME DapInv, Ready, NEW name, name # "stopped", Reply(<<Failure(name)>>)
  PROVE  DapInv'
<1>1. Reply(<<Response(name, FALSE, NoBody)>>)
  BY DEF Failure
<1> QED BY <1>1, RespondInv

\* A request that is only acknowledged.
LEMMA AcknowledgeInv ==
  ASSUME DapInv, Acknowledge \/ Refuse \/ Query
  PROVE  DapInv'
<1>1. Ready
  BY DEF Acknowledge, Refuse, Query
<1>2. ASSUME NEW name \in {"initialize", "configurationDone", "setExceptionBreakpoints"},
             Reply(<<Response(name, TRUE, NoBody)>>)
      PROVE  DapInv'
  <2>1. name # "stopped"
    OBVIOUS
  <2> QED BY <1>1, <1>2, <2>1, RespondInv
<1>3. ASSUME NEW name \in {"unknown"} \cup TakeArguments \cup (IF launched THEN {} ELSE NeedLaunch),
             Reply(<<Failure(name)>>)
      PROVE  DapInv'
  <2>1. name # "stopped"
    BY DEF TakeArguments, NeedLaunch
  <2> QED BY <1>1, <1>3, <2>1, FailInv
<1>4. CASE Reply(<<Response("threads", TRUE, NoBody)>>)
  <2>1. "threads" # "stopped"
    OBVIOUS
  <2> QED BY <1>1, <1>4, <2>1, RespondInv
<1>5. CASE Reply(<<Response("stackTrace", TRUE, [stackFrames |-> StackTrace])>>)
  <2>1. "stackTrace" # "stopped"
    OBVIOUS
  <2> QED BY <1>1, <1>5, <2>1, RespondInv
<1>6. CASE Reply(<<Failure("stackTrace")>>)
  <2>1. "stackTrace" # "stopped"
    OBVIOUS
  <2> QED BY <1>1, <1>6, <2>1, FailInv
<1>7. ASSUME NEW id \in FrameIds,
             Reply(<<IF id \in 1 .. Depth THEN Response("scopes", TRUE, [scopes |-> Scopes(id)])
                     ELSE Failure("scopes")>>)
      PROVE  DapInv'
  <2>1. "scopes" # "stopped"
    OBVIOUS
  <2>2. CASE Reply(<<Response("scopes", TRUE, [scopes |-> Scopes(id)])>>)
    BY <1>1, <2>1, <2>2, RespondInv
  <2>3. CASE Reply(<<Failure("scopes")>>)
    BY <1>1, <2>1, <2>3, FailInv
  <2> QED BY <1>7, <2>2, <2>3
<1>8. ASSUME NEW reference \in References,
             Reply(<<IF KnowsReference(reference)
                       THEN Response("variables", TRUE, [variables |-> Variables(reference)])
                       ELSE Failure("variables")>>)
      PROVE  DapInv'
  <2>1. "variables" # "stopped"
    OBVIOUS
  <2>2. CASE Reply(<<Response("variables", TRUE, [variables |-> Variables(reference)])>>)
    BY <1>1, <2>1, <2>2, RespondInv
  <2>3. CASE Reply(<<Failure("variables")>>)
    BY <1>1, <2>1, <2>3, FailInv
  <2> QED BY <1>8, <2>2, <2>3
<1> QED BY <1>2, <1>3, <1>4, <1>5, <1>6, <1>7, <1>8 DEF Acknowledge, Refuse, Query

\* launch: the program is entered and stops before its first instruction.
LEMMA LaunchInv ==
  ASSUME DapInv, Launch
  PROVE  DapInv'
<1>1. request = "none" /\ ended = "no" /\ Ready /\ command = "none" /\ phase = "idle" /\ ~inHook
  BY NothingRuns DEF Launch, Ready, DapInv
<1>2. CASE Reply(<<Failure("launch")>>)
  <2>1. Failure("launch").type = "response" /\ Failure("launch").name = "launch"
    BY DEF Failure, Response
  <2> QED BY <1>1, <1>2, <2>1, ReplyInv
<1>3. CASE /\ MayLaunch
           /\ Start(program)
           /\ launched' = TRUE
           /\ promised' = NoPromise
           /\ Answer(<<Response("launch", TRUE, NoBody), Event("initialized", NoBody),
                       Event("stopped", [reason |-> "entry"])>>)
           /\ UNCHANGED <<disconnected, observedProgramExit, programExitCode, request, executed>>
  <2>1. program \in Modules /\ ~launched /\ module = NoModule
    BY <1>3 DEF DapInv, Serving, MayLaunch
  <2>2. Inv'
    BY <1>3, <2>1, StartInv DEF DapInv
  <2>3. /\ module' # NoModule /\ state' = "Paused" /\ state = "Idle" /\ command' = "none"
        /\ hooks' = hooks /\ inHook' = inHook /\ breakpoints' = {}
    <3>1. module' # NoModule
      BY <1>3, <2>1, EnterOK DEF Start
    <3> QED BY <1>3, <2>1, <3>1 DEF Start, Reset, StateAfterStop, DapInv, Inv, StateMatchesProgram
  <2>4. program' = program /\ ended' = ended /\ dapResult' = dapResult
    BY <1>3 DEF Answer
  <2>5. ~observedProgramExit
    BY <2>3 DEF DapInv, ExitSeen
  <2>6. Serving'
    BY <1>1, <1>3, <2>3, <2>4 DEF DapInv, Serving
  <2>7. Progress' /\ ExitSeen' /\ ResultAsTold'
    BY <1>1, <1>3, <2>3, <2>4, <2>5 DEF DapInv, Progress, ExitSeen, ResultAsTold
  <2>8. BreakpointsAsAnswered'
    <3>1. promised'.lines = {} /\ promised'.locations = {}
      BY <1>3 DEF NoPromise
    <3>2. \A location : ~PromisedAt(location)'
      BY <3>1 DEF PromisedAt
    <3> QED BY <2>3, <3>2 DEF BreakpointsAsAnswered
  <2>9. /\ ~ToldOfBreakpoint'
        /\ \A i \in DOMAIN messages' : (messages'[i].type = "response") <=> (i = 1)
    <3> DEFINE a == Response("launch", TRUE, NoBody)
               b == Event("initialized", NoBody)
               c == Event("stopped", [reason |-> "entry"])
    <3>1. /\ a.type = "response" /\ b.type = "event" /\ c.type = "event"
          /\ c.body.reason = "entry"
      BY DEF Response, Event
    <3>2. messages' = <<a, b, c>>
      BY <1>3 DEF Answer
    <3> HIDE DEF a, b, c
    <3>3. DOMAIN messages' = 1 .. 3 /\ Len(messages') = 3
          /\ messages'[1] = a /\ messages'[2] = b /\ messages'[3] = c
      BY <3>2, SMT
    <3>4. 1 .. 3 = {1, 2, 3}
      BY SMT
    <3> QED BY <3>1, <3>3, <3>4 DEF ToldOfBreakpoint
  <2> QED BY <2>2, <2>6, <2>7, <2>8, <2>9 DEF DapInv, StopShown
<1> QED BY <1>2, <1>3 DEF Launch

\* A location of the program is one that clients may ask for.
LEMMA InProgramLocations ==
  ASSUME module \in Modules, NEW location \in Nat \X Nat
  PROVE  InProgram(location) <=> location \in Locations(module)
<1>1. DOMAIN module.functions = 1 .. Len(module.functions) /\ Len(module.functions) \in Nat
  BY DapAssumption, MachineAssumption
<1>2. location[1] \in Nat /\ location[2] \in Nat /\ location = <<location[1], location[2]>>
  OBVIOUS
<1>3. ASSUME InProgram(location)
      PROVE  location \in Locations(module)
  <2> DEFINE i == location[1] + 1
  <2>1. i \in DOMAIN module.functions /\ i - 1 = location[1]
    BY <1>1, <1>2, <1>3, SMT DEF InProgram
  <2>2. Len(module.functions[i]) \in Nat
    BY <1>1, <2>1, MachineAssumption DEF IsCode
  <2>3. location[2] \in 0 .. Len(module.functions[i]) - 1
    BY <1>2, <1>3, <2>2, SMT DEF InProgram, Code
  <2>4. location \in {i - 1} \X (0 .. Len(module.functions[i]) - 1)
    BY <1>2, <2>1, <2>3
  <2> QED BY <2>1, <2>4 DEF Locations
<1>4. ASSUME location \in Locations(module)
      PROVE  InProgram(location)
  <2>1. PICK i \in DOMAIN module.functions :
          location \in {i - 1} \X (0 .. Len(module.functions[i]) - 1)
    BY <1>4 DEF Locations
  <2>2. location[1] = i - 1 /\ location[2] \in 0 .. Len(module.functions[i]) - 1
    BY <2>1
  <2>3. i \in 1 .. Len(module.functions)
    BY <1>1
  <2>4. Len(module.functions[i]) \in Nat
    BY <2>3, MachineAssumption DEF IsCode
  <2>5. i - 1 < Len(module.functions) /\ (i - 1) + 1 = i
    BY <1>1, <2>3, SMT
  <2>6. location[2] < Len(module.functions[i])
    BY <2>2, <2>4, SMT
  <2> QED BY <2>2, <2>5, <2>6 DEF InProgram, Code
<1> QED BY <1>3, <1>4

\* Locations are pairs of natural numbers.
LEMMA LocationsType ==
  ASSUME module \in Modules
  PROVE  Locations(module) \subseteq Nat \X Nat
BY DapAssumption, ClientAssumption

\* setBreakpoints and setInstructionBreakpoints, whatever they resolve to.
LEMMA SetBreakpointsInv ==
  ASSUME DapInv, Ready, launched,
         NEW locations \in SUBSET Locations(module), SetBreakpoints(locations),
         NEW r, r.type = "response", r.name # "stopped", Answer(<<r>>),
         \A location \in locations : PromisedAt(location)',
         promised'.answered =>
           \A location \in Locations(module) : PromisedAt(location)' => location \in locations
  PROVE  DapInv'
<1>1. request = "none" /\ ended = "no" /\ command = "none" /\ ~inHook
  BY NothingRuns DEF Ready, DapInv
<1>2. /\ module' = module /\ frames' = frames /\ result' = result /\ state' = state
      /\ command' = command /\ phase' = phase /\ outcome' = outcome /\ inHook' = inHook
      /\ hooks' = hooks /\ stopReason' = stopReason /\ pauseRequested' = pauseRequested
      /\ UNCHANGED <<machine, state, control, seen>> /\ UNCHANGED hooking
      /\ breakpoints' = locations /\ lastStopWasBreakpoint' = FALSE
  BY DEF SetBreakpoints, ReplaceBreakpoints, machine, hooking, control, seen
<1>3. /\ program' = program /\ launched' = launched /\ request' = request /\ ended' = ended
      /\ disconnected' = disconnected /\ messages' = <<r>>
      /\ observedProgramExit' = observedProgramExit /\ programExitCode' = programExitCode
      /\ dapResult' = dapResult /\ executed' = executed
  BY DEF SetBreakpoints, Answer, runtime
<1>4. module \in Modules
  BY DEF DapInv, Inv, MachineOK, Serving
<1>5. Inv'
  <2>1. locations \subseteq BreakpointRequests /\ locations \subseteq Nat \X Nat
    BY <1>4, DapAssumption, LocationsType
  <2>2. \A location \in breakpoints' : InProgram(location)'
    <3>1. \A location \in locations : InProgram(location)
      BY <1>4, <2>1, InProgramLocations
    <3> QED BY <1>2, <3>1 DEF InProgram, Code
  <2>3. HookType' /\ pauseRequested' \in BOOLEAN
    BY <1>2, HooksKept DEF DapInv, Inv, ControlType
  <2> QED BY <1>2, <2>1, <2>2, <2>3, ClientCallInv DEF DapInv
<1>6. Location' = Location /\ ExitCode' = ExitCode
  BY <1>2 DEF Location, Frame, Depth, ExitCode, SignExtendUnbounded
<1>7. Serving'
  BY <1>1, <1>2, <1>3 DEF DapInv, Serving
<1>8. Progress' /\ ExitSeen' /\ ResultAsTold'
  BY <1>1, <1>2, <1>3, <1>6 DEF DapInv, Progress, ExitSeen, ResultAsTold
<1>9. BreakpointsAsAnswered'
  <2>1. Locations(module)' = Locations(module)
    BY <1>2 DEF Locations
  <2> QED BY <1>2, <2>1 DEF BreakpointsAsAnswered
<1>10. /\ StopShown'
       /\ \A i \in DOMAIN messages' : (messages'[i].type = "response") <=> (i = 1)
  BY <1>3, OneResponse DEF StopShown
<1> QED BY <1>5, <1>7, <1>8, <1>9, <1>10 DEF DapInv

\* A line found stands for exactly the instructions its source location names.
LEMMA ResolvedStandsFor ==
  ASSUME NEW asked, NEW location \in Locations(module)
  PROVE  /\ location \in ResolveSourceBreakpoints(module, asked) => StandsFor(asked, location)
         /\ ResolveSourceBreakpoints(module, asked) # {} /\ StandsFor(asked, location)
              => location \in ResolveSourceBreakpoints(module, asked)
<1> DEFINE entries == MatchingEntries(module, asked)
           columns == {e.column : e \in entries}
           selected == IF asked.column # 0 THEN columns \cap {asked.column}
                       ELSE IF Cardinality(columns) = 1 THEN columns ELSE {}
           ids == {e.debugId : e \in {x \in entries : x.column \in selected}}
<1>1. ResolveSourceBreakpoints(module, asked)
        = {l \in Locations(module) : InstructionAt(module, l).debugId \in ids}
  BY DEF ResolveSourceBreakpoints
<1>2. ASSUME location \in ResolveSourceBreakpoints(module, asked)
      PROVE  StandsFor(asked, location)
  <2>1. PICK e \in entries : e.column \in selected
                          /\ e.debugId = InstructionAt(module, location).debugId
    <3> HIDE DEF entries, selected
    <3>1. InstructionAt(module, location).debugId \in ids
      BY <1>1, <1>2
    <3> QED BY <3>1
  <2>2. asked.column \in {0, e.column}
    BY <2>1
  <2> QED BY <2>1, <2>2 DEF MatchingEntries, StandsFor
<1>3. ASSUME ResolveSourceBreakpoints(module, asked) # {}, StandsFor(asked, location)
      PROVE  location \in ResolveSourceBreakpoints(module, asked)
  <2>1. PICK e \in entries : /\ e.debugId = InstructionAt(module, location).debugId
                             /\ asked.column \in {0, e.column}
    <3>1. PICK e \in ToSet(module.sourceMap) :
            /\ e.debugId = InstructionAt(module, location).debugId
            /\ e.canonical
            /\ e.line = asked.line % HalfLimit
            /\ e.column # 0
            /\ asked.column \in {0, e.column}
            /\ asked.unit \in {"", e.unit}
      BY <1>3 DEF StandsFor
    <3>2. ids # {}
      BY <1>1, <1>3
    <3>3. \E x \in entries : TRUE
      BY <3>2
    <3>4. asked.line % HalfLimit # 0
      BY <3>3 DEF MatchingEntries
    <3>5. e \in entries
      BY <3>1, <3>4 DEF MatchingEntries
    <3> QED BY <3>1, <3>5
  <2>2. e.column \in columns
    OBVIOUS
  <2>3. selected # {}
    BY <1>1, <1>3
  <2>4. CASE asked.column # 0
    BY <1>1, <2>1, <2>2, <2>4
  <2>5. CASE asked.column = 0
    <3>1. selected = columns
      BY <2>3, <2>5
    <3> QED BY <1>1, <2>1, <2>2, <3>1
  <2> QED BY <2>4, <2>5
<1> QED BY <1>2, <1>3

\* setBreakpoints: the answer names the locations that were set.
LEMMA SetSourceBreakpointsInv ==
  ASSUME DapInv, SetSourceBreakpoints
  PROVE  DapInv'
<1>1. PICK asked \in SourceRequests :
       LET resolved == [i \in DOMAIN asked |-> ResolveSourceBreakpoints(module, asked[i])] IN
       /\ SetBreakpoints(UNION {resolved[i] : i \in DOMAIN asked})
       /\ Answer(<<Response("setBreakpoints", TRUE,
                            [breakpoints |-> [i \in DOMAIN asked |-> resolved[i] # {}]])>>)
       /\ promised' = [lines |-> {asked[i] : i \in {j \in DOMAIN asked : resolved[j] # {}}},
                       locations |-> {}, answered |-> TRUE]
  BY DEF SetSourceBreakpoints
<1> DEFINE resolved == [i \in DOMAIN asked |-> ResolveSourceBreakpoints(module, asked[i])]
           locations == UNION {resolved[i] : i \in DOMAIN asked}
           r == Response("setBreakpoints", TRUE,
                         [breakpoints |-> [i \in DOMAIN asked |-> resolved[i] # {}]])
<1>2. SetBreakpoints(locations) /\ Answer(<<r>>) /\ Ready /\ launched
  BY <1>1 DEF SetSourceBreakpoints
<1>3. r.type = "response" /\ r.name # "stopped"
  BY DEF Response
<1>4. \A i \in DOMAIN asked : resolved[i] \subseteq Locations(module)
  BY DEF ResolveSourceBreakpoints
<1>5. locations \in SUBSET Locations(module)
  BY <1>4
<1>6. \A location : PromisedAt(location)'
         <=> \E i \in DOMAIN asked : resolved[i] # {} /\ StandsFor(asked[i], location)
  <2>1. /\ promised'.lines = {asked[i] : i \in {j \in DOMAIN asked : resolved[j] # {}}}
        /\ promised'.locations = {}
    BY <1>1
  <2>2. module' = module
    BY <1>2 DEF SetBreakpoints, machine
  <2>3. \A one, location : StandsFor(one, location)' <=> StandsFor(one, location)
    BY <2>2 DEF StandsFor, InstructionAt
  <2> HIDE DEF resolved
  <2>4. ASSUME NEW location
        PROVE  PromisedAt(location)'
                 <=> \E one \in promised'.lines : StandsFor(one, location)
    BY <2>1, <2>3 DEF PromisedAt
  <2> QED BY <2>1, <2>4
<1>7. \A i \in DOMAIN asked : \A location \in Locations(module) :
         /\ location \in resolved[i] => StandsFor(asked[i], location)
         /\ resolved[i] # {} /\ StandsFor(asked[i], location) => location \in resolved[i]
  BY ResolvedStandsFor
<1> HIDE DEF resolved, r
<1>8. \A location \in locations : PromisedAt(location)'
  <2> TAKE location \in locations
  <2>1. PICK i \in DOMAIN asked : location \in resolved[i]
    OBVIOUS
  <2>2. location \in Locations(module)
    BY <1>4, <2>1
  <2> QED BY <1>6, <1>7, <2>1, <2>2
<1>9. \A location \in Locations(module) : PromisedAt(location)' => location \in locations
  BY <1>6, <1>7
<1> HIDE DEF locations
<1> QED BY <1>2, <1>3, <1>5, <1>8, <1>9, SetBreakpointsInv

\* setInstructionBreakpoints: a prefix of the list is set, and told.
LEMMA SetInstructionBreakpointsInv ==
  ASSUME DapInv, SetInstructionBreakpoints
  PROVE  DapInv'
<1>1. PICK asked \in InstructionRequests :
       LET good == {i \in DOMAIN asked : \A j \in 1 .. i : InProgram(asked[j])}
           success == good = DOMAIN asked
       IN
       /\ SetBreakpoints({asked[i] : i \in good})
       /\ Answer(<<Response("setInstructionBreakpoints", success, NoBody)>>)
       /\ promised' = [lines |-> {}, locations |-> ToSet(asked), answered |-> success]
  BY DEF SetInstructionBreakpoints
<1> DEFINE good == {i \in DOMAIN asked : \A j \in 1 .. i : InProgram(asked[j])}
           success == good = DOMAIN asked
           locations == {asked[i] : i \in good}
           r == Response("setInstructionBreakpoints", success, NoBody)
<1>2. SetBreakpoints(locations) /\ Answer(<<r>>) /\ Ready /\ launched
  BY <1>1 DEF SetInstructionBreakpoints
<1>3. r.type = "response" /\ r.name # "stopped"
  BY DEF Response
<1>4. asked \in Seq(Nat \X Nat) /\ module \in Modules
  BY <1>2, DapAssumption DEF DapInv, Inv, MachineOK, Serving
<1>5. locations \in SUBSET Locations(module)
  <2> SUFFICES ASSUME NEW i \in good PROVE asked[i] \in Locations(module)
    OBVIOUS
  <2>1. i \in DOMAIN asked /\ i \in 1 .. i /\ asked[i] \in Nat \X Nat
    BY <1>4, SMT
  <2>2. InProgram(asked[i])
    BY <2>1
  <2> QED BY <1>4, <2>1, <2>2, InProgramLocations
<1>6. /\ promised'.lines = {} /\ promised'.locations = ToSet(asked)
      /\ promised'.answered = success
  BY <1>1
<1>7. \A location : PromisedAt(location)' <=> location \in ToSet(asked)
  BY <1>6 DEF PromisedAt
<1>8. \A location \in locations : PromisedAt(location)'
  BY <1>7 DEF ToSet
<1>9. promised'.answered => \A location \in Locations(module) :
                              PromisedAt(location)' => location \in locations
  BY <1>6, <1>7 DEF ToSet
<1> HIDE DEF locations, success, r
<1> QED BY <1>2, <1>3, <1>5, <1>8, <1>9, SetBreakpointsInv

\* pause.
LEMMA PauseRequestInv ==
  ASSUME DapInv, PauseRequest
  PROVE  DapInv'
<1>1. Ready /\ request = "none" /\ ended = "no" /\ command = "none" /\ ~inHook
  BY NothingRuns DEF PauseRequest, Ready, DapInv
<1>2. CASE Reply(<<Failure("pause")>>)
  <2>1. "pause" # "stopped"
    OBVIOUS
  <2> QED BY <1>1, <1>2, <2>1, FailInv
<1>3. CASE /\ Pause
           /\ Answer(<<Response("pause", TRUE, NoBody)>>)
           /\ UNCHANGED <<runtime, request, promised, executed>>
  <2> DEFINE r == Response("pause", TRUE, NoBody)
  <2>1. Inv'
    BY <1>3, ClientInv DEF Client, DapInv
  <2>2. /\ module' = module /\ frames' = frames /\ result' = result /\ state' = state
        /\ breakpoints' = breakpoints /\ command' = command /\ phase' = phase
        /\ outcome' = outcome /\ inHook' = inHook /\ hooks' = hooks /\ stopReason' = stopReason
    BY <1>3 DEF Pause, machine, hooking, control, seen
  <2>3. Location' = Location /\ ExitCode' = ExitCode
    BY <2>2 DEF Location, Frame, Depth, ExitCode, SignExtendUnbounded
  <2>4. /\ program' = program /\ launched' = launched /\ request' = request /\ ended' = ended
        /\ disconnected' = disconnected /\ messages' = <<r>>
        /\ observedProgramExit' = observedProgramExit /\ programExitCode' = programExitCode
        /\ dapResult' = dapResult /\ promised' = promised /\ executed' = executed
    BY <1>3 DEF Answer, runtime
  <2>5. r.type = "response" /\ r.name # "stopped"
    BY DEF Response
  <2> HIDE DEF r
  <2>6. Serving'
    BY <1>1, <2>2, <2>4 DEF DapInv, Serving
  <2>7. Progress' /\ ExitSeen' /\ ResultAsTold'
    BY <1>1, <2>2, <2>3, <2>4 DEF DapInv, Progress, ExitSeen, ResultAsTold
  <2>8. BreakpointsAsAnswered'
    BY <2>2, <2>4, PromiseKept DEF DapInv
  <2>9. /\ StopShown'
        /\ \A i \in DOMAIN messages' : (messages'[i].type = "response") <=> (i = 1)
    BY <2>4, <2>5, OneResponse DEF StopShown
  <2> QED BY <2>1, <2>6, <2>7, <2>8, <2>9 DEF DapInv
<1> QED BY <1>2, <1>3 DEF PauseRequest

\* continue and next begin a call of the session.
LEMMA ContinueRequestInv ==
  ASSUME DapInv, ContinueRequest
  PROVE  DapInv'
<1>1. Ready /\ launched /\ request = "none" /\ ended = "no" /\ command = "none" /\ ~inHook
  BY NothingRuns DEF ContinueRequest, Ready, DapInv
<1>2. ASSUME NEW name \in {"continue", "next"}, Reply(<<Failure(name)>>)
      PROVE  DapInv'
  <2>1. name # "stopped"
    OBVIOUS
  <2> QED BY <1>1, <1>2, <2>1, FailInv
<1>3. CASE /\ \/ Continue /\ request' = "continue"
              \/ Step /\ request' = "next"
           /\ executed' = FALSE
           /\ Answer(<<>>)
           /\ UNCHANGED <<runtime, promised>>
  <2>1. Inv'
    BY <1>3, ContinueInv, StepInv DEF DapInv
  <2>2. /\ module' = module /\ breakpoints' = breakpoints /\ hooks' = hooks
        /\ state = "Paused" /\ outcome' = "None" /\ inHook' = FALSE
    BY <1>1, <1>3 DEF Continue, Step, Stop, machine, hooking
  <2>3. /\ program' = program /\ launched' = launched /\ ended' = ended
        /\ disconnected' = disconnected /\ messages' = <<>> /\ executed' = FALSE
        /\ observedProgramExit' = observedProgramExit /\ programExitCode' = programExitCode
        /\ dapResult' = dapResult /\ promised' = promised /\ request' \in {"continue", "next"}
    BY <1>3 DEF Answer, runtime
  <2>4. ~observedProgramExit
    BY <2>2 DEF DapInv, ExitSeen
  <2>5. Serving'
    <3>1. /\ command' = "continue" => request' = "continue" /\ ~pauseRequested'
          /\ command' = "step" => request' = "next"
      BY <1>3, <2>1 DEF Continue, Step, PauseFirst, Stop
    <3> QED BY <1>1, <2>2, <2>3, <3>1 DEF DapInv, Serving
  <2>6. Progress'
    <3>1. \/ /\ command' = "none" /\ stopReason' = "Pause" /\ state' = "Paused"
          \/ /\ command' # "none" /\ phase' = "loop"
      BY <1>3 DEF Continue, Step, Stop, StateAfterStop
    <3> QED BY <2>3, <3>1 DEF Progress
  <2>7. ExitSeen' /\ ResultAsTold'
    BY <1>1, <2>3, <2>4 DEF DapInv, ExitSeen, ResultAsTold
  <2>8. BreakpointsAsAnswered'
    BY <2>2, <2>3, PromiseKept DEF DapInv
  <2>9. /\ StopShown'
        /\ \A i \in DOMAIN messages' : (messages'[i].type = "response") <=> (i = 1)
    BY <2>3 DEF StopShown, ToldOfBreakpoint
  <2> QED BY <2>1, <2>5, <2>6, <2>7, <2>8, <2>9 DEF DapInv
<1> QED BY <1>2, <1>3 DEF ContinueRequest

\* While the program runs no hook is called, and nothing touches what was set
\* between requests.
LEMMA RunQuiet ==
  ASSUME DapInv, Run
  PROVE  /\ Inv'
         /\ module' = module /\ breakpoints' = breakpoints /\ hooks' = {} /\ ~inHook'
         /\ command # "none" /\ command' \in {command, "none"}
         /\ pauseRequested' => pauseRequested
<1>1. Inv'
  BY NextInv DEF Next, DapInv
<1>2. hooks = {}
  BY DEF DapInv, Serving
<1>3. \A kind, depth, pushed : Emit(kind, depth, pushed) => hooks' = {} /\ ~inHook'
  BY <1>2 DEF Emit
<1>4. phase # "idle" /\ command # "none"
  BY DEF Run, StopAtBreakpoint, BeginInstruction, ExecuteInstruction, EndInstruction,
     StopAfterInstruction, NextInstruction, DapInv, Inv, ControlType
<1>5. CASE StopAtBreakpoint
  BY <1>1, <1>2, <1>4, <1>5 DEF StopAtBreakpoint, Stop, machine, hooking
<1>6. CASE StopAfterInstruction
  <2>1. module' = module /\ breakpoints' = breakpoints /\ hooks' = hooks
    BY <1>6 DEF StopAfterInstruction, machine, hooking
  <2>2. /\ command' = "none" /\ inHook' = FALSE
        /\ pauseRequested' = pauseRequested \/ pauseRequested' = FALSE
    BY <1>6 DEF StopAfterInstruction, Stop
  <2> QED BY <1>1, <1>2, <1>4, <2>1, <2>2
<1>7. CASE NextInstruction
  BY <1>1, <1>2, <1>4, <1>7 DEF NextInstruction, machine, session, hooking
<1>8. CASE BeginInstruction
  <2>1. hooks' = {} /\ ~inHook'
    <3>1. CASE inHook' = FALSE /\ UNCHANGED hooking
      BY <1>2, <3>1 DEF hooking
    <3>2. CASE Emit("before", Depth, FALSE)
      BY <1>3, <3>2
    <3> QED BY <1>8, <3>1, <3>2 DEF BeginInstruction
  <2> QED BY <1>1, <1>4, <1>8, <2>1 DEF BeginInstruction, machine, session
<1>9. CASE EndInstruction
  <2>1. hooks' = {} /\ ~inHook'
    BY <1>3, <1>9 DEF EndInstruction
  <2> QED BY <1>1, <1>4, <1>9, <2>1 DEF EndInstruction, machine, session
<1>10. CASE ExecuteInstruction
  <2>1. PICK o \in {"Continue", "Exit", "Fault"} :
          /\ Execute(o)
          /\ Emit(EffectHook(o), Len(frames'),
                  IF EffectHook(o) = "callPush" THEN Inst.op = "Call"
                  ELSE EffectHook(o) = "callPop" /\ Frame.returnValueToCaller)
    BY <1>10 DEF ExecuteInstruction
  <2>2. module' = module
    BY <2>1 DEF Execute, Fault, Exit, Proceed
  <2> QED BY <1>1, <1>3, <1>4, <1>10, <2>1, <2>2 DEF ExecuteInstruction, session
<1> QED BY <1>5, <1>6, <1>7, <1>8, <1>9, <1>10 DEF Run

\* A step of the call in flight.
LEMMA RunProgramInv ==
  ASSUME DapInv, RunProgram
  PROVE  DapInv'
<1>1. /\ Inv'
      /\ module' = module /\ breakpoints' = breakpoints /\ hooks' = {} /\ ~inHook'
      /\ command # "none" /\ command' \in {command, "none"}
      /\ pauseRequested' => pauseRequested
  BY RunQuiet DEF RunProgram
<1>2. /\ program' = program /\ launched' = launched /\ ended' = ended /\ request' = request
      /\ disconnected' = disconnected /\ messages' = messages
      /\ observedProgramExit' = observedProgramExit /\ programExitCode' = programExitCode
      /\ dapResult' = dapResult /\ promised' = promised
      /\ executed' = (executed \/ phase = "execute")
      /\ Run /\ request # "none"
  BY DEF RunProgram, runtime
<1>3. launched /\ ended = "no" /\ messages = <<>> /\ ~observedProgramExit
  BY <1>2 DEF DapInv, Serving, ExitSeen
<1>4. Serving'
  BY <1>1, <1>2 DEF DapInv, Serving
<1>5. Progress'
  <2>1. CASE StopAtBreakpoint
    <3>1. frames # <<>>
      BY <2>1, InFlight DEF StopAtBreakpoint, DapInv
    <3>2. /\ frames' = frames /\ Location' = Location /\ Location \in breakpoints
          /\ command' = "none" /\ stopReason' = "Breakpoint" /\ state' = "Paused"
      BY <2>1 DEF StopAtBreakpoint, AtBreakpoint, Stop, StateAfterStop, machine, Location,
         Frame, Depth
    <3> QED BY <1>1, <3>1, <3>2 DEF Progress
  <2>2. CASE BeginInstruction
    BY <1>1, <2>2 DEF BeginInstruction, Progress
  <2>3. CASE ExecuteInstruction
    BY <1>1, <1>2, <2>3 DEF ExecuteInstruction, Progress
  <2>4. CASE EndInstruction
    BY <1>1, <1>2, <2>4 DEF EndInstruction, DapInv, Progress
  <2>5. CASE StopAfterInstruction
    <3>1. command = "continue" => ~pauseRequested
      BY DEF DapInv, Serving
    <3>2. /\ phase = "finish" /\ command' = "none"
          /\ \/ stopReason' = "Fault" /\ state' = "Faulted"
             \/ outcome # "Fault" /\ stopReason' = "Exit" /\ state' = "Exited"
             \/ outcome # "Fault" /\ stopReason' = "Step" /\ state' = "Paused"
      BY <2>5, <3>1 DEF StopAfterInstruction, Stop, StateAfterStop
    <3>3. outcome # "Fault" => executed'
      BY <1>1, <1>2, <3>2 DEF DapInv, Progress
    <3> QED BY <3>2, <3>3 DEF Progress
  <2>6. CASE NextInstruction
    BY <1>1, <2>6 DEF NextInstruction, Progress
  <2> QED BY <1>2, <2>1, <2>2, <2>3, <2>4, <2>5, <2>6 DEF Run
<1>6. ExitSeen' /\ ResultAsTold'
  BY <1>2, <1>3 DEF DapInv, ExitSeen, ResultAsTold
<1>7. BreakpointsAsAnswered'
  BY <1>1, <1>2, PromiseKept DEF DapInv
<1>8. StopShown' /\ \A i \in DOMAIN messages' : (messages'[i].type = "response") <=> (i = 1)
  BY <1>2, <1>3 DEF StopShown, ToldOfBreakpoint
<1> QED BY <1>1, <1>4, <1>5, <1>6, <1>7, <1>8 DEF DapInv

\* The exit code is the result's low half, as a signed number.
LEMMA ExitCodeType ==
  ASSUME result \in Word
  PROVE  ExitCode \in -HalfLimit .. HalfLimit
<1>1. HalfLimit \in Nat \ {0} /\ result \in Nat
  BY MachineAssumption, Words, SMT
<1>2. result % HalfLimit \in 0 .. (HalfLimit - 1)
  BY <1>1, SMT
<1> QED BY <1>1, <1>2, SMT DEF ExitCode, SignExtendUnbounded

\* The call returns: the stop is shown, or the exit is told once.
LEMMA RespondToStopInv ==
  ASSUME DapInv, Respond
  PROVE  DapInv'
<1>1. /\ Inv'
      /\ module' = module /\ frames' = frames /\ result' = result /\ state' = state
      /\ breakpoints' = breakpoints /\ pauseRequested' = pauseRequested
      /\ command' = command /\ phase' = phase /\ outcome' = outcome /\ inHook' = inHook
      /\ hooks' = hooks /\ stopReason' = stopReason
      /\ Location' = Location /\ ExitCode' = ExitCode
  BY SessionKept DEF DapInv, Respond
<1>2. /\ program' = program /\ launched' = launched /\ request' = "none" /\ ended' = ended
      /\ disconnected' = disconnected
      /\ observedProgramExit' = (observedProgramExit \/ stopReason = "Exit")
      /\ programExitCode' = IF stopReason = "Exit" THEN ExitCode ELSE programExitCode
      /\ dapResult' = dapResult /\ promised' = promised /\ executed' = executed
      /\ request # "none" /\ command = "none"
  BY DEF Respond, Answer
<1>3. /\ launched /\ ended = "no" /\ ~observedProgramExit
      /\ stopReason \in {"Breakpoint", "Step", "Pause", "Fault", "Exit"}
      /\ stopReason = "Exit" <=> state = "Exited"
      /\ stopReason = "Breakpoint" => frames # <<>> /\ Location \in breakpoints
  BY <1>2 DEF DapInv, Serving, ExitSeen, Progress, Inv, ControlType
<1>4. Serving'
  <2>1. ExitCode \in -HalfLimit .. HalfLimit
    BY ExitCodeType DEF DapInv, Inv, MachineOK
  <2> QED BY <1>1, <1>2, <1>3, <2>1 DEF DapInv, Serving
<1>5. Progress' /\ ExitSeen' /\ ResultAsTold'
  BY <1>1, <1>2, <1>3 DEF DapInv, Progress, ExitSeen, ResultAsTold
<1>6. BreakpointsAsAnswered'
  BY <1>1, <1>2, PromiseKept DEF DapInv
<1> DEFINE r == Response(request, TRUE, NoBody)
<1>7. r.type = "response"
  BY DEF Response
<1>8. messages' = <<r>> \o StopEvents(stopReason)
  BY DEF Respond, Answer
<1>9. CASE stopReason = "Exit"
  <2> DEFINE a == Event("exited", [exitCode |-> ExitCode])
             b == Event("terminated", NoBody)
  <2>1. a.type = "event" /\ b.type = "event" /\ b.name = "terminated"
    BY DEF Event
  <2>2. messages' = <<r>> \o <<a, b>>
    BY <1>8, <1>9 DEF StopEvents
  <2> HIDE DEF a, b, r
  <2>3. /\ DOMAIN messages' = {1, 2, 3} /\ Len(messages') = 3
        /\ messages'[1] = r /\ messages'[2] = a /\ messages'[3] = b
    BY <2>2, SMT
  <2>4. ~ToldOfBreakpoint'
    BY <2>1, <2>3 DEF ToldOfBreakpoint
  <2>5. \A i \in DOMAIN messages' : (messages'[i].type = "response") <=> (i = 1)
    BY <1>7, <2>1, <2>3
  <2> QED BY <1>1, <1>4, <1>5, <1>6, <2>4, <2>5 DEF DapInv, StopShown
<1>10. CASE stopReason # "Exit"
  <2> DEFINE a == Event("stopped", [reason |-> DapReason[stopReason]])
  <2>1. a.type = "event" /\ a.name = "stopped" /\ a.body.reason = DapReason[stopReason]
    BY DEF Event
  <2>2. messages' = <<r>> \o <<a>>
    BY <1>8, <1>10 DEF StopEvents
  <2>3. DapReason[stopReason] = "breakpoint" => stopReason = "Breakpoint"
    BY <1>3, <1>10 DEF DapReason
  <2> HIDE DEF a, r
  <2>4. /\ DOMAIN messages' = {1, 2} /\ Len(messages') = 2
        /\ messages'[1] = r /\ messages'[2] = a
    BY <2>2, SMT
  <2>5. \A i \in DOMAIN messages' : (messages'[i].type = "response") <=> (i = 1)
    BY <1>7, <2>1, <2>4
  <2>6. StopShown'
    <3>1. SUFFICES ASSUME ToldOfBreakpoint' PROVE frames' # <<>> /\ PromisedAt(Location)'
      BY DEF StopShown
    <3>2. stopReason = "Breakpoint"
      BY <2>1, <2>3, <2>4, <3>1 DEF ToldOfBreakpoint
    <3>3. frames # <<>> /\ PromisedAt(Location)
      BY <1>3, <3>2 DEF DapInv, BreakpointsAsAnswered
    <3>4. PromisedAt(Location)'
      BY <1>1, <1>2, <3>3 DEF PromisedAt, StandsFor, InstructionAt
    <3> QED BY <1>1, <3>3, <3>4
  <2> QED BY <1>1, <1>4, <1>5, <1>6, <2>5, <2>6 DEF DapInv
<1> QED BY <1>9, <1>10

\* disconnect.
LEMMA DisconnectInv ==
  ASSUME DapInv, Disconnect
  PROVE  DapInv'
<1> DEFINE r == Response("disconnect", TRUE, NoBody)
<1>1. r.type = "response" /\ r.name # "stopped"
  BY DEF Response
<1>2. request = "none" /\ ended = "no" /\ messages' = <<r>> /\ disconnected' \in BOOLEAN
  BY DEF Disconnect, Ready, Answer
<1>3. UNCHANGED <<vars, program, launched, observedProgramExit, programExitCode, request,
                  ended, dapResult, promised, executed>>
  BY DEF Disconnect, Answer
<1> HIDE DEF r
<1> QED BY <1>1, <1>2, <1>3, AnswerInv

\* Every step of the endpoint keeps the invariant.
LEMMA DapNextInv ==
  ASSUME DapInv, [DapNext]_allVars
  PROVE  DapInv'
BY AcknowledgeInv, LaunchInv, SetSourceBreakpointsInv, SetInstructionBreakpointsInv,
   PauseRequestInv, ContinueRequestInv, DisconnectInv, RunProgramInv, RespondToStopInv, EndInv
   DEF DapNext, Serve

\* DapInv holds whatever the client asks.
LEMMA DapInvariant == DapSpec => []DapInv
<1>1. DapInv /\ [DapNext]_allVars => DapInv'
  BY DapNextInv
<1> QED BY InitDapInv, <1>1, PTL DEF DapSpec

-----------------------------------------------------------------------------
\* The runtime's fields and its answers hold what their types allow, and the
\* program runs only while a continue or next is served.
THEOREM DapTypeCorrect == DapSpec => []DapTypeOK
<1>1. DapInv => DapTypeOK
  BY InvType DEF DapInv, Serving, Inv, ControlType, DapTypeOK
<1> QED BY DapInvariant, <1>1, PTL

\* Whatever the client asks for and however a request fails, the session's
\* breakpoints are those the client was last told of.
THEOREM BreakpointsTold == DapSpec => []BreakpointsAsAnswered
<1>1. DapInv => BreakpointsAsAnswered
  BY DEF DapInv
<1> QED BY DapInvariant, <1>1, PTL

\* What runVmDebugDapSession returns agrees with what the client was told.
THEOREM ResultsTold == DapSpec => []ResultAsTold
<1>1. DapInv => ResultAsTold
  BY DEF DapInv
<1> QED BY DapInvariant, <1>1, PTL

\* The top of the stack trace stands where the program does.
LEMMA TopOfTrace ==
  ASSUME Inv, frames # <<>>
  PROVE  StackTrace[1].location = Location
<1>1. Depth \in Nat \ {0} /\ Frame = frames[Depth]
  BY RunningType DEF Inv, Frame
<1>2. FrameAt(1 - 1) = Frame /\ MappedIp(1 - 1, Frame) = Frame.ip /\ 1 \in 1 .. Depth
  BY <1>1, SMT DEF FrameAt, MappedIp
<1> QED BY <1>2 DEF StackTrace, Location

\* A stop reported for a breakpoint is shown where one was asked for.
THEOREM StopsShown == DapSpec => []ShownWhereAsked
<1>1. DapInv => ShownWhereAsked
  BY TopOfTrace DEF DapInv, StopShown, ShownWhereAsked
<1> QED BY DapInvariant, <1>1, PTL

\* Every frame of a stack trace but the top one is shown at the call that is
\* running the frame above it.
THEOREM TracesAtCalls == DapSpec => []TraceAtCallSites
<1>1. ASSUME DapInv
      PROVE  TraceAtCallSites
  <2>1. SUFFICES ASSUME NEW i \in 2 .. Depth
                 PROVE  LET call == InstructionAt(module, StackTrace[i].location) IN
                        call.op \in Calls /\ call.imm = StackTrace[i - 1].location[1]
    BY DEF TraceAtCallSites
  <2>2. Len(frames) \in Nat /\ Depth = Len(frames) /\ frames \in Seq(FrameType) /\ Inv
    BY <1>1 DEF DapInv, Inv, MachineOK, Depth
  <2> DEFINE k == Depth - (i - 1)
             call == Code(frames[k].functionIndex)[frames[k].ip]
  <2>3. /\ k \in 1 .. (Len(frames) - 1) /\ Depth - ((i - 1) - 1) = k + 1
        /\ i \in 1 .. Depth /\ i - 1 \in 1 .. Depth /\ i - 1 > 0
        /\ k \in DOMAIN frames /\ k + 1 \in DOMAIN frames
    BY <2>2, SMT
  <2>4. /\ frames[k].ip \in 1 .. Len(Code(frames[k].functionIndex))
        /\ call.op \in Calls
        /\ call.imm = frames[k + 1].functionIndex
    BY <2>2, <2>3 DEF Inv, CallersAtCallSites
  <2>5. FrameAt(i - 1) = frames[k] /\ FrameAt((i - 1) - 1) = frames[k + 1]
    BY <2>3 DEF FrameAt
  <2>6. frames[k] \in FrameType /\ frames[k].ip \in Nat
    <3>1. frames[k] \in FrameType
      BY <2>2, <2>3
    <3> QED BY <3>1 DEF FrameType
  <2>7. IsCode(Code(frames[k].functionIndex))
    <3>1. frames # <<>> /\ frames[k].functionIndex < Len(module.functions)
      BY <2>2, <2>3, SMT DEF Inv, MachineOK
    <3>2. /\ Len(module.functions) \in Nat
          /\ \A f \in 1 .. Len(module.functions) : IsCode(module.functions[f])
      BY <2>2, <3>1, RunningType DEF Inv
    <3>3. frames[k].functionIndex \in Nat
      BY <2>6 DEF FrameType
    <3>4. frames[k].functionIndex + 1 \in 1 .. Len(module.functions)
      BY <3>1, <3>2, <3>3, SMT
    <3> QED BY <3>2, <3>4 DEF Code
  <2>8. /\ frames[k].ip > 0 /\ frames[k].ip <= Len(Code(frames[k].functionIndex))
        /\ (frames[k].ip - 1) + 1 = frames[k].ip
    <3>1. Len(Code(frames[k].functionIndex)) \in Nat
      BY <2>7 DEF IsCode
    <3> QED BY <2>4, <2>6, <3>1, SMT
  <2>9. MappedIp(i - 1, frames[k]) = frames[k].ip - 1
    BY <2>3, <2>4, <2>8 DEF MappedIp
  <2>10. StackTrace[i].location = <<frames[k].functionIndex, frames[k].ip - 1>>
    BY <2>3, <2>5, <2>9 DEF StackTrace
  <2>11. InstructionAt(module, StackTrace[i].location) = call
    BY <2>8, <2>10 DEF InstructionAt, Code
  <2>12. StackTrace[i - 1].location[1] = frames[k + 1].functionIndex
    BY <2>3, <2>5 DEF StackTrace
  <2> QED BY <2>4, <2>11, <2>12
<1> QED BY DapInvariant, <1>1, PTL

\* While continue is served no instruction a verified breakpoint stands for is
\* executed, unless the program has just stopped there.
THEOREM VerifiedStops == DapSpec => VerifiedBreakpointStops
<1>1. ASSUME DapInv, [DapNext]_allVars
      PROVE  [/\ Started
              /\ request = "continue"
              /\ ~AtEnd
              /\ promised.answered
              /\ PromisedAt(Location)
              => ~moved]_allVars
  <2>1. SUFFICES ASSUME Started, request = "continue", ~AtEnd, promised.answered,
                        PromisedAt(Location), ~(UNCHANGED allVars)
                 PROVE  ~moved
    OBVIOUS
  <2>2. phase = "loop" /\ phase' # "loop" /\ command' # "none"
    BY <2>1 DEF Started
  <2>3. /\ frames # <<>> /\ command = "continue" /\ launched
        /\ Inv /\ MachineOK
    BY <1>1, <2>1, <2>2, InFlight DEF DapInv, Serving, Inv, ControlType
  <2>4. Location \in Locations(module)
    <3>1. /\ module \in Modules /\ Frame.functionIndex < Len(module.functions)
          /\ Frame.functionIndex \in Nat /\ Frame.ip \in Nat
          /\ IsCode(Code(Frame.functionIndex))
      BY <2>3, RunningType
    <3>2. Len(Code(Frame.functionIndex)) \in Nat
      BY <3>1 DEF IsCode
    <3>3. Frame.ip < Len(Code(Frame.functionIndex))
      BY <2>1, <3>1, <3>2, SMT DEF AtEnd
    <3>4. Location \in Nat \X Nat /\ InProgram(Location)
      BY <3>1, <3>3 DEF Location, InProgram
    <3> QED BY <3>1, <3>4, InProgramLocations
  <2>5. Location \in breakpoints
    BY <1>1, <2>1, <2>3, <2>4 DEF DapInv, BreakpointsAsAnswered
  <2>6. Run
    BY <1>1, <2>1, <2>3 DEF DapNext, Serve, Acknowledge, Refuse, Launch, SetSourceBreakpoints,
       SetInstructionBreakpoints, Query, PauseRequest, ContinueRequest, Disconnect, RunProgram,
       Respond, EndOfInput, BadInput, Ready
  <2>7. BeginInstruction
    BY <2>2, <2>6 DEF Run, StopAtBreakpoint, Stop, ExecuteInstruction, EndInstruction,
       StopAfterInstruction, NextInstruction
  <2>8. skipCurrentBreakpoint
    BY <2>3, <2>5, <2>7 DEF BeginInstruction, AtBreakpoint
  <2> QED BY <2>2, <2>3, <2>8 DEF Inv, SkipOnlyWhereStopped
<1>2. DapSpec => [][DapNext]_allVars
  BY DEF DapSpec
<1> QED BY DapInvariant, <1>1, <1>2, PTL DEF VerifiedBreakpointStops

\* A stop for a pause has executed nothing; a step, and an exit, something.
THEOREM PausesBetween == DapSpec => PauseBetweenRequests
<1>1. ASSUME DapInv
      PROVE  [Respond => /\ stopReason = "Pause" => ~executed
                         /\ stopReason \in {"Step", "Exit"} => executed]_allVars
  BY <1>1 DEF DapInv, Progress, Respond
<1> QED BY DapInvariant, <1>1, PTL DEF PauseBetweenRequests

\* The client hears of the program's exit once, with its code, and nothing runs
\* the program afterwards.
THEOREM ExitsReportedOnce == DapSpec => ExitReportedOnce
<1>1. ASSUME DapInv, [DapNext]_allVars
      PROVE  [observedProgramExit =>
                /\ observedProgramExit'
                /\ programExitCode' = ExitCode'
                /\ request' = "none"
                /\ UNCHANGED machine]_allVars
  <2>1. SUFFICES ASSUME observedProgramExit, ~(UNCHANGED allVars)
                 PROVE  /\ observedProgramExit'
                        /\ programExitCode' = ExitCode'
                        /\ request' = "none"
                        /\ UNCHANGED machine
    OBVIOUS
  <2>2. state = "Exited" /\ programExitCode = ExitCode /\ request = "none" /\ launched
    BY <1>1, <2>1 DEF DapInv, ExitSeen, Serving, Inv, StateMatchesProgram
  <2>3. DapNext
    BY <1>1, <2>1
  <2>4. /\ UNCHANGED machine /\ observedProgramExit' = observedProgramExit
        /\ programExitCode' = programExitCode /\ request' = request
    <3>1. CASE Acknowledge \/ Refuse \/ Query
      BY <3>1 DEF Acknowledge, Refuse, Query, Reply, vars, runtime
    <3>2. CASE Launch
      BY <2>2, <3>2 DEF Launch, MayLaunch, Reply, vars, runtime
    <3>3. CASE SetSourceBreakpoints \/ SetInstructionBreakpoints
      BY <3>3 DEF SetSourceBreakpoints, SetInstructionBreakpoints, SetBreakpoints, runtime
    <3>4. CASE PauseRequest
      BY <2>2, <3>4 DEF PauseRequest, Pause, Reply, vars, runtime
    <3>5. CASE ContinueRequest
      BY <2>2, <3>5 DEF ContinueRequest, Continue, Step, Reply, vars, runtime
    <3>6. CASE Disconnect
      BY <3>6 DEF Disconnect, vars
    <3>7. CASE RunProgram \/ Respond
      BY <2>2, <3>7 DEF RunProgram, Respond
    <3>8. CASE EndOfInput \/ BadInput
      BY <3>8 DEF EndOfInput, BadInput, vars, runtime
    <3> QED BY <2>3, <3>1, <3>2, <3>3, <3>4, <3>5, <3>6, <3>7, <3>8 DEF DapNext, Serve
  <2>5. ExitCode' = ExitCode
    BY <2>4 DEF machine, ExitCode, SignExtendUnbounded
  <2> QED BY <2>1, <2>2, <2>4, <2>5
<1>2. DapSpec => [][DapNext]_allVars
  BY DEF DapSpec
<1> QED BY DapInvariant, <1>1, <1>2, PTL DEF ExitReportedOnce

\* The references of a trace's scopes are pairwise different.
LEMMA ReferencesCounted ==
  ASSUME NEW d \in Nat
  PROVE  Cardinality({id * 256 + s : id \in 1 .. d, s \in 1 .. 2}) = 2 * d
<1> DEFINE T == {id * 256 + s : id \in 1 .. d, s \in 1 .. 2}
           f == [n \in 1 .. 2 * d |-> IF n <= d THEN n * 256 + 1 ELSE (n - d) * 256 + 2]
<1>1. \A n \in 1 .. 2 * d : f[n] \in T
  <2> TAKE n \in 1 .. 2 * d
  <2>1. CASE n <= d
    <3>1. n \in 1 .. d /\ 1 \in 1 .. 2 /\ f[n] = n * 256 + 1
      BY <2>1, SMT
    <3> QED BY <3>1
  <2>2. CASE n > d
    <3>1. n - d \in 1 .. d /\ 2 \in 1 .. 2 /\ f[n] = (n - d) * 256 + 2
      BY <2>2, SMT
    <3> QED BY <3>1
  <2> QED BY <2>1, <2>2
<1>2. \A n, m \in 1 .. 2 * d : f[n] = f[m] => n = m
  BY SMT
<1>3. \A t \in T : \E n \in 1 .. 2 * d : f[n] = t
  <2> TAKE t \in T
  <2>1. PICK id \in 1 .. d, s \in 1 .. 2 : t = id * 256 + s
    OBVIOUS
  <2>2. CASE s = 1
    <3>1. id \in 1 .. 2 * d /\ f[id] = t
      BY <2>1, <2>2, SMT
    <3> QED BY <3>1
  <2>3. CASE s = 2
    <3>1. id + d \in 1 .. 2 * d /\ f[id + d] = t
      BY <2>1, <2>3, SMT
    <3> QED BY <3>1
  <2> QED BY <2>1, <2>2, <2>3, SMT
<1>4. f \in Bijection(1 .. 2 * d, T)
  <2>1. f \in [1 .. 2 * d -> T] /\ DOMAIN f = 1 .. 2 * d
    BY <1>1
  <2> HIDE DEF T, f
  <2> QED BY <1>2, <1>3, <2>1 DEF Bijection, Injection, Surjection, IsInjective
<1>5. IsFiniteSet(1 .. 2 * d) /\ Cardinality(1 .. 2 * d) = 2 * d
  BY FS_Interval, SMT
<1>6. ExistsBijection(1 .. 2 * d, T)
  BY <1>4 DEF ExistsBijection
<1> HIDE DEF T, f
<1> QED BY <1>5, <1>6, FS_Bijection DEF T

\* Every scope of every frame of a trace can be asked for, is told apart from
\* the others and shows the variables it announced.
THEOREM ScopesAreAnswered == DapSpec => []ScopesAnswerable
<1>1. ASSUME DapInv
      PROVE  ScopesAnswerable
  <2>1. Depth \in Nat /\ Len(stack) \in Nat
    BY <1>1 DEF DapInv, Inv, MachineOK, Depth
  <2>2. \A id \in 1 .. Depth :
          /\ Scopes(id)[1].reference = id * 256 + 1
          /\ Scopes(id)[1].count = Len(FrameAt(id - 1).locals)
          /\ Scopes(id)[2].reference = id * 256 + 2
          /\ Scopes(id)[2].count = IF id = 1 THEN Len(stack) ELSE 0
    <3> TAKE id \in 1 .. Depth
    <3>1. (id - 1) + 1 = id
      BY <2>1, SMT
    <3> QED BY <3>1 DEF Scopes, EncodeVariablesReference, ScopeKinds
  <2>3. \A id \in 1 .. Depth : \A s \in {1, 2} :
          /\ id * 256 + s > 0
          /\ (id * 256 + s) \div 256 = id
          /\ (id * 256 + s) % 256 = s
    BY <2>1, SMT
  <2>4. \A id \in 1 .. Depth : id > 0 /\ id - 1 < Depth /\ (id - 1 = 0 <=> id = 1)
    BY <2>1, SMT
  <2>5. \A id \in 1 .. Depth : \A s \in 1 .. 2 : Scopes(id)[s].reference = id * 256 + s
    <3> TAKE id \in 1 .. Depth
    <3> TAKE s \in 1 .. 2
    <3>1. s = 1 \/ s = 2
      BY SMT
    <3>2. Scopes(id)[1].reference = id * 256 + 1 /\ Scopes(id)[2].reference = id * 256 + 2
      BY <2>2
    <3> QED BY <3>1, <3>2
  <2>6. ASSUME NEW id \in 1 .. Depth, NEW s \in 1 .. 2
        PROVE  /\ KnowsReference(Scopes(id)[s].reference)
               /\ ReferencedFrame(Scopes(id)[s].reference) = id - 1
               /\ Len(Variables(Scopes(id)[s].reference)) = Scopes(id)[s].count
    <3>1. s = 1 \/ s = 2
      BY SMT
    <3>2. /\ Scopes(id)[1].count = Len(FrameAt(id - 1).locals)
          /\ Scopes(id)[2].count = IF id = 1 THEN Len(stack) ELSE 0
      BY <2>2
    <3>3. ReferencedFrame(id * 256 + s) = id - 1
      BY <2>3, <3>1 DEF ReferencedFrame
    <3>4. KnowsReference(id * 256 + s)
      BY <2>3, <2>4, <3>1, <3>3 DEF KnowsReference, Decodes
    <3>5. (id * 256 + s) % 256 = s
      BY <2>3, <3>1
    <3>6. Variables(id * 256 + s) = IF s = 1 THEN FrameAt(id - 1).locals
                                    ELSE IF id = 1 THEN Reverse(stack) ELSE <<>>
      BY <2>4, <3>1, <3>3, <3>5 DEF Variables, ScopeKinds
    <3>7. Len(Reverse(stack)) = Len(stack) /\ Len(<<>>) = 0
      BY <2>1, SMT DEF Reverse
    <3>8. Len(Variables(id * 256 + s)) = Scopes(id)[s].count
      BY <3>1, <3>2, <3>6, <3>7
    <3> QED BY <2>5, <3>3, <3>4, <3>8
  <2>7. {Scopes(id)[s].reference : id \in 1 .. Depth, s \in 1 .. 2}
          = {id * 256 + s : id \in 1 .. Depth, s \in 1 .. 2}
    BY <2>5
  <2>8. Cardinality({Scopes(id)[s].reference : id \in 1 .. Depth, s \in 1 .. 2}) = 2 * Depth
    BY <2>1, <2>7, ReferencesCounted
  <2>9. \A id \in 1 .. Depth : \A s \in 1 .. 2 :
          LET scope == Scopes(id)[s] IN
          /\ KnowsReference(scope.reference)
          /\ ReferencedFrame(scope.reference) = id - 1
          /\ Len(Variables(scope.reference)) = scope.count
    BY <2>6
  <2> QED BY <2>8, <2>9 DEF ScopesAnswerable
<1> QED BY DapInvariant, <1>1, PTL
=============================================================================
