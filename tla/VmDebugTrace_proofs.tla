------------------------- MODULE VmDebugTrace_proofs -------------------------
(***************************************************************************)
(* Recording and replay for every program: the lines of a trace are its    *)
(* start, one line for each hook event in the order of their numbers, and  *)
(* the stop that ended it, each with the program as it then was; so a      *)
(* replay of a whole trace shows what it is asked for.                     *)
(***************************************************************************)
EXTENDS VmDebugTrace, VmDebugSession_proofs

Sequence(s) == \E S : s \in Seq(S)
Ended == state \in {"Faulted", "Exited"}

\* The recording process installs its hooks before the program runs, and never
\* sets a breakpoint or asks for a pause: only a fault or the exit stops it.
Recording ==
  /\ recorder \in {"idle", "starting", "running", "done", "written"}
  /\ recorder = "idle" => state = "Idle" /\ command = "none" /\ lines = <<>>
  /\ recorder = "starting" => /\ command = "none" /\ state = "Paused" /\ lines # <<>>
                              /\ past = <<>> /\ nextHookSequence = 0
  /\ recorder = "running" => /\ hooks = HookKinds /\ lines # <<>>
                             /\ state \in {"Paused", "Running"} /\ command # "step"
                             /\ Len(past) < SequenceLimit => nextHookSequence = Len(past)
  /\ recorder \in {"done", "written"} => command = "none" /\ (lines = <<>> \/ Ended)
  /\ recorder = "written" => lines # <<>>
  /\ breakpoints = {} /\ ~pauseRequested

\* The line of the p-th hook event has its number and shows the program as it
\* was then; the last event's program is the present one, except just after an
\* instruction that no hook has reported yet.
Shape ==
  /\ Sequence(lines) /\ Sequence(past)
  /\ lines = <<>> => past = <<>>
  /\ lines # <<>> =>
       /\ Len(lines) = Len(past) + (IF Ended THEN 2 ELSE 1)
       /\ ~lines[1].numbered /\ lines[1].event # "stop"
       /\ \A p \in 1 .. Len(past) : LET line == lines[p + 1] IN
            /\ line.numbered /\ line.event # "stop"
            /\ Len(past) <= SequenceLimit => line.sequence = p - 1
            /\ line.snapshot = Snapshot(past[p][1], past[p][2], past[p][3], line.snapshot.state)
       /\ Ended => LET stop == lines[Len(lines)] IN
            /\ ~stop.numbered /\ stop.event = "stop"
            /\ stop.reason = IF state = "Exited" THEN "Exit" ELSE "Fault"
            /\ stop.snapshot = Snapshot(frames, stack, result, state)
  /\ phase # "after" /\ past # <<>> => past[Len(past)] = <<frames, stack, result>>

\* The recorder's exit code is the program's until a failed write changes it.
Codes ==
  /\ (recorder = "done" \/ (recorder = "written" /\ Whole)) /\ state = "Exited"
       => exitCode = SignExtendUnbounded(result)
  /\ recorder = "written" =>
       \/ Whole
       \/ \E n \in 0 .. (Len(lines) - 1) : file.lines = SubSeq(lines, 1, n)

\* What a replay of the file prints and returns.
Shown(explicit, target) ==
  LET chosen == file.lines[Scan(file.lines, target)] IN
  [ok |-> TRUE, explicit |-> explicit, target |-> target,
   sequence |-> CheckpointSequence(file.lines, Scan(file.lines, target)),
   event |-> chosen.event, reason |-> chosen.reason, snapshot |-> chosen.snapshot,
   exitCode |-> IF Mirrored(chosen, explicit)
                  THEN SignExtendUnbounded(chosen.snapshot.result) ELSE 0]

Replayed ==
  replay.ok =>
    /\ recorder = "written" /\ Parses(file)
    /\ \/ replay = Shown(FALSE, CheckpointSequence(file.lines, Len(file.lines)))
       \/ \E target \in Targets : replay = Shown(TRUE, target)

TraceInv == Inv /\ Recording /\ Shape /\ Codes /\ Replayed

-----------------------------------------------------------------------------
\* What Append does to any sequence.
LEMMA Appended ==
  ASSUME NEW s, Sequence(s), NEW x
  PROVE  /\ Sequence(Append(s, x)) /\ Append(s, x) # <<>>
         /\ Len(s) \in Nat /\ Len(Append(s, x)) = Len(s) + 1
         /\ Append(s, x)[Len(s) + 1] = x
         /\ \A i \in 1 .. Len(s) : Append(s, x)[i] = s[i]
<1>1. PICK S : s \in Seq(S)
  BY DEF Sequence
<1>2. s \in Seq(S \cup {x})
  BY <1>1, SMT
<1>3. Append(s, x) \in Seq(S \cup {x})
  BY <1>2, SMT
<1>4. /\ Append(s, x) # <<>>
      /\ Len(s) \in Nat /\ Len(Append(s, x)) = Len(s) + 1
      /\ Append(s, x)[Len(s) + 1] = x
      /\ \A i \in 1 .. Len(s) : Append(s, x)[i] = s[i]
  BY <1>2, SMT
<1> QED BY <1>3, <1>4 DEF Sequence

\* Sequences of no and of one element.
LEMMA ShortSequences ==
  /\ Sequence(<<>>) /\ Len(<<>>) = 0
  /\ \A x : Sequence(<<x>>) /\ Len(<<x>>) = 1 /\ <<x>>[1] = x /\ <<x>> # <<>>
<1>1. \A S : <<>> \in Seq(S)
  OBVIOUS
<1>2. \A x : <<x>> \in Seq({x})
  OBVIOUS
<1> QED BY <1>1, <1>2 DEF Sequence

\* A sequence has a length and is defined up to it.
LEMMA LengthType ==
  ASSUME NEW s, Sequence(s)
  PROVE  /\ Len(s) \in Nat /\ DOMAIN s = 1 .. Len(s)
         /\ (s = <<>>) <=> (Len(s) = 0)
BY SMT DEF Sequence

\* A step of the recorder that is none of the session's keeps what is known of it.
LEMMA SessionUnchanged ==
  ASSUME Inv, UNCHANGED vars
  PROVE  /\ Inv'
         /\ module' = module /\ frames' = frames /\ stack' = stack /\ result' = result
         /\ state' = state /\ breakpoints' = breakpoints /\ pauseRequested' = pauseRequested
         /\ command' = command /\ phase' = phase /\ hooks' = hooks
         /\ nextHookSequence' = nextHookSequence
<1>1. Inv'
  BY NextInv
<1> QED BY <1>1 DEF vars, machine, session, hooking, control, seen

\* The lines and what they tell of are kept by what leaves both alone.
LEMMA ShapeKept ==
  ASSUME Shape, UNCHANGED <<lines, past, frames, stack, result, state, phase>>
  PROVE  Shape'
BY SMTT(30) DEF Shape, Ended, Snapshot

\* Before the recording nothing is recorded.
LEMMA InitTraceInv == TraceInit => TraceInv
<1> SUFFICES ASSUME TraceInit PROVE TraceInv
  OBVIOUS
<1>1. Inv
  BY InitInv DEF TraceInit
<1>2. Recording /\ Shape
  BY ShortSequences DEF TraceInit, Init, Recording, Shape
<1>3. Codes /\ Replayed
  BY DEF TraceInit, Codes, Replayed, NoReplay
<1> QED BY <1>1, <1>2, <1>3 DEF TraceInv

\* The recorder's steps before the program runs: the start line, the hooks, continue.
LEMMA BeginInv ==
  ASSUME TraceInv, Begin
  PROVE  TraceInv'
<1>1. /\ recorder = "idle" /\ lines = <<>> /\ past = <<>> /\ past' = past /\ ~replay'.ok
      /\ command = "none" /\ state = "Idle"
      /\ breakpoints = {} /\ ~pauseRequested
  BY DEF Begin, TraceInv, Recording, Shape, Replayed
<1>2. Replayed'
  BY <1>1 DEF Replayed
<1>3. CASE /\ UNCHANGED <<vars, lines>> /\ recorder' = "done"
  <2>1. Inv' /\ state' = state /\ command' = command /\ breakpoints' = breakpoints
           /\ pauseRequested' = pauseRequested
    BY <1>3, SessionUnchanged DEF TraceInv
  <2>2. Recording' /\ Codes'
    BY <1>1, <1>3, <2>1 DEF Recording, Codes
  <2>3. Shape'
    BY <1>1, <1>3, ShortSequences DEF Shape
  <2> QED BY <1>2, <2>1, <2>2, <2>3 DEF TraceInv
<1>4. ASSUME NEW m \in Modules, Start(m), recorder' = "starting",
             lines' = <<PlainLine("session_start", "session_start",
                                  Snapshot(frames', stack', result', state'))>>
      PROVE  TraceInv'
  <2> DEFINE line == PlainLine("session_start", "session_start",
                               Snapshot(frames', stack', result', state'))
  <2>1. line.event = "session_start" /\ line.numbered = FALSE
    BY DEF PlainLine
  <2>2. Inv'
    BY <1>4, StartInv DEF TraceInv
  <2>3. /\ state' = "Paused" /\ command' = "none" /\ breakpoints' = {} /\ ~pauseRequested'
        /\ nextHookSequence' = 0
    BY <1>4 DEF Start, Reset, StateAfterStop
  <2>4. lines' = <<line>>
    BY <1>4
  <2> HIDE DEF line
  <2>5. /\ Sequence(lines') /\ Len(lines') = 1 /\ lines'[1] = line /\ lines' # <<>>
        /\ Sequence(past') /\ Len(past') = 0
    BY <1>1, <2>4, ShortSequences
  <2>6. Recording' /\ Codes'
    BY <1>1, <1>4, <2>3, <2>5 DEF Recording, Codes
  <2>7. Shape'
    <3>1. ~Ended'
      BY <2>3 DEF Ended
    <3>2. 1 .. Len(past') = {} /\ Len(lines') = Len(past') + 1
      BY <2>5, SMT
    <3> QED BY <1>1, <2>1, <2>5, <3>1, <3>2 DEF Shape
  <2> QED BY <1>2, <2>2, <2>6, <2>7 DEF TraceInv
<1> QED BY <1>3, <1>4 DEF Begin

\* The recorder installs its hooks.
LEMMA InstallHooksInv ==
  ASSUME TraceInv, InstallHooks
  PROVE  TraceInv'
<1>1. /\ recorder = "starting" /\ recorder' = "running" /\ SetHooks(HookKinds)
      /\ lines' = lines /\ past' = past /\ file' = file /\ replay' = replay
      /\ exitCode' = exitCode /\ hooks' = HookKinds
  BY DEF InstallHooks, SetHooks
<1>2. /\ command = "none" /\ state = "Paused" /\ lines # <<>> /\ past = <<>>
      /\ nextHookSequence = 0 /\ breakpoints = {} /\ ~pauseRequested /\ ~replay.ok
  BY <1>1 DEF TraceInv, Recording, Replayed
<1>3. /\ UNCHANGED <<machine, state, control, seen>>
      /\ module' = module /\ frames' = frames /\ stack' = stack /\ result' = result
      /\ command' = command /\ phase' = phase
      /\ pauseRequested' = pauseRequested /\ lastStopWasBreakpoint' = lastStopWasBreakpoint
      /\ breakpoints' = breakpoints /\ nextHookSequence' = nextHookSequence /\ event' = event
  BY <1>1 DEF SetHooks, machine, session, control, seen
<1>4. Inv'
  <2>1. HookType'
    BY <1>1, <1>3 DEF TraceInv, Inv, HookType
  <2>2. \A location \in breakpoints' : InProgram(location)'
    BY <1>2, <1>3
  <2>3. /\ pauseRequested \in BOOLEAN /\ lastStopWasBreakpoint \in BOOLEAN
        /\ breakpoints \subseteq BreakpointRequests
    BY DEF TraceInv, Inv, ControlType
  <2> QED BY <1>3, <2>1, <2>2, <2>3, ClientCallInv DEF TraceInv
<1>5. Recording' /\ Codes' /\ Replayed'
  BY <1>1, <1>2, <1>3, ShortSequences DEF Recording, Codes, Replayed
<1>6. Shape'
  BY <1>1, <1>3, ShapeKept DEF TraceInv
<1> QED BY <1>4, <1>5, <1>6 DEF TraceInv

\* The recorder lets the program run on.
LEMMA ResumeInv ==
  ASSUME TraceInv, Resume
  PROVE  TraceInv'
<1>1. /\ recorder = "running" /\ recorder' = recorder /\ Continue
      /\ lines' = lines /\ past' = past /\ file' = file /\ replay' = replay
      /\ exitCode' = exitCode
  BY DEF Resume, traceVars
<1>2. /\ ~pauseRequested /\ ~replay.ok /\ breakpoints = {} /\ hooks = HookKinds
      /\ state = "Paused" /\ phase = "idle" /\ lines # <<>>
  BY <1>1 DEF TraceInv, Recording, Replayed, Continue, Inv, ControlType
<1>3. Inv'
  BY <1>1, ContinueInv DEF TraceInv
<1>4. /\ state' = "Running" /\ command' = "continue" /\ phase' = "loop"
      /\ pauseRequested' = pauseRequested
      /\ frames' = frames /\ stack' = stack /\ result' = result
      /\ breakpoints' = breakpoints /\ hooks' = hooks /\ nextHookSequence' = nextHookSequence
  BY <1>1, <1>2 DEF Continue, PauseFirst, machine, hooking
<1>5. Recording' /\ Codes' /\ Replayed'
  BY <1>1, <1>2, <1>4 DEF TraceInv, Recording, Codes, Replayed
<1>6. Shape'
  BY <1>1, <1>2, <1>4 DEF TraceInv, Shape, Ended
<1> QED BY <1>3, <1>5, <1>6 DEF TraceInv

\* Writing the file and replaying leave the recording alone.
LEMMA WriteInv ==
  ASSUME TraceInv, Write
  PROVE  TraceInv'
<1>1. /\ recorder = "done" /\ recorder' = "written" /\ UNCHANGED vars
      /\ lines' = lines /\ past' = past /\ replay' = replay /\ lines # <<>>
  BY DEF Write
<1>2. /\ Inv'
      /\ frames' = frames /\ stack' = stack /\ result' = result
      /\ state' = state /\ breakpoints' = breakpoints /\ pauseRequested' = pauseRequested
      /\ command' = command /\ phase' = phase /\ hooks' = hooks
      /\ nextHookSequence' = nextHookSequence
  BY <1>1, SessionUnchanged DEF TraceInv
<1>3. ~replay.ok /\ Sequence(lines)
  BY <1>1 DEF TraceInv, Replayed, Shape
<1>4. Recording' /\ Replayed'
  BY <1>1, <1>2, <1>3 DEF TraceInv, Recording, Replayed, Ended
<1>5. Shape'
  BY <1>1, <1>2, ShapeKept DEF TraceInv
<1>6. Codes'
  <2>1. CASE file' = [lines |-> lines, cut |-> FALSE] /\ UNCHANGED exitCode
    BY <1>1, <1>2, <2>1 DEF TraceInv, Codes, Whole
  <2>2. ASSUME NEW n \in 0 .. (Len(lines) - 1), NEW cut \in BOOLEAN,
               file' = [lines |-> SubSeq(lines, 1, n), cut |-> cut]
        PROVE  Codes'
    <3>1. Len(SubSeq(lines, 1, n)) # Len(lines)
      <4>1. PICK S : lines \in Seq(S)
        BY <1>3 DEF Sequence
      <4>2. Len(SubSeq(lines, 1, n)) = n /\ n < Len(lines)
        BY <4>1, SMT
      <4> QED BY <4>2, SMT
    <3>2. ~Whole' /\ file'.lines = SubSeq(lines, 1, n)
      BY <1>1, <2>2, <3>1 DEF Whole
    <3> QED BY <1>1, <3>2 DEF Codes
  <2> QED BY <2>1, <2>2 DEF Write
<1> QED BY <1>2, <1>4, <1>5, <1>6 DEF TraceInv

\* A replay shows what the file has.
LEMMA ReplayInv ==
  ASSUME TraceInv, NEW explicit \in BOOLEAN, NEW target_,
         ~explicit \/ target_ \in Targets, Replay(explicit, target_)
  PROVE  TraceInv'
<1>1. /\ recorder = "written" /\ recorder' = recorder /\ UNCHANGED vars
      /\ lines' = lines /\ past' = past /\ file' = file /\ exitCode' = exitCode
  BY DEF Replay
<1>2. /\ Inv'
      /\ frames' = frames /\ stack' = stack /\ result' = result
      /\ state' = state /\ breakpoints' = breakpoints /\ pauseRequested' = pauseRequested
      /\ command' = command /\ phase' = phase /\ hooks' = hooks
      /\ nextHookSequence' = nextHookSequence
  BY <1>1, SessionUnchanged DEF TraceInv
<1>3. Recording' /\ Codes'
  BY <1>1, <1>2 DEF TraceInv, Recording, Codes, Whole, Ended
<1>4. Shape'
  BY <1>1, <1>2, ShapeKept DEF TraceInv
<1>5. Replayed'
  <2>1. CASE ~Parses(file)
    <3>1. ~replay'.ok
      BY <2>1 DEF Replay
    <3> QED BY <3>1 DEF Replayed
  <2>2. CASE Parses(file)
    <3> DEFINE target == IF explicit THEN target_
                         ELSE CheckpointSequence(file.lines, Len(file.lines))
    <3>1. replay' = Shown(explicit, target)
      BY <2>2 DEF Replay, Shown
    <3>2. \/ replay' = Shown(FALSE, CheckpointSequence(file.lines, Len(file.lines)))
          \/ \E t \in Targets : replay' = Shown(TRUE, t)
      BY <3>1
    <3>3. Parses(file)' /\ recorder' = "written"
      BY <1>1, <2>2 DEF Parses
    <3>4. CASE replay' = Shown(FALSE, CheckpointSequence(file.lines, Len(file.lines)))
      BY <1>1, <3>3, <3>4 DEF Replayed, Shown
    <3>5. CASE \E t \in Targets : replay' = Shown(TRUE, t)
      BY <1>1, <3>3, <3>5 DEF Replayed, Shown
    <3> QED BY <3>2, <3>4, <3>5
  <2> QED BY <2>1, <2>2
<1> QED BY <1>2, <1>3, <1>4, <1>5 DEF TraceInv

-----------------------------------------------------------------------------
\* With every hook installed a hook is called for each event, and uses up one
\* number.
LEMMA EveryHook ==
  ASSUME hooks = HookKinds, NEW kind, NEW depth, NEW pushed, Emit(kind, depth, pushed)
  PROVE  /\ hooks' = hooks
         /\ kind \in HookKinds =>
              /\ inHook' /\ event'.kind = kind /\ event'.sequence = nextHookSequence
              /\ nextHookSequence' = (nextHookSequence + 1) % SequenceLimit
         /\ kind \notin HookKinds => ~inHook' /\ nextHookSequence' = nextHookSequence
BY DEF Emit, SequenceAfter

\* A part of an instruction calls a hook, or leaves the program as it was or
\* unreported, or ends the run.
LEMMA RunParts ==
  ASSUME TraceInv, recorder = "running", Run
  PROVE  /\ hooks' = HookKinds /\ breakpoints' = breakpoints /\ pauseRequested' = pauseRequested
         /\ inHook' => /\ event'.kind \in HookKinds /\ event'.sequence = nextHookSequence
                       /\ nextHookSequence' = (nextHookSequence + 1) % SequenceLimit
         /\ ~inHook' => nextHookSequence' = nextHookSequence
         /\ ~inHook' /\ phase' # "after" => /\ UNCHANGED <<frames, stack, result>>
                                            /\ phase # "after"
         /\ IF phase = "finish" /\ command' = "none"
              THEN /\ ~inHook'
                   /\ \/ state' = "Faulted" /\ stopReason' = "Fault"
                      \/ state' = "Exited" /\ stopReason' = "Exit"
              ELSE state' = "Running" /\ command' = "continue"
<1>1. /\ hooks = HookKinds /\ breakpoints = {} /\ ~pauseRequested /\ command # "step" /\ Inv
      /\ {"before", "after", "callPush", "callPop", "fault"} = HookKinds
  BY DEF TraceInv, Recording, HookKinds
<1>2. phase # "idle" /\ command = "continue" /\ state = "Running"
  BY <1>1 DEF Run, StopAtBreakpoint, BeginInstruction, ExecuteInstruction, EndInstruction,
     StopAfterInstruction, NextInstruction, Inv, ControlType, StateMatchesProgram
<1>3. CASE StopAtBreakpoint
  BY <1>1, <1>3 DEF StopAtBreakpoint, AtBreakpoint
<1>4. CASE BeginInstruction
  <2>1. /\ UNCHANGED <<frames, stack, result>> /\ state' = state /\ command' = command
        /\ breakpoints' = breakpoints /\ pauseRequested' = pauseRequested /\ phase = "loop"
    BY <1>4 DEF BeginInstruction, machine, session
  <2>2. CASE inHook' = FALSE /\ UNCHANGED hooking
    BY <1>1, <1>2, <2>1, <2>2 DEF hooking
  <2>3. CASE Emit("before", Depth, FALSE)
    BY <1>1, <1>2, <2>1, <2>3, EveryHook
  <2> QED BY <1>4, <2>2, <2>3 DEF BeginInstruction
<1>5. CASE ExecuteInstruction
  <2>1. PICK o \in {"Continue", "Exit", "Fault"} :
          /\ phase' = PhaseAfter(o)
          /\ Emit(EffectHook(o), Len(frames'),
                  IF EffectHook(o) = "callPush" THEN Inst.op = "Call"
                  ELSE EffectHook(o) = "callPop" /\ Frame.returnValueToCaller)
    BY <1>5 DEF ExecuteInstruction
  <2>2. /\ state' = state /\ command' = command /\ phase = "execute"
        /\ breakpoints' = breakpoints /\ pauseRequested' = pauseRequested
    BY <1>5 DEF ExecuteInstruction, session
  <2>3. EffectHook(o) \in HookKinds \/ (EffectHook(o) = "none" /\ o # "Fault")
    BY <1>1 DEF EffectHook
  <2>4. CASE EffectHook(o) \in HookKinds
    <3>1. /\ hooks' = hooks /\ inHook' /\ event'.kind \in HookKinds
          /\ event'.sequence = nextHookSequence
          /\ nextHookSequence' = (nextHookSequence + 1) % SequenceLimit
      BY <1>1, <2>1, <2>4, EveryHook
    <3> QED BY <1>1, <1>2, <2>2, <3>1
  <2>5. CASE EffectHook(o) = "none" /\ o # "Fault"
    <3>1. hooks' = hooks /\ ~inHook' /\ nextHookSequence' = nextHookSequence
      BY <1>1, <2>1, <2>5, EveryHook
    <3>2. phase' = "after"
      BY <2>1, <2>5 DEF PhaseAfter
    <3> QED BY <1>1, <1>2, <2>2, <3>1, <3>2
  <2> QED BY <2>3, <2>4, <2>5
<1>6. CASE EndInstruction
  <2>1. /\ state' = state /\ command' = command /\ phase = "after"
        /\ breakpoints' = breakpoints /\ pauseRequested' = pauseRequested
        /\ Emit("after", Depth, FALSE)
    BY <1>6 DEF EndInstruction, session
  <2>2. /\ hooks' = hooks /\ inHook' /\ event'.kind \in HookKinds
        /\ event'.sequence = nextHookSequence
        /\ nextHookSequence' = (nextHookSequence + 1) % SequenceLimit
    BY <1>1, <2>1, EveryHook
  <2> QED BY <1>1, <1>2, <2>1, <2>2
<1>7. CASE StopAfterInstruction
  <2>1. /\ UNCHANGED <<frames, stack, result>> /\ phase = "finish"
        /\ breakpoints' = breakpoints /\ hooks' = hooks /\ nextHookSequence' = nextHookSequence
    BY <1>7 DEF StopAfterInstruction, machine, hooking
  <2>2. /\ command' = "none" /\ inHook' = FALSE /\ pauseRequested' = pauseRequested
        /\ \/ state' = "Faulted" /\ stopReason' = "Fault"
           \/ state' = "Exited" /\ stopReason' = "Exit"
    BY <1>1, <1>2, <1>7 DEF StopAfterInstruction, Stop, StateAfterStop
  <2> QED BY <1>1, <2>1, <2>2
<1>8. CASE NextInstruction
  <2>1. /\ UNCHANGED <<frames, stack, result>> /\ phase = "finish"
        /\ state' = state /\ command' = command /\ inHook' = FALSE
        /\ breakpoints' = breakpoints /\ pauseRequested' = pauseRequested
        /\ hooks' = hooks /\ nextHookSequence' = nextHookSequence
    BY <1>8 DEF NextInstruction, machine, session, hooking
  <2> QED BY <1>1, <1>2, <2>1
<1> QED BY <1>3, <1>4, <1>5, <1>6, <1>7, <1>8 DEF Run

\* A number below the limit is used as it is.
LEMMA NumberKept ==
  ASSUME NEW n \in Nat, NEW limit \in Nat, n < limit
  PROVE  n % limit = n
BY SMT

\* A step of the traced program adds the line of the event it reports, if any.
LEMMA RunTracedInv ==
  ASSUME TraceInv, RunTraced
  PROVE  TraceInv'
<1> DEFINE snapshot == Snapshot(frames', stack', result', state')
<1>1. /\ recorder = "running" /\ Run /\ file' = file /\ replay' = replay
  BY DEF RunTraced
<1>2. /\ hooks' = HookKinds /\ breakpoints' = breakpoints /\ pauseRequested' = pauseRequested
      /\ inHook' => /\ event'.kind \in HookKinds /\ event'.sequence = nextHookSequence
                    /\ nextHookSequence' = (nextHookSequence + 1) % SequenceLimit
      /\ ~inHook' => nextHookSequence' = nextHookSequence
      /\ ~inHook' /\ phase' # "after" => /\ UNCHANGED <<frames, stack, result>>
                                         /\ phase # "after"
      /\ IF phase = "finish" /\ command' = "none"
           THEN /\ ~inHook'
                /\ \/ state' = "Faulted" /\ stopReason' = "Fault"
                   \/ state' = "Exited" /\ stopReason' = "Exit"
           ELSE state' = "Running" /\ command' = "continue"
  BY <1>1, RunParts
<1>3. /\ hooks = HookKinds /\ breakpoints = {} /\ ~pauseRequested /\ lines # <<>>
      /\ state \in {"Paused", "Running"} /\ ~Ended /\ ~replay.ok
      /\ Len(past) < SequenceLimit => nextHookSequence = Len(past)
      /\ Shape
  BY <1>1 DEF TraceInv, Recording, Ended, Replayed
<1>4. Inv'
  BY <1>1, NextInv DEF Next, TraceInv
<1>5. Replayed'
  BY <1>1, <1>3 DEF Replayed
<1>6. /\ Sequence(lines) /\ Sequence(past) /\ Len(lines) = Len(past) + 1
      /\ Len(lines) \in Nat /\ Len(past) \in Nat
      /\ ~lines[1].numbered /\ lines[1].event # "stop"
      /\ \A p \in 1 .. Len(past) :
           /\ lines[p + 1].numbered /\ lines[p + 1].event # "stop"
           /\ Len(past) <= SequenceLimit => lines[p + 1].sequence = p - 1
           /\ lines[p + 1].snapshot = Snapshot(past[p][1], past[p][2], past[p][3],
                                               lines[p + 1].snapshot.state)
      /\ phase # "after" /\ past # <<>> => past[Len(past)] = <<frames, stack, result>>
  BY <1>3, LengthType DEF Shape
<1>7. SequenceLimit \in Nat \ {0}
  BY ClientAssumption
<1>8. CASE /\ inHook'
           /\ lines' = Append(lines, HookLine(event', snapshot, LineImmediate(event'.kind)))
           /\ past' = Append(past, <<frames', stack', result'>>)
           /\ UNCHANGED <<recorder, exitCode>>
  <2> DEFINE line == HookLine(event', snapshot, LineImmediate(event'.kind))
             now == <<frames', stack', result'>>
             n == Len(past)
  <2>1. state' = "Running" /\ command' = "continue" /\ ~Ended'
    BY <1>2, <1>8 DEF Ended
  <2>2. /\ line.numbered = TRUE /\ line.event = event'.kind /\ line.sequence = event'.sequence
        /\ line.snapshot = snapshot /\ snapshot.state = state'
    BY DEF HookLine, Snapshot
  <2>3. line.event # "stop" /\ line.sequence = nextHookSequence
    BY <1>2, <1>8, <2>2 DEF HookKinds
  <2>4. lines' = Append(lines, line) /\ past' = Append(past, now)
    BY <1>8
  <2>5. now[1] = frames' /\ now[2] = stack' /\ now[3] = result'
    OBVIOUS
  <2> HIDE DEF line, now
  <2>6. /\ Sequence(lines') /\ lines' # <<>> /\ Len(lines') = Len(lines) + 1
        /\ lines'[Len(lines) + 1] = line
        /\ \A i \in 1 .. Len(lines) : lines'[i] = lines[i]
        /\ Sequence(past') /\ past' # <<>> /\ Len(past') = n + 1 /\ past'[n + 1] = now
        /\ \A i \in 1 .. n : past'[i] = past[i]
    BY <1>6, <2>4, Appended
  <2>7. Len(past') < SequenceLimit => nextHookSequence' = Len(past')
    <3>1. SUFFICES ASSUME n + 1 < SequenceLimit PROVE nextHookSequence' = n + 1
      BY <2>6
    <3>2. nextHookSequence = n
      BY <1>3, <1>6, <1>7, <3>1, SMT
    <3>3. (n + 1) % SequenceLimit = n + 1
      <4>1. n + 1 \in Nat /\ SequenceLimit \in Nat
        BY <1>6, <1>7
      <4> QED BY <3>1, <4>1, NumberKept
    <3> QED BY <1>2, <1>8, <3>2, <3>3
  <2>8. Recording' /\ Codes'
    BY <1>1, <1>2, <1>3, <1>8, <2>1, <2>6, <2>7 DEF Recording, Codes
  <2>9. ASSUME NEW p \in 1 .. Len(past')
        PROVE  /\ lines'[p + 1].numbered /\ lines'[p + 1].event # "stop"
               /\ Len(past') <= SequenceLimit => lines'[p + 1].sequence = p - 1
               /\ lines'[p + 1].snapshot = Snapshot(past'[p][1], past'[p][2], past'[p][3],
                                                    lines'[p + 1].snapshot.state)
    <3>1. CASE p \in 1 .. n
      <4>1. p + 1 \in 1 .. Len(lines)
        BY <1>6, <3>1, SMT
      <4>2. lines'[p + 1] = lines[p + 1] /\ past'[p] = past[p]
        BY <2>6, <3>1, <4>1
      <4>3. Len(past') <= SequenceLimit => Len(past) <= SequenceLimit
        BY <1>6, <1>7, <2>6, SMT
      <4> QED BY <1>6, <3>1, <4>2, <4>3
    <3>2. CASE p = n + 1
      <4>1. lines'[p + 1] = line /\ past'[p] = now
        BY <1>6, <2>6, <3>2
      <4>2. Len(past') <= SequenceLimit => line.sequence = p - 1
        BY <1>3, <1>6, <1>7, <2>3, <2>6, <3>2, SMT
      <4>3. line.snapshot = Snapshot(now[1], now[2], now[3], line.snapshot.state)
        BY <2>2, <2>5
      <4> QED BY <2>2, <2>3, <4>1, <4>2, <4>3
    <3>3. p \in 1 .. n \/ p = n + 1
      BY <1>6, <2>6, SMT
    <3> QED BY <3>1, <3>2, <3>3
  <2>10. lines'[1] = lines[1] /\ Len(lines') = Len(past') + 1
    BY <1>6, <2>6, SMT
  <2>11. past'[Len(past')] = <<frames', stack', result'>>
    BY <2>6 DEF now
  <2>12. Shape'
    BY <1>6, <2>1, <2>6, <2>9, <2>10, <2>11 DEF Shape
  <2> QED BY <1>4, <1>5, <2>8, <2>12 DEF TraceInv
<1>9. CASE /\ ~inHook'
           /\ phase # "finish" \/ command' # "none"
           /\ UNCHANGED <<lines, past, recorder, exitCode>>
  <2>1. state' = "Running" /\ command' = "continue" /\ ~Ended'
    BY <1>2, <1>9 DEF Ended
  <2>2. Recording' /\ Codes'
    BY <1>1, <1>2, <1>3, <1>9, <2>1 DEF Recording, Codes
  <2>3. phase' # "after" /\ past' # <<>> => past'[Len(past')] = <<frames', stack', result'>>
    BY <1>2, <1>6, <1>9
  <2>4. Shape'
    BY <1>3, <1>9, <2>1, <2>3 DEF Shape
  <2> QED BY <1>4, <1>5, <2>2, <2>4 DEF TraceInv
<1>10. CASE /\ phase = "finish"
            /\ command' = "none"
            /\ lines' = Append(lines, PlainLine("stop", stopReason', snapshot))
            /\ recorder' = IF EndsRecording(stopReason') THEN "done" ELSE recorder
            /\ exitCode' = CASE stopReason' = "Exit" -> SignExtendUnbounded(result')
                             [] stopReason' = "Fault" -> RuntimeFailure
                             [] OTHER -> exitCode
            /\ UNCHANGED past
  <2> DEFINE line == PlainLine("stop", stopReason', snapshot)
  <2>1. /\ ~inHook' /\ Ended' /\ recorder' = "done"
        /\ stopReason' = IF state' = "Exited" THEN "Exit" ELSE "Fault"
        /\ state' = "Exited" => stopReason' = "Exit"
    BY <1>2, <1>10 DEF Ended, EndsRecording
  <2>2. /\ line.numbered = FALSE /\ line.event = "stop" /\ line.reason = stopReason'
        /\ line.snapshot = snapshot
    BY DEF PlainLine
  <2>3. lines' = Append(lines, line)
    BY <1>10
  <2> HIDE DEF line
  <2>4. /\ Sequence(lines') /\ lines' # <<>> /\ Len(lines') = Len(lines) + 1
        /\ lines'[Len(lines) + 1] = line
        /\ \A i \in 1 .. Len(lines) : lines'[i] = lines[i]
    BY <1>6, <2>3, Appended
  <2>5. Recording'
    BY <1>1, <1>2, <1>3, <1>10, <2>1, <2>4 DEF Recording
  <2>6. Codes'
    BY <1>10, <2>1 DEF Codes
  <2>7. phase' # "after" /\ past' # <<>> => past'[Len(past')] = <<frames', stack', result'>>
    BY <1>2, <1>6, <1>10, <2>1
  <2>8. Len(lines') = Len(past') + 2 /\ 1 \in 1 .. Len(lines) /\ past' = past
    BY <1>6, <1>10, <2>4, SMT
  <2>9. \A p \in 1 .. Len(past) : p + 1 \in 1 .. Len(lines)
    BY <1>6, SMT
  <2>10. /\ lines'[1] = lines[1]
         /\ \A p \in 1 .. Len(past) : lines'[p + 1] = lines[p + 1]
         /\ lines'[Len(lines')] = line
    BY <2>4, <2>8, <2>9
  <2>11. line.snapshot = Snapshot(frames', stack', result', state')
    BY <2>2
  <2>12. Shape'
    BY <1>6, <2>1, <2>2, <2>4, <2>7, <2>8, <2>10, <2>11 DEF Shape
  <2> QED BY <1>4, <1>5, <2>5, <2>6, <2>12 DEF TraceInv
<1> QED BY <1>8, <1>9, <1>10 DEF RunTraced

\* Every step, and the invariant of the recording.
LEMMA TraceNextInv ==
  ASSUME TraceInv, [TraceNext]_allVars
  PROVE  TraceInv'
<1>1. CASE TraceNext
  <2>1. CASE Replay(FALSE, 0)
    BY <2>1, ReplayInv
  <2>2. ASSUME NEW target \in Targets, Replay(TRUE, target)
        PROVE  TraceInv'
    BY <2>2, ReplayInv
  <2> QED BY <1>1, <2>1, <2>2, BeginInv, InstallHooksInv, ResumeInv, RunTracedInv, WriteInv
          DEF TraceNext
<1>2. CASE UNCHANGED allVars
  <2>1. /\ UNCHANGED vars /\ recorder' = recorder /\ lines' = lines /\ exitCode' = exitCode
        /\ file' = file /\ replay' = replay /\ past' = past
    BY <1>2 DEF allVars, traceVars
  <2>2. /\ Inv'
        /\ frames' = frames /\ stack' = stack /\ result' = result
        /\ state' = state /\ breakpoints' = breakpoints /\ pauseRequested' = pauseRequested
        /\ command' = command /\ phase' = phase /\ hooks' = hooks
        /\ nextHookSequence' = nextHookSequence
    BY <2>1, SessionUnchanged DEF TraceInv
  <2>3. Recording' /\ Codes'
    BY <2>1, <2>2 DEF TraceInv, Recording, Codes, Whole, Ended
  <2>4. Shape'
    BY <2>1, <2>2, ShapeKept DEF TraceInv
  <2>5. Replayed'
    BY <2>1 DEF TraceInv, Replayed, Parses, Shown
  <2> QED BY <2>2, <2>3, <2>4, <2>5 DEF TraceInv
<1> QED BY <1>1, <1>2

\* TraceInv holds while recording and replaying.
LEMMA TraceInvariant == TraceSpec => []TraceInv
<1>1. TraceInv /\ [TraceNext]_allVars => TraceInv'
  BY TraceNextInv
<1> QED BY InitTraceInv, <1>1, PTL DEF TraceSpec

-----------------------------------------------------------------------------
\* The lines of a finished trace, by their place: the start, the hooks' lines,
\* the stop.
LEMMA FinishedTrace ==
  ASSUME TraceInv, recorder = "written"
  PROVE  /\ Ended /\ phase # "after"
         /\ Len(past) \in Nat /\ Len(lines) = Len(past) + 2 /\ Sequence(lines)
         /\ DOMAIN lines = 1 .. (Len(past) + 2)
         /\ ~lines[1].numbered
         /\ lines[Len(lines)].event = "stop" /\ ~lines[Len(lines)].numbered
         /\ \A i \in 1 .. (Len(past) + 1) : lines[i].event # "stop"
         /\ \A i \in 2 .. (Len(past) + 1) :
              /\ lines[i].numbered
              /\ Len(past) <= SequenceLimit => lines[i].sequence = i - 2
<1>1. Ended /\ lines # <<>> /\ command = "none" /\ Shape
  BY DEF TraceInv, Recording
<1>2. phase # "after"
  BY <1>1 DEF TraceInv, Inv, ControlType
<1>3. /\ Sequence(lines) /\ Sequence(past) /\ Len(lines) = Len(past) + 2
      /\ Len(past) \in Nat /\ Len(lines) \in Nat /\ DOMAIN lines = 1 .. Len(lines)
      /\ ~lines[1].numbered /\ lines[1].event # "stop"
      /\ lines[Len(lines)].event = "stop" /\ ~lines[Len(lines)].numbered
      /\ \A p \in 1 .. Len(past) :
           /\ lines[p + 1].numbered /\ lines[p + 1].event # "stop"
           /\ Len(past) <= SequenceLimit => lines[p + 1].sequence = p - 1
  BY <1>1, LengthType DEF Shape
<1>4. ASSUME NEW i \in 2 .. (Len(past) + 1)
      PROVE  /\ lines[i].numbered /\ lines[i].event # "stop"
             /\ Len(past) <= SequenceLimit => lines[i].sequence = i - 2
  <2>1. i - 1 \in 1 .. Len(past) /\ (i - 1) + 1 = i /\ (i - 1) - 1 = i - 2
    BY <1>3, SMT
  <2>2. /\ lines[(i - 1) + 1].numbered /\ lines[(i - 1) + 1].event # "stop"
        /\ Len(past) <= SequenceLimit => lines[(i - 1) + 1].sequence = (i - 1) - 1
    BY <1>3, <2>1
  <2> QED BY <2>1, <2>2
<1>5. \A i \in 1 .. (Len(past) + 1) : i = 1 \/ i \in 2 .. (Len(past) + 1)
  BY <1>3, SMT
<1> QED BY <1>1, <1>2, <1>3, <1>4, <1>5

\* A line's number: a hook's own, the stop's that of the last hook.
NumberAt(i) ==
  IF i = 1 \/ Len(past) = 0 THEN 0
  ELSE IF i <= Len(past) + 1 THEN i - 2 ELSE Len(past) - 1

\* The number that the reader gives a line of a whole trace.
LEMMA NumberOfLine ==
  ASSUME TraceInv, recorder = "written", Len(past) <= SequenceLimit,
         NEW i \in 1 .. (Len(past) + 2)
  PROVE  CheckpointSequence(lines, i) = NumberAt(i)
<1> DEFINE n == Len(past)
           numbered == {j \in 1 .. i : lines[j].numbered}
<1>1. /\ n \in Nat /\ Len(lines) = n + 2 /\ ~lines[1].numbered /\ ~lines[n + 2].numbered
      /\ \A j \in 2 .. (n + 1) : lines[j].numbered /\ lines[j].sequence = j - 2
  BY FinishedTrace
<1>2. CASE i = 1 \/ n = 0
  <2>1. ASSUME NEW j \in 1 .. i
        PROVE  ~lines[j].numbered
    <3>1. j = 1 \/ j = n + 2
      BY <1>1, <1>2, SMT
    <3> QED BY <1>1, <3>1
  <2>2. numbered = {}
    BY <2>1
  <2> QED BY <1>2, <2>2 DEF CheckpointSequence, NumberAt
<1>3. CASE i # 1 /\ n # 0
  <2> DEFINE m == IF i <= n + 1 THEN i ELSE n + 1
  <2>1. m \in 2 .. (n + 1) /\ m \in 1 .. i
    BY <1>1, <1>3, SMT
  <2>2. m \in numbered
    BY <1>1, <2>1
  <2>3. ASSUME NEW k \in numbered
        PROVE  k <= m
    <3>1. k # n + 2 /\ k \in 1 .. i
      BY <1>1, <2>3
    <3> QED BY <1>1, <3>1, SMT
  <2>4. \A j \in numbered : (\A k \in numbered : k <= j) => j = m
    <3>1. \A j \in numbered : j \in 1 .. i
      OBVIOUS
    <3> HIDE DEF numbered
    <3>2. ASSUME NEW j \in numbered, \A k \in numbered : k <= j
          PROVE  j = m
      <4>1. m <= j /\ j <= m /\ j \in 1 .. i
        BY <2>2, <2>3, <3>1, <3>2
      <4> QED BY <1>1, <2>1, <4>1, SMT
    <3> QED BY <3>2
  <2> HIDE DEF numbered, m
  <2>5. (CHOOSE j \in numbered : \A k \in numbered : k <= j) = m /\ numbered # {}
    BY <2>2, <2>3, <2>4
  <2>6. CheckpointSequence(lines, i) = lines[m].sequence
    BY <2>5 DEF CheckpointSequence, numbered
  <2>7. lines[m].sequence = m - 2
    BY <1>1, <2>1
  <2>8. m - 2 = NumberAt(i)
    BY <1>1, <1>3, SMT DEF m, NumberAt
  <2> QED BY <2>6, <2>7, <2>8
<1> QED BY <1>2, <1>3

\* A replay scans to the line of the number asked for, to the stop from the
\* last number on.
LEMMA ScanOfTrace ==
  ASSUME TraceInv, recorder = "written", Len(past) <= SequenceLimit, NEW target \in Nat
  PROVE  Scan(lines, target) = IF target < Len(past) - 1 THEN target + 2 ELSE Len(past) + 2
<1> DEFINE n == Len(past)
           at == IF target < n - 1 THEN target + 2 ELSE n + 2
           beyond == {i \in DOMAIN lines : CheckpointSequence(lines, i) > target}
           before == {i \in DOMAIN lines : \A j \in beyond : i < j}
<1>1. n \in Nat /\ DOMAIN lines = 1 .. (n + 2)
  BY FinishedTrace
<1>2. \A i \in 1 .. (n + 2) : CheckpointSequence(lines, i) > target <=> i > at
  <2>1. \A i \in 1 .. (n + 2) : NumberAt(i) > target <=> i > at
    BY <1>1, SMT DEF NumberAt
  <2> QED BY <2>1, NumberOfLine
<1>3. at \in 1 .. (n + 2)
  BY <1>1, SMT
<1> HIDE DEF at
<1>4. beyond = {i \in 1 .. (n + 2) : i > at}
  BY <1>1, <1>2
<1> HIDE DEF beyond
<1>5. at \in before
  BY <1>1, <1>3, <1>4
<1>6. \A i \in before : i \in 1 .. (n + 2) /\ i <= at
  <2> TAKE i \in before
  <2>1. i \in 1 .. (n + 2) /\ ~(i \in beyond /\ i < i)
    BY <1>1
  <2>2. i \in beyond => i < i
    OBVIOUS
  <2>3. ~(i < i)
    BY <2>1, SMT
  <2>4. ~(i > at)
    BY <1>4, <2>1, <2>2, <2>3
  <2> QED BY <1>1, <1>3, <2>1, <2>4, SMT
<1> HIDE DEF before
<1>7. \A i \in before : (\A j \in before : j <= i) => i = at
  <2>1. ASSUME NEW i \in before, \A j \in before : j <= i
        PROVE  i = at
    <3>1. at <= i /\ i <= at /\ i \in 1 .. (n + 2)
      BY <1>5, <1>6, <2>1
    <3> QED BY <1>1, <1>3, <3>1, SMT
  <2> QED BY <2>1
<1>8. (CHOOSE i \in before : \A j \in before : j <= i) = at /\ before # {}
  BY <1>5, <1>6, <1>7
<1>9. Scan(lines, target) = at
  BY <1>8 DEF Scan, before, beyond
<1> QED BY <1>9 DEF at

-----------------------------------------------------------------------------
\* A replay shows a line of the file, also of a file that has lost its end.
LEMMA ScanInFile ==
  ASSUME NEW read, Sequence(read), read # <<>>, NEW target
  PROVE  Scan(read, target) \in 1 .. Len(read)
<1> DEFINE beyond == {i \in DOMAIN read : CheckpointSequence(read, i) > target}
           before == {i \in DOMAIN read : \A j \in beyond : i < j}
<1>1. Len(read) \in Nat \ {0} /\ DOMAIN read = 1 .. Len(read)
  BY LengthType, SMT
<1>2. before \subseteq 1 .. Len(read)
  BY <1>1
<1> HIDE DEF beyond
<1>3. Scan(read, target)
        = IF before = {} THEN 1 ELSE CHOOSE i \in before : \A j \in before : j <= i
  BY DEF Scan, beyond
<1> HIDE DEF before
<1>4. CASE before = {}
  BY <1>1, <1>3, <1>4, SMT
<1>5. CASE before # {}
  <2>1. before \in SUBSET Nat /\ \A i \in before : i <= Len(read)
    BY <1>1, <1>2, SMT
  <2>2. \E i \in before : \A j \in before : j <= i
    BY <1>1, <1>5, <2>1, LargestNatural
  <2>3. Scan(read, target) \in before
    BY <1>3, <1>5, <2>2
  <2> QED BY <1>2, <2>3
<1> QED BY <1>4, <1>5

\* A replay returns something other than 0 only for a trace that holds the
\* program's exit.
LEMMA MirrorsOnlyExits ==
  ASSUME TraceInv, replay.ok, replay.exitCode # 0
  PROVE  ~replay.explicit /\ state = "Exited" /\ file.lines = lines
<1>1. recorder = "written" /\ Parses(file) /\ lines # <<>>
  BY DEF TraceInv, Recording, Replayed
<1>2. PICK target : replay = Shown(FALSE, target) \/ replay = Shown(TRUE, target)
  BY DEF TraceInv, Replayed
<1> DEFINE at == Scan(file.lines, target)
<1>3. /\ ~replay.explicit
      /\ file.lines[at].event = "stop" /\ file.lines[at].reason = "Exit"
  BY <1>2 DEF Shown, Mirrored
<1>4. /\ Ended /\ Len(past) \in Nat /\ Len(lines) = Len(past) + 2 /\ Sequence(lines)
      /\ \A i \in 1 .. (Len(past) + 1) : lines[i].event # "stop"
  BY <1>1, FinishedTrace
<1>5. file.lines # <<>>
  BY <1>1 DEF Parses
<1>6. ASSUME NEW k \in 0 .. (Len(lines) - 1), file.lines = SubSeq(lines, 1, k)
      PROVE  FALSE
  <2>1. PICK S : lines \in Seq(S)
    BY <1>4 DEF Sequence
  <2>2. /\ SubSeq(lines, 1, k) \in Seq(S) /\ Len(SubSeq(lines, 1, k)) = k
        /\ \A i \in 1 .. k : SubSeq(lines, 1, k)[i] = lines[i]
    BY <1>4, <2>1, SMT
  <2>3. at \in 1 .. k
    BY <1>5, <1>6, <2>2, ScanInFile DEF Sequence
  <2>4. at \in 1 .. (Len(past) + 1)
    BY <1>4, <2>3, SMT
  <2> HIDE DEF at
  <2> QED BY <1>3, <1>4, <1>6, <2>2, <2>3, <2>4
<1>7. Whole
  BY <1>1, <1>6 DEF TraceInv, Codes
<1>8. file.lines = lines
  BY <1>7 DEF Whole
<1>9. at = Len(lines)
  <2>1. at \in 1 .. Len(lines)
    BY <1>1, <1>4, <1>8, ScanInFile
  <2>2. ~(at \in 1 .. (Len(past) + 1))
    BY <1>3, <1>4, <1>8
  <2> HIDE DEF at
  <2> QED BY <1>4, <2>1, <2>2, SMT
<1>10. state = "Exited"
  BY <1>1, <1>3, <1>4, <1>8, <1>9 DEF TraceInv, Shape
<1> QED BY <1>3, <1>8, <1>10

\* Within the numbers a sequence number can hold, a replay without a number
\* returns what the recording did, and any other 0.
THEOREM ReplaysMirrorExits ==
  TraceSpec => [](Len(past) <= SequenceLimit => ReplayMirrorsExit)
<1>1. ASSUME TraceInv, Len(past) <= SequenceLimit, replay.ok, Whole, ~replay.explicit,
             state = "Exited"
      PROVE  replay.exitCode = exitCode
  <2>1. recorder = "written" /\ file.lines = lines /\ lines # <<>>
    BY <1>1 DEF TraceInv, Recording, Replayed, Whole
  <2>2. /\ Ended /\ Len(past) \in Nat /\ Len(lines) = Len(past) + 2
    BY <1>1, <2>1, FinishedTrace
  <2> DEFINE target == CheckpointSequence(lines, Len(lines))
  <2>3. replay = Shown(FALSE, target)
    <3>1. \A t : Shown(TRUE, t).explicit
      BY DEF Shown
    <3> QED BY <1>1, <2>1, <3>1 DEF TraceInv, Replayed
  <2>4. target = NumberAt(Len(lines))
    <3>1. Len(lines) \in 1 .. (Len(past) + 2)
      BY <2>2, SMT
    <3> QED BY <1>1, <2>1, <3>1, NumberOfLine
  <2> HIDE DEF target
  <2>5. target \in Nat /\ ~(target < Len(past) - 1)
    BY <2>2, <2>4, SMT DEF NumberAt
  <2>6. Scan(lines, target) = Len(lines)
    BY <1>1, <2>1, <2>2, <2>5, ScanOfTrace
  <2>7. /\ lines[Len(lines)].event = "stop" /\ lines[Len(lines)].reason = "Exit"
        /\ lines[Len(lines)].snapshot = Snapshot(frames, stack, result, state)
    BY <1>1, <2>1, <2>2 DEF TraceInv, Shape
  <2>8. Snapshot(frames, stack, result, state).result = result
    BY DEF Snapshot
  <2>9. replay.exitCode = SignExtendUnbounded(result)
    BY <2>1, <2>3, <2>6, <2>7, <2>8 DEF Shown, Mirrored
  <2> QED BY <1>1, <2>1, <2>9 DEF TraceInv, Codes
<1>2. TraceInv => (Len(past) <= SequenceLimit => ReplayMirrorsExit)
  BY <1>1, MirrorsOnlyExits DEF ReplayMirrorsExit
<1> QED BY TraceInvariant, <1>2, PTL

\* Within the numbers a sequence number can hold, a replay of a whole trace
\* shows the program as it was at the hook event of the number asked for, and
\* at its end from the last number on.
THEOREM ReplaysRestoreThePast ==
  TraceSpec => [](Len(past) <= SequenceLimit => ReplayRestoresThePast)
<1>1. ASSUME TraceInv, Len(past) <= SequenceLimit, replay.ok, Whole, past # <<>>
      PROVE  LET number == IF replay.target >= Len(past) THEN Len(past) ELSE replay.target + 1 IN
             /\ replay.snapshot = Snapshot(past[number][1], past[number][2], past[number][3],
                                           replay.snapshot.state)
             /\ replay.sequence = number - 1
             /\ (replay.event = "stop") <=> (replay.target >= Len(past) - 1)
  <2> DEFINE n == Len(past)
             target == replay.target
             number == IF target >= n THEN n ELSE target + 1
             at == Scan(lines, target)
  <2>1. recorder = "written" /\ file.lines = lines /\ lines # <<>>
    BY <1>1 DEF TraceInv, Recording, Replayed, Whole
  <2>2. /\ Ended /\ phase # "after" /\ n \in Nat /\ Len(lines) = n + 2
        /\ lines[Len(lines)].event = "stop"
        /\ \A i \in 1 .. (n + 1) : lines[i].event # "stop"
    BY <1>1, <2>1, FinishedTrace
  <2>3. n # 0
    BY <1>1, LengthType DEF TraceInv, Shape
  <2>4. /\ target \in Nat
        /\ replay.snapshot = lines[at].snapshot
        /\ replay.event = lines[at].event
        /\ replay.sequence = CheckpointSequence(lines, at)
    <3>1. \A e, t : /\ Shown(e, t).target = t
                    /\ Shown(e, t).snapshot = lines[Scan(lines, t)].snapshot
                    /\ Shown(e, t).event = lines[Scan(lines, t)].event
                    /\ Shown(e, t).sequence = CheckpointSequence(lines, Scan(lines, t))
      BY <2>1 DEF Shown
    <3>2. PICK e, t : /\ replay = Shown(e, t)
                      /\ t \in Targets \/ t = CheckpointSequence(lines, Len(lines))
      BY <1>1, <2>1 DEF TraceInv, Replayed
    <3>3. CheckpointSequence(lines, Len(lines)) \in Nat
      <4>1. Len(lines) \in 1 .. (Len(past) + 2)
        BY <2>2, SMT
      <4>2. CheckpointSequence(lines, Len(lines)) = NumberAt(Len(lines))
        BY <1>1, <2>1, <4>1, NumberOfLine
      <4> QED BY <2>2, <4>1, <4>2, SMT DEF NumberAt
    <3>4. target = t /\ t \in Nat
      BY <3>1, <3>2, <3>3, TraceAssumption
    <3> QED BY <3>1, <3>2, <3>4
  <2> HIDE DEF target
  <2>5. at = IF target < n - 1 THEN target + 2 ELSE n + 2
    BY <1>1, <2>1, <2>4, ScanOfTrace
  <2>6. at \in 1 .. (n + 2)
    BY <2>2, <2>4, <2>5, SMT
  <2>7. CheckpointSequence(lines, at) = NumberAt(at)
    BY <1>1, <2>1, <2>6, NumberOfLine
  <2> HIDE DEF at
  <2>8. replay.sequence = number - 1
    BY <2>2, <2>3, <2>4, <2>5, <2>7, SMT DEF NumberAt
  <2>9. (replay.event = "stop") <=> (target >= n - 1)
    <3>1. CASE target < n - 1
      <4>1. at \in 1 .. (n + 1) /\ ~(target >= n - 1)
        BY <2>2, <2>4, <2>5, <3>1, SMT
      <4> QED BY <2>2, <2>4, <4>1
    <3>2. CASE ~(target < n - 1)
      <4>1. at = Len(lines) /\ target >= n - 1
        BY <2>2, <2>4, <2>5, <3>2, SMT
      <4> QED BY <2>2, <2>4, <4>1
    <3> QED BY <3>1, <3>2
  <2>10. replay.snapshot = Snapshot(past[number][1], past[number][2], past[number][3],
                                    replay.snapshot.state)
    <3>1. CASE target < n - 1
      <4>1. number \in 1 .. n /\ at = number + 1
        BY <2>2, <2>4, <2>5, <3>1, SMT
      <4>2. \A p \in 1 .. n :
              lines[p + 1].snapshot = Snapshot(past[p][1], past[p][2], past[p][3],
                                               lines[p + 1].snapshot.state)
        BY <1>1, <2>1 DEF TraceInv, Shape
      <4> HIDE DEF number
      <4> QED BY <2>4, <4>1, <4>2
    <3>2. CASE ~(target < n - 1)
      <4>1. number = n /\ at = Len(lines)
        BY <2>2, <2>3, <2>4, <2>5, <3>2, SMT
      <4>2. /\ past[n] = <<frames, stack, result>>
            /\ lines[Len(lines)].snapshot = Snapshot(frames, stack, result, state)
        BY <1>1, <2>1, <2>2 DEF TraceInv, Shape
      <4>3. Snapshot(frames, stack, result, state).state = state
        BY DEF Snapshot
      <4>4. past[n][1] = frames /\ past[n][2] = stack /\ past[n][3] = result
        BY <4>2
      <4> HIDE DEF number
      <4> QED BY <2>4, <4>1, <4>2, <4>3, <4>4
    <3> QED BY <3>1, <3>2
  <2> QED BY <2>8, <2>9, <2>10 DEF target
<1>2. TraceInv => (Len(past) <= SequenceLimit => ReplayRestoresThePast)
  BY <1>1 DEF ReplayRestoresThePast
<1> QED BY TraceInvariant, <1>2, PTL
=============================================================================
