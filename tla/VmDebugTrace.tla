---------------------------- MODULE VmDebugTrace ----------------------------
(***************************************************************************)
(* primevm --debug-trace and --debug-replay (src/src/primevm_main.cpp): a  *)
(* run of a program under every hook is collected line by line and written *)
(* to a file at its end; a later process reads the file and shows the      *)
(* checkpoint at a sequence number, or the last one.  --debug-json is the  *)
(* same run with its lines printed.                                        *)
(*                                                                         *)
(* A line is a record of what its JSON text holds.  The file may be cut    *)
(* anywhere: a write may fail, and the last buffer is flushed unchecked.   *)
(***************************************************************************)
EXTENDS VmDebugSession, SequencesExt

CONSTANTS Targets   \* the numbers --debug-replay-sequence is given

ASSUME TraceAssumption == Targets \subseteq Nat

VARIABLES
  recorder,         \* "idle", "starting", "running", "done" (not written), "written"
  lines,            \* traceLines
  exitCode,         \* of the recording process
  file,             \* [lines, cut]: what is on disk; cut: its last line is incomplete
  replay,           \* what the latest replay printed and returned
  past              \* the machine as it was at each hook event

traceVars == <<recorder, lines, exitCode, file, replay, past>>
allVars == <<vars, traceVars>>

RuntimeFailure == 3
NoReplay == [ok |-> FALSE, exitCode |-> 0]
NoFile == [lines |-> <<>>, cut |-> FALSE]

TraceInit ==
  /\ Init
  /\ recorder = "idle"
  /\ lines = <<>>
  /\ exitCode = 0
  /\ file = NoFile
  /\ replay = NoReplay
  /\ past = <<>>

-----------------------------------------------------------------------------
(***************************************************************************)
(* Recording.                                                              *)
(***************************************************************************)
\* encodeDebugSnapshotJson and encodeDebugSnapshotPayloadJson; the snapshot's
\* function, ip and depth are the call stack's.
Snapshot(frames_, stack_, result_, state_) ==
  [state |-> state_, result |-> result_, stack |-> stack_,
   callStack |-> [i \in DOMAIN frames_ |-> <<frames_[i].functionIndex, frames_[i].ip>>],
   locals |-> [i \in DOMAIN frames_ |-> frames_[i].locals]]

\* Only the lines of hooks have a sequence number and an immediate.
HookLine(event_, snapshot, imm) ==
  [event |-> event_.kind, numbered |-> TRUE, sequence |-> event_.sequence, reason |-> event_.kind,
   imm |-> imm, snapshot |-> snapshot]
PlainLine(event_, reason, snapshot) ==
  [event |-> event_, numbered |-> FALSE, sequence |-> 0, reason |-> reason,
   imm |-> 0, snapshot |-> snapshot]

Begin ==
  /\ recorder = "idle"
  /\ \/ \E m \in Modules :
          /\ Start(m)
          /\ recorder' = "starting"
          /\ lines' = <<PlainLine("session_start", "session_start",
                                  Snapshot(frames', stack', result', state'))>>
          /\ UNCHANGED exitCode
     \/ /\ \E m \in Modules : ~ValidEntry(m)
        /\ recorder' = "done"
        /\ exitCode' = RuntimeFailure
        /\ UNCHANGED <<vars, lines>>
  /\ UNCHANGED <<file, replay, past>>

InstallHooks ==
  /\ recorder = "starting"
  /\ SetHooks(HookKinds)
  /\ recorder' = "running"
  /\ UNCHANGED <<lines, exitCode, file, replay, past>>

Resume ==
  /\ recorder = "running"
  /\ Continue
  /\ UNCHANGED traceVars

\* The immediate of the instruction under way is in its before line; the lines
\* of calls and returns have none.
LineImmediate(kind) ==
  IF kind = "before" THEN Inst.imm
  ELSE IF kind \in {"after", "fault"}
    THEN lines[CHOOSE i \in DOMAIN lines : /\ lines[i].event = "before"
                                          /\ \A j \in DOMAIN lines : lines[j].event = "before" => j <= i].imm
  ELSE 0

\* What ends a recording.  OnExitOnly lets it go on after a fault.
OnExitOnly(reason) == reason = "Exit"
EndsRecording(reason) == reason \in {"Fault", "Exit"}

\* The stop line is appended when continueExecution returns; a fault and an
\* exit end the recording.
RunTraced ==
  /\ recorder = "running"
  /\ Run
  /\ LET snapshot == Snapshot(frames', stack', result', state') IN
     \/ /\ inHook'
        /\ lines' = Append(lines, HookLine(event', snapshot, LineImmediate(event'.kind)))
        /\ past' = Append(past, <<frames', stack', result'>>)
        /\ UNCHANGED <<recorder, exitCode>>
     \/ /\ ~inHook'
        /\ phase # "finish" \/ command' # "none"
        /\ UNCHANGED <<lines, past, recorder, exitCode>>
     \/ /\ phase = "finish"
        /\ command' = "none"
        /\ lines' = Append(lines, PlainLine("stop", stopReason', snapshot))
        /\ recorder' = IF EndsRecording(stopReason') THEN "done" ELSE recorder
        /\ exitCode' = CASE stopReason' = "Exit" -> SignExtendUnbounded(result')
                         [] stopReason' = "Fault" -> RuntimeFailure
                         [] OTHER -> exitCode
        /\ UNCHANGED past
  /\ UNCHANGED <<file, replay>>

\* writeTraceLines: what reaches the disk is the whole trace, or a part of it,
\* whether or not the failure is noticed.
Write ==
  /\ recorder = "done"
  /\ lines # <<>>
  /\ recorder' = "written"
  /\ \/ file' = [lines |-> lines, cut |-> FALSE] /\ UNCHANGED exitCode
     \/ /\ \E n \in 0 .. (Len(lines) - 1), cut \in BOOLEAN :
             file' = [lines |-> SubSeq(lines, 1, n), cut |-> cut]
        /\ exitCode' \in {exitCode, RuntimeFailure}
  /\ UNCHANGED <<vars, lines, replay, past>>

-----------------------------------------------------------------------------
(***************************************************************************)
(* Replay.                                                                 *)
(***************************************************************************)
\* parseNumber: words are written unsigned and read as int64_t.
Readable(word) == word < HeapAddressTag

ReadableLine(line) ==
  /\ Readable(line.imm)
  /\ Readable(line.snapshot.result)
  /\ \A i \in DOMAIN line.snapshot.stack : Readable(line.snapshot.stack[i])
  /\ \A i \in DOMAIN line.snapshot.locals : \A j \in DOMAIN line.snapshot.locals[i] :
       Readable(line.snapshot.locals[i][j])

\* parseTraceCheckpoints: a file is read whole or not at all, and one without a
\* line is refused.
Parses(f) ==
  /\ f.lines # <<>>
  /\ ~f.cut
  /\ \A i \in DOMAIN f.lines : ReadableLine(f.lines[i])

\* A line without a number goes with the last numbered one before it.
\* NotCarried gives it 0.
NotCarried(read, i) == read[i].sequence
CheckpointSequence(read, i) ==
  LET numbered == {j \in 1 .. i : read[j].numbered} IN
  IF numbered = {} THEN 0
  ELSE read[CHOOSE j \in numbered : \A k \in numbered : k <= j].sequence

\* The last checkpoint before the first one beyond the target.  ScanFirst takes
\* the first of several with the target's number, ScanBefore one before it.
ScanFirst(read, target) ==
  LET from == {i \in DOMAIN read : CheckpointSequence(read, i) >= target}
  IN IF from = {} THEN Len(read) ELSE CHOOSE i \in from : \A j \in from : i <= j
ScanBefore(read, target) ==
  LET from == {i \in DOMAIN read : CheckpointSequence(read, i) >= target}
      first == CHOOSE i \in from : \A j \in from : i <= j
  IN IF from = {} THEN Len(read) ELSE IF first = 1 THEN 1 ELSE first - 1
Scan(read, target) ==
  LET beyond == {i \in DOMAIN read : CheckpointSequence(read, i) > target}
      before == {i \in DOMAIN read : \A j \in beyond : i < j}
  IN IF before = {} THEN 1 ELSE CHOOSE i \in before : \A j \in before : j <= i

\* MirrorsAlways also when a sequence number was given.
MirrorsAlways(chosen, explicit) == chosen.event = "stop" /\ chosen.reason = "Exit"
Mirrored(chosen, explicit) == ~explicit /\ chosen.event = "stop" /\ chosen.reason = "Exit"

Replay(explicit, target_) ==
  /\ recorder = "written"
  /\ replay' =
       IF ~Parses(file) THEN [ok |-> FALSE, exitCode |-> RuntimeFailure]
       ELSE LET target == IF explicit THEN target_
                          ELSE CheckpointSequence(file.lines, Len(file.lines))
                chosen == file.lines[Scan(file.lines, target)]
            IN [ok |-> TRUE, explicit |-> explicit, target |-> target,
                sequence |-> CheckpointSequence(file.lines, Scan(file.lines, target)),
                event |-> chosen.event, reason |-> chosen.reason, snapshot |-> chosen.snapshot,
                exitCode |-> IF Mirrored(chosen, explicit)
                               THEN SignExtendUnbounded(chosen.snapshot.result) ELSE 0]
  /\ UNCHANGED <<vars, recorder, lines, exitCode, file, past>>

TraceNext ==
  \/ Begin \/ InstallHooks \/ Resume \/ RunTraced \/ Write
  \/ Replay(FALSE, 0)
  \/ \E target \in Targets : Replay(TRUE, target)

TraceSpec == TraceInit /\ [][TraceNext]_allVars

\* The recording process goes on by itself; nobody need replay.
FairTraceSpec ==
  TraceSpec /\ WF_allVars(InstallHooks \/ Resume \/ RunTraced \/ Write)
-----------------------------------------------------------------------------
(***************************************************************************)
(* Properties.                                                             *)
(***************************************************************************)
Whole == file = [lines |-> lines, cut |-> FALSE]

\* Replaying any sequence number of a whole trace shows the program as it was at
\* the hook event of that number, and at its end beyond the last one: a program
\* that ran off a function's end included (PrimeStruct.md:5625-5630).  The stop
\* is shown for the last event and beyond, and for no other.
ReplayRestoresThePast ==
  replay.ok /\ Whole /\ past # <<>> =>
    LET number == IF replay.target >= Len(past) THEN Len(past) ELSE replay.target + 1 IN
    /\ replay.snapshot = Snapshot(past[number][1], past[number][2], past[number][3],
                                  replay.snapshot.state)
    /\ replay.sequence = number - 1
    /\ (replay.event = "stop") <=> (replay.target >= Len(past) - 1)

\* A replay returns the traced program's exit code or 0, and 0 when the trace is
\* of a fault, of a moment before the end, or lost its end
\* (PrimeStruct.md:5631-5632).
ReplayMirrorsExit ==
  replay.ok =>
    /\ replay.exitCode # 0 => /\ ~replay.explicit
                              /\ state = "Exited"
                              /\ file.lines = lines
    /\ Whole /\ ~replay.explicit /\ state = "Exited" => replay.exitCode = exitCode

\* The recording of a program that ends is written.
RecordingEnds == recorder = "running" ~> recorder = "written"

\* PrimeStruct.md:5625 says that replay restores a deterministic checkpoint from
\* a captured trace; a whole trace with a word of the upper half of the range, as
\* every negative number is, cannot be read back.
TraceReplayable == recorder = "written" /\ Whole => Parses(file)
=============================================================================
