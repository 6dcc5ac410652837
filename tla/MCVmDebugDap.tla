---------------------------- MODULE MCVmDebugDap ----------------------------
(***************************************************************************)
(* Programs with source maps for the DAP endpoint.  Line 1 is in two units,*)
(* line 2 has two columns, line 3 two instructions with one debugId and a  *)
(* synthetic entry, line 4 no instruction.                                 *)
(***************************************************************************)
EXTENDS VmDebugDap

I(op, imm, id) == [op |-> op, imm |-> imm, debugId |-> id]
Entry(id, line, column, unit, canonical) ==
  [debugId |-> id, line |-> line, column |-> column, unit |-> unit, canonical |-> canonical]

SourceMap ==
  << Entry(1, 1, 1, "a", TRUE), Entry(2, 2, 1, "a", TRUE), Entry(3, 2, 5, "a", TRUE),
     Entry(4, 3, 1, "b", TRUE), Entry(5, 3, 1, "b", FALSE), Entry(6, 1, 1, "b", TRUE),
     Entry(7, 4, 1, "a", TRUE) >>

\* A call between two functions, and an exit with a negative code.
Callee == << I("PushI32", 1, 4), I("StoreLocal", 0, 4), I("PushArgc", 0, 6), I("ReturnI64", 0, 5) >>
Exits == [entryIndex |-> 0, sourceMap |-> SourceMap,
          functions |-> << << I("Call", 1, 1), I("PushI32", 9, 2), I("ReturnI32", 0, 3) >>,
                           Callee >>]

\* The callee runs off its end.
FallsOff == [Exits EXCEPT !.functions[2] = SubSeq(Callee, 1, 3)]

\* start refuses it.
NoEntry == [Exits EXCEPT !.entryIndex = 2]

DapModules == {Exits, FallsOff, NoEntry}

At(line, column, unit) == [line |-> line, column |-> column, unit |-> unit]
DapSourceRequests ==
  { <<>>, <<At(1, 0, "")>>, <<At(2, 0, "a"), At(2, 5, "a")>>, <<At(3, 0, "b"), At(4, 0, "")>>,
    <<At(1, 1, "b"), At(16, 0, ""), At(18, 1, "")>> }
DapInstructionRequests ==
  { <<>>, <<<<0, 1>>>>, <<<<1, 1>>, <<0, 3>>, <<0, 2>>>>, <<<<2, 0>>>> }
DapBreakpoints == {0, 1} \X (0 .. 3)
DapFrameIds == {-1, 0, 1, 2, 3}
DapReferences == {-257, 0, 1, 256, 257, 258, 259, 513, 514, 769}
NoHooks == {{}}
=============================================================================
