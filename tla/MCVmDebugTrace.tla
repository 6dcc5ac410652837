--------------------------- MODULE MCVmDebugTrace ---------------------------
(***************************************************************************)
(* Programs to trace: one that calls and returns, one that faults, one     *)
(* that runs off its end, one refused, and one that leaves -1.             *)
(***************************************************************************)
EXTENDS VmDebugTrace

I(op, imm) == [op |-> op, imm |-> imm]
Main(functions) == [entryIndex |-> 0, functions |-> functions]

Returning == Main(<< << I("PushI32", 2), I("StoreLocal", 0), I("Call", 1),
                        I("LoadLocal", 0), I("SubI64", 0), I("ReturnI32", 0) >>,
                     << I("PushI64", 7), I("ReturnI64", 0) >> >>)
Faulting == Main(<< << I("PushI64", 3), I("StoreLocal", 0), I("CallVoid", 1) >>,
                    << I("PushI64", 1), I("PushI64", 0), I("DivU64", 0) >> >>)
RunsOff == Main(<< << I("PushI64", 4) >> >>)
AtOnce == Main(<< << >> >>)
NoEntry == [entryIndex |-> 1, functions |-> << <<I("ReturnVoid", 0)>> >>]
Negative == Main(<< << I("PushI32", 31), I("ReturnI32", 0) >> >>)

TracedModules == {Returning, Faulting, RunsOff, AtOnce, NoEntry}
NegativeModules == {Negative}
AllTargets == 0 .. 24
NoHooks == {{}}
=============================================================================
