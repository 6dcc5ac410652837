-------------------------- MODULE MCRegisterPasses --------------------------
(***************************************************************************)
(* Functions through all passes, and the allocator alone on live ranges    *)
(* that no function of this size has: four registers with ranges that      *)
(* nest, touch, follow and tie, one with a hole, one that ends before it   *)
(* starts.                                                                 *)
(***************************************************************************)
EXTENDS RegisterPasses

R(start, end) == [start |-> start, end |-> end]

Alone ==
  {{}, {R(0, 0)}, {R(0, 3)}, {R(1, 2)}, {R(1, 3)}, {R(3, 3)}, {R(0, 0), R(2, 2)},
   {R(1, 0)}}

MCRangeLists ==
  Alone \cup {{R(start, end)} : start \in 0 .. 30, end \in 0 .. 30}

I(op) == [op |-> op, imm |-> 0]
To(op, imm) == [op |-> op, imm |-> imm]

\* Every block of four, begun on an empty stack, with a return after it.
Short ==
  {<<a, b, c, d, I("ReturnVoid")>> :
     a \in {I("Push"), To("LoadLocal", 0)},
     b \in {I("Push"), I("Dup"), To("LoadLocal", 1), I("Unary")},
     c \in {I("Push"), I("Sub"), I("Dup"), To("StoreLocal", 0), I("Print")},
     d \in {I("Sub"), I("Div"), I("Pop"), I("Print"), To("StoreLocal", 1), I("Memory")}}

\* Two values go round a loop while a third is made and stored.
Loop ==
  <<I("Push"), I("Push"),
    I("Push"), To("JumpIfZero", 9),
    To("LoadLocal", 0), I("Push"), I("Mul"), To("Jump", 13),
    I("Sub"), I("Print"), I("ReturnVoid"), I("Pop"),
    To("StoreLocal", 0), To("Jump", 3)>>

\* The two ways of a branch leave a value each for the code that follows.
Join ==
  <<I("Push"), I("Push"), I("Push"), To("JumpIfZero", 9),
    I("Push"), To("StoreLocal", 0), I("Unary"), To("Jump", 11),
    I("Push"), I("Div"),
    I("Sub"), I("Return")>>

\* Two ways meet, and with a register or two no edge spills or reloads a value.
Diamond ==
  <<I("Push"), I("Push"), To("JumpIfZero", 8),
    I("Push"), To("StoreLocal", 0), I("Push"), To("Jump", 10),
    I("Push"), I("Unary"),
    I("Print"), I("Return")>>

\* Independent work of different latencies between barriers.
Latencies ==
  <<I("Push"), I("Push"), I("Sub"), To("LoadLocal", 0), I("Push"), I("Div"), I("Mul"),
    To("StoreLocal", 0), To("LoadLocal", 0), I("Push"), I("Dup"), I("Div"), I("Sub"),
    I("Print"), I("ReturnVoid")>>

\* With one register, the copy and the first value both get it.
Reused ==
  <<I("Push"), I("Push"), I("Sub"), I("Push"), I("Dup"), I("Print"), I("Print"),
    I("Print"), I("ReturnVoid")>>

\* Arguments, a result kept under the next call's arguments.
Calls ==
  <<I("Push"), I("Push"), I("Push"), To("Call", 2), I("Sub"), I("Push"), I("Dup"),
    To("CallVoid", 2), I("Dup"), I("Print"), I("Return")>>

\* A value left on the stack, one that only goes round, a jump past the end.
Leftover == <<I("Push"), To("Jump", 3), I("Push"), I("Return")>>
Endless == <<I("Push"), To("Jump", 2)>>
PastEnd == <<I("Push"), I("Push"), To("JumpIfZero", 5), I("Print")>>

\* What lowering refuses: underflow, an empty Dup, different depths, a bad jump.
Refused ==
  {<<I("Push"), I("Sub"), I("ReturnVoid")>>, <<I("Dup"), I("Return")>>,
   <<I("Push"), To("JumpIfZero", 4), I("Push"), I("Push"), I("Return")>>,
   <<To("Jump", 3)>>}

\* With two registers, the edge reloads one value, spills a second and moves a
\* third from one register to the other.
Turning ==
  <<I("Push"), I("Push"), I("Push"), To("Jump", 5),
    I("Pop"), To("CallVoid", 2), I("ReturnVoid")>>

\* With one register, the edge reloads the first value into the register of the
\* third, which it spills.
Crossing ==
  <<I("Push"), I("Push"), I("Pop"), I("Push"), To("Jump", 6),
    I("Sub"), I("Print"), I("ReturnVoid")>>

MCCodes ==
  Short \cup Refused \cup
  {Loop, Join, Diamond, Turning, Latencies, Reused, Calls, Leftover, Endless, PastEnd}

MCEdgeCodes == {Crossing}

MCGivenRanges ==
  {[v \in VirtualRegisters |-> IF v \in 0 .. 3 THEN given[v] ELSE {}] :
     given \in [0 .. 3 -> Alone]}
=============================================================================
