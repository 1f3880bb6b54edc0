------------------------------- MODULE MCSccp -------------------------------
(***************************************************************************)
(* Functions of six instructions over one caller-saved and one             *)
(* callee-saved register with two-bit words, the "low byte" being one bit. *)
(***************************************************************************)
EXTENDS Sccp

Reg(r) == <<"reg", r>>
Imm(n) == <<"imm", n>>
NoTest == [cc |-> "lt", src |-> FLAGS, mask |-> 0]

Instr(flow, targets, callee, effs, test, dests) ==
  [flow |-> flow, targets |-> targets, callee |-> callee, effs |-> effs,
   test |-> test, dests |-> dests]

Plain(effs)       == Instr("Normal", {}, "none", effs, NoTest, {})
Effect(d, o, a, b) == [dst |-> d, op |-> o, a |-> a, b |-> b]
Mov(d, x)         == Plain(<<Effect(d, "mov", x, Imm(0))>>)
Add(d, n)         == Plain(<<Effect(d, "add", Reg(d), Imm(n)),
                             Effect(FLAGS, "clobber", Imm(0), Imm(0))>>)
Cmp(a, b)         == Plain(<<Effect(FLAGS, "sub", a, b)>>)
Test(a, b)        == Plain(<<Effect(FLAGS, "and", a, b)>>)
Nop               == Plain(<<>>)
CallTo(callee)    == Instr("Call", {0}, callee, <<>>, NoTest, {})
CallIndirect      == Instr("IndirectCall", {}, "none", <<>>, NoTest, {})
Jump(t)           == Instr("UnconditionalBranch", {t}, "none", <<>>, NoTest, {})
Branch(cc, t)     == Instr("ConditionalBranch", {t}, "none", <<>>,
                           [cc |-> cc, src |-> FLAGS, mask |-> 0], {})
BranchBits(cc, r, m, t) == Instr("ConditionalBranch", {t}, "none", <<>>,
                           [cc |-> cc, src |-> r, mask |-> m], {})
JumpIndirect(S)   == Instr("IndirectBranch", {}, "none", <<>>, NoTest, S)
Ret               == Instr("Return", {}, "none", <<>>, NoTest, {})
Trap              == Instr("Halt", {}, "none", <<>>, NoTest, {})

Functions(S1, S2, S3, S4, S5) ==
  {<<i1, i2, i3, i4, i5, Ret>> : i1 \in S1, i2 \in S2, i3 \in S3, i4 \in S4, i5 \in S5}

MCRegs        == {"r", "s", "flags"}
MCCallerSaved == {"r", "flags"}

\* Straight-line entry, a test, a branch over or out, a body, a way back.
DirectFunctions ==
  Functions({Mov("r", Imm(0)), Mov("r", Imm(2)), Mov("r", Reg("s")), Mov("s", Imm(0))},
            {Cmp(Reg("r"), Imm(0)), Cmp(Reg("s"), Reg("r")), Test(Reg("r"), Imm(1)),
             CallTo("other"), CallIndirect},
            {Branch("eq", 5), Branch("ne", 5), Branch("lt", 5), Branch("ne", 0),
             BranchBits("eq", "s", 1, 5), BranchBits("ne", "r", 2, 5)},
            {Add("r", 1), Mov("s", Imm(1)), Jump(6), CallTo("noreturn"),
             CallTo("noreturn_import"), Trap},
            {Branch("ne", 2), Jump(2), Add("r", 3), Branch("eq", 1)})

\* Indirect branches to the starts of blocks.
IndirectFunctions ==
  Functions({Mov("r", Imm(0)), Branch("eq", 3)}, {Branch("ne", 5), Nop},
            {JumpIndirect({1, 4, 0}), JumpIndirect({4, 6})},
            {Cmp(Reg("r"), Imm(0)), Jump(0)}, {Branch("ne", 1), Branch("eq", 3)})

\* One instruction more than the solver takes.
LongFunctions == {f \o <<Ret>> : f \in IndirectFunctions}

MCPrograms == DirectFunctions \cup IndirectFunctions \cup LongFunctions
=============================================================================
