------------------------------- MODULE MCWasm -------------------------------
(***************************************************************************)
(* Modules for Wasm: one set varies the body of an exported function, the  *)
(* other one the calls, exports, tables and imports around short bodies.   *)
(***************************************************************************)
EXTENDS Wasm, TLC

CONSTANTS MaxInstrs   \* instructions in a varied body, its last end not counted

(* Instructions as bytes: void blocks, single-byte operands. *)
Instr == {<<OpBlock, 64>>, <<OpLoop, 64>>, <<OpIf, 64>>, <<OpElse>>,
          <<OpEnd>>, <<OpBr, 0>>, <<OpBrIf, 0>>, <<OpReturn>>, <<OpConst, 0>>}

Bytes(seq) == <<0>> \o FlattenSeq(seq) \o <<OpEnd>>
ValidBodies(instrs) ==
  {b \in {Bytes(s) : s \in UNION {[1..n -> instrs] : n \in 0..MaxInstrs}} :
     WellNested(Decode(b))}

(* No terminator inside a block, unless it follows one of the function's  *)
(* own level and so is dead already.                                      *)
TerminatorsOutside(ins) ==
  \A i \in DOMAIN ins :
    (ins[i].op \in {OpUnreachable, OpReturn, OpBr} /\ Level(ins, i) > 1) =>
      \E j \in 1..(i - 1) : ins[j].op \in {OpUnreachable, OpReturn, OpBr} /\ Level(ins, j) = 1

ModuleOf(bodies, imports, exports, start, elements, leb, error) ==
  [imports |-> imports, exports |-> exports, start |-> start, elements |-> elements,
   bodies |-> bodies, leb |-> leb, error |-> error]

OneBody(b) == ModuleOf(<<b>>, 0, {0}, {}, << >>, <<leb_len(Len(b))>>, "none")

BodyModules ==
  {OneBody(b) : b \in {c \in ValidBodies(Instr) : TerminatorsOutside(Decode(c))}}

(* Three functions behind one import or none; each calls one or none.  The *)
(* third may be so short that its entry is kept.                           *)
Caller(c) ==
  <<0>> \o (IF c = None THEN <<OpNop, OpNop, OpCallIndirect, 0, 0>>
            ELSE <<OpCall, c, OpReturn, OpNop, OpNop>>) \o <<OpEnd>>

GraphModules ==
  {ModuleOf(<<Caller(c[1]), Caller(c[2]), last>>, imports, {imports}, start, elements,
            <<1, 2, 1>>, error) :
     last \in {<<0, OpEnd>>, <<0, OpConst, 0, OpNop, OpEnd>>},
     imports \in {0, 1}, c \in {None, 0, 1, 2, 3} \X {None, 0, 1, 2, 3},
     start \in {{}, {1}},
     elements \in {<< >>, << [items |-> "functions", indices |-> {1}] >>,
                   << [items |-> "functions", indices |-> {0}],
                      [items |-> "functions", indices |-> {2}] >>},
     error \in {"none", "import", "code"}}

Small == BodyModules \union
  {m \in GraphModules :
     (\A b \in 1..3 : extract_calls(m.bodies[b]) \subseteq 0..(m.imports + 2))
     /\ (m.error # "none" => m.start = {} /\ m.elements = << >> /\ m.imports = 1)}

(* Bodies with a terminator inside a block. *)
NestedModules == {OneBody(b) : b \in ValidBodies(Instr)}
=============================================================================
