-------------------------------- MODULE Wasm --------------------------------
(***************************************************************************)
(* format/wasm/mod.rs: parse_module, the search for live functions, the    *)
(* scan of live bodies for dead regions, and the rebuilt Code section;     *)
(* then the rewritten module is executed beside the original one.          *)
(*                                                                         *)
(* A module is a record:                                                   *)
(*   imports   how many functions are imported; their indices come first   *)
(*   exports   the indices of exported functions                           *)
(*   start     a set with the start function, or empty                     *)
(*   elements  the segments, [items, indices] with items "functions" or    *)
(*             "expressions"                                               *)
(*   bodies    the bodies of the Code section, each a sequence of bytes    *)
(*   leb       how many bytes the size before each body takes              *)
(*   error     the section the parser fails in, or "none"                  *)
(* Body k belongs to function imports + k - 1.  Offsets in a body count    *)
(* from 0; the code adds the body's place in the file to both ends of a    *)
(* range and takes it off again.  Locals are empty (one byte 0).           *)
(***************************************************************************)
EXTENDS Excise, FiniteSets

CONSTANTS
  Modules,   \* the modules considered
  LEB_BASE   \* 128: what one LEB128 byte can hold

ASSUME WasmAssumption == LEB_BASE \in Nat \ {0, 1}

OpUnreachable == 0
OpNop == 1
OpBlock == 2
OpLoop == 3
OpIf == 4
OpElse == 5
OpEnd == 11
OpBr == 12
OpBrIf == 13
OpReturn == 15
OpCall == 16
OpCallIndirect == 17
OpConst == 65      \* i32.const
OpRefFunc == 210
OpBulk == 252      \* the prefix of memory.copy and memory.fill
BulkCopy == 10
Openers == {OpBlock, OpLoop, OpIf}

VARIABLES
  module,     \* the input
  pc,         \* the section or phase at work
  roots, call_graph, parsed,   \* what parse_module has found; bodies parsed
  visited, queue,              \* bfs_live
  k, pos, dead_start, depth,   \* scan_wasm_body_dead: body and loop state
  blocks,     \* the dead regions found, per body
  out,        \* the rebuilt entries [size, leb, body]
  section,    \* the rebuilt section's header [size, count]
  old, new,   \* both modules' bodies as the engine decodes them
  run         \* where both executions are: [f, ip, ip2]

vars == <<module, pc, roots, call_graph, parsed, visited, queue, k, pos,
          dead_start, depth, blocks, out, section, old, new, run>>
parse == <<roots, call_graph, parsed>>
bfs == <<visited, queue>>
scan == <<k, pos, dead_start, depth, blocks>>
build == <<out, section>>
exec == <<old, new, run>>

None == -1
Bodies == DOMAIN module.bodies
Index(b) == module.imports + b - 1
BodyOf(f) == f - module.imports + 1

(***************************************************************************)
(* Bytes.                                                                  *)
(***************************************************************************)
(* The byte at offset p of a body. *)
At(body, p) == body[p + 1]

(* skip_leb128: past the first byte without a continuation bit. *)
skip_leb128(body, p) ==
  LET ends == {q \in p..(Len(body) - 1) : At(body, q) < 128}
  IN  IF ends = {} THEN Len(body) ELSE Min(ends) + 1

(* skip_block_type: the empty type, a value type or a type index. *)
skip_block_type(body, p) ==
  CASE p >= Len(body) -> p
    [] p < Len(body) /\ (At(body, p) = 64 \/ At(body, p) \in 96..127) -> p + 1
    [] OTHER -> skip_leb128(body, p)

(* skip_locals, for a body without any. *)
skip_locals(body) == skip_leb128(body, 0)

(* skip_wasm_instr.  Opcodes it has no entry for count as one byte, and   *)
(* of a prefixed instruction only the second opcode is skipped.           *)
skip_wasm_instr(body, p) ==
  LET op == At(body, p)
  IN  CASE op \in Openers -> skip_block_type(body, p + 1)
        [] op \in {OpBr, OpBrIf, OpCall, OpConst, OpBulk} -> skip_leb128(body, p + 1)
        [] op = OpCallIndirect -> skip_leb128(body, skip_leb128(body, p + 1))
        [] OTHER -> p + 1

(* write_leb128_u32: how many bytes it takes. *)
leb_len(val) == IF val < LEB_BASE THEN 1
                ELSE IF val < LEB_BASE * LEB_BASE THEN 2 ELSE 3

(***************************************************************************)
(* The engine's view of a body: instructions with all their operands.      *)
(***************************************************************************)
(* Where the instruction at p really ends. *)
InstrEnd(body, p) ==
  LET op == At(body, p)
  IN  CASE op = OpBulk /\ p + 1 < Len(body) ->
             p + (IF At(body, p + 1) = BulkCopy THEN 4 ELSE 3)
        [] op = OpRefFunc -> skip_leb128(body, p + 1)
        [] OTHER -> skip_wasm_instr(body, p)

(* The instructions of a body, each [op, arg]. *)
Decode(body) ==
  LET from[p \in 0..(Len(body) + 4)] ==
        IF p >= Len(body) THEN << >>
        ELSE << [op |-> At(body, p),
                 arg |-> IF p + 1 < Len(body) /\ InstrEnd(body, p) > p + 1
                         THEN At(body, p + 1) ELSE 0] >> \o from[InstrEnd(body, p)]
  IN  from[skip_locals(body)]

(* How deep instruction i is nested: 1 for the function itself. *)
Level(ins, i) ==
  1 + Cardinality({j \in 1..(i - 1) : ins[j].op \in Openers})
    - Cardinality({j \in 1..(i - 1) : ins[j].op = OpEnd})

(* The opener of the l-th block around i (l = 0 is the innermost), or 0   *)
(* for the function.                                                      *)
Opener(ins, i, l) ==
  LET lv == Level(ins, i) - l
      opens == {j \in 1..(i - 1) : ins[j].op \in Openers /\ Level(ins, j) + 1 = lv}
  IN  IF opens = {} THEN 0 ELSE Max(opens)

(* Blocks close properly, the last instruction closes the function, and   *)
(* every else is in an if.                                                *)
WellNested(ins) ==
  /\ Len(ins) > 0
  /\ \A i \in DOMAIN ins : Level(ins, i) >= 1
  /\ {i \in DOMAIN ins : ins[i].op = OpEnd /\ Level(ins, i) = 1} = {Len(ins)}
  /\ \A i \in DOMAIN ins :
       ins[i].op = OpElse => Opener(ins, i, 0) \in {j \in DOMAIN ins : ins[j].op = OpIf}

(* Where a block opened at j ends; j = 0 is the function. *)
Closer(ins, j) ==
  LET lv == IF j = 0 THEN 1 ELSE Level(ins, j) + 1
  IN  Min({i \in (j + 1)..Len(ins) : ins[i].op = OpEnd /\ Level(ins, i) = lv})

ElseOf(ins, j) ==
  {i \in (j + 1)..Closer(ins, j) : ins[i].op = OpElse /\ Level(ins, i) = Level(ins, j) + 1}

(* Where execution can go from i; the choice of a conditional is its       *)
(* number, so that both modules choose alike.                             *)
Succ(ins, i) ==
  LET op == ins[i].op
      label == Opener(ins, i, ins[i].arg)
      jump == IF label # 0 /\ ins[label].op = OpLoop THEN label ELSE Closer(ins, label)
  IN  CASE op \in {OpUnreachable, OpReturn} -> << >>
        [] op = OpBr -> <<jump>>
        [] op = OpBrIf -> <<jump, i + 1>>
        [] op = OpIf -> <<i + 1, IF ElseOf(ins, i) = {} THEN Closer(ins, i)
                                 ELSE Min(ElseOf(ins, i)) + 1>>
        [] op = OpElse -> <<Closer(ins, Opener(ins, i, 0))>>
        [] i = Len(ins) -> << >>
        [] OTHER -> <<i + 1>>

(***************************************************************************)
(* parse_module: one action per payload, in the order of the format.  An   *)
(* error outside exports and elements gives up, and nothing is changed.    *)
(***************************************************************************)
Init ==
  /\ module \in Modules
  /\ pc = "import"
  /\ roots = {} /\ call_graph = << >> /\ parsed = 0
  /\ visited = {} /\ queue = << >>
  /\ k = 1 /\ pos = None /\ dead_start = None /\ depth = 0
  /\ blocks = [b \in DOMAIN module.bodies |-> << >>]
  /\ out = << >> /\ section = [size |-> None, count |-> None]
  /\ old = << >> /\ new = << >> /\ run = [f |-> None, ip |-> 0, ip2 |-> 0]

(* The parser fails: analyze_wasm returns empty and no section is rebuilt. *)
ParseFails ==
  /\ pc \in {"import", "code"} /\ module.error = pc
  /\ pc' = "refused"
  /\ UNCHANGED <<module, parse, bfs, scan, build, exec>>

ImportSection ==
  /\ pc = "import" /\ module.error # "import"
  /\ pc' = "export"
  /\ UNCHANGED <<module, parse, bfs, scan, build, exec>>

ExportSection ==
  /\ pc = "export"
  /\ roots' = roots \union module.exports
  /\ pc' = "start"
  /\ UNCHANGED <<module, call_graph, parsed, bfs, scan, build, exec>>

StartSection ==
  /\ pc = "start"
  /\ roots' = roots \union module.start
  /\ pc' = "element"
  /\ UNCHANGED <<module, call_graph, parsed, bfs, scan, build, exec>>

(* parse_elements: segments of indices; segments of expressions give none. *)
parse_elements ==
  UNION {module.elements[e].indices :
           e \in {d \in DOMAIN module.elements : module.elements[d].items = "functions"}}

ElementSection ==
  /\ pc = "element"
  /\ roots' = roots \union parse_elements
  /\ pc' = "code"
  /\ UNCHANGED <<module, call_graph, parsed, bfs, scan, build, exec>>

(* extract_calls: the operands of call; indirect calls name nothing. *)
extract_calls(body) ==
  LET ins == Decode(body)
  IN  {ins[i].arg : i \in {j \in DOMAIN ins : ins[j].op = OpCall}}

CodeSectionEntry ==
  /\ pc = "code" /\ module.error # "code"
  /\ parsed < Len(module.bodies)
  /\ parsed' = parsed + 1
  /\ call_graph' = Append(call_graph, extract_calls(module.bodies[parsed']))
  /\ UNCHANGED <<module, pc, roots, bfs, scan, build, exec>>

(* No function at all: analyze_wasm returns empty. *)
ParseDone ==
  /\ pc = "code" /\ module.error # "code"
  /\ parsed = Len(module.bodies)
  /\ pc' = IF module.bodies = << >> THEN "refused" ELSE "seed"
  /\ UNCHANGED <<module, parse, bfs, scan, build, exec>>

(***************************************************************************)
(* bfs_live: roots are queued in hash order, the callees of a function     *)
(* together.                                                               *)
(***************************************************************************)
BfsSeed ==
  /\ pc = "seed"
  /\ \E r \in roots \ visited :
       visited' = visited \union {r} /\ queue' = Append(queue, r)
  /\ UNCHANGED <<module, pc, parse, scan, build, exec>>

Callees(f) == IF BodyOf(f) \in DOMAIN call_graph THEN call_graph[BodyOf(f)] ELSE {}

(* A mutant: functions reached by a call are marked but not searched. *)
BfsStep_Roots ==
  /\ pc \in {"seed", "bfs"} /\ roots \subseteq visited
  /\ queue # << >>
  /\ LET found == Callees(Head(queue)) \ visited
     IN  /\ visited' = visited \union found
         /\ queue' = Tail(queue)
  /\ pc' = "bfs"
  /\ UNCHANGED <<module, parse, scan, build, exec>>

BfsStep ==
  /\ pc \in {"seed", "bfs"} /\ roots \subseteq visited
  /\ queue # << >>
  /\ LET found == Callees(Head(queue)) \ visited
     IN  /\ visited' = visited \union found
         /\ queue' = Tail(queue) \o SetToSeq(found)
  /\ pc' = "bfs"
  /\ UNCHANGED <<module, parse, scan, build, exec>>

BfsEnd ==
  /\ pc \in {"seed", "bfs"} /\ roots \subseteq visited
  /\ queue = << >>
  /\ pc' = "scan"
  /\ UNCHANGED <<module, parse, bfs, scan, build, exec>>

(* find_dead_functions *)
Dead(b) == Index(b) \notin visited

(***************************************************************************)
(* find_wasm_dead_blocks and scan_wasm_body_dead, one action per arm of    *)
(* the loop.                                                               *)
(***************************************************************************)
Body == module.bodies[k]
Op == At(Body, pos)
Scanning == pc = "scan" /\ k \in Bodies /\ pos # None /\ pos < Len(Body)
InDead == dead_start # None

SkipDead ==
  /\ pc = "scan" /\ k \in Bodies /\ pos = None
  /\ Dead(k)
  /\ k' = k + 1
  /\ UNCHANGED <<module, pc, parse, bfs, pos, dead_start, depth, blocks, build, exec>>

ScanBody ==
  /\ pc = "scan" /\ k \in Bodies /\ pos = None
  /\ ~Dead(k)
  /\ pos' = skip_locals(Body) /\ dead_start' = None /\ depth' = 0
  /\ UNCHANGED <<module, pc, parse, bfs, k, blocks, build, exec>>

(* A mutant: blocks that open inside a region are not counted. *)
ScanOpen_Flat ==
  /\ Scanning /\ Op \in Openers
  /\ depth' = IF InDead THEN depth ELSE depth + 1
  /\ pos' = skip_block_type(Body, pos + 1)
  /\ UNCHANGED <<module, pc, parse, bfs, k, dead_start, blocks, build, exec>>

ScanOpen ==
  /\ Scanning /\ Op \in Openers
  /\ depth' = depth + 1
  /\ pos' = skip_block_type(Body, pos + 1)
  /\ UNCHANGED <<module, pc, parse, bfs, k, dead_start, blocks, build, exec>>

(* A mutant: a region of any length is taken. *)
EndRegion_Any(p) == [blocks EXCEPT ![k] = Append(@, <<dead_start, p>>)]

(* A region ends; shorter ones than two bytes are not worth removing. *)
EndRegion(p) == IF p - dead_start >= 2
                THEN [blocks EXCEPT ![k] = Append(@, <<dead_start, p>>)] ELSE blocks

(* A mutant: an else is looked at again and again. *)
ScanElse_Stay ==
  /\ Scanning /\ Op = OpElse
  /\ UNCHANGED vars

ScanElse ==
  /\ Scanning /\ Op = OpElse
  /\ IF InDead /\ depth = 0
     THEN blocks' = EndRegion(pos) /\ dead_start' = None
     ELSE UNCHANGED <<blocks, dead_start>>
  /\ pos' = pos + 1
  /\ UNCHANGED <<module, pc, parse, bfs, k, depth, build, exec>>

ScanEnd ==
  /\ Scanning /\ Op = OpEnd
  /\ IF InDead /\ depth = 0
     THEN blocks' = EndRegion(pos) /\ dead_start' = None /\ depth' = depth
     ELSE /\ depth' = IF depth > 0 THEN depth - 1 ELSE 0
          /\ UNCHANGED <<blocks, dead_start>>
  /\ pos' = pos + 1
  /\ UNCHANGED <<module, pc, parse, bfs, k, build, exec>>

Terminators == {OpUnreachable, OpReturn, OpBr}

ScanTerminator ==
  /\ Scanning /\ ~InDead /\ Op \in Terminators
  /\ pos' = skip_wasm_instr(Body, pos)
  /\ dead_start' = pos'
  /\ UNCHANGED <<module, pc, parse, bfs, k, depth, blocks, build, exec>>

ScanInstr ==
  /\ Scanning /\ Op \notin Openers \union {OpElse, OpEnd}
  /\ InDead \/ Op \notin Terminators
  /\ pos' = skip_wasm_instr(Body, pos)
  /\ UNCHANGED <<module, pc, parse, bfs, k, dead_start, depth, blocks, build, exec>>

ScanBodyDone ==
  /\ pc = "scan" /\ k \in Bodies /\ pos # None /\ pos >= Len(Body)
  /\ k' = k + 1 /\ pos' = None
  /\ UNCHANGED <<module, pc, parse, bfs, dead_start, depth, blocks, build, exec>>

(* With nothing dead the file is left as it is. *)
ScanDone ==
  /\ pc = "scan" /\ k \notin Bodies
  /\ pc' = IF \E b \in Bodies : Dead(b) \/ blocks[b] # << >> THEN "build" ELSE "refused"
  /\ k' = 1
  /\ UNCHANGED <<module, parse, bfs, pos, dead_start, depth, blocks, build, exec>>

(***************************************************************************)
(* reassemble_wasm: rebuild_code_section entry by entry.                   *)
(***************************************************************************)
EntrySize(e) == e.leb + Len(e.body)
Original(b) == [size |-> Len(module.bodies[b]), leb |-> module.leb[b],
                body |-> module.bodies[b]]
Minimal == [size |-> 3, leb |-> 1, body |-> <<0, OpUnreachable, OpEnd>>]
Emit(e) ==
  /\ out' = Append(out, e)
  /\ k' = k + 1
  /\ UNCHANGED <<module, pc, parse, bfs, pos, dead_start, depth, blocks, section, exec>>

(* emit_dead_func: a body that traps, unless the entry is no longer.      *)
emit_dead_func ==
  /\ pc = "build" /\ k \in Bodies /\ Dead(k)
  /\ Emit(IF EntrySize(Original(k)) <= 4 THEN Original(k) ELSE Minimal)

(* build_block_ranges: the dead ranges inside the body, in order. *)
block_ranges(b) == blocks[b]

EmitCompacted ==
  /\ pc = "build" /\ k \in Bodies /\ ~Dead(k) /\ block_ranges(k) # << >>
  /\ LET body == excise_ranges(Body, block_ranges(k))
     IN  Emit([size |-> Len(body), leb |-> leb_len(Len(body)), body |-> body])

EmitVerbatim ==
  /\ pc = "build" /\ k \in Bodies /\ ~Dead(k) /\ block_ranges(k) = << >>
  /\ Emit(Original(k))

ContentSize(entries) ==
  leb_len(Len(entries)) + FoldLeft(LAMBDA sum, e : sum + EntrySize(e), 0, entries)

wrap_code_section ==
  /\ pc = "build" /\ k \notin Bodies
  /\ section' = [size |-> ContentSize(out), count |-> Len(out)]
  /\ pc' = "load"
  /\ UNCHANGED <<module, parse, bfs, scan, out, exec>>

(***************************************************************************)
(* The engine loads the rewritten module, and runs it and the original in  *)
(* step.  Execution enters at an export, the start function or a function  *)
(* of a table.                                                             *)
(***************************************************************************)
(* What the engine reads behind the size of each entry: with a wrong size  *)
(* it would cut into the next one.                                         *)
EngineBody(e) == IF e.size = Len(e.body) THEN Decode(e.body) ELSE << >>

Load ==
  /\ pc = "load"
  /\ old' = [b \in Bodies |-> Decode(module.bodies[b])]
  /\ new' = [b \in DOMAIN out |-> EngineBody(out[b])]
  /\ pc' = IF \A b \in DOMAIN out : WellNested(new'[b]) THEN "run" ELSE "rejected"
  /\ UNCHANGED <<module, parse, bfs, scan, build, run>>

Entries ==
  module.exports \union module.start
    \union UNION {module.elements[e].indices : e \in DOMAIN module.elements}

Enter(f) ==
  /\ BodyOf(f) \in Bodies
  /\ run' = [f |-> f, ip |-> 1, ip2 |-> 1]
  /\ UNCHANGED <<module, pc, parse, bfs, scan, build, old, new>>

OldBody == old[BodyOf(run.f)]
NewBody == new[BodyOf(run.f)]

Start == pc = "run" /\ run.f = None /\ \E f \in Entries : Enter(f)

Call ==
  /\ pc = "run" /\ run.f # None
  /\ OldBody[run.ip].op = OpCall
  /\ Enter(OldBody[run.ip].arg)

Step ==
  /\ pc = "run" /\ run.f # None
  /\ LET ways == Succ(OldBody, run.ip)
         ways2 == Succ(NewBody, run.ip2)
     IN  \E c \in DOMAIN ways \intersect DOMAIN ways2 :
           run' = [run EXCEPT !.ip = ways[c], !.ip2 = ways2[c]]
  /\ UNCHANGED <<module, pc, parse, bfs, scan, build, old, new>>

Parsing == ParseFails \/ ImportSection \/ ExportSection \/ StartSection
             \/ ElementSection \/ CodeSectionEntry \/ ParseDone
Searching == BfsSeed \/ BfsStep \/ BfsEnd
ScanStep == SkipDead \/ ScanBody \/ ScanOpen \/ ScanElse \/ ScanEnd
              \/ ScanTerminator \/ ScanInstr \/ ScanBodyDone \/ ScanDone
Building == emit_dead_func \/ EmitCompacted \/ EmitVerbatim \/ wrap_code_section

Trim == Parsing \/ Searching \/ ScanStep \/ Building \/ Load
Next == Trim \/ Start \/ Call \/ Step

(* trim is a sequential program that is not stopped. *)
Spec == Init /\ [][Next]_vars /\ WF_vars(Trim)

-----------------------------------------------------------------------------
(* Every variable has its type; offsets of regions lie inside their body.  *)
TypeOK ==
  /\ pc \in {"import", "export", "start", "element", "code", "seed", "bfs", "scan",
             "build", "load", "run", "refused", "rejected"}
  /\ roots \union visited \subseteq 0..(module.imports + Len(module.bodies) - 1)
  /\ queue \in Seq(visited)
  /\ parsed = Len(call_graph) /\ parsed \in 0..Len(module.bodies)
  /\ k \in 1..(Len(module.bodies) + 1)
  /\ depth \in Nat
  /\ \A b \in Bodies : \A i \in DOMAIN blocks[b] :
       LET r == blocks[b][i]
       IN  0 < r[1] /\ r[1] + 2 <= r[2] /\ r[2] < Len(module.bodies[b])

(***************************************************************************)
(* The rewritten Code section is one an engine accepts: as many bodies as  *)
(* before under the same indices, each as long as its size says, with its  *)
(* blocks closed and nothing behind its last end (rebuild_code_section).   *)
(***************************************************************************)
StillValid ==
  /\ pc # "rejected"
  /\ pc \in {"load", "run"} => section.count = Len(module.bodies)

(***************************************************************************)
(* Whatever the module is made to execute, through exports, the start      *)
(* function, tables and calls, the rewritten module executes the same      *)
(* instructions: no live function is turned into a trap and no region that *)
(* control can enter is cut (bfs_live, scan_wasm_body_dead).               *)
(***************************************************************************)
SameExecution == run.f # None => OldBody[run.ip] = NewBody[run.ip2]

(* Every scan comes to the end of the bytes it walks.                      *)
Termination == <>(pc \in {"refused", "run", "rejected"})
=============================================================================
