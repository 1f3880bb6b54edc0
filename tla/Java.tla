-------------------------------- MODULE Java --------------------------------
(***************************************************************************)
(* format/java: liveness of the methods of one class file, dead branches   *)
(* in the live ones, and the rebuilt class file; then the rewritten class  *)
(* is executed beside the original one.                                    *)
(*                                                                         *)
(* A class is a record:                                                    *)
(*   methods   a sequence of                                               *)
(*     [name, desc, flags   flags a subset of {"public", "protected"}      *)
(*      code                the bytes of the Code attribute, or << >>      *)
(*      align               code_offset modulo 4                           *)
(*      handlers            the exception table, [from, to, entry]         *)
(*      frames              the offsets a StackMapTable describes, {} if   *)
(*                          there is none                                  *)
(*      lines]              the offsets in a LineNumberTable, likewise     *)
(*   pool      the constant pool entries that calls name,                  *)
(*             [tag, class, name, desc]                                    *)
(*   valid     whether parse_classfile accepts the file                    *)
(* Offsets count from 0.  The code works with file offsets and takes       *)
(* code_offset off at the end; only the padding of a switch depends on it. *)
(***************************************************************************)
EXTENDS Excise, FiniteSets

CONSTANTS Classes   \* the classes considered

OpNop == 0
OpBipush == 16
OpIinc == 132
OpIfeq == 153
OpGoto == 167
OpTableswitch == 170
OpLookupswitch == 171
OpReturn == 177
OpInvokestatic == 184
OpInvokeinterface == 185
OpInvokedynamic == 186
OpAthrow == 191
OpWide == 196
OpGotoW == 200

(* Opcodes by how they are read: two-byte and four-byte distances, calls,  *)
(* instructions of two and of three bytes.                                 *)
Branches16 == (153..168) \union {198, 199}
Branches32 == {OpGotoW, 201}
Switches == {OpTableswitch, OpLookupswitch}
Invokes == {182, 183, OpInvokestatic, OpInvokeinterface}
TwoBytes == {OpBipush, 18, 169, 188} \union (21..25) \union (54..58)
ThreeBytes == Branches16 \union {17, 19, 20, OpIinc, 187, 189, 192, 193} \union (178..184)

VARIABLES
  class,      \* the input
  pc,         \* the phase
  visited, queue,   \* bfs_live
  dead,       \* the names find_dead_methods returns
  k,          \* the method at work
  blocks,     \* dead ranges per method
  out,        \* the methods written, with the lengths in front of their code
  count,      \* methods_count
  run         \* where both executions are: [m, ip, ip2], m a name and a desc

vars == <<class, pc, visited, queue, dead, k, blocks, out, count, run>>

Methods == DOMAIN class.methods
M(i) == class.methods[i]
None == -1
At(code, p) == code[p + 1]

(***************************************************************************)
(* Bytes and instruction lengths.                                          *)
(***************************************************************************)
Signed(v, bits) == IF v >= 2^(bits - 1) THEN v - 2^bits ELSE v
read_u16_be(code, p) == At(code, p) * 256 + At(code, p + 1)
read_i16_be(code, p) == Signed(read_u16_be(code, p), 16)
read_i32_be(code, p) ==
  Signed(At(code, p), 8) * 2^24 + At(code, p + 1) * 2^16 + read_u16_be(code, p + 2)
i16_bytes(v) == LET w == (v + 65536) % 65536 IN <<w \div 256, w % 256>>
i32_bytes(v) == (IF v < 0 THEN <<255, 255>> ELSE <<0, 0>>) \o i16_bytes(v)

Higher(a, b) == IF a >= b THEN a ELSE b

(* Where the operands of a switch at p start if its padding is reckoned    *)
(* from base.                                                              *)
SwitchOperands(p, base) == p + 1 + ((4 - ((base + 1) % 4)) % 4)

(* The values from low to high, but no more than max of them: halves are   *)
(* compared first, as the code computes with 64 bits.                      *)
Between(low, high, max) ==
  IF high < low THEN 0
  ELSE IF (high \div 2) - (low \div 2) > max THEN max
  ELSE Lower(high - low + 1, max)

(* How many jump entries a switch has, by the counts behind its default,   *)
(* but no more than fit into the code.                                     *)
SwitchCases(code, o) ==
  [table |-> IF o + 12 <= Len(code)
             THEN Between(read_i32_be(code, o + 4), read_i32_be(code, o + 8),
                          (Len(code) - o - 12) \div 4) ELSE None,
   lookup |-> IF o + 8 <= Len(code)
              THEN Lower(Higher(read_i32_be(code, o + 4), 0),
                         (Len(code) - o - 8) \div 8) ELSE None]

(* opcode_length; base is what the padding of a switch is reckoned from.   *)
opcode_length(code, p, base) ==
  LET op == At(code, p)
      o == SwitchOperands(p, base)
      n == SwitchCases(code, o)
  IN  CASE op \in TwoBytes -> 2
        [] op \in ThreeBytes -> 3
        [] op \in Branches32 \union {OpInvokeinterface, OpInvokedynamic} -> 5
        [] op = 197 -> 4
        [] op = OpWide -> IF p + 1 >= Len(code) THEN 2
                          ELSE IF At(code, p + 1) = OpIinc THEN 6 ELSE 4
        [] op = OpTableswitch ->
             IF n.table = None THEN 1 ELSE (o - p) + 12 + (4 * n.table)
        [] op = OpLookupswitch ->
             IF n.lookup = None THEN 1 ELSE (o - p) + 8 + (8 * n.lookup)
        [] OTHER -> 1

(* The offsets the scanners stop at, walking from 0: they pass the file    *)
(* offset as the base.                                                     *)
Stops(code, align) ==
  LET from[p \in 0..(Len(code) + 4096)] ==
        IF p >= Len(code) THEN << >>
        ELSE <<p>> \o from[p + opcode_length(code, p, p + align)]
  IN  from[0]

(***************************************************************************)
(* Calls.                                                                  *)
(***************************************************************************)
(* resolve_method_idx: the first method with the name and descriptor of a  *)
(* method reference, whatever class the reference names.                   *)
resolve_method_idx(idx) ==
  IF idx \in DOMAIN class.pool /\ class.pool[idx].tag \in {"Methodref", "InterfaceMethodref"}
  THEN {i \in Methods :
          /\ M(i).name = class.pool[idx].name /\ M(i).desc = class.pool[idx].desc
          /\ \A j \in 1..(i - 1) :
               M(j).name # class.pool[idx].name \/ M(j).desc # class.pool[idx].desc}
  ELSE {}

(* scan_bytecode_calls *)
scan_bytecode_calls(m) ==
  UNION {IF At(m.code, p) \in Invokes /\ p + 3 <= Len(m.code)
         THEN resolve_method_idx(read_u16_be(m.code, p + 1)) ELSE {} :
           p \in ToSet(Stops(m.code, m.align))}

(***************************************************************************)
(* Dead branches.                                                          *)
(***************************************************************************)
(* The jump offsets of a switch at p, in the order of its entries. *)
SwitchOffsets(code, p) ==
  LET o == SwitchOperands(p, p)
      n == SwitchCases(code, o)
  IN  CASE At(code, p) = OpTableswitch /\ n.table # None ->
             <<read_i32_be(code, o)>>
               \o [j \in 1..n.table |-> read_i32_be(code, o + 8 + (4 * j))]
        [] At(code, p) = OpLookupswitch /\ n.lookup # None ->
             <<read_i32_be(code, o)>>
               \o [j \in 1..n.lookup |-> read_i32_be(code, o + 4 + (8 * j))]
        [] OTHER -> << >>

(* Where the instruction at p can jump. *)
Jumps(code, p) ==
  LET op == At(code, p)
      off == CASE op \in Branches16 /\ p + 3 <= Len(code) -> <<read_i16_be(code, p + 1)>>
               [] op \in Branches32 /\ p + 5 <= Len(code) -> <<read_i32_be(code, p + 1)>>
               [] op \in Switches -> SwitchOffsets(code, p)
               [] OTHER -> << >>
  IN  [i \in DOMAIN off |-> p + off[i]]
JumpTargets(code, p) == ToSet(Jumps(code, p))

(* A mutant: the targets of conditional branches are forgotten. *)
collect_branch_targets_Goto(m) ==
  UNION {IF At(m.code, p) = OpIfeq THEN {} ELSE JumpTargets(m.code, p) :
           p \in ToSet(Stops(m.code, m.align))}

(* collect_branch_targets: jumps only, no exception handlers. *)
collect_branch_targets(m) ==
  UNION {JumpTargets(m.code, p) : p \in ToSet(Stops(m.code, m.align))}

Terminators == (172..177) \union {OpAthrow, OpGoto, OpGotoW}

(* A mutant: ranges of any length are kept. *)
DeadRange_Any(found, start, end) == Append(found, <<start, end>>)

(* A dead range is kept if it has two bytes at least. *)
DeadRange(found, start, end) ==
  IF end - start >= 2 THEN Append(found, <<start, end>>) ELSE found

(* scan_dead_in_method: from behind a terminator to the next target, or    *)
(* to the end.                                                             *)
scan_dead_in_method(m) ==
  LET targets == collect_branch_targets(m)
      size == Len(m.code)
      Visit(acc, p) ==
        LET in == acc.start # None /\ p \notin targets
            found == IF acc.start # None /\ ~in THEN DeadRange(acc.found, acc.start, p) ELSE acc.found
            next == p + opcode_length(m.code, p, p + m.align)
        IN  [found |-> found,
             start |-> IF in THEN acc.start
                       ELSE IF At(m.code, p) \in Terminators /\ next < size THEN next
                       ELSE None]
      last == FoldLeft(Visit, [found |-> << >>, start |-> None], Stops(m.code, m.align))
  IN  IF last.start = None THEN last.found ELSE DeadRange(last.found, last.start, size)

(***************************************************************************)
(* Compaction of one method.                                               *)
(***************************************************************************)
(* has_switch *)
has_switch(m) == \E p \in ToSet(Stops(m.code, m.align)) : At(m.code, p) \in Switches

(* patch_code_branches: every jump is given the distance between where its *)
(* ends will be.                                                           *)
patch_code_branches(code, ranges) ==
  LET New(p) == p - shift(p, ranges)
      Patched(p) ==
        CASE At(code, p) \in Branches16 /\ p + 3 <= Len(code) ->
               i16_bytes(New(p + read_i16_be(code, p + 1)) - New(p))
          [] At(code, p) \in Branches32 /\ p + 5 <= Len(code) ->
               i32_bytes(New(p + read_i32_be(code, p + 1)) - New(p))
          [] OTHER -> << >>
      stops == ToSet(Stops(code, 0))
      Owner(q) == CHOOSE p \in stops : p <= q /\ \A s \in stops : s <= q => s <= p
  IN  [i \in DOMAIN code |->
         LET p == Owner(i - 1)
         IN  IF (i - 1) - p \in DOMAIN Patched(p) THEN Patched(p)[(i - 1) - p]
             ELSE code[i]]

(* A mutant: stack maps are overlooked. *)
Compactable_Map(m) == m.handlers = << >> /\ ~has_switch(m)

(* compact_method_code bails out on handlers, switches and stack maps      *)
(* (has_stack_map).                                                        *)
Compactable(m) == m.handlers = << >> /\ ~has_switch(m) /\ m.frames = {}

(* rebuild_method_bytes: the new code between the unchanged rest, line     *)
(* numbers included, with code_length and the attribute's length adjusted. *)
(* The length leaves out attributes of the Code attribute.                 *)
AttributeLength(m) == 12 + Len(m.code) + (8 * Len(m.handlers))
Written(m, code) ==
  [m |-> [m EXCEPT !.code = code],
   code_length |-> Len(code),
   attr_length |-> AttributeLength(m) - (Len(m.code) - Len(code))]

compact_method_code(m, ranges) ==
  Written(m, excise_ranges(patch_code_branches(m.code, ranges), ranges))

(* The fallback: the dead ranges become NOPs. *)
NopFilled(m, ranges) ==
  [i \in DOMAIN m.code |->
     IF \E r \in ToSet(ranges) : i - 1 \in r[1]..(r[2] - 1) THEN OpNop ELSE m.code[i]]

(***************************************************************************)
(* analyze_java                                                            *)
(***************************************************************************)
Init ==
  /\ class \in Classes
  /\ pc = "parse"
  /\ visited = {} /\ queue = << >> /\ dead = {}
  /\ k = 1 /\ blocks = [i \in DOMAIN class.methods |-> << >>]
  /\ out = << >> /\ count = None
  /\ run = [m |-> << >>, ip |-> 0, ip2 |-> 0]

Root(i) == M(i).name \in {"main", "<init>", "<clinit>"} \/ M(i).flags # {}

(* parse_classfile refuses, or bfs_live starts: its roots are queued in    *)
(* hash order.                                                             *)
parse_classfile ==
  /\ pc = "parse"
  /\ IF class.valid /\ class.methods # << >>
     THEN pc' = "bfs" /\ \E s \in SetToSeqs({i \in Methods : Root(i)}) : queue' = s
     ELSE pc' = "unchanged" /\ UNCHANGED queue
  /\ UNCHANGED <<class, visited, dead, k, blocks, out, count, run>>

(* A method may be queued more than once before it is visited. *)
bfs_live ==
  /\ pc = "bfs" /\ queue # << >>
  /\ LET i == Head(queue)
     IN  IF i \in visited THEN visited' = visited /\ queue' = Tail(queue)
         ELSE /\ visited' = visited \union {i}
              /\ queue' = Tail(queue) \o SetToSeq(scan_bytecode_calls(M(i)) \ visited')
  /\ UNCHANGED <<class, pc, dead, k, blocks, out, count, run>>

(* find_dead_methods: a map keyed by name. *)
find_dead_methods ==
  /\ pc = "bfs" /\ queue = << >>
  /\ dead' = {M(i).name : i \in Methods \ visited}
  /\ pc' = "branches"
  /\ UNCHANGED <<class, visited, queue, k, blocks, out, count, run>>

(* find_java_dead_blocks, method by method. *)
find_dead_branches ==
  /\ pc = "branches" /\ k \in Methods
  /\ blocks' = IF k \in visited /\ M(k).name \notin dead
               THEN [blocks EXCEPT ![k] = scan_dead_in_method(M(k))] ELSE blocks
  /\ k' = k + 1
  /\ UNCHANGED <<class, pc, visited, queue, dead, out, count, run>>

BranchesDone ==
  /\ pc = "branches" /\ k \notin Methods
  /\ pc' = IF dead = {} /\ \A i \in Methods : blocks[i] = << >>
           THEN "unchanged" ELSE "write"
  /\ k' = 1
  /\ UNCHANGED <<class, visited, queue, dead, blocks, out, count, run>>

(***************************************************************************)
(* reassemble_java                                                         *)
(***************************************************************************)
DropMethod ==
  /\ pc = "write" /\ k \in Methods /\ M(k).name \in dead
  /\ k' = k + 1
  /\ UNCHANGED <<class, pc, visited, queue, dead, blocks, out, count, run>>

WriteMethod ==
  /\ pc = "write" /\ k \in Methods /\ M(k).name \notin dead
  /\ out' = Append(out,
       CASE blocks[k] = << >> -> Written(M(k), M(k).code)
         [] blocks[k] # << >> /\ Compactable(M(k)) -> compact_method_code(M(k), blocks[k])
         [] OTHER -> Written(M(k), NopFilled(M(k), blocks[k])))
  /\ k' = k + 1
  /\ UNCHANGED <<class, pc, visited, queue, dead, blocks, count, run>>

WriteCount ==
  /\ pc = "write" /\ k \notin Methods
  /\ count' = Cardinality({i \in Methods : M(i).name \notin dead})
  /\ pc' = "run"
  /\ UNCHANGED <<class, visited, queue, dead, k, blocks, out, run>>

(***************************************************************************)
(* The virtual machine runs both classes in step.  Execution enters at the *)
(* root methods; a call is also stepped over; inside a protected range     *)
(* any instruction may throw.                                              *)
(***************************************************************************)
(* The instructions of a method as the machine reads them. *)
Starts(code) == ToSet(Stops(code, 0))
Named(methods, m) == {x \in methods : <<x.name, x.desc>> = m}
OldMethod == CHOOSE x \in Named(ToSet(class.methods), run.m) : TRUE
NewMethods == {w.m : w \in ToSet(out)}
NewMethod == CHOOSE x \in Named(NewMethods, run.m) : TRUE

(* Where execution goes from p: the next instruction, the targets in order *)
(* of their cases, the handlers.                                           *)
Ways(m, p) ==
  LET op == At(m.code, p)
      next == p + opcode_length(m.code, p, p)
      thrown == SelectSeq(m.handlers, LAMBDA h : p \in h.from..(h.to - 1))
  IN  (IF op \in Terminators \union Switches THEN << >> ELSE <<next>>)
        \o Jumps(m.code, p) \o [i \in DOMAIN thrown |-> thrown[i].entry]

(* What an instruction is, apart from the distance it jumps. *)
Instruction(m, p) ==
  LET op == At(m.code, p)
  IN  IF op \in Branches16 \union Branches32 \union Switches THEN <<op>>
      ELSE Slice(m.code, p, p + opcode_length(m.code, p, p))

Enter(m) ==
  /\ run' = [m |-> m, ip |-> 0, ip2 |-> 0]
  /\ UNCHANGED <<class, pc, visited, queue, dead, k, blocks, out, count>>

Start ==
  /\ pc = "run" /\ run.m = << >>
  /\ \E i \in Methods : Root(i) /\ M(i).code # << >> /\ Enter(<<M(i).name, M(i).desc>>)

(* The entry a call names, and the method of this class it invokes; an     *)
(* invokedynamic runs the method its handle names.                         *)
Callee == class.pool[read_u16_be(OldMethod.code, run.ip + 1)]

Call ==
  /\ pc = "run" /\ run.m # << >>
  /\ At(OldMethod.code, run.ip) \in Invokes \union {OpInvokedynamic}
  /\ Callee.class = "this"
  /\ Enter(<<Callee.name, Callee.desc>>)

Step ==
  /\ pc = "run" /\ run.m # << >>
  /\ \E c \in DOMAIN Ways(OldMethod, run.ip) \intersect DOMAIN Ways(NewMethod, run.ip2) :
       run' = [run EXCEPT !.ip = Ways(OldMethod, run.ip)[c],
                          !.ip2 = Ways(NewMethod, run.ip2)[c]]
  /\ UNCHANGED <<class, pc, visited, queue, dead, k, blocks, out, count>>

Trim == parse_classfile \/ bfs_live \/ find_dead_methods \/ find_dead_branches
          \/ BranchesDone \/ DropMethod \/ WriteMethod \/ WriteCount
Next == Trim \/ Start \/ Call \/ Step

Spec == Init /\ [][Next]_vars

-----------------------------------------------------------------------------
(* Every variable has its type: the search stays inside the class, and     *)
(* dead ranges are in order and inside their method.                       *)
TypeOK ==
  /\ pc \in {"parse", "bfs", "branches", "write", "run", "unchanged"}
  /\ visited \union ToSet(queue) \subseteq Methods
  /\ dead \subseteq {M(i).name : i \in Methods}
  /\ k \in 1..(Len(class.methods) + 1)
  /\ Len(out) <= Len(class.methods)
  /\ \A i \in Methods : \A n \in DOMAIN blocks[i] :
       /\ 0 < blocks[i][n][1] /\ blocks[i][n][1] + 2 <= blocks[i][n][2]
       /\ blocks[i][n][2] <= Len(M(i).code)
       /\ n > 1 => blocks[i][n - 1][2] < blocks[i][n][1]

(***************************************************************************)
(* Whatever is executed, through public and special methods and the calls  *)
(* they make, the rewritten class has the method and runs the same         *)
(* instructions: no method that runs is dropped, no code that runs is cut  *)
(* or filled, and every jump lands where it did (bfs_live,                 *)
(* scan_dead_in_method, patch_code_branches).                              *)
(***************************************************************************)
SameExecution ==
  run.m # << >> =>
    /\ Named(NewMethods, run.m) # {}
    /\ run.ip2 < Len(NewMethod.code)
    /\ Instruction(OldMethod, run.ip) = Instruction(NewMethod, run.ip2)

(***************************************************************************)
(* The rewritten class passes the format checks: methods_count and lengths *)
(* agree with what follows them, every jump and handler lands on an        *)
(* instruction, and with a StackMapTable every jump lands on one of its    *)
(* frames (reassemble_java, rebuild_method_bytes, has_stack_map).          *)
(***************************************************************************)
Verifies ==
  pc = "run" =>
    /\ count = Len(out)
    /\ \A i \in DOMAIN out :
         LET m == out[i].m
             jumps == UNION {JumpTargets(m.code, p) : p \in Starts(m.code)}
         IN  /\ out[i].code_length = Len(m.code)
             /\ out[i].attr_length = AttributeLength(m)
             /\ jumps \union {m.handlers[h].entry : h \in DOMAIN m.handlers}
                  \subseteq Starts(m.code)
             /\ m.frames # {} => jumps \subseteq m.frames

(***************************************************************************)
(* "metadata that would break after compaction - bail out": a              *)
(* LineNumberTable names offsets inside its code.  rebuild_method_bytes    *)
(* copies the table unchanged behind the shorter code.                     *)
(***************************************************************************)
LinesInCode ==
  \A i \in DOMAIN out : \A l \in out[i].m.lines : l < out[i].code_length

(***************************************************************************)
(* "bail out to nop-fill.  Don't attempt unsafe transformations": code     *)
(* with a StackMapTable is type-checked to its end, dead or not, and may   *)
(* not run past it.  A filled range at the end of the code leaves a NOP as *)
(* its last instruction.                                                   *)
(***************************************************************************)
ClosedEnd ==
  \A i \in DOMAIN out :
    LET m == out[i].m
    IN  m.frames # {} =>
          At(m.code, Last(Stops(m.code, 0))) \in Terminators \union Switches
=============================================================================
