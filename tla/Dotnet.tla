------------------------------- MODULE Dotnet -------------------------------
(***************************************************************************)
(* format/dotnet: liveness of the methods of an assembly, dead blocks in   *)
(* the live ones, and the rewritten PE file; then the rewritten assembly   *)
(* is executed beside the original one.                                    *)
(*                                                                         *)
(* An assembly is a record:                                                *)
(*   file      its bytes; offsets count from 0                             *)
(*   secs      the section headers, [name, va, vsize, raw, rsize]          *)
(*   methods   the MethodDef rows, [name, rva, handlers]: rva 0 without a  *)
(*             body, handlers the clauses behind the body, [from, to,      *)
(*             entry]                                                      *)
(*   types     the TypeDef rows, [public, method_list]                     *)
(*   entry     the entry point token, [table, row]                         *)
(*   cli       the seven RVAs of the CLI header that patch_cli_rvas lists  *)
(*   dirs      the RVAs of the data directories, which nothing rewrites    *)
(*   opt       the optional header: ep (AddressOfEntryPoint), size_of_code *)
(*             and size_of_image                                           *)
(*   valid     whether the CLI header and the metadata parse               *)
(* Where the metadata tables themselves lie in the file is abstracted: the *)
(* rows are patched in place before the bytes move.                        *)
(***************************************************************************)
EXTENDS Excise, Intervals, FiniteSets

CONSTANTS Assemblies   \* the assemblies considered

OpNop == 0
OpLdcI4S == 31     \* 0x1F
OpLdcI4 == 32      \* 0x20
OpCall == 40       \* 0x28
OpRet == 42        \* 0x2A
OpBrS == 43        \* 0x2B
OpBrtrueS == 45    \* 0x2D
OpBr == 56         \* 0x38
OpBrtrue == 58     \* 0x3A
OpSwitch == 69     \* 0x45
OpCallvirt == 111  \* 0x6F
OpNewobj == 115    \* 0x73
OpThrow == 122     \* 0x7A
OpLeaveS == 222    \* 0xDE
OpPrefix == 254    \* 0xFE
Op2Ldftn == 6
Op2Ldvirtftn == 7
Op2Rethrow == 26   \* 0x1A

MethodDefTable == 6

VARIABLES
  asm,          \* the input
  pc,           \* the phase
  live, stack,  \* bfs_live
  dead,         \* what find_dead_methods returns: name -> <<rva, size>>
  k,            \* the method at work
  blocks,       \* the dead blocks found, <<start, end>> in RVAs
  groups,       \* the blocks each method is compacted by
  file, rvas, cli, opt, secs,   \* what is rewritten
  run           \* where both executions are: [m, ip, ip2], m a row

vars == <<asm, pc, live, stack, dead, k, blocks, groups, file, rvas, cli, opt, secs, run>>

None == -1
Rows == DOMAIN asm.methods
At(bytes, p) == bytes[p + 1]
Signed(v, bits) == IF v >= 2^(bits - 1) THEN v - 2^bits ELSE v

(* read_u32, of values below 2^16, and the signed read, whose upper half   *)
(* only extends the sign.                                                  *)
read_u32(bytes, p) == At(bytes, p) + (256 * At(bytes, p + 1))
read_i32(bytes, p) == Signed(read_u32(bytes, p), 16)
i8_byte(v) == <<(v + 256) % 256>>
i32_bytes(v) == LET w == (v + 65536) % 65536
                    sign == IF v < 0 THEN 255 ELSE 0
                IN  <<w % 256, w \div 256, sign, sign>>

(***************************************************************************)
(* Sections and method headers.                                            *)
(***************************************************************************)
(* pe_rva_to_offset, rva_to_offset_sec: by the first section that holds    *)
(* the RVA.                                                                *)
rva_to_offset(sections, rva) ==
  LET held == {i \in DOMAIN sections :
                 sections[i].va <= rva /\ rva < sections[i].va + sections[i].vsize}
  IN  IF held = {} THEN None
      ELSE LET s == sections[Min(held)] IN (rva - s.va) + s.raw

NoHeader == [code |-> None, size |-> 0, fat |-> FALSE, more |-> FALSE]

(* parse_method_header, tiny or fat. *)
parse_method_header(bytes, off) ==
  IF off = None \/ off >= Len(bytes) THEN NoHeader
  ELSE CASE At(bytes, off) % 4 = 2 ->
              [code |-> off + 1, size |-> At(bytes, off) \div 4, fat |-> FALSE, more |-> FALSE]
         [] At(bytes, off) % 4 = 3 /\ off + 12 <= Len(bytes) ->
              [code |-> off + ((At(bytes, off + 1) \div 16) * 4),
               size |-> read_u32(bytes, off + 4), fat |-> TRUE,
               more |-> (At(bytes, off) \div 8) % 2 = 1]
         [] OTHER -> NoHeader

(* The IL a header describes, empty if it does not fit into the file. *)
CodeOf(bytes, header) ==
  IF header.code = None \/ header.code + header.size > Len(bytes) THEN << >>
  ELSE Slice(bytes, header.code, header.code + header.size)

MethodCode(i) ==
  CodeOf(asm.file, parse_method_header(asm.file, rva_to_offset(asm.secs, asm.methods[i].rva)))

(* estimate_method_size: header and code. *)
estimate_method_size(rva) ==
  LET off == rva_to_offset(asm.secs, rva)
      h == parse_method_header(asm.file, off)
  IN  IF h.code = None THEN 0 ELSE (h.code - off) + h.size

(***************************************************************************)
(* Instruction lengths, as the scanners reckon them.                       *)
(***************************************************************************)
(* opcode_operand_size *)
opcode_operand_size(op) ==
  CASE op \in {33, 35} -> 8
    [] op \in {32, 34, 69, 121, 224} \union (39..41) \union (56..67) \union (111..117)
              \union (127..141) \union (208..211) -> 4
    [] op \in 44..55 -> 1
    [] OTHER -> 0

op2_size(op2) == IF op2 \in {Op2Ldftn, Op2Ldvirtftn} THEN 4 ELSE 0

Prefixed(code, p) == At(code, p) = OpPrefix /\ p + 1 < Len(code)

(* How far scan_il_opcodes goes on from p. *)
CallScanLength(code, p) ==
  IF Prefixed(code, p) THEN 2 + op2_size(At(code, p + 1))
  ELSE 1 + opcode_operand_size(At(code, p))

(* scan_method_dead_blocks knows the operand of br.s besides. *)
DeadScanLength(code, p) ==
  IF At(code, p) = OpBrS THEN 2 ELSE CallScanLength(code, p)

(* collect_il_branch_targets and patch_il_branches also step over the      *)
(* entries of a switch.                                                    *)
JumpScanLength(code, p) ==
  CASE At(code, p) = OpSwitch ->
         IF p + 5 <= Len(code) THEN 5 + (4 * read_u32(code, p + 1)) ELSE 1
    [] OTHER -> DeadScanLength(code, p)

(* The offsets a scanner stops at. *)
Stops(Length(_, _), code) ==
  LET from[p \in Nat] ==
        IF p >= Len(code) THEN << >> ELSE <<p>> \o from[p + Length(code, p)]
  IN  ToSet(from[0])

(***************************************************************************)
(* Calls.                                                                  *)
(***************************************************************************)
Token(code, p) == [table |-> At(code, p + 3), row |-> read_u32(code, p)]

(* The method token of the instruction at p. *)
TokenAt(code, p) ==
  CASE At(code, p) \in {OpCall, OpCallvirt, OpNewobj} /\ p + 5 <= Len(code) ->
         {Token(code, p + 1)}
    [] Prefixed(code, p) /\ At(code, p + 1) \in {Op2Ldftn, Op2Ldvirtftn}
         /\ p + 6 <= Len(code) -> {Token(code, p + 2)}
    [] OTHER -> {}

(* scan_il_opcodes *)
scan_il_opcodes(code) == UNION {TokenAt(code, p) : p \in Stops(CallScanLength, code)}

(* token_to_method_idx: MethodDef tokens only. *)
token_to_method_idx(token) ==
  IF token.table = MethodDefTable /\ token.row \in Rows THEN {token.row} ELSE {}

Callees(i) ==
  IF asm.methods[i].rva = 0 THEN {}
  ELSE UNION {token_to_method_idx(t) : t \in scan_il_opcodes(MethodCode(i))}

(***************************************************************************)
(* Dead blocks.                                                            *)
(***************************************************************************)
(* Where the instruction at p can jump: displacements count from its end.  *)
JumpTargets(code, p) ==
  LET op == At(code, p)
      n == IF op = OpSwitch /\ p + 5 <= Len(code) THEN read_u32(code, p + 1) ELSE 0
  IN  CASE op \in OpBrS..55 /\ p + 1 < Len(code) -> {p + 2 + Signed(At(code, p + 1), 8)}
        [] op \in OpBr..67 /\ p + 5 <= Len(code) -> {p + 5 + read_i32(code, p + 1)}
        [] OTHER -> {p + 5 + (4 * n) + read_i32(code, p + 5 + (4 * j)) :
                       j \in {x \in 0..(n - 1) : p + 9 + (4 * x) <= Len(code)}}

(* A mutant: the entries of a switch are not targets. *)
collect_il_branch_targets_NoSwitch(code) ==
  UNION {JumpTargets(code, p) : p \in {q \in Stops(JumpScanLength, code) :
                                         At(code, q) # OpSwitch}}
    \intersect 0..(Len(code) - 1)

(* collect_il_branch_targets: jumps only, no handlers. *)
collect_il_branch_targets(code) ==
  UNION {JumpTargets(code, p) : p \in Stops(JumpScanLength, code)}
    \intersect 0..(Len(code) - 1)

Terminator(code, p) ==
  \/ At(code, p) \in {OpRet, OpThrow, OpBrS, OpBr}
  \/ Prefixed(code, p) /\ At(code, p + 1) = Op2Rethrow

(* A mutant: blocks of any length are kept. *)
DeadBlock_Any(start, end) == << <<start, end>> >>

(* A dead block is kept if it has two bytes at least. *)
DeadBlock(start, end) == IF end - start >= 2 THEN << <<start, end>> >> ELSE << >>

(* scan_method_dead_blocks: from behind a terminator to the first target,  *)
(* to which the forward scan is clamped, or to the end of the code.        *)
scan_method_dead_blocks(code) ==
  LET targets == collect_il_branch_targets(code)
      from[p \in Nat] ==
        LET next == p + DeadScanLength(code, p)
            end == Min({Len(code)} \union {t \in targets : t > next})
        IN  CASE p >= Len(code) -> << >>
              [] p < Len(code) /\ (~Terminator(code, p) \/ next >= Len(code)
                                     \/ next \in targets) -> from[next]
              [] OTHER -> DeadBlock(next, end) \o from[end]
  IN  from[0]

(***************************************************************************)
(* Compaction of one method.                                               *)
(***************************************************************************)
(* patch_il_branches: every jump is given the distance between where its   *)
(* ends will be.                                                           *)
patch_il_branches(code, ranges) ==
  LET New(q) == q - shift(q, ranges)
      stops == Stops(JumpScanLength, code)
      Owner(q) == Max({p \in stops : p <= q})
      Entry(base, q) == i32_bytes(New(base + read_i32(code, q)) - New(base))
      Patched(p) ==   \* the bytes behind the opcode at p
        LET op == At(code, p)
            n == IF op = OpSwitch THEN read_u32(code, p + 1) ELSE 0
        IN  CASE op \in OpBrS..55 ->
                   i8_byte(New(p + 2 + Signed(At(code, p + 1), 8)) - New(p + 2))
              [] op \in OpBr..67 -> Entry(p + 5, p + 1)
              [] op = OpSwitch ->
                   Slice(code, p + 1, p + 5)
                     \o FlattenSeq([j \in 1..n |->
                                      Entry(p + 5 + (4 * n), p + 1 + (4 * j))])
              [] OTHER -> << >>
  IN  [i \in DOMAIN code |->
         LET p == Owner(i - 1)
         IN  IF p + JumpScanLength(code, p) <= Len(code) /\ (i - 1) - p \in DOMAIN Patched(p)
             THEN Patched(p)[(i - 1) - p] ELSE code[i]]

Overwrite(bytes, off, new) ==
  [i \in DOMAIN bytes |-> IF i - off \in DOMAIN new THEN new[i - off] ELSE bytes[i]]

Zeros(n) == [i \in 1..n |-> 0]

(* compact_one_method bails out on the MoreSects flag; the code that is    *)
(* left is followed by zeros.                                              *)
compact_one_method(bytes, off, header, ranges) ==
  LET code == CodeOf(bytes, header)
      left == excise_ranges(patch_il_branches(code, ranges), ranges)
      moved == Overwrite(bytes, header.code, left \o Zeros(Len(code) - Len(left)))
  IN  Overwrite(moved, IF header.fat THEN off + 4 ELSE off,
                IF header.fat THEN i32_bytes(Len(left)) ELSE <<(4 * Len(left)) + 2>>)

(* The fallback: the dead ranges are zeroed, which reads as nop. *)
NopFilled(bytes, header, ranges) ==
  FoldLeft(LAMBDA acc, r : Overwrite(acc, header.code + r[1], Zeros(r[2] - r[1])),
           bytes, ranges)

(***************************************************************************)
(* analyze_dotnet                                                          *)
(***************************************************************************)
Init ==
  /\ asm \in Assemblies
  /\ pc = "parse"
  /\ live = {} /\ stack = << >> /\ dead = << >>
  /\ k = 1 /\ blocks = << >> /\ groups = [i \in DOMAIN asm.methods |-> << >>]
  /\ file = asm.file /\ cli = asm.cli /\ opt = asm.opt /\ secs = asm.secs
  /\ rvas = [i \in DOMAIN asm.methods |-> asm.methods[i].rva]
  /\ run = [m |-> 0, ip |-> 0, ip2 |-> 0]

(* mark_public_type_methods: a type owns the rows up to the next type's. *)
mark_public_type_methods ==
  UNION {asm.types[t].method_list..(IF t + 1 \in DOMAIN asm.types
                                    THEN asm.types[t + 1].method_list - 1
                                    ELSE Len(asm.methods)) :
           t \in {x \in DOMAIN asm.types : asm.types[x].public}} \intersect Rows

(* find_roots *)
find_roots == token_to_method_idx(asm.entry) \union mark_public_type_methods

(* parse_dotnet_metadata refuses, or the search starts with its roots in   *)
(* hash order.                                                             *)
parse_dotnet_metadata ==
  /\ pc = "parse"
  /\ IF asm.valid /\ asm.methods # << >>
     THEN pc' = "bfs" /\ \E s \in SetToSeqs(find_roots) : stack' = s
     ELSE pc' = "unchanged" /\ UNCHANGED stack
  /\ UNCHANGED <<asm, live, dead, k, blocks, groups, file, rvas, cli, opt, secs, run>>

(* bfs_live takes the method queued last. *)
bfs_live ==
  /\ pc = "bfs" /\ stack # << >>
  /\ LET i == Last(stack)
     IN  IF i \in live THEN live' = live /\ stack' = Front(stack)
         ELSE /\ live' = live \union {i}
              /\ stack' = Front(stack) \o SetToSeq(Callees(i) \ live')
  /\ UNCHANGED <<asm, pc, dead, k, blocks, groups, file, rvas, cli, opt, secs, run>>

(* find_dead_methods: a map keyed by name, in which the last row of a name *)
(* stays.                                                                  *)
find_dead_methods ==
  /\ pc = "bfs" /\ stack = << >>
  /\ LET rows == {i \in Rows \ live : asm.methods[i].rva # 0 /\ asm.methods[i].name # ""}
         of(name) == Max({i \in rows : asm.methods[i].name = name})
     IN  dead' = [name \in {asm.methods[i].name : i \in rows} |->
                    LET rva == asm.methods[of(name)].rva
                    IN  <<rva, estimate_method_size(rva)>>]
  /\ pc' = "blocks"
  /\ UNCHANGED <<asm, live, stack, k, blocks, groups, file, rvas, cli, opt, secs, run>>

(* find_dotnet_dead_blocks, method by method: a method that shares its     *)
(* name with a dead one is not scanned.                                    *)
find_il_dead_blocks ==
  /\ pc = "blocks" /\ k \in Rows
  /\ LET h == parse_method_header(asm.file, rva_to_offset(asm.secs, rvas[k]))
         first == rvas[k] + (h.code - rva_to_offset(asm.secs, rvas[k]))
         found == scan_method_dead_blocks(CodeOf(asm.file, h))
     IN  blocks' = IF rvas[k] = 0 \/ asm.methods[k].name \in DOMAIN dead THEN blocks
                   ELSE blocks \o [n \in DOMAIN found |->
                                     <<first + found[n][1], first + found[n][2]>>]
  /\ k' = k + 1
  /\ UNCHANGED <<asm, pc, live, stack, dead, groups, file, rvas, cli, opt, secs, run>>

BlocksDone ==
  /\ pc = "blocks" /\ k \notin Rows
  /\ pc' = IF dead = << >> /\ blocks = << >> THEN "unchanged" ELSE "zero"
  /\ k' = 1
  /\ UNCHANGED <<asm, live, stack, dead, blocks, groups, file, rvas, cli, opt, secs, run>>

(***************************************************************************)
(* reassemble_dotnet                                                       *)
(***************************************************************************)
(* zero_method_body: ret and zeros. *)
zero_method_body(bytes, rva) ==
  LET h == parse_method_header(bytes, rva_to_offset(secs, rva))
  IN  IF h.size <= 1 \/ h.code + h.size > Len(bytes) THEN bytes
      ELSE Overwrite(bytes, h.code, <<OpRet>> \o Zeros(h.size - 1))

zero_dead_methods ==
  /\ pc = "zero"
  /\ file' = FoldSet(LAMBDA name, bytes : zero_method_body(bytes, dead[name][1]),
                     file, DOMAIN dead)
  /\ pc' = "group"
  /\ UNCHANGED <<asm, live, stack, dead, k, blocks, groups, rvas, cli, opt, secs, run>>

HeaderAt(rva) == parse_method_header(file, rva_to_offset(secs, rva))

(* The RVA behind a method's code. *)
EndRva(rva) == rva + (HeaderAt(rva).code - rva_to_offset(secs, rva)) + HeaderAt(rva).size

(* find_method_for_rva: the first method around an RVA, if the header of   *)
(* every method up to it can be read.                                      *)
find_method_for_rva(rva) ==
  LET around == {i \in Rows : rvas[i] # 0 /\ rvas[i] <= rva /\ rva < EndRva(rvas[i])}
  IN  IF /\ around # {}
         /\ \A j \in 1..Min(around) : rvas[j] # 0 => HeaderAt(rvas[j]).code # None
      THEN Min(around) ELSE None

(* compact_il_dead_blocks first groups the blocks by method ...            *)
GroupBlocks ==
  /\ pc = "group"
  /\ groups' = [i \in Rows |-> SelectSeq(blocks, LAMBDA b : find_method_for_rva(b[1]) = i)]
  /\ pc' = "compact_blocks"
  /\ UNCHANGED <<asm, live, stack, dead, k, blocks, file, rvas, cli, opt, secs, run>>

(* ... and then compacts method by method. *)
compact_il_dead_blocks ==
  /\ pc = "compact_blocks" /\ k \in Rows
  /\ LET off == rva_to_offset(secs, rvas[k])
         h == HeaderAt(rvas[k])
         base == rvas[k] + (h.code - off)
         ranges == SortSeq([n \in DOMAIN groups[k] |->
                              <<groups[k][n][1] - base, groups[k][n][2] - base>>], PairLess)
     IN  file' = CASE groups[k] = << >> -> file
                   [] groups[k] # << >> /\ h.more -> NopFilled(file, h, ranges)
                   [] OTHER -> compact_one_method(file, off, h, ranges)
  /\ k' = k + 1
  /\ UNCHANGED <<asm, pc, live, stack, dead, blocks, groups, rvas, cli, opt, secs, run>>

Texts == {i \in DOMAIN secs : secs[i].name = ".text"}
Text == secs[Min(Texts)]

CompactBlocksDone ==
  /\ pc = "compact_blocks" /\ k \notin Rows
  /\ pc' = IF dead = << >> \/ Texts = {} THEN "run" ELSE "patch"
  /\ UNCHANGED <<asm, live, stack, dead, k, blocks, groups, file, rvas, cli, opt, secs, run>>

(* dead_intervals: sorted, exact, not merged. *)
dead_intervals == sort({<<dead[n][1], dead[n][1] + dead[n][2]>> : n \in DOMAIN dead})

Moved(rva, ivs) ==
  IF rva = 0 THEN 0 ELSE rva - total_shift(rva, ivs, Text.va, Text.va + Text.vsize)

(* A mutant: raw pointers of the sections behind .text stay. *)
patch_one_sec_hdr_Raw(s, ivs) ==
  LET ps == page_shrink(ivs)
  IN  [s EXCEPT !.vsize = IF s.va = Text.va THEN s.vsize - ps ELSE @,
                !.rsize = IF s.va = Text.va /\ s.rsize > ps THEN @ - ps ELSE @]

(* patch_one_sec_hdr: .text shrinks, its own address is shifted with it,   *)
(* which changes nothing, and what is stored behind it moves in the file;  *)
(* without a whole page nothing changes.                                   *)
patch_one_sec_hdr(s, ivs) ==
  LET ps == page_shrink(ivs)
      te == Text.va + Text.vsize
  IN  [s EXCEPT !.vsize = IF s.va = Text.va THEN @ - ps ELSE @,
                !.rsize = IF s.va = Text.va /\ @ > ps THEN @ - ps ELSE @,
                !.va = IF ps > 0 /\ Text.va <= @ /\ @ < te
                       THEN @ - total_shift(@, ivs, Text.va, te) ELSE @,
                !.raw = IF @ >= Text.raw + Text.vsize THEN @ - ps ELSE @]

Lowered(size, by) == IF size > by THEN size - by ELSE size

(* patch_entry_point, and what patch_section_headers does behind its loop: *)
(* both sizes are lowered by what leaves the file, although no section     *)
(* behind .text gets another address.                                      *)
patch_optional_header(header, ivs) ==
  [header EXCEPT !.ep = @ - total_shift(@, ivs, Text.va, Text.va + Text.vsize),
                 !.size_of_code = Lowered(@, page_shrink(ivs)),
                 !.size_of_image = Lowered(@, page_shrink(ivs))]

(* compact_text: the live bytes of .text, zeros up to the page, the rest.  *)
(* A plan that would drain more than it frees is skipped.                  *)
compact_text(ivs) ==
  LET start == Text.raw
      end == Text.raw + Text.vsize
      cuts == SelectSeq([i \in DOMAIN ivs |-> <<ivs[i][1] - Text.va, ivs[i][2] - Text.va>>],
                        LAMBDA r : 0 <= r[1] /\ r[2] <= Text.vsize)
      new == excise_ranges(Slice(file, start, end), cuts)
      ps == page_shrink(ivs)
  IN  IF end > Len(file) \/ ps > Text.vsize - Len(new) THEN file
      ELSE Slice(file, 0, start) \o new \o Zeros(Text.vsize - Len(new) - ps)
             \o Slice(file, end, Len(file))

(* patch_method_rvas, patch_cli_rvas, patch_entry_point,                   *)
(* patch_section_headers and compact_text: nothing stops between them.     *)
patch_and_compact ==
  /\ pc = "patch"
  /\ LET ivs == dead_intervals
     IN  /\ rvas' = [i \in Rows |-> Moved(rvas[i], ivs)]
         /\ cli' = [f \in DOMAIN cli |-> Moved(cli[f], ivs)]
         /\ opt' = patch_optional_header(opt, ivs)
         /\ secs' = [i \in DOMAIN secs |-> patch_one_sec_hdr(secs[i], ivs)]
         /\ file' = compact_text(ivs)
  /\ pc' = "run"
  /\ UNCHANGED <<asm, live, stack, dead, k, blocks, groups, run>>

(***************************************************************************)
(* The runtime executes both assemblies in step, from the root methods; a  *)
(* call is also stepped over, and any instruction in a protected range may *)
(* throw.                                                                  *)
(***************************************************************************)
(* The length of an instruction, of those used here. *)
CilLength(code, p) ==
  CASE At(code, p) \in {OpLdcI4S, OpLeaveS} \union (OpBrS..55) -> 2
    [] At(code, p) = OpSwitch -> 5 + (4 * read_u32(code, p + 1))
    [] Prefixed(code, p) ->
         IF At(code, p + 1) \in {Op2Ldftn, Op2Ldvirtftn} THEN 6 ELSE 2
    [] At(code, p) \in {OpLdcI4, OpCall, OpCallvirt, OpNewobj} \union (OpBr..67) -> 5
    [] OTHER -> 1

(* The runtime takes a fat header only on a 4-byte boundary (ECMA-335      *)
(* II.25.4.3).                                                             *)
RuntimeCode(bytes, sections, rva) ==
  LET h == parse_method_header(bytes, rva_to_offset(sections, rva))
  IN  IF h.fat /\ rva % 4 # 0 THEN << >> ELSE CodeOf(bytes, h)

OldCode == RuntimeCode(asm.file, asm.secs, asm.methods[run.m].rva)
NewCode == RuntimeCode(file, secs, rvas[run.m])

(* Where execution goes from p. *)
Ways(code, p) ==
  LET op == At(code, p)
      next == p + CilLength(code, p)
      jumps == IF op = OpLeaveS THEN {next + Signed(At(code, p + 1), 8)}
               ELSE JumpTargets(code, p)
      thrown == SelectSeq(asm.methods[run.m].handlers, LAMBDA h : p \in h.from..(h.to - 1))
  IN  (IF Terminator(code, p) \/ op = OpLeaveS THEN << >> ELSE <<next>>)
        \o SetToSortSeq(jumps, <) \o [i \in DOMAIN thrown |-> thrown[i].entry]

(* What an instruction is, apart from the distance it jumps. *)
Instruction(code, p) ==
  IF At(code, p) \in (OpBrS..67) \union {OpSwitch, OpLeaveS} THEN <<At(code, p)>>
  ELSE Slice(code, p, p + CilLength(code, p))

Enter(i) ==
  /\ run' = [m |-> i, ip |-> 0, ip2 |-> 0]
  /\ UNCHANGED <<asm, pc, live, stack, dead, k, blocks, groups, file, rvas, cli, opt, secs>>

Start ==
  /\ pc = "run" /\ run.m = 0
  /\ \E i \in find_roots : asm.methods[i].rva # 0 /\ Enter(i)

(* A method of this assembly that the current instruction names, to call   *)
(* it or to take its address, is entered; its token ends the instruction.  *)
Call ==
  /\ pc = "run" /\ run.m # 0
  /\ \/ At(OldCode, run.ip) \in {OpCall, OpCallvirt, OpNewobj}
     \/ /\ Prefixed(OldCode, run.ip)
        /\ At(OldCode, run.ip + 1) \in {Op2Ldftn, Op2Ldvirtftn}
  /\ LET t == Token(OldCode, run.ip + CilLength(OldCode, run.ip) - 4)
     IN  t.table = MethodDefTable /\ asm.methods[t.row].rva # 0 /\ Enter(t.row)

Step ==
  /\ pc = "run" /\ run.m # 0
  /\ LET old == Ways(OldCode, run.ip)
         new == Ways(NewCode, run.ip2)
     IN  \E c \in DOMAIN old \intersect DOMAIN new :
           run' = [run EXCEPT !.ip = old[c], !.ip2 = new[c]]
  /\ UNCHANGED <<asm, pc, live, stack, dead, k, blocks, groups, file, rvas, cli, opt, secs>>

Trim == parse_dotnet_metadata \/ bfs_live \/ find_dead_methods \/ find_il_dead_blocks
          \/ BlocksDone \/ zero_dead_methods \/ GroupBlocks \/ compact_il_dead_blocks
          \/ CompactBlocksDone \/ patch_and_compact
Next == Trim \/ Start \/ Call \/ Step

Spec == Init /\ [][Next]_vars

-----------------------------------------------------------------------------
(* Every variable has its type: dead blocks are in order and inside their  *)
(* code, the RVAs stay non-negative and the file never grows.              *)
TypeOK ==
  /\ pc \in {"parse", "bfs", "blocks", "zero", "group", "compact_blocks", "patch", "run",
             "unchanged"}
  /\ live \union ToSet(stack) \subseteq Rows
  /\ k \in 1..(Len(asm.methods) + 1)
  /\ Len(file) <= Len(asm.file) /\ ToSet(file) \subseteq 0..255
  /\ ToSet(rvas) \union ToSet(cli) \subseteq Nat
  /\ opt \in [{"ep", "size_of_code", "size_of_image"} -> Nat]
  /\ \A n \in DOMAIN blocks :
       /\ blocks[n][1] + 2 <= blocks[n][2]
       /\ \E i \in Rows :
            /\ asm.methods[i].rva < blocks[n][1]
            /\ blocks[n][2] <= asm.methods[i].rva + estimate_method_size(asm.methods[i].rva)
       /\ n > 1 => blocks[n - 1][2] < blocks[n][1] \/ blocks[n][2] < blocks[n - 1][1]

(***************************************************************************)
(* Whatever is executed, from the entry point and the public types and     *)
(* through the calls and function pointers they use, the rewritten         *)
(* assembly finds the method at its RVA and runs the same instructions: no *)
(* method that runs is zeroed or cut away, and every jump lands where it   *)
(* did (bfs_live, scan_method_dead_blocks, patch_il_branches,              *)
(* patch_method_rvas, compact_text).                                       *)
(***************************************************************************)
SameExecution ==
  run.m # 0 =>
    /\ run.ip2 \in 0..(Len(NewCode) - 1)
    /\ Instruction(OldCode, run.ip) = Instruction(NewCode, run.ip2)

(* What is loaded at an RVA: nothing at all if the loader refuses the      *)
(* image because a section exceeds SizeOfImage.                            *)
Loaded(bytes, sections, header, rva) ==
  LET off == rva_to_offset(sections, rva)
  IN  IF \/ off = None \/ off >= Len(bytes)
         \/ \E i \in DOMAIN sections :
              sections[i].va + sections[i].vsize > header.size_of_image
      THEN None ELSE At(bytes, off)

(***************************************************************************)
(* The loader takes the image, and what the headers point at is still      *)
(* there: the CLI header's RVAs, the data directories and the entry point  *)
(* reach the bytes they reached, and every section without methods is      *)
(* loaded with the contents it had (patch_cli_rvas, patch_entry_point,     *)
(* patch_section_headers against the drain in compact_text).               *)
(***************************************************************************)
RvasFollow ==
  pc = "run" =>
    LET Old(rva) == Loaded(asm.file, asm.secs, asm.opt, rva)
        New(rva) == Loaded(file, secs, opt, rva)
    IN  /\ \A f \in DOMAIN cli : cli[f] # 0 => New(cli[f]) = Old(asm.cli[f])
        /\ \A d \in DOMAIN asm.dirs : New(asm.dirs[d]) = Old(asm.dirs[d])
        /\ New(opt.ep) = Old(asm.opt.ep)
        /\ \A i \in DOMAIN asm.secs :
             LET covered == asm.secs[i].va..(asm.secs[i].va + asm.secs[i].vsize - 1)
             IN  (\A m \in Rows : asm.methods[m].rva \notin covered) =>
                   \A a \in covered : New(a) = Old(a)
=============================================================================
