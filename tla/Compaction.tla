----------------------------- MODULE Compaction -----------------------------
(***************************************************************************)
(* reassemble_elf of format/elf/mod.rs: from dead functions and blocks to  *)
(* the rewritten image.  One step per stage of the pipeline; the rounds of *)
(* unwind_safe_intervals are steps of their own.                           *)
(*                                                                         *)
(* The image has three sections: .init (0 to TextStart), .text and the     *)
(* data after it, which the loader maps DataGap bytes further up than its  *)
(* file offset.  A byte of the file is the offset it had in the input, so  *)
(* one can see where it went; Filled is a byte that was overwritten.  The  *)
(* last byte stands for the section header table.                          *)
(*                                                                         *)
(* An input is a record: dead and blocks are sets of address ranges, pad   *)
(* the addresses whose byte looks like padding, lookalike those of them    *)
(* that are really part of an instruction, align the instr_align of the    *)
(* architecture, fdes the unwind records, phdrs the program headers,   *)
(* is64 the ELF class, aot whether it is a NativeAOT image and decodes     *)
(* whether the decoder found any instruction.                              *)
(***************************************************************************)
EXTENDS Unwind

CONSTANTS
  TextStart, TextEnd, FileEnd, \* the layout
  DataGap,
  Filled,
  InputRefs,                   \* the references stored in every image
  Inputs                       \* the images and analysis results considered

ASSUME LayoutAssumption ==
  /\ TextStart \in Nat /\ TextEnd \in Nat /\ FileEnd \in Nat
  /\ 0 < TextStart /\ TextStart < TextEnd /\ TextEnd < FileEnd
  /\ DataGap \in Nat
  /\ Filled \notin 0..FileEnd

\* Dead ranges are where the decoder found instructions: in .text they start
\* and end at whole instruction units, and none is in the header table.  Unwind
\* records that the linker discarded (begin 0), which are not patched, are none
\* of a function's.
ASSUME InputAssumption ==
  \A image \in Inputs :
    /\ image.aot \in BOOLEAN /\ image.is64 \in BOOLEAN
    /\ image.align \in Nat \ {0}
    /\ IsFiniteSet(image.dead) /\ IsFiniteSet(image.blocks)
    /\ \A r \in image.dead \cup image.blocks :
         /\ r \in Nat \X Nat /\ r[1] <= r[2] /\ r[2] < FileEnd
         /\ lies_within(r, TextStart, TextEnd) =>
              (r[1] - TextStart) % image.align = 0 /\ (r[2] - TextStart) % image.align = 0
    /\ image.fdes \in Seq([begin : Nat \ {0}, range : Nat, rows : Seq(Nat), caf : Nat,
                           opaque : BOOLEAN, lsda : BOOLEAN])

VARIABLES
  input,       \* the image and what the analysis found, see below
  pc,          \* the next stage
  ivs,         \* the plan
  rounds,      \* rounds of unwind_safe_intervals so far
  file,        \* the bytes of the file
  refs,        \* references stored in the image
  fdes,        \* unwind records
  shdrs, phdrs, shoff  \* section headers, program headers, e_shoff

vars == <<input, pc, ivs, rounds, file, refs, fdes, shdrs, phdrs, shoff>>

ts == TextStart
te == TextEnd
cx == [ivs |-> ivs, ts |-> ts, te |-> te]

DataStart == TextEnd + DataGap     \* address of the first byte after .text

InitialShdrs ==
  [init |-> [addr |-> 0,         offset |-> 0,  size |-> ts],
   text |-> [addr |-> ts,        offset |-> ts, size |-> te - ts],
   data |-> [addr |-> DataStart, offset |-> te, size |-> FileEnd - te]]

InitialFile == [i \in 1..FileEnd |-> i - 1]

Init ==
  /\ input \in Inputs
  /\ pc = "split"
  /\ ivs = <<>> /\ rounds = 0
  /\ file = InitialFile
  /\ refs = InputRefs /\ fdes = input.fdes /\ phdrs = input.phdrs
  /\ shdrs = InitialShdrs
  /\ shoff = FileEnd - 1

-----------------------------------------------------------------------------
(* Planning. *)

\* split_dead: dead functions wholly inside .text, and wholly inside .init.
TextDead  == {d \in input.dead : lies_within(d, ts, te)}
OtherDead == {d \in input.dead : lies_within(d, 0, ts)}

Blocks == retain_unwindable_blocks(input.blocks, input.fdes)

\* Mutant: one byte too many at the front.
zero_fill_Inclusive(S) ==
  [i \in DOMAIN file |->
     IF \E d \in S : d[1] <= i /\ i <= d[2] THEN Filled ELSE file[i]]

\* The file with the ranges of S overwritten.
zero_fill(S) ==
  [i \in DOMAIN file |->
     IF \E d \in S : d[1] < i /\ i <= d[2] THEN Filled ELSE file[i]]

\* Dead bytes outside .text are filled in place; those astride its start stay.
zero_fill_ranges ==
  /\ pc = "split"
  /\ file' = zero_fill(OtherDead)
  /\ pc' = IF input.aot THEN "fill" ELSE "plan"
  /\ UNCHANGED <<input, ivs, rounds, refs, fdes, shdrs, phdrs, shoff>>

blocks_within == {b \in Blocks : lies_within(b, ts, te)}

PlanIntervals ==
  /\ pc = "plan"
  /\ ivs' = defrag_intervals(merge_intervals(TextDead \cup blocks_within),
                             input.pad, ts, te, input.align)
  /\ pc' = "unwind"
  /\ UNCHANGED <<input, rounds, file, refs, fdes, shdrs, phdrs, shoff>>

\* A round, unless no function is stuck or Len(fdes) + 1 rounds were made.
unwind_safe_intervals ==
  /\ pc = "unwind"
  /\ IF rounds = Len(fdes) + 1 \/ stuck_ranges(fdes, cx) = <<>>
     THEN /\ pc' = IF input.decodes /\ compaction_fits(ivs, ts, te, te <= Len(file))
                   THEN "patch" ELSE "fill"
          /\ UNCHANGED <<ivs, rounds>>
     ELSE /\ ivs' = CutStuck(fdes, cx, input.align)
          /\ rounds' = rounds + 1
          /\ UNCHANGED pc
  /\ UNCHANGED <<input, file, refs, fdes, shdrs, phdrs, shoff>>

-----------------------------------------------------------------------------
(* Patching.  A reference is [kind, at, val]: the address of the slot or   *)
(* instruction and the stored value, a distance for the two pc-relative    *)
(* kinds and an address for the others.                                    *)

patch_one_rel(r) ==
  IF in_dead_range(r.at, ivs) THEN r
  ELSE [r EXCEPT !.val = @ + total_shift(r.at, ivs, ts, te)
                           - total_shift(r.at + r.val, ivs, ts, te)]

\* Pointer tables follow every move, mixed data only pointers into .text.
patch_one_data_sec(r, use_total) ==
  LET shift == IF use_total THEN total_shift(r.val, ivs, ts, te)
               ELSE IF ts <= r.val /\ r.val < te THEN shift_at(r.val, ivs)
               ELSE 0
  IN [r EXCEPT !.val = @ - shift]

\* r_offset always follows, the addend if the type number is x86-64's
\* RELATIVE; r.type is the type number.
patch_rela_entry(r) ==
  [r EXCEPT !.at  = @ - total_shift(@, ivs, ts, te),
            !.val = @ - IF r.type = 8 THEN total_shift(@, ivs, ts, te) ELSE 0]

patch_entry_point(r) == [r EXCEPT !.val = @ - total_shift(@, ivs, ts, te)]

\* Symbol values and address-valued dynamic tags; zero means none.
patch_one_sym(r) ==
  IF r.val = 0 THEN r ELSE [r EXCEPT !.val = @ - total_shift(@, ivs, ts, te)]

Patched(r) ==
  CASE r.kind = "branch" -> patch_one_rel(r)
    [] r.kind = "got"    -> patch_one_data_sec(r, TRUE)
    [] r.kind = "data"   -> patch_one_data_sec(r, FALSE)
    [] r.kind = "rela"   -> patch_rela_entry(r)
    [] r.kind = "entry"  -> patch_entry_point(r)
    [] r.kind = "sym"    -> patch_one_sym(r)

\* Mutant: a section that begins where .text ends keeps its offset.
patch_one_shdr_After(h, ps) ==
  [addr   |-> h.addr - total_shift(h.addr, ivs, ts, te),
   offset |-> IF h.offset > te THEN h.offset - ps ELSE h.offset,
   size   |-> IF h.addr = ts /\ h.offset = ts THEN h.size - ps ELSE h.size]

\* Section headers: addresses follow, .text loses the drained pages, and
\* so do the offsets behind it.
patch_one_shdr(h, ps) ==
  [addr   |-> h.addr - total_shift(h.addr, ivs, ts, te),
   offset |-> IF h.offset >= te THEN h.offset - ps ELSE h.offset,
   size   |-> IF h.addr = ts /\ h.offset = ts THEN h.size - ps ELSE h.size]

\* Program headers: the segment holding .text shrinks.
patch_one_phdr(h, ps) ==
  [addr   |-> h.addr - total_shift(h.addr, ivs, ts, te),
   offset |-> IF h.offset >= te THEN h.offset - ps ELSE h.offset,
   size   |-> IF h.addr <= ts /\ te <= h.addr + h.size THEN h.size - ps
              ELSE h.size]

\* Only 64-bit headers are patched.
patch_headers ==
  LET ps == page_shrink(ivs) IN
  IF ~input.is64 \/ ps = 0
  THEN UNCHANGED <<shdrs, phdrs, shoff>>
  ELSE /\ shdrs' = [n \in DOMAIN shdrs |-> patch_one_shdr(shdrs[n], ps)]
       /\ phdrs' = {patch_one_phdr(h, ps) : h \in phdrs}
       /\ shoff' = IF shoff >= te THEN shoff - ps ELSE shoff

apply_patches ==
  /\ pc = "patch"
  /\ refs' = [r \in DOMAIN refs |-> Patched(refs[r])]
  /\ fdes' = [i \in DOMAIN fdes |-> patch_fde(fdes[i], cx)]
  /\ patch_headers
  /\ pc' = "compact"
  /\ UNCHANGED <<input, ivs, rounds, file>>

-----------------------------------------------------------------------------
(* Moving the bytes. *)

\* The bytes of .text outside the plan, in order.
build_live_text ==
  LET live[n \in 0..(te - ts)] ==
        IF n = 0 THEN <<>>
        ELSE IF in_dead_range(ts + n - 1, ivs) THEN live[n - 1]
        ELSE Append(live[n - 1], file[ts + n])
  IN live[te - ts]

\* Live bytes to the front of .text, zeros behind them, whole pages drained.
compact_text ==
  /\ pc = "compact"
  /\ LET live  == build_live_text
         freed == (te - ts) - Len(live)
         ps    == page_shrink(ivs)
     IN file' = IF freed = 0 \/ ps > freed THEN file
                ELSE SubSeq(file, 1, ts) \o live
                       \o [i \in 1..(freed - ps) |-> Filled]
                       \o SubSeq(file, te + 1, Len(file))
  /\ pc' = "done"
  /\ UNCHANGED <<input, ivs, rounds, refs, fdes, shdrs, phdrs, shoff>>

\* The blocks a compaction by the plan removes.
blocks_removed ==
  {b \in blocks_within : \E i \in DOMAIN ivs : lies_within(b, ivs[i][1], ivs[i][2])}

\* Nothing moves: the dead bytes are overwritten where they are.
fill_in_place ==
  /\ pc = "fill"
  /\ file' = zero_fill(TextDead \cup (IF input.aot THEN Blocks ELSE blocks_removed))
  /\ pc' = "done"
  /\ UNCHANGED <<input, ivs, rounds, refs, fdes, shdrs, phdrs, shoff>>

Terminated == pc = "done" /\ UNCHANGED vars

Next ==
  \/ zero_fill_ranges \/ PlanIntervals \/ unwind_safe_intervals
  \/ apply_patches \/ compact_text \/ fill_in_place \/ Terminated

Spec == Init /\ [][Next]_vars

-----------------------------------------------------------------------------
(* Properties. *)

\* Types; every interval stays inside .text however defrag_intervals widens
\* it and unwind_safe_intervals cuts it, and the retry loop is bounded by the FDEs.
TypeOK ==
  /\ input.aot \in BOOLEAN /\ input.is64 \in BOOLEAN
  /\ pc \in {"split", "plan", "unwind", "patch", "compact", "fill", "done"}
  /\ \A i \in DOMAIN ivs : ivs[i] \in (ts..te) \X (ts..te)
  /\ rounds \in 0..(Len(input.fdes) + 1)
  /\ Range(file) \subseteq (0..(FileEnd - 1)) \cup {Filled}

\* The file offset an address had in the input image.
OldOffset(a) == IF a < te THEN a ELSE a - DataGap

(***************************************************************************)
(* The input bytes the analysis gave up (landing pads excepted: only the   *)
(* unwinder enters them), and those with a reason to stay.                 *)
(***************************************************************************)
BytesOf(r) == r[1]..(r[2] - 1)
Unwindable == UNION {BytesOf(<<f.begin, FdeEnd(f)>>) :
                       f \in {g \in Range(input.fdes) : g.lsda}}
DeadBytes == (UNION {BytesOf(d) : d \in input.dead})
               \cup ((UNION {BytesOf(b) : b \in input.blocks}) \ Unwindable)
CodeBytes == (0..(FileEnd - 1)) \ (DeadBytes \cup (input.pad \ input.lookalike))

\* The memory the loader builds from the program headers: address to byte.
Memory ==
  [a \in 0..(FileEnd + DataGap) |->
     LET hits == {h \in phdrs : h.addr <= a /\ a < h.addr + h.size}
     IN IF hits = {} THEN Filled
        ELSE LET h == CHOOSE h \in hits : TRUE
                 o == h.offset + (a - h.addr)
             IN IF o < Len(file) THEN file[o + 1] ELSE Filled]

\* Where the address held by reference r, stored at address at, points.
PointsTo(r, at) == IF r.kind = "branch" THEN at + r.val ELSE r.val

(***************************************************************************)
(* No byte of live code is lost and their order is kept, whichever path is *)
(* taken: compaction, or filling in place.                                 *)
(***************************************************************************)
LiveCodeKept ==
  pc = "done" =>
    LET code == CodeBytes
    IN Keep(file, code) = Keep(InitialFile, code)

(***************************************************************************)
(* The address arithmetic and the movement of bytes agree: following a     *)
(* patched reference in the loaded image leads to the byte it led to, or,  *)
(* when that was padding, at most to the first code byte behind it.        *)
(* References out of removed code, to removed code or to the padding that  *)
(* ends .text are not looked at: nothing follows them.                     *)
(***************************************************************************)
RefsFollow ==
  pc = "done" =>
    LET code == CodeBytes
        dead == DeadBytes
        mem  == Memory
        place(o)    == CHOOSE a \in DOMAIN mem : mem[a] = o
        survivor(o) == Min({b \in code : b >= o})
    IN \A r \in DOMAIN refs :
         LET old  == InputRefs[r]
             goal == OldOffset(PointsTo(old, old.at))
             src  == OldOffset(old.at)
         IN /\ src \in code /\ goal \notin dead
            /\ goal < te => survivor(goal) < te
            =>
              /\ mem[PointsTo(refs[r], place(src))] \in goal..survivor(goal)
              /\ old.kind = "rela" => mem[refs[r].at] = src

(***************************************************************************)
(* The section headers and e_shoff describe the rewritten file: every code *)
(* byte lies inside the section it was in, and the file still holds the    *)
(* section header table where the ELF header says.                         *)
(***************************************************************************)
HeadersFollow ==
  pc = "done" =>
    LET code == CodeBytes
    IN /\ shoff < Len(file) /\ file[shoff + 1] = FileEnd - 1
       /\ \A n \in DOMAIN shdrs :
            LET h    == shdrs[n]
                g    == InitialShdrs[n]
                mine == {b \in code : g.offset <= b /\ b < g.offset + g.size}
            IN /\ h.offset + h.size <= Len(file)
               /\ mine \subseteq {file[h.offset + i] : i \in 1..h.size}

(***************************************************************************)
(* Every unwind row of a function that stays starts at the instruction it  *)
(* started at, and the record covers every code byte of the function.      *)
(***************************************************************************)
UnwindFollows ==
  pc = "done" =>
    LET code == CodeBytes
        mem  == Memory
        row(f, a) == Cardinality({k \in DOMAIN f.rows : f.rows[k] <= a})
    IN \A i \in DOMAIN fdes :
         LET old == input.fdes[i]
             new == fdes[i]
         IN \A b \in code \cap (old.begin..(FdeEnd(old) - 1)) :
              \E a \in new.begin..(FdeEnd(new) - 1) :
                mem[a] = b /\ row(new, a) = row(old, b)

(***************************************************************************)
(* A plan that is patched in is carried out: no unwind record is left that *)
(* cannot follow it, and the bytes it removes from .text are as many as    *)
(* the addresses were shifted by, so compact_text has no reason to give up *)
(* between the patches and the move.                                       *)
(***************************************************************************)
NeverHalfApplied ==
  /\ pc = "patch" => stuck_ranges(fdes, cx) = <<>>
  /\ pc \in {"patch", "compact"} =>
       Len(build_live_text) + total_dead(ivs) = te - ts

\* Instructions stay aligned: every removed interval is whole units long.
AlignmentKept ==
  \A i \in DOMAIN ivs : (ivs[i][2] - ivs[i][1]) % input.align = 0

(***************************************************************************)
(* Call-site tables hold offsets from the start of their function, and are *)
(* not rewritten: a function with landing pads keeps its inner distances.  *)
(***************************************************************************)
LsdaOffsetsKept ==
  pc = "done" =>
    LET code == CodeBytes
        mem  == Memory
    IN \A i \in DOMAIN fdes :
         LET old == input.fdes[i]
         IN old.lsda =>
              \A b \in code \cap (old.begin..(FdeEnd(old) - 1)) :
                mem[fdes[i].begin + (b - old.begin)] = b

=============================================================================
