---------------------------- MODULE MCCompaction ----------------------------
(***************************************************************************)
(* Small images for Compaction: .init is 0..1, .text 2..9 with functions   *)
(* A, B and C, the data 10..12; a page is two bytes.                       *)
(***************************************************************************)
EXTENDS Compaction

A == <<2, 4>>
B == <<4, 8>>
C == <<8, 10>>

\* Dead: functions of .text, one of .init, one astride the start of .text.
DeadSets == SUBSET {A, C} \cup {{B}, {A, B}, {A, B, C}, {<<0, 1>>, C}, {<<1, 3>>, C}}

\* Dead blocks of B: its first, middle or last part, or two of them.
BlockSets(align) ==
  {{}, {<<6, 8>>}, {<<4, 6>>}} \cup
  (IF align = 1 THEN {{<<5, 7>>}, {<<4, 5>>, <<6, 7>>}} ELSE {})

\* Padding at the seams: before .text, around the start of B and of C, at
\* the end of .text.
PadSets == {{}, {1}, {3, 4}, {7, 8}, {9}}

Fde(f, rows, caf, opaque, lsda) ==
  [begin |-> f[1], range |-> f[2] - f[1], rows |-> rows, caf |-> caf,
   opaque |-> opaque, lsda |-> lsda]

FdeChoices(lsda) ==
  {<<Fde(B, rows, caf, opaque, lsda), Fde(C, <<9>>, caf, FALSE, FALSE)>> :
     rows \in {<<>>, <<5, 7>>, <<6>>}, caf \in {1, 2}, opaque \in BOOLEAN}

\* References do not affect each other, so every image holds them all.
AllRefs(rel, targets) ==
  LET kinds == {"got", "rela", "entry", "sym"}
      ptrs  == {[kind |-> k, type |-> rel, at |-> DataStart, val |-> t] :
                  k \in kinds, t \in {0, 2, 4, 5, 8, 9, DataStart + 1}}
      data  == {[kind |-> "data", at |-> DataStart, val |-> t] : t \in targets}
      jumps == {[kind |-> "branch", at |-> a, val |-> t - a] :
                  a \in {0, 4, 5, 9}, t \in {1, 2, 4, 6, 9, DataStart}}
  IN [r \in ptrs \cup data \cup jumps |-> r]

PieRefs == AllRefs(8, {0, 2, 4, 9})

TextSegment == {[addr |-> 0, offset |-> 0, size |-> te],
                [addr |-> DataStart, offset |-> te, size |-> FileEnd - te]}

SplitSegments == {[addr |-> 0, offset |-> 0, size |-> ts],
                  [addr |-> ts, offset |-> ts, size |-> te - ts],
                  [addr |-> DataStart, offset |-> te, size |-> FileEnd - te]}

Image(dead, blocks, pad, align, fdes0, phdrs0, is64, mode) ==
  [dead |-> dead, blocks |-> blocks, pad |-> pad, lookalike |-> {}, align |-> align,
   fdes |-> fdes0, phdrs |-> phdrs0, is64 |-> is64,
   aot |-> mode = "aot", decodes |-> mode # "opaque"]

\* Blocks of B are only dead while B is live; the code alignment factor is
\* the instruction alignment.
ImagesWith(deads, pads, lsdas, modes) ==
  UNION {UNION {
    {Image(dead, blocks, pad, align, f, ph, TRUE, mode) :
       dead \in {d \in deads : blocks = {} \/ B \notin d},
       pad \in pads,
       f \in {g \in UNION {FdeChoices(l) : l \in lsdas} : g[1].caf = align},
       ph \in {TextSegment, SplitSegments}, mode \in modes} :
    blocks \in BlockSets(align)} : align \in {1, 2}}

ElfInputs ==
  ImagesWith(DeadSets, PadSets, {FALSE}, {"compact"})
    \cup ImagesWith(DeadSets, {{}, {7, 8}}, {TRUE}, {"compact", "aot", "opaque"})
=============================================================================
