------------------------------- MODULE Unwind -------------------------------
(***************************************************************************)
(* The unwind records of format/elf/ehframe.rs and how they follow a       *)
(* compaction.  An FDE is [begin, range, rows, caf, opaque, lsda]: rows is *)
(* the sequence of addresses at which the advance instructions of its CFA  *)
(* program arrive, caf the code alignment factor, opaque says that the     *)
(* program holds an opcode that cannot be re-spaced, lsda that the         *)
(* function has a landing-pad table.  A context is [ivs, ts, te].          *)
(***************************************************************************)
EXTENDS Intervals

FdeEnd(f) == f.begin + f.range

map(cx, a) == a - total_shift(a, cx.ivs, cx.ts, cx.te)

\* A boundary at the very end of .text keeps the shift inside .text.
map_end(cx, a) ==
  IF cx.ts < a /\ a <= cx.te THEN a - shift_at(a, cx.ivs) ELSE map(cx, a)

\* Mutant: a removed start counts as a removed function.
fde_dead_Start(f, cx) == in_dead_range(f.begin, cx.ivs)

\* The whole function lies in one removed interval.
fde_dead(f, cx) ==
  \E i \in DOMAIN cx.ivs :
    /\ cx.ivs[i][1] <= f.begin /\ f.begin < cx.ivs[i][2]
    /\ FdeEnd(f) <= cx.ivs[i][2]

\* The CFA program can be re-spaced: every gap between rows stays a whole
\* number of code alignment units and does not grow.
plan_cfa(f, cx) ==
  LET locs == <<f.begin>> \o f.rows
      moved(i) == map_end(cx, locs[i]) - map_end(cx, locs[i - 1])
  IN /\ ~f.opaque /\ f.caf # 0
     /\ \A i \in 2..Len(locs) :
          moved(i) \in 0..(locs[i] - locs[i - 1]) /\ moved(i) % f.caf = 0

\* A length never grows; a negative one wraps to a huge number, so the old
\* length stays.
NewRange(f, cx) ==
  LET length == map_end(cx, FdeEnd(f)) - map(cx, f.begin)
  IN IF length \in 0..f.range THEN length ELSE f.range

plan_shrink(f, cx) == NewRange(f, cx) = f.range \/ plan_cfa(f, cx)

\* The live functions, in record order, that cannot follow the plan.
stuck_ranges(fdes, cx) ==
  Keep(fdes, {f \in Range(fdes) : ~fde_dead(f, cx) /\ ~plan_shrink(f, cx)})

\* One round of unwind_safe_intervals: the stuck functions become whole.
CutStuck(fdes, cx, align) ==
  LET stuck == stuck_ranges(fdes, cx)
      cut[i \in 0..Len(stuck)] ==
        IF i = 0 THEN cx.ivs
        ELSE cut_range(cut[i - 1], <<stuck[i].begin, FdeEnd(stuck[i])>>, align)
  IN cut[Len(stuck)]

\* Mutant: landing pads are not told from other dead blocks.
retain_unwindable_blocks_All(blocks, fdes) == blocks

\* Blocks in functions with landing pads are kept: only the unwinder enters
\* the pads, so the flow graph takes them for unreachable.
retain_unwindable_blocks(blocks, fdes) ==
  {b \in blocks : \A f \in Range(fdes) :
     f.lsda => b[2] <= f.begin \/ FdeEnd(f) <= b[1]}

\* CFA rows are stored as distances, so they move with the start of their
\* function; a shrunk function has its distances re-spaced.
MovedRow(f, cx, a) ==
  IF NewRange(f, cx) = f.range
  THEN map(cx, f.begin) + (a - f.begin)
  ELSE map(cx, f.begin) + (map_end(cx, a) - map_end(cx, f.begin))

\* The record after patching; one that cannot be encoded stays as it was.
patch_fde(f, cx) ==
  CASE f.begin = 0 -> f   \* discarded by the linker
    [] f.begin # 0 /\ fde_dead(f, cx) ->
         [f EXCEPT !.begin = map(cx, @), !.range = 0]
    [] f.begin # 0 /\ ~fde_dead(f, cx) /\ ~plan_shrink(f, cx) -> f
    [] f.begin # 0 /\ ~fde_dead(f, cx) /\ plan_shrink(f, cx) ->
         [f EXCEPT !.begin = map(cx, @),
                   !.range = NewRange(f, cx),
                   !.rows  = [k \in DOMAIN @ |-> MovedRow(f, cx, @[k])]]

=============================================================================
