----------------------------- MODULE Intervals -----------------------------
(***************************************************************************)
(* The interval arithmetic of patch/relocs.rs: which bytes of .text are    *)
(* removed and how far everything else moves.  An interval is a pair       *)
(* <<start, end>>, end exclusive; a plan is a sequence of intervals.       *)
(***************************************************************************)
EXTENDS Filter, FiniteSetsExt, SequencesExt

CONSTANT PAGE_SIZE   \* 4096 in the code

ASSUME PageAssumption == PAGE_SIZE \in Nat \ {0}

\* The order of pairs that sort() uses.
PairLess(a, b) == a[1] < b[1] \/ (a[1] = b[1] /\ a[2] < b[2])

\* [addr, addr + size), given as the pair r, lies within [lo, hi).
lies_within(r, lo, hi) == lo <= r[1] /\ r[2] <= hi

\* Each interval comes after those that are less.
sort(S) ==
  [i \in 1..Cardinality(S) |->
     CHOOSE x \in S : Cardinality({y \in S : PairLess(y, x)}) = i - 1]

\* Sort, then extend the last interval while the next one touches it.
merge_intervals(S) ==
  LET sorted == sort(S)
      merged[i \in 0..Len(sorted)] ==
        IF i = 0 THEN <<>>
        ELSE LET m  == merged[i - 1]
                 n  == Len(m)
                 iv == sorted[i]
             IN IF m # <<>> /\ iv[1] <= m[n][2]
                THEN [m EXCEPT ![n] = <<@[1], IF iv[2] > @[2] THEN iv[2] ELSE @[2]>>]
                ELSE Append(m, iv)
  IN merged[Len(sorted)]

\* The sum of a sequence of numbers.
SumOf(sizes) ==
  LET sum[i \in 0..Len(sizes)] == IF i = 0 THEN 0 ELSE sum[i - 1] + sizes[i]
  IN sum[Len(sizes)]

\* The bytes of an interval, and those before address a.
Bytes(iv) == iv[2] - iv[1]
BytesBefore(iv, a) == IF iv[1] < a THEN (IF iv[2] < a THEN iv[2] ELSE a) - iv[1] ELSE 0

\* Removed bytes before address a.
shift_at(a, ivs) == SumOf([i \in 1..Len(ivs) |-> BytesBefore(ivs[i], a)])

in_dead_range(a, ivs) ==
  \E i \in DOMAIN ivs : ivs[i][1] <= a /\ a < ivs[i][2]

total_dead(ivs) == SumOf([i \in 1..Len(ivs) |-> Bytes(ivs[i])])

\* Whole pages of removed bytes: what leaves the file.
page_shrink(ivs) == (total_dead(ivs) \div PAGE_SIZE) * PAGE_SIZE

\* Mutant: what follows .text moves by every removed byte, not whole pages.
total_shift_Unrounded(a, ivs, ts, te) ==
  CASE a < ts -> 0
    [] ts <= a /\ a < te -> shift_at(a, ivs)
    [] te <= a -> total_dead(ivs)

\* How far address a moves: by what is removed before it inside .text, by the
\* drained pages behind it.
total_shift(a, ivs, ts, te) ==
  CASE a < ts -> 0
    [] ts <= a /\ a < te -> shift_at(a, ivs)
    [] te <= a -> page_shrink(ivs)

\* Mutant: the start of .text does not stop the backward search.
expand_one_Below(iv, pad, ts, te, align) ==
  LET lows  == {l \in 0..iv[1] : l..(iv[1] - 1) \subseteq pad}
      highs == {h \in iv[2]..te : /\ (h - iv[2]) % align = 0
                                  /\ iv[2]..(h - 1) \subseteq pad}
  IN <<IF align = 1 THEN Min(lows) ELSE iv[1], Max(highs)>>

\* Mutant: the forward search goes byte by byte on every architecture.
expand_one_Bytewise(iv, pad, ts, te, align) ==
  LET lows  == {l \in ts..iv[1] : l..(iv[1] - 1) \subseteq pad}
      highs == {h \in iv[2]..te : iv[2]..(h - 1) \subseteq pad}
  IN <<IF align = 1 THEN Min(lows) ELSE iv[1], Max(highs)>>

(***************************************************************************)
(* Absorb the padding next to an interval: backwards byte by byte, but     *)
(* only where instructions have no alignment; forwards in whole            *)
(* instruction units.  pad is the set of addresses whose byte is_padding   *)
(* accepts.                                                                *)
(***************************************************************************)
expand_one(iv, pad, ts, te, align) ==
  LET lows  == {l \in ts..iv[1] : l..(iv[1] - 1) \subseteq pad}
      highs == {h \in iv[2]..te : /\ (h - iv[2]) % align = 0
                                  /\ iv[2]..(h - 1) \subseteq pad}
  IN <<IF align = 1 THEN Min(lows) ELSE iv[1], Max(highs)>>

defrag_intervals(ivs, pad, ts, te, align) ==
  merge_intervals({expand_one(ivs[i], pad, ts, te, align) : i \in DOMAIN ivs})

\* Mutant: only intervals inside the range are cut, not those astride it.
cut_range_Inside(ivs, r, align) ==
  Keep(ivs, {iv \in Range(ivs) : ~lies_within(iv, r[1], r[2])})

\* What [lo, hi), the pair r, leaves of an interval: whole units.
Pieces(iv, r, align) ==
  LET lo == r[1]
      hi == r[2]
      left  == <<iv[1], iv[1] + ((lo - iv[1]) \div align) * align>>
      right == <<iv[2] - ((iv[2] - hi) \div align) * align, iv[2]>>
  IN IF iv[2] <= lo \/ iv[1] >= hi THEN <<iv>>
     ELSE (IF iv[1] < lo THEN <<left>> ELSE <<>>) \o (IF hi < iv[2] THEN <<right>> ELSE <<>>)

\* Remove [lo, hi) from the plan; empty intervals are dropped.
cut_range(ivs, r, align) ==
  LET cut[i \in 0..Len(ivs)] ==
        IF i = 0 THEN <<>> ELSE cut[i - 1] \o Pieces(ivs[i], r, align)
      all == cut[Len(ivs)]
  IN Keep(all, {iv \in Range(all) : iv[1] < iv[2]})

\* .text bounds and intervals are consistent: sorted, disjoint and inside.
compaction_fits(ivs, ts, te, text_in_file) ==
  /\ text_in_file
  /\ \A i \in DOMAIN ivs :
       /\ ivs[i][1] <= ivs[i][2] /\ ivs[i][2] <= te
       /\ ivs[i][1] >= (IF i = 1 THEN ts ELSE ivs[i - 1][2])

=============================================================================
