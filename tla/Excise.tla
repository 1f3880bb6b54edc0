------------------------------- MODULE Excise -------------------------------
(***************************************************************************)
(* Removal of byte ranges from a function body, as the WebAssembly, Java   *)
(* and .NET back ends each do it (excise_ranges, excise_il_ranges,         *)
(* java_shift, il_shift).  A body is a sequence of bytes; offsets count    *)
(* from 0 as in the code, and a range <<s, e>> covers s .. e-1.            *)
(***************************************************************************)
EXTENDS Integers, Sequences, SequencesExt, FiniteSetsExt

Slice(body, from, to) == SubSeq(body, from + 1, to)

Lower(a, b) == IF a <= b THEN a ELSE b

(* The bytes between the ranges, which the caller has sorted. *)
excise_ranges(body, ranges) ==
  LET Cut(acc, r) ==
        [pos |-> Lower(r[2], Len(body)),
         bytes |-> IF r[1] > acc.pos /\ r[1] <= Len(body)
                   THEN acc.bytes \o Slice(body, acc.pos, r[1]) ELSE acc.bytes]
      last == FoldLeft(Cut, [pos |-> 0, bytes |-> << >>], ranges)
  IN  last.bytes \o Slice(body, last.pos, Len(body))

(* How many removed bytes lie before offset. *)
shift(offset, ranges) ==
  FoldLeft(LAMBDA sum, r :
             IF r[1] < offset THEN sum + Lower(r[2], offset) - r[1] ELSE sum,
           0, ranges)
=============================================================================
