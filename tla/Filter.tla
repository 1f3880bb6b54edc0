------------------------------- MODULE Filter -------------------------------
(***************************************************************************)
(* The filters of the code (iter().filter, retain): what is left of a      *)
(* sequence, in its order.                                                 *)
(***************************************************************************)
EXTENDS Integers, Sequences

\* The members of a sequence that are in S, in their order.
Keep(seq, S) ==
  LET kept[n \in 0..Len(seq)] ==
        IF n = 0 THEN <<>>
        ELSE IF seq[n] \in S THEN Append(kept[n - 1], seq[n]) ELSE kept[n - 1]
  IN kept[Len(seq)]

=============================================================================
