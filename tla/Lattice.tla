------------------------------ MODULE Lattice ------------------------------
(***************************************************************************)
(* The constant lattice of analysis/lattice.rs: Bot (unreachable) below    *)
(* every constant, Top (unknown) above.  Machine words have W bits (64 in  *)
(* the code); arithmetic wraps.                                            *)
(***************************************************************************)
EXTENDS Integers

CONSTANTS W, Bot, Top

ASSUME WordAssumption ==
  /\ W \in Nat \ {0}
  /\ Bot # Top /\ Bot \notin Int /\ Top \notin Int

\* Powers of two, as far as a word needs them.
Pow2[n \in 0..W] == IF n = 0 THEN 1 ELSE 2 * Pow2[n - 1]

Word  == 0..(Pow2[W] - 1)
Value == Word \cup {Bot, Top}

Bit(x, i) == (x \div Pow2[i]) % 2

\* Summed up from the lowest bit.
BitAnd(x, y) ==
  LET sum[n \in 0..W] ==
        IF n = 0 THEN 0
        ELSE sum[n - 1] + (IF Bit(x, n - 1) = 1 /\ Bit(y, n - 1) = 1 THEN Pow2[n - 1] ELSE 0)
  IN sum[W]

\* Mutant: two different constants keep the newer one.
meet_Newest(v, w) == IF w = Bot THEN v ELSE w

meet(v, w) ==
  CASE v = Bot -> w
    [] w = Bot -> v
    [] v # Bot /\ w # Bot -> IF v = w THEN v ELSE Top

\* v is at most w in the lattice.
Leq(v, w) == v = Bot \/ w = Top \/ v = w

\* Mutant: addition that does not wrap.
compute_binop_NoWrap(op, x, y) ==
  CASE op = "add" -> x + y
    [] op = "sub" -> (x - y) % Pow2[W]
    [] op = "and" -> BitAnd(x, y)

compute_binop(op, x, y) ==
  CASE op = "add" -> (x + y) % Pow2[W]
    [] op = "sub" -> (x - y) % Pow2[W]
    [] op = "and" -> BitAnd(x, y)

eval_binop(op, v, w) ==
  CASE Bot \in {v, w} -> Bot
    [] Top \in {v, w} /\ Bot \notin {v, w} -> Top
    [] {v, w} \cap {Bot, Top} = {} -> compute_binop(op, v, w)

=============================================================================
